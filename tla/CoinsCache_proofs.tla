-------------------------- MODULE CoinsCache_proofs --------------------------
(***************************************************************************)
(* The coin caches for every number of transactions, values, blocks and     *)
(* stacked caches: the flags are right, the assertion of BatchWrite holds,  *)
(* and while writes succeed the stack implements a stack of whole maps and  *)
(* the database describes the block it names.                               *)
(***************************************************************************)
EXTENDS CoinsCache, TLAPS

(* A bounded set of numbers that holds 0 has a greatest element, which is   *)
(* what Topmost chooses (AllTopped, at the end of the module).              *)
Topped ==
  \A n \in Nat : \A S \in SUBSET (0 .. n) :
    0 \in S => Topmost(S) \in S /\ \A j \in S : j <= Topmost(S)

(* The source of a read is the topmost cache that has an entry.             *)
LEMMA SourceIs ==
  ASSUME Topped, NEW c \in [Levels -> [Txids -> Entry \cup {NoEntry}]], NEW t \in Txids,
         NEW l \in 0 .. MaxDepth
  PROVE  /\ Source(c, l, t) \in 0 .. l
         /\ Source(c, l, t) # 0 => c[Source(c, l, t)][t] # NoEntry
         /\ \A k \in 1 .. l : c[k][t] # NoEntry => k <= Source(c, l, t)
<1> DEFINE S == {k \in 1 .. l : c[k][t] # NoEntry} \cup {0}
<1>1. l \in Nat  BY DepthAssumption
<1>2. S \in SUBSET (0 .. l) /\ 0 \in S  BY <1>1
<1>3. Topmost(S) \in S /\ \A j \in S : j <= Topmost(S)
  <2> HIDE DEF S
  <2> QED  BY <1>1, <1>2, Zenon DEF Topped
<1> QED  BY <1>1, <1>3 DEF Source

(* That determines the source.                                              *)
LEMMA SourceUnique ==
  ASSUME Topped, NEW c \in [Levels -> [Txids -> Entry \cup {NoEntry}]], NEW t \in Txids,
         NEW l \in 0 .. MaxDepth, NEW s \in 0 .. l,
         s # 0 => c[s][t] # NoEntry,
         \A k \in 1 .. l : c[k][t] # NoEntry => k <= s
  PROVE  Source(c, l, t) = s
<1> DEFINE x == Source(c, l, t)
<1>1. l \in Nat  BY DepthAssumption
<1>2. /\ x \in 0 .. l /\ (x # 0 => c[x][t] # NoEntry)
      /\ \A k \in 1 .. l : c[k][t] # NoEntry => k <= x
  BY SourceIs
<1> HIDE DEF x
<1>3. x # 0 => x <= s  BY <1>1, <1>2
<1>4. s # 0 => s <= x  BY <1>1, <1>2
<1>5. x = s  BY <1>1, <1>2, <1>3, <1>4
<1> QED  BY <1>5 DEF x

(* Reading at level l: the cache at l answers, or the level below does.     *)
LEMMA ReadStep ==
  ASSUME Topped, NEW c \in [Levels -> [Txids -> Entry \cup {NoEntry}]], NEW d, NEW t \in Txids,
         NEW l \in Levels
  PROVE  ReadOf(c, d, l, t) = IF c[l][t] # NoEntry THEN c[l][t].coins ELSE ReadOf(c, d, l - 1, t)
<1>1. l \in Nat /\ l >= 1 /\ l - 1 \in 0 .. MaxDepth /\ l \in 0 .. MaxDepth
  BY DepthAssumption DEF Levels
<1>2. CASE c[l][t] # NoEntry
  <2>1. Source(c, l, t) = l  BY <1>1, <1>2, SourceUnique
  <2> QED  BY <1>1, <1>2, <2>1 DEF ReadOf
<1>3. CASE c[l][t] = NoEntry
  <2>1. /\ Source(c, l - 1, t) \in 0 .. l - 1
        /\ Source(c, l - 1, t) # 0 => c[Source(c, l - 1, t)][t] # NoEntry
        /\ \A k \in 1 .. l - 1 : c[k][t] # NoEntry => k <= Source(c, l - 1, t)
    BY <1>1, SourceIs
  <2>2. /\ Source(c, l - 1, t) \in 0 .. l
        /\ \A k \in 1 .. l : c[k][t] # NoEntry => k <= Source(c, l - 1, t)
    BY <1>1, <1>3, <2>1
  <2>3. Source(c, l, t) = Source(c, l - 1, t)
    BY <1>1, <2>1, <2>2, SourceUnique
  <2> QED  BY <1>3, <2>3 DEF ReadOf
<1> QED  BY <1>2, <1>3

(* Below the caches is the database.                                        *)
LEMMA ReadBottom ==
  ASSUME Topped, NEW c \in [Levels -> [Txids -> Entry \cup {NoEntry}]], NEW d, NEW t \in Txids
  PROVE  ReadOf(c, d, 0, t) = d[t]
<1>1. Source(c, 0, t) = 0  BY DepthAssumption, SourceUnique
<1> QED  BY <1>1 DEF ReadOf

(* Reads depend on the entries up to their level only.                      *)
LEMMA ReadFrame ==
  ASSUME Topped, NEW c \in [Levels -> [Txids -> Entry \cup {NoEntry}]],
         NEW e \in [Levels -> [Txids -> Entry \cup {NoEntry}]],
         NEW d, NEW t \in Txids, NEW l \in 0 .. MaxDepth,
         \A k \in 1 .. l : e[k][t] = c[k][t]
  PROVE  ReadOf(e, d, l, t) = ReadOf(c, d, l, t)
<1> DEFINE x == Source(c, l, t)
<1>1. l \in Nat  BY DepthAssumption
<1>2. /\ x \in 0 .. l /\ (x # 0 => c[x][t] # NoEntry)
      /\ \A k \in 1 .. l : c[k][t] # NoEntry => k <= x
  BY SourceIs
<1> HIDE DEF x
<1>3. Source(e, l, t) = x
  <2>1. x # 0 => e[x][t] # NoEntry  BY <1>1, <1>2
  <2>2. \A k \in 1 .. l : e[k][t] # NoEntry => k <= x  BY <1>2
  <2> QED  BY <1>2, <2>1, <2>2, SourceUnique
<1>4. x # 0 => e[x][t] = c[x][t]  BY <1>1, <1>2
<1> QED  BY <1>3, <1>4 DEF ReadOf, x

(* What is read has the type of coins.                                      *)
LEMMA ReadType ==
  ASSUME Topped, NEW c \in [Levels -> [Txids -> Entry \cup {NoEntry}]], NEW d \in [Txids -> Coins],
         NEW t \in Txids, NEW l \in 0 .. MaxDepth
  PROVE  ReadOf(c, d, l, t) \in Coins
<1> DEFINE x == Source(c, l, t)
<1>1. l \in Nat /\ MaxDepth \in Nat  BY DepthAssumption
<1>2. /\ x \in 0 .. l /\ (x # 0 => c[x][t] # NoEntry)
  BY SourceIs
<1> HIDE DEF x
<1>3. x # 0 => x \in Levels  BY <1>1, <1>2 DEF Levels
<1>4. x # 0 => c[x][t] \in Entry  BY <1>2, <1>3
<1> QED  BY <1>4 DEF ReadOf, Entry, x

(* The source of a read at level l is the source at every level between.    *)
LEMMA SourceBetween ==
  ASSUME Topped, NEW c \in [Levels -> [Txids -> Entry \cup {NoEntry}]], NEW t \in Txids,
         NEW l \in 0 .. MaxDepth, NEW m \in 0 .. l, Source(c, l, t) <= m
  PROVE  Source(c, m, t) = Source(c, l, t)
<1> DEFINE x == Source(c, l, t)
<1>1. l \in Nat /\ m \in Nat /\ m \in 0 .. MaxDepth  BY DepthAssumption
<1>2. /\ x \in 0 .. l /\ (x # 0 => c[x][t] # NoEntry) /\ x <= m
      /\ \A k \in 1 .. l : c[k][t] # NoEntry => k <= x
  BY SourceIs
<1> HIDE DEF x
<1>3. Source(c, m, t) = x
  BY <1>1, <1>2, SourceUnique
<1> QED  BY <1>3 DEF x

(* FetchCoins changes no answer at any level, and leaves no gap: every      *)
(* cache between the source and l has the entry now.                        *)
LEMMA FetchedIs ==
  ASSUME Topped, CachesTyped, NEW l \in Levels, NEW t \in Txids
  PROVE  /\ Fetched(l, t) \in [Levels -> [Txids -> Entry \cup {NoEntry}]]
         /\ \A k \in Levels, u \in Txids : u # t => Fetched(l, t)[k][u] = cache[k][u]
         /\ \A k \in Levels : Fetched(l, t)[k][t] =
              IF k > Source(cache, l, t) /\ k <= l /\ Found(l, t) THEN Copy(l, t) ELSE cache[k][t]
         /\ Copy(l, t) \in Entry
<1>1. l \in 0 .. MaxDepth  BY DepthAssumption DEF Levels
<1>2. Read(l, t) \in Coins  BY <1>1, ReadType DEF CachesTyped, Read
<1>3. Copy(l, t) \in Entry  BY <1>2 DEF Copy, Entry
<1> QED  BY <1>3 DEF Fetched, CachesTyped

(* FetchCoins changes no answer, at no level and for no transaction.        *)
LEMMA FetchedReads ==
  ASSUME Topped, CachesTyped, NEW l \in Levels, NEW t \in Txids, NEW u \in Txids, NEW m \in 0 .. MaxDepth
  PROVE  ReadOf(Fetched(l, t), db, m, u) = Read(m, u)
<1> DEFINE e == Fetched(l, t)
           x == Source(cache, l, t)
<1>1. /\ l \in Nat /\ m \in Nat /\ MaxDepth \in Nat /\ l \in 0 .. MaxDepth /\ l >= 1
      /\ 1 .. m \subseteq Levels
  BY DepthAssumption DEF Levels
<1>2. /\ e \in [Levels -> [Txids -> Entry \cup {NoEntry}]]
      /\ cache \in [Levels -> [Txids -> Entry \cup {NoEntry}]]
      /\ \A k \in Levels : u # t => e[k][u] = cache[k][u]
      /\ \A k \in Levels : e[k][t] = IF k > x /\ k <= l /\ Found(l, t) THEN Copy(l, t) ELSE cache[k][t]
      /\ Copy(l, t) \in Entry /\ Copy(l, t) # NoEntry
  BY FetchedIs, CoinsAssumption DEF CachesTyped, Entry
<1>3. /\ x \in 0 .. l /\ (x # 0 => cache[x][t] # NoEntry)
      /\ \A k \in 1 .. l : cache[k][t] # NoEntry => k <= x
  BY <1>1, <1>2, SourceIs
<1>4. Copy(l, t).coins = Read(l, t)  BY DEF Copy
<1> HIDE DEF e, x
<1>5. ASSUME \A k \in 1 .. m : e[k][u] = cache[k][u]
      PROVE  ReadOf(e, db, m, u) = Read(m, u)
  <2> DEFINE c == cache
  <2>1. /\ e \in [Levels -> [Txids -> Entry \cup {NoEntry}]]
        /\ c \in [Levels -> [Txids -> Entry \cup {NoEntry}]]
    BY <1>2, Zenon
  <2>2. \A k \in 1 .. m : e[k][u] = c[k][u]
    BY <1>5, Zenon
  <2> HIDE DEF c
  <2>3. ReadOf(e, db, m, u) = ReadOf(c, db, m, u)
    BY <2>1, <2>2, ReadFrame
  <2> QED
    BY <2>3, Zenon DEF Read, c
<1>6. CASE u # t \/ ~Found(l, t) \/ m <= x \/ x = l
  <2>1. \A k \in 1 .. m : e[k][u] = cache[k][u]
    BY <1>1, <1>2, <1>3, <1>6
  <2> QED  BY <1>5, <2>1 DEF e
<1>7. CASE u = t /\ Found(l, t) /\ x < m /\ m <= l
  <2>1. m \in Levels /\ e[m][t] = Copy(l, t)
    BY <1>1, <1>2, <1>3, <1>7
  <2>2. ReadOf(e, db, m, t) = Read(l, t)
    <3>1. e \in [Levels -> [Txids -> Entry \cup {NoEntry}]]  BY <1>2
    <3>2. ReadOf(e, db, m, t) = IF e[m][t] # NoEntry THEN e[m][t].coins ELSE ReadOf(e, db, m - 1, t)
      BY <2>1, <3>1, ReadStep
    <3> QED  BY <1>2, <1>4, <2>1, <3>2
  <2>3. Source(cache, m, t) = x
    BY <1>1, <1>2, <1>3, <1>7, SourceBetween DEF x
  <2>4. Read(m, t) = Read(l, t)
    BY <2>3 DEF Read, ReadOf, x
  <2> QED  BY <1>7, <2>2, <2>4 DEF e
<1>8. CASE u = t /\ Found(l, t) /\ l < m /\ x < l
  <2> DEFINE y == Source(cache, m, t)
  <2>1. /\ y \in 0 .. m /\ (y # 0 => cache[y][t] # NoEntry)
        /\ \A k \in 1 .. m : cache[k][t] # NoEntry => k <= y
    BY <1>1, <1>2, SourceIs
  <2> HIDE DEF y
  <2>2. CASE y > l
    <3>1. e[y][t] = cache[y][t] /\ y \in Levels  BY <1>1, <1>2, <2>1, <2>2
    <3>2. \A k \in 1 .. m : e[k][t] # NoEntry => k <= y
      BY <1>1, <1>2, <1>3, <2>1, <2>2
    <3>3. Source(e, m, t) = y
      BY <1>1, <1>2, <2>1, <2>2, <3>1, <3>2, SourceUnique
    <3> QED  BY <1>8, <3>1, <3>3, <2>2, <1>1 DEF Read, ReadOf, e, y
  <2>3. CASE y <= l
    <3>1. x = y
      <4>1. l \in 0 .. m  BY <1>1, <1>8
      <4>2. Source(cache, m, t) <= l  BY <2>3 DEF y
      <4> QED  BY <1>2, <4>1, <4>2, SourceBetween DEF x, y
    <3>2. e[l][t] = Copy(l, t)
      BY <1>1, <1>2, <1>8
    <3>3. \A k \in 1 .. m : e[k][t] # NoEntry => k <= l
      BY <1>1, <1>2, <1>3, <2>1, <2>3
    <3>4. Source(e, m, t) = l
      BY <1>1, <1>2, <1>8, <3>2, <3>3, SourceUnique
    <3>5. ReadOf(e, db, m, t) = Read(l, t)
      BY <1>1, <1>4, <3>2, <3>4 DEF ReadOf
    <3>6. Read(m, t) = Read(l, t)
      BY <3>1 DEF Read, ReadOf, x, y
    <3> QED  BY <1>8, <3>5, <3>6 DEF e
  <2> QED  BY <1>1, <2>1, <2>2, <2>3
<1> QED  BY <1>1, <1>3, <1>6, <1>7, <1>8

-----------------------------------------------------------------------------
(* The inductive invariant of the flags.                                    *)
FInv == CachesTyped /\ FlagsRight /\ PulledIn

(* FetchCoins keeps the flags right, the chain of entries without gaps, and *)
(* every entry that was there.                                              *)
LEMMA FetchedFlags ==
  ASSUME Topped, FInv, NEW l \in Levels, NEW t \in Txids, l <= depth,
         NEW e, e = Fetched(l, t)
  PROVE  /\ e \in [Levels -> [Txids -> Entry \cup {NoEntry}]]
         /\ \A k \in Levels : k > depth => e[k] = Empty
         /\ \A k \in Levels, u \in Txids : e[k][u] # NoEntry =>
              /\ e[k][u].dirty \/ e[k][u].coins = Read(k - 1, u)
              /\ e[k][u].fresh => Read(k - 1, u) = Pruned
         /\ \A k \in Levels \ {1}, u \in Txids :
              e[k][u] # NoEntry /\ e[k - 1][u] = NoEntry => e[k][u].fresh
         /\ \A k \in Levels, u \in Txids : cache[k][u] # NoEntry => e[k][u] = cache[k][u]
         /\ Found(l, t) => e[l][t] # NoEntry
         /\ \A k \in Levels : k > l => e[k] = cache[k]
<1> DEFINE x == Source(cache, l, t)
<1>0. /\ l \in Nat /\ MaxDepth \in Nat /\ l \in 0 .. MaxDepth /\ l >= 1
  BY DepthAssumption DEF Levels
<1>1. CachesTyped  BY DEF FInv
<1>2. /\ e \in [Levels -> [Txids -> Entry \cup {NoEntry}]]
      /\ \A k \in Levels, u \in Txids : u # t => e[k][u] = cache[k][u]
      /\ \A k \in Levels : e[k][t] = IF k > x /\ k <= l /\ Found(l, t) THEN Copy(l, t) ELSE cache[k][t]
      /\ Copy(l, t) \in Entry /\ Copy(l, t) # NoEntry
  BY <1>1, FetchedIs, CoinsAssumption DEF Entry
<1>3. /\ x \in 0 .. l /\ (x # 0 => cache[x][t] # NoEntry)
      /\ \A k \in 1 .. l : cache[k][t] # NoEntry => k <= x
  BY <1>0, <1>1, SourceIs DEF CachesTyped
<1>4. \A k \in Levels : k > l => e[k] = cache[k]
  BY <1>0 DEF Fetched, Levels
<1>5. \A k \in Levels : k > depth => e[k] = Empty
  BY <1>0, <1>1, <1>4 DEF CachesTyped, Levels
<1> HIDE DEF x
<1>6. ASSUME NEW k \in Levels, NEW u \in Txids, e[k][u] # NoEntry
      PROVE  /\ e[k][u].dirty \/ e[k][u].coins = Read(k - 1, u)
             /\ e[k][u].fresh => Read(k - 1, u) = Pruned
  <2>0. k - 1 \in 0 .. MaxDepth /\ k \in Nat  BY <1>0 DEF Levels
  <2>2. CASE u = t /\ k > x /\ k <= l /\ Found(l, t)
    <3>1. e[k][u] = Copy(l, t)  BY <1>2, <2>2
    <3>2. Source(cache, k - 1, t) = x
      <4>1. k - 1 \in 0 .. l /\ x <= k - 1  BY <1>0, <1>3, <2>0, <2>2 DEF Levels
      <4> QED  BY <1>0, <1>1, <4>1, SourceBetween DEF CachesTyped, x
    <3>3. Read(k - 1, u) = Read(l, t)  BY <2>2, <3>2 DEF Read, ReadOf, x
    <3>4. /\ e[k][u].coins = Read(l, t)
          /\ e[k][u].fresh = (Read(l, t) = Pruned)
      BY <3>1 DEF Copy
    <3> QED  BY <3>3, <3>4, Zenon
  <2>3. CASE ~(u = t /\ k > x /\ k <= l /\ Found(l, t))
    <3>1. e[k][u] = cache[k][u]  BY <1>2, <2>3
    <3> QED  BY <1>6, <3>1 DEF FInv, FlagsRight, Has
  <2> QED  BY <2>2, <2>3
<1>7. ASSUME NEW k \in Levels \ {1}, NEW u \in Txids, e[k][u] # NoEntry, e[k - 1][u] = NoEntry
      PROVE  e[k][u].fresh
  <2>1. k \in Nat /\ k - 1 \in Levels  BY <1>0 DEF Levels
  <2>2. CASE u = t /\ k > x /\ k <= l /\ Found(l, t)
    <3>1. CASE k - 1 > x
      BY <1>2, <1>7, <2>1, <2>2, <3>1
    <3>2. CASE k - 1 = x
      <4>1. e[k - 1][t] = cache[x][t] /\ x # 0
        BY <1>0, <1>2, <1>3, <2>1, <3>2 DEF Levels
      <4> QED  BY <1>3, <1>7, <2>2, <4>1
    <3> QED  BY <1>0, <1>3, <2>1, <2>2, <3>1, <3>2
  <2>3. CASE ~(u = t /\ k > x /\ k <= l /\ Found(l, t))
    <3>1. e[k][u] = cache[k][u]  BY <1>2, <2>3
    <3>2. cache[k - 1][u] = NoEntry
      BY <1>2, <1>7, <2>1
    <3> QED  BY <1>7, <3>1, <3>2 DEF FInv, PulledIn, Has
  <2> QED  BY <2>2, <2>3
<1>8. Found(l, t) => e[l][t] # NoEntry
  BY <1>0, <1>2, <1>3 DEF Levels
<1>9. ASSUME NEW k \in Levels, NEW u \in Txids, cache[k][u] # NoEntry  PROVE e[k][u] = cache[k][u]
  BY <1>0, <1>2, <1>3, <1>9 DEF Levels
<1> QED  BY <1>2, <1>4, <1>5, <1>6, <1>7, <1>8, <1>9

(* A read at any level of the stack.                                        *)
LEMMA AccessCoinsOK ==
  ASSUME Topped, FInv, NEW l \in Levels, NEW t \in Txids, AccessCoins(l, t)
  PROVE  FInv' /\ \A m \in 0 .. MaxDepth, u \in Txids : Read(m, u)' = Read(m, u)
<1>1. /\ cache' \in [Levels -> [Txids -> Entry \cup {NoEntry}]]
      /\ \A k \in Levels : k > depth => cache'[k] = Empty
      /\ \A k \in Levels, u \in Txids : cache'[k][u] # NoEntry =>
           /\ cache'[k][u].dirty \/ cache'[k][u].coins = Read(k - 1, u)
           /\ cache'[k][u].fresh => Read(k - 1, u) = Pruned
      /\ \A k \in Levels \ {1}, u \in Txids :
           cache'[k][u] # NoEntry /\ cache'[k - 1][u] = NoEntry => cache'[k][u].fresh
      /\ \A k \in Levels, u \in Txids : cache[k][u] # NoEntry => cache'[k][u] = cache[k][u]
  <2>1. l <= depth /\ cache' = Fetched(l, t)  BY DEF AccessCoins
  <2> QED  BY <2>1, FetchedFlags
<1>2. ASSUME NEW m \in 0 .. MaxDepth, NEW u \in Txids  PROVE Read(m, u)' = Read(m, u)
  <2>1. ReadOf(Fetched(l, t), db, m, u) = Read(m, u)
    BY FetchedReads DEF FInv
  <2> QED  BY <2>1 DEF AccessCoins, Read
<1>3. CachesTyped'
  BY <1>1 DEF FInv, CachesTyped, AccessCoins
<1>4. FlagsRight'
  <2>1. \A k \in Levels, u \in Txids : Has(k, u)' =>
          /\ cache'[k][u].dirty \/ cache'[k][u].coins = Read(k - 1, u)'
          /\ cache'[k][u].fresh => Read(k - 1, u)' = Pruned
    <3> SUFFICES ASSUME NEW k \in Levels, NEW u \in Txids, cache'[k][u] # NoEntry
                 PROVE  /\ cache'[k][u].dirty \/ cache'[k][u].coins = Read(k - 1, u)'
                        /\ cache'[k][u].fresh => Read(k - 1, u)' = Pruned
      BY DEF Has
    <3>1. k - 1 \in 0 .. MaxDepth  BY DepthAssumption DEF Levels
    <3>2. Read(k - 1, u)' = Read(k - 1, u)  BY <1>2, <3>1
    <3> QED  BY <1>1, <3>2
  <2>2. modifier' # NoTx => depth' > 1 /\ Has(depth, modifier)' /\ cache'[depth'][modifier'].dirty
    BY <1>1 DEF FInv, CachesTyped, FlagsRight, Has, AccessCoins
  <2> QED  BY <2>1, <2>2 DEF FlagsRight
<1>5. PulledIn'
  BY <1>1 DEF PulledIn, Has
<1> QED  BY <1>2, <1>3, <1>4, <1>5 DEF FInv

(* Entries that answer as the caches do, with flags that are right for them. *)
Alike(e) ==
  /\ e \in [Levels -> [Txids -> Entry \cup {NoEntry}]]
  /\ \A k \in Levels : k > depth => e[k] = Empty
  /\ \A k \in Levels, u \in Txids : e[k][u] # NoEntry =>
       /\ e[k][u].dirty \/ e[k][u].coins = Read(k - 1, u)
       /\ e[k][u].fresh => Read(k - 1, u) = Pruned
  /\ \A k \in Levels \ {1}, u \in Txids : e[k][u] # NoEntry /\ e[k - 1][u] = NoEntry => e[k][u].fresh
  /\ \A m \in 0 .. MaxDepth, u \in Txids : ReadOf(e, db, m, u) = Read(m, u)

(* The caches themselves, and the caches after a fetch, are such entries.   *)
LEMMA CacheAlike == ASSUME FInv PROVE Alike(cache)
BY DEF FInv, CachesTyped, FlagsRight, PulledIn, Has, Alike, Read

\* FetchCoins finds (or copies in) an entry that agrees with what the views below show.
LEMMA FetchedAlike ==
  ASSUME Topped, FInv, NEW l \in Levels, NEW t \in Txids, l <= depth  PROVE Alike(Fetched(l, t))
<1> DEFINE e == Fetched(l, t)
<1>1. \A m \in 0 .. MaxDepth, u \in Txids : ReadOf(e, db, m, u) = Read(m, u)
  BY FetchedReads DEF FInv
<1>2. /\ e \in [Levels -> [Txids -> Entry \cup {NoEntry}]]
      /\ \A k \in Levels : k > depth => e[k] = Empty
      /\ \A k \in Levels, u \in Txids : e[k][u] # NoEntry =>
           /\ e[k][u].dirty \/ e[k][u].coins = Read(k - 1, u)
           /\ e[k][u].fresh => Read(k - 1, u) = Pruned
      /\ \A k \in Levels \ {1}, u \in Txids : e[k][u] # NoEntry /\ e[k - 1][u] = NoEntry => e[k][u].fresh
  <2>1. e = Fetched(l, t)  OBVIOUS
  <2> HIDE DEF e
  <2> QED  BY <2>1, FetchedFlags
<1> HIDE DEF e
<1>3. Alike(e)  BY <1>1, <1>2 DEF Alike
<1> QED  BY <1>3 DEF e

(* Giving the top cache the entry n for t keeps every flag right, when n's  *)
(* own flags are; no answer changes but the top cache's for t.              *)
LEMMA TopEntry ==
  ASSUME Topped, FInv, NEW e, Alike(e), NEW t \in Txids, NEW n \in Entry \cup {NoEntry}, depth > 1,
         n # NoEntry => /\ n.dirty \/ n.coins = Read(depth - 1, t)
                        /\ n.fresh => Read(depth - 1, t) = Pruned
                        /\ e[depth - 1][t] = NoEntry => n.fresh,
         cache' = [e EXCEPT ![depth][t] = n], UNCHANGED <<db, dbBest, depth, hashBlock>>,
         modifier' \in Txids \cup {NoTx},
         modifier' # NoTx => modifier' = t /\ n # NoEntry /\ n.dirty
  PROVE  /\ FInv'
         /\ \A m \in 0 .. depth - 1, u \in Txids : Read(m, u)' = Read(m, u)
         /\ \A u \in Txids \ {t} : Read(depth, u)' = Read(depth, u)
         /\ Read(depth, t)' = IF n = NoEntry THEN Read(depth - 1, t) ELSE n.coins
<1>0. /\ depth \in Levels /\ depth \in Nat /\ MaxDepth \in Nat /\ depth - 1 \in Levels
      /\ depth - 1 \in 0 .. MaxDepth
  BY DepthAssumption DEF FInv, CachesTyped, Levels
<1>1. e \in [Levels -> [Txids -> Entry \cup {NoEntry}]]  BY DEF Alike
<1>2. /\ cache' \in [Levels -> [Txids -> Entry \cup {NoEntry}]]
      /\ \A k \in Levels, u \in Txids : k # depth \/ u # t => cache'[k][u] = e[k][u]
      /\ \A k \in Levels : k # depth => cache'[k] = e[k]
      /\ cache'[depth][t] = n
  BY <1>0, <1>1
<1>3. ASSUME NEW m \in 0 .. depth - 1, NEW u \in Txids  PROVE Read(m, u)' = Read(m, u)
  <2>0. m \in 0 .. MaxDepth  BY <1>0 DEF Levels
  <2>1. \A k \in 1 .. m : cache'[k][u] = e[k][u]
    BY <1>0, <1>2 DEF Levels
  <2>2. ReadOf(cache', db, m, u) = ReadOf(e, db, m, u)
    <3> DEFINE c == cache'
    <3>1. /\ c \in [Levels -> [Txids -> Entry \cup {NoEntry}]]
          /\ \A k \in 1 .. m : c[k][u] = e[k][u]
      BY <1>2, <2>1
    <3> HIDE DEF c
    <3>2. ReadOf(c, db, m, u) = ReadOf(e, db, m, u)
      BY <1>1, <2>0, <3>1, ReadFrame
    <3> QED  BY <3>2 DEF c
  <2>3. ReadOf(e, db, m, u) = Read(m, u)  BY <2>0 DEF Alike
  <2> QED  BY <2>2, <2>3 DEF Read
<1>4. ASSUME NEW u \in Txids
      PROVE  ReadOf(cache', db, depth, u) = IF cache'[depth][u] # NoEntry THEN cache'[depth][u].coins
                                            ELSE Read(depth - 1, u)
  <2>1. ReadOf(cache', db, depth, u) = IF cache'[depth][u] # NoEntry THEN cache'[depth][u].coins
                                       ELSE ReadOf(cache', db, depth - 1, u)
    <3> DEFINE c == cache'
    <3>1. c \in [Levels -> [Txids -> Entry \cup {NoEntry}]]  BY <1>2
    <3> HIDE DEF c
    <3>2. ReadOf(c, db, depth, u) = IF c[depth][u] # NoEntry THEN c[depth][u].coins
                                    ELSE ReadOf(c, db, depth - 1, u)
      BY <1>0, <3>1, ReadStep, Zenon
    <3> QED  BY <3>2 DEF c
  <2>2. ReadOf(cache', db, depth - 1, u) = Read(depth - 1, u)
    <3>1. depth - 1 \in 0 .. depth - 1  BY <1>0
    <3> QED  BY <1>3, <3>1, Zenon DEF Read
  <2> QED  BY <2>1, <2>2
<1>5. ASSUME NEW u \in Txids \ {t}  PROVE Read(depth, u)' = Read(depth, u)
  <2>1. cache'[depth][u] = e[depth][u]  BY <1>0, <1>2
  <2>2. ReadOf(e, db, depth, u) = IF e[depth][u] # NoEntry THEN e[depth][u].coins
                                  ELSE ReadOf(e, db, depth - 1, u)
    BY <1>0, <1>1, ReadStep, Zenon
  <2>3. ReadOf(e, db, depth - 1, u) = Read(depth - 1, u) /\ ReadOf(e, db, depth, u) = Read(depth, u)
    <3>1. depth \in 0 .. MaxDepth  BY <1>0 DEF Levels
    <3>2. \A m \in 0 .. MaxDepth, w \in Txids : ReadOf(e, db, m, w) = Read(m, w)  BY Zenon DEF Alike
    <3> QED  BY <1>0, <3>1, <3>2, Zenon
  <2>4. ReadOf(cache', db, depth, u) = Read(depth, u)
    BY <1>4, <2>1, <2>2, <2>3, Zenon
  <2> QED  BY <2>4 DEF Read
<1>6. Read(depth, t)' = IF n = NoEntry THEN Read(depth - 1, t) ELSE n.coins
  <2>1. ReadOf(cache', db, depth, t) = IF n = NoEntry THEN Read(depth - 1, t) ELSE n.coins
    BY <1>2, <1>4, ZenonT(60)
  <2> QED  BY <2>1 DEF Read
<1>7. CachesTyped'
  <2>1. \A k \in Levels : k > depth' => cache'[k] = Empty /\ hashBlock'[k] = NoBlock
    BY <1>0, <1>2 DEF Alike, FInv, CachesTyped
  <2> QED  BY <1>2, <2>1 DEF FInv, CachesTyped
<1>8. FlagsRight'
  <2>1. ASSUME NEW k \in Levels, NEW u \in Txids, cache'[k][u] # NoEntry
        PROVE  /\ cache'[k][u].dirty \/ cache'[k][u].coins = Read(k - 1, u)'
               /\ cache'[k][u].fresh => Read(k - 1, u)' = Pruned
    <3>0. k <= depth
      BY <1>0, <1>2, <2>1 DEF Alike, Empty, Levels
    <3>1. k - 1 \in 0 .. depth - 1  BY <1>0, <3>0 DEF Levels
    <3>2. Read(k - 1, u)' = Read(k - 1, u)  BY <1>3, <3>1
    <3>3. CASE k = depth /\ u = t
      <4>1. cache'[k][u] = n /\ Read(k - 1, u) = Read(depth - 1, t)  BY <1>2, <3>3
      <4> QED  BY <2>1, <3>2, <4>1
    <3>4. CASE ~(k = depth /\ u = t)
      <4>1. cache'[k][u] = e[k][u]  BY <1>2, <3>4
      <4> QED  BY <2>1, <3>2, <4>1 DEF Alike
    <3> QED  BY <3>3, <3>4
  <2>2. modifier' # NoTx => depth' > 1 /\ Has(depth, modifier)' /\ cache'[depth'][modifier'].dirty
    BY <1>0, <1>2 DEF Has
  <2> QED  BY <2>1, <2>2 DEF FlagsRight, Has
<1>9. PulledIn'
  <2> SUFFICES ASSUME NEW k \in Levels \ {1}, NEW u \in Txids, cache'[k][u] # NoEntry, cache'[k - 1][u] = NoEntry
               PROVE  cache'[k][u].fresh
    BY DEF PulledIn, Has
  <2>0. k \in Nat /\ k - 1 \in Levels /\ k <= depth
    BY <1>0, <1>2 DEF Alike, Empty, Levels
  <2>1. cache'[k - 1][u] = e[k - 1][u]  BY <1>0, <1>2, <2>0
  <2>2. CASE k = depth /\ u = t
    <3>1. n # NoEntry /\ e[depth - 1][t] = NoEntry /\ cache'[k][u] = n  BY <1>2, <2>1, <2>2
    <3> QED  BY <3>1
  <2>3. CASE ~(k = depth /\ u = t)
    <3>1. cache'[k][u] = e[k][u]  BY <1>2, <2>3
    <3> QED  BY <2>1, <3>1 DEF Alike
  <2> QED  BY <2>2, <2>3
<1> QED  BY <1>3, <1>5, <1>6, <1>7, <1>8, <1>9 DEF FInv

(* ModifyCoins: the entry appears, and no answer changes.                   *)
LEMMA ModifyCoinsOK ==
  ASSUME Topped, FInv, NEW t \in Txids, ModifyCoins(t)
  PROVE  FInv' /\ \A m \in 0 .. depth, u \in Txids : Read(m, u)' = Read(m, u)
<1>0. /\ depth \in Levels /\ depth \in Nat /\ depth > 1 /\ depth - 1 \in Levels /\ depth - 1 <= depth
      /\ depth - 1 \in 0 .. MaxDepth /\ MaxDepth \in Nat
      /\ cache \in [Levels -> [Txids -> Entry \cup {NoEntry}]]
  BY DepthAssumption DEF FInv, CachesTyped, Levels, ModifyCoins
<1>1. /\ UNCHANGED <<db, dbBest, depth, hashBlock>> /\ modifier' = t
  BY DEF ModifyCoins
<1>2. Read(depth, t) = IF cache[depth][t] # NoEntry THEN cache[depth][t].coins ELSE Read(depth - 1, t)
  BY <1>0, ReadStep DEF Read
<1>3. ASSUME NEW e, Alike(e), NEW n \in Entry, cache' = [e EXCEPT ![depth][t] = n],
             n.dirty, n.coins = Read(depth, t), n.fresh => Read(depth - 1, t) = Pruned,
             e[depth - 1][t] = NoEntry => n.fresh
      PROVE  FInv' /\ \A m \in 0 .. depth, u \in Txids : Read(m, u)' = Read(m, u)
  <2>1. n # NoEntry  BY CoinsAssumption DEF Entry
  <2>2. /\ FInv'
        /\ \A m \in 0 .. depth - 1, u \in Txids : Read(m, u)' = Read(m, u)
        /\ \A u \in Txids \ {t} : Read(depth, u)' = Read(depth, u)
        /\ Read(depth, t)' = IF n = NoEntry THEN Read(depth - 1, t) ELSE n.coins
    BY <1>0, <1>1, <1>3, <2>1, TopEntry, Zenon
  <2>3. ASSUME NEW m \in 0 .. depth, NEW u \in Txids  PROVE Read(m, u)' = Read(m, u)
    <3>1. CASE m = depth /\ u = t
      <4>1. Read(depth, t)' = Read(depth, t)  BY <1>3, <2>1, <2>2
      <4> QED  BY <1>1, <3>1, <4>1
    <3>2. CASE m = depth /\ u # t
      <4>1. Read(depth, u)' = Read(depth, u)  BY <2>2, <3>2
      <4> QED  BY <1>1, <3>2, <4>1
    <3>3. CASE m # depth
      <4>1. m \in 0 .. depth - 1  BY <1>0, <3>3
      <4> QED  BY <2>2, <4>1
    <3> QED  BY <3>1, <3>2, <3>3
  <2> QED  BY <2>2, <2>3
<1>4. CASE Has(depth, t)
  <2> DEFINE n == [cache[depth][t] EXCEPT !.dirty = TRUE]
  <2>1. cache' = [cache EXCEPT ![depth][t] = n]
    BY <1>0, <1>4 DEF ModifyCoins
  <2>2. cache[depth][t] \in Entry /\ cache[depth][t] # NoEntry
    BY <1>0, <1>4 DEF Has
  <2>3. /\ n \in Entry /\ n.dirty /\ n.coins = cache[depth][t].coins /\ n.fresh = cache[depth][t].fresh
    BY <2>2, Zenon DEF Entry
  <2>4. n.coins = Read(depth, t)  BY <1>2, <2>2, <2>3
  <2>5. n.fresh => Read(depth - 1, t) = Pruned
    BY <1>0, <1>4, <2>3 DEF FInv, FlagsRight
  <2>6. cache[depth - 1][t] = NoEntry => n.fresh
    BY <1>0, <1>4, <2>3 DEF FInv, PulledIn, Has
  <2>7. Alike(cache)  BY CacheAlike
  <2> HIDE DEF n
  <2> QED  BY <1>3, <2>1, <2>3, <2>4, <2>5, <2>6, <2>7, Zenon
<1>5. CASE ~Has(depth, t)
  <2> DEFINE e == Fetched(depth - 1, t)
             n == [Copy(depth - 1, t) EXCEPT !.dirty = TRUE]
  <2>1. cache' = [e EXCEPT ![depth][t] = n]
    BY <1>5 DEF ModifyCoins
  <2>2. Alike(e)  BY <1>0, FetchedAlike
  <2>3. Copy(depth - 1, t) \in Entry /\ (Found(depth - 1, t) => e[depth - 1][t] # NoEntry)
    <3>1. Copy(depth - 1, t) \in Entry  BY <1>0, FetchedIs DEF FInv
    <3>2. e = Fetched(depth - 1, t)  OBVIOUS
    <3> HIDE DEF e
    <3>3. Found(depth - 1, t) => e[depth - 1][t] # NoEntry  BY <1>0, <3>2, FetchedFlags
    <3> QED  BY <3>1, <3>3
  <2>4. /\ n \in Entry /\ n.dirty /\ n.coins = Read(depth - 1, t)
        /\ n.fresh = (Read(depth - 1, t) = Pruned)
    BY <2>3, Zenon DEF Entry, Copy
  <2>5. n.coins = Read(depth, t)  BY <1>2, <1>5, <2>4 DEF Has
  <2>6. ~Found(depth - 1, t) => Read(depth - 1, t) = Pruned
    BY DEF Found, Read, ReadOf
  <2> HIDE DEF e, n
  <2>7. e[depth - 1][t] = NoEntry => n.fresh
    BY <2>3, <2>4, <2>6, Zenon
  <2>8. n.fresh => Read(depth - 1, t) = Pruned  BY <2>4, Zenon
  <2> QED  BY <1>3, <2>1, <2>2, <2>4, <2>5, <2>7, <2>8, Zenon
<1> QED  BY <1>4, <1>5

(* The modification: only the modified transaction changes, to the value c. *)
LEMMA EndModifyOK ==
  ASSUME Topped, FInv, NEW c \in Coins, EndModify(c), NEW t \in Txids, modifier = t
  PROVE  /\ FInv'
         /\ \A m \in 0 .. depth - 1, u \in Txids : Read(m, u)' = Read(m, u)
         /\ \A u \in Txids \ {t} : Read(depth, u)' = Read(depth, u)
         /\ Read(depth, t)' \in Coins
<1> DEFINE p == cache[depth][t]
           n == IF p.fresh /\ c = Pruned THEN NoEntry ELSE [p EXCEPT !.coins = c]
<1>0. /\ depth \in Levels /\ depth \in Nat /\ depth > 1 /\ depth - 1 \in Levels
      /\ depth \in 0 .. MaxDepth /\ MaxDepth \in Nat
      /\ cache \in [Levels -> [Txids -> Entry \cup {NoEntry}]]
      /\ Has(depth, t) /\ p.dirty
  BY DepthAssumption, CoinsAssumption DEF FInv, CachesTyped, FlagsRight, Levels, EndModify
<1>1. /\ UNCHANGED <<db, dbBest, depth, hashBlock>> /\ modifier' = NoTx
      /\ cache' = [cache EXCEPT ![depth][t] = n]
  BY <1>0 DEF EndModify
<1>2. p \in Entry /\ p # NoEntry  BY <1>0 DEF Has
<1>3. /\ p.fresh => Read(depth - 1, t) = Pruned
      /\ cache[depth - 1][t] = NoEntry => p.fresh
  BY <1>0 DEF FInv, FlagsRight, PulledIn, Has
<1>4. n \in Entry \cup {NoEntry} /\ (n # NoEntry => n.dirty /\ n.fresh = p.fresh)
  BY <1>0, <1>2 DEF Entry
<1>5. Alike(cache)  BY CacheAlike
<1>6. n # NoEntry => /\ n.dirty \/ n.coins = Read(depth - 1, t)
                     /\ n.fresh => Read(depth - 1, t) = Pruned
                     /\ cache[depth - 1][t] = NoEntry => n.fresh
  BY <1>3, <1>4
<1> HIDE DEF n, p
<1>7. /\ FInv'
      /\ \A m \in 0 .. depth - 1, u \in Txids : Read(m, u)' = Read(m, u)
      /\ \A u \in Txids \ {t} : Read(depth, u)' = Read(depth, u)
  BY <1>0, <1>1, <1>4, <1>5, <1>6, TopEntry, Zenon
<1>8. Read(depth, t)' \in Coins
  <2>1. /\ cache' \in [Levels -> [Txids -> Entry \cup {NoEntry}]] /\ db' \in [Txids -> Coins]
        /\ depth' \in 0 .. MaxDepth
    BY <1>0, <1>1, <1>7 DEF FInv, CachesTyped
  <2> DEFINE e == cache'  f == db'  g == depth'
  <2> HIDE DEF e, f, g
  <2>2. ReadOf(e, f, g, t) \in Coins  BY <1>0, <2>1, ReadType, ZenonT(60) DEF e, f, g
  <2> QED  BY <2>2 DEF e, f, g, Read
<1> QED  BY <1>0, <1>7, <1>8

(* BatchWrite of a cache into the one below, for one transaction: e is the  *)
(* child's entry, p the parent's, below and r what the parent's parent and  *)
(* the parent answer.                                                       *)
LEMMA MergedIs ==
  ASSUME NEW e \in Entry \cup {NoEntry}, NEW p \in Entry \cup {NoEntry}, NEW below, NEW r,
         r = IF p # NoEntry THEN p.coins ELSE below,
         p # NoEntry => (p.dirty \/ p.coins = below) /\ (p.fresh => below = Pruned),
         e # NoEntry => (e.dirty \/ e.coins = r) /\ (e.fresh => r = Pruned),
         e # NoEntry /\ p = NoEntry => e.fresh
  PROVE  /\ Merged(e, p) \in Entry \cup {NoEntry}
         /\ (IF Merged(e, p) # NoEntry THEN Merged(e, p).coins ELSE below)
              = (IF e # NoEntry THEN e.coins ELSE r)
         /\ Merged(e, p) # NoEntry =>
              /\ Merged(e, p).dirty \/ Merged(e, p).coins = below
              /\ Merged(e, p).fresh => below = Pruned
              /\ IF p # NoEntry THEN Merged(e, p).fresh = p.fresh ELSE Merged(e, p).fresh
<1>0. NoEntry \notin Entry  BY CoinsAssumption DEF Entry
<1>1. CASE e = NoEntry
  BY <1>0, <1>1 DEF Merged
<1>2. CASE e # NoEntry /\ ~e.dirty /\ p # NoEntry
  BY <1>0, <1>2 DEF Merged
<1>3. CASE e # NoEntry /\ ~e.dirty /\ p = NoEntry
  BY <1>0, <1>3 DEF Merged
<1>4. CASE e # NoEntry /\ e.dirty /\ p = NoEntry /\ e.coins = Pruned
  BY <1>0, <1>4 DEF Merged
<1>5. CASE e # NoEntry /\ e.dirty /\ p = NoEntry /\ e.coins # Pruned
  <2> DEFINE n == [coins |-> e.coins, dirty |-> TRUE, fresh |-> TRUE]
  <2>1. Merged(e, p) = n  BY <1>5 DEF Merged
  <2>2. n \in Entry  BY <1>5 DEF Entry
  <2>3. below = Pruned  BY <1>5
  <2>4. n.coins = e.coins /\ n.dirty /\ n.fresh  OBVIOUS
  <2>5. n # NoEntry  BY <1>0, <2>2, Zenon
  <2> HIDE DEF n
  <2>6. (IF n # NoEntry THEN n.coins ELSE below) = (IF e # NoEntry THEN e.coins ELSE r)
    BY <1>5, <2>4, <2>5, Zenon
  <2> QED  BY <1>5, <2>1, <2>2, <2>3, <2>4, <2>5, <2>6
<1>6. CASE e # NoEntry /\ e.dirty /\ p # NoEntry /\ p.fresh /\ e.coins = Pruned
  BY <1>0, <1>6 DEF Merged
<1>7. CASE e # NoEntry /\ e.dirty /\ p # NoEntry /\ ~(p.fresh /\ e.coins = Pruned)
  <2> DEFINE n == [p EXCEPT !.coins = e.coins, !.dirty = TRUE]
  <2>1. Merged(e, p) = n  BY <1>7 DEF Merged
  <2>2. n \in Entry /\ n.coins = e.coins /\ n.dirty /\ n.fresh = p.fresh  BY <1>7, Zenon DEF Entry
  <2> HIDE DEF n
  <2> QED  BY <1>0, <1>7, <2>1, <2>2
<1> QED  BY <1>1, <1>2, <1>3, <1>4, <1>5, <1>6, <1>7

(* view.Flush(): the view below answers as the top view did, and the top    *)
(* view as before.                                                          *)
LEMMA FlushViewOK ==
  ASSUME Topped, FInv, FlushView
  PROVE  /\ FInv'
         /\ \A m \in 0 .. depth, u \in Txids :
              m # depth - 1 => Read(m, u)' = Read(m, u)
         /\ \A u \in Txids, m \in 0 .. depth : m = depth - 1 => Read(m, u)' = Read(depth, u)
<1> DEFINE c == cache'
           w(u) == Merged(cache[depth][u], cache[depth - 1][u])
<1>0. /\ depth \in Levels /\ depth \in Nat /\ depth > 1 /\ depth - 1 \in Levels
      /\ depth - 1 \in 0 .. MaxDepth /\ MaxDepth \in Nat
      /\ depth - 2 \in 0 .. MaxDepth /\ depth - 2 \in Nat /\ (depth - 1) - 1 = depth - 2
      /\ cache \in [Levels -> [Txids -> Entry \cup {NoEntry}]]
  BY DepthAssumption DEF FInv, CachesTyped, Levels, FlushView
<1>1. ASSUME NEW u \in Txids
      PROVE  /\ Read(depth, u) = IF cache[depth][u] # NoEntry THEN cache[depth][u].coins ELSE Read(depth - 1, u)
             /\ Read(depth - 1, u) = IF cache[depth - 1][u] # NoEntry THEN cache[depth - 1][u].coins ELSE Read(depth - 2, u)
  <2>1. Read(depth, u) = IF cache[depth][u] # NoEntry THEN cache[depth][u].coins ELSE Read(depth - 1, u)
    BY <1>0, ReadStep DEF Read
  <2> DEFINE k == depth - 1
  <2>2. k \in Levels /\ k - 1 = depth - 2  BY <1>0
  <2> HIDE DEF k
  <2>3. Read(k, u) = IF cache[k][u] # NoEntry THEN cache[k][u].coins ELSE Read(k - 1, u)
    BY <1>0, <2>2, ReadStep, ZenonT(60) DEF Read
  <2> QED  BY <2>1, <2>2, <2>3 DEF k
<1>2. ASSUME NEW u \in Txids
      PROVE  /\ w(u) \in Entry \cup {NoEntry}
             /\ (IF w(u) # NoEntry THEN w(u).coins ELSE Read(depth - 2, u)) = Read(depth, u)
             /\ w(u) # NoEntry =>
                  /\ w(u).dirty \/ w(u).coins = Read(depth - 2, u)
                  /\ w(u).fresh => Read(depth - 2, u) = Pruned
                  /\ IF cache[depth - 1][u] # NoEntry THEN w(u).fresh = cache[depth - 1][u].fresh ELSE w(u).fresh
  <2> DEFINE e == cache[depth][u]  p == cache[depth - 1][u]
             below == Read(depth - 2, u)  r == Read(depth - 1, u)
  <2>1. e \in Entry \cup {NoEntry} /\ p \in Entry \cup {NoEntry}  BY <1>0
  <2>2. r = IF p # NoEntry THEN p.coins ELSE below  BY <1>1
  <2>3. p # NoEntry => (p.dirty \/ p.coins = below) /\ (p.fresh => below = Pruned)
    BY <1>0 DEF FInv, FlagsRight, Has
  <2>4. e # NoEntry => (e.dirty \/ e.coins = r) /\ (e.fresh => r = Pruned)
    BY <1>0 DEF FInv, FlagsRight, Has
  <2>5. e # NoEntry /\ p = NoEntry => e.fresh
    BY <1>0 DEF FInv, PulledIn, Has
  <2>6. Read(depth, u) = IF e # NoEntry THEN e.coins ELSE r  BY <1>1
  <2> HIDE DEF e, p, below, r
  <2>7. /\ Merged(e, p) \in Entry \cup {NoEntry}
        /\ (IF Merged(e, p) # NoEntry THEN Merged(e, p).coins ELSE below) = (IF e # NoEntry THEN e.coins ELSE r)
        /\ Merged(e, p) # NoEntry =>
             /\ Merged(e, p).dirty \/ Merged(e, p).coins = below
             /\ Merged(e, p).fresh => below = Pruned
             /\ IF p # NoEntry THEN Merged(e, p).fresh = p.fresh ELSE Merged(e, p).fresh
    BY <2>1, <2>2, <2>3, <2>4, <2>5, MergedIs
  <2> QED  BY <2>6, <2>7 DEF e, p, below, r
<1> HIDE DEF w
<1>3. /\ c[depth] = Empty
      /\ \A u \in Txids : c[depth - 1][u] = w(u)
      /\ \A k \in Levels : k # depth /\ k # depth - 1 => c[k] = cache[k]
      /\ c \in [Levels -> [Txids -> Entry \cup {NoEntry}]]
      /\ UNCHANGED <<db, dbBest, depth, modifier>> /\ modifier = NoTx
  <2>1. c = [cache EXCEPT ![depth] = Empty, ![depth - 1] = [u \in Txids |-> w(u)]]
    BY DEF FlushView, w
  <2>2. [u \in Txids |-> w(u)] \in [Txids -> Entry \cup {NoEntry}]  BY <1>2
  <2>3. Empty \in [Txids -> Entry \cup {NoEntry}]  BY DEF Empty
  <2>4. UNCHANGED <<db, dbBest, depth, modifier>> /\ modifier = NoTx  BY DEF FlushView
  <2> HIDE DEF c
  <2> QED  BY <1>0, <2>1, <2>2, <2>3, <2>4
<1> HIDE DEF c
<1>4. ASSUME NEW m \in 0 .. depth - 2, NEW u \in Txids  PROVE ReadOf(c, db, m, u) = Read(m, u)
  <2>1. \A k \in 1 .. m : c[k][u] = cache[k][u]
    BY <1>0, <1>3 DEF Levels
  <2>2. m \in 0 .. MaxDepth  BY <1>0
  <2>3. ReadOf(c, db, m, u) = ReadOf(cache, db, m, u)
    BY <1>0, <1>3, <2>1, <2>2, ReadFrame
  <2> QED  BY <2>3 DEF Read
<1>5. ASSUME NEW u \in Txids
      PROVE  ReadOf(c, db, depth - 1, u) = Read(depth, u) /\ ReadOf(c, db, depth, u) = Read(depth, u)
  <2>1. ReadOf(c, db, depth - 2, u) = Read(depth - 2, u)  BY <1>0, <1>4
  <2>2. ReadOf(c, db, depth - 1, u) =
          IF c[depth - 1][u] # NoEntry THEN c[depth - 1][u].coins ELSE ReadOf(c, db, (depth - 1) - 1, u)
    <3> DEFINE k == depth - 1
    <3>1. k \in Levels  BY <1>0
    <3> HIDE DEF k
    <3>2. ReadOf(c, db, k, u) = IF c[k][u] # NoEntry THEN c[k][u].coins ELSE ReadOf(c, db, k - 1, u)
      BY <1>3, <3>1, ReadStep
    <3> QED  BY <3>2 DEF k
  <2>3. ReadOf(c, db, depth - 1, u) = Read(depth, u)
    BY <1>0, <1>2, <1>3, <2>1, <2>2
  <2>4. ReadOf(c, db, depth, u) = IF c[depth][u] # NoEntry THEN c[depth][u].coins ELSE ReadOf(c, db, depth - 1, u)
    BY <1>0, <1>3, ReadStep
  <2>5. c[depth][u] = NoEntry  BY <1>3 DEF Empty
  <2> QED  BY <2>3, <2>4, <2>5
<1>6. ASSUME NEW m \in 0 .. depth, NEW u \in Txids
      PROVE  Read(m, u)' = IF m = depth - 1 THEN Read(depth, u) ELSE Read(m, u)
  <2>1. Read(m, u)' = ReadOf(c, db, m, u)  BY <1>3 DEF Read, c
  <2>2. CASE m = depth - 1  BY <1>5, <2>1, <2>2
  <2>3. CASE m = depth  BY <1>0, <1>5, <2>1, <2>3
  <2>4. CASE m \in 0 .. depth - 2  BY <1>0, <1>4, <2>1, <2>4
  <2> QED  BY <1>0, <2>2, <2>3, <2>4
<1>7. CachesTyped'
  <2>1. hashBlock' \in [Levels -> Blocks \cup {NoBlock}] /\ \A k \in Levels : k > depth => hashBlock'[k] = NoBlock
    BY <1>0 DEF FInv, CachesTyped, FlushView
  <2>2. \A k \in Levels : k > depth => c[k] = Empty
    BY <1>0, <1>3 DEF FInv, CachesTyped, Levels
  <2> QED  BY <1>3, <2>1, <2>2 DEF FInv, CachesTyped, c
<1>8. ASSUME NEW k \in Levels, NEW u \in Txids, c[k][u] # NoEntry
      PROVE  /\ k \in 1 .. depth - 1
             /\ k = depth - 1 => c[k][u] = w(u)
             /\ k # depth - 1 => c[k][u] = cache[k][u]
  <2>1. k # depth  BY <1>3, <1>8 DEF Empty
  <2>2. ~(k > depth)  BY <1>0, <1>3, <1>8 DEF FInv, CachesTyped, Empty, Levels
  <2> QED  BY <1>0, <1>3, <2>1, <2>2 DEF Levels
<1>9. FlagsRight'
  <2>1. ASSUME NEW k \in Levels, NEW u \in Txids, c[k][u] # NoEntry
        PROVE  /\ c[k][u].dirty \/ c[k][u].coins = Read(k - 1, u)'
               /\ c[k][u].fresh => Read(k - 1, u)' = Pruned
    <3>1. k \in 1 .. depth - 1  BY <1>8, <2>1
    <3>2. k - 1 \in 0 .. depth /\ k - 1 # depth - 1  BY <1>0, <3>1
    <3>3. Read(k - 1, u)' = Read(k - 1, u)  BY <1>6, <3>2
    <3>4. CASE k = depth - 1
      <4>1. c[k][u] = w(u) /\ k - 1 = depth - 2  BY <1>0, <1>8, <2>1, <3>4
      <4>2. Read(k - 1, u)' = Read(depth - 2, u)  BY <3>3, <4>1
      <4> QED  BY <1>2, <2>1, <4>1, <4>2
    <3>5. CASE k # depth - 1
      <4>1. c[k][u] = cache[k][u]  BY <1>8, <2>1, <3>5
      <4> QED  BY <2>1, <3>3, <4>1 DEF FInv, FlagsRight, Has
    <3> QED  BY <3>4, <3>5
  <2> QED  BY <1>3, <2>1 DEF FlagsRight, Has, c
<1>10. PulledIn'
  <2>1. ASSUME NEW k \in Levels \ {1}, NEW u \in Txids, c[k][u] # NoEntry, c[k - 1][u] = NoEntry
        PROVE  c[k][u].fresh
    <3>1. k \in 1 .. depth - 1 /\ k \in Nat /\ k - 1 \in Levels /\ k - 1 # depth /\ k - 1 # depth - 1
      BY <1>0, <1>8, <2>1 DEF Levels
    <3>2. cache[k - 1][u] = NoEntry  BY <1>3, <2>1, <3>1
    <3>3. CASE k = depth - 1
      <4>1. c[k][u] = w(u)  BY <1>8, <2>1, <3>3
      <4>2. cache[k][u] # NoEntry => cache[k][u].fresh  BY <3>2 DEF FInv, PulledIn, Has
      <4> QED  BY <1>2, <2>1, <3>3, <4>1, <4>2
    <3>4. CASE k # depth - 1
      <4>1. c[k][u] = cache[k][u]  BY <1>8, <2>1, <3>4
      <4> QED  BY <2>1, <3>2, <4>1 DEF FInv, PulledIn, Has
    <3> QED  BY <3>3, <3>4
  <2> QED  BY <2>1 DEF PulledIn, Has, c
<1> QED
  <2>1. \A m \in 0 .. depth, u \in Txids : m # depth - 1 => Read(m, u)' = Read(m, u)  BY <1>6
  <2>2. \A u \in Txids, m \in 0 .. depth : m = depth - 1 => Read(m, u)' = Read(depth, u)  BY <1>6
  <2> QED  BY <1>7, <1>9, <1>10, <2>1, <2>2 DEF FInv

-----------------------------------------------------------------------------
(* The hash of GetBestBlock: the same facts as for reads.                   *)
LEMMA BestSourceIs ==
  ASSUME Topped, NEW h \in [Levels -> Blocks \cup {NoBlock}], NEW l \in 0 .. MaxDepth
  PROVE  /\ BestSource(h, l) \in 0 .. l
         /\ BestSource(h, l) # 0 => h[BestSource(h, l)] # NoBlock
         /\ \A k \in 1 .. l : h[k] # NoBlock => k <= BestSource(h, l)
<1> DEFINE S == {k \in 1 .. l : h[k] # NoBlock} \cup {0}
<1>1. l \in Nat  BY DepthAssumption
<1>2. S \in SUBSET (0 .. l) /\ 0 \in S  BY <1>1
<1>3. Topmost(S) \in S /\ \A j \in S : j <= Topmost(S)
  <2> HIDE DEF S
  <2> QED  BY <1>1, <1>2, Zenon DEF Topped
<1> QED  BY <1>1, <1>3 DEF BestSource

\* GetBestBlock stops at the topmost view that holds a hash: there is one such view.
LEMMA BestSourceUnique ==
  ASSUME Topped, NEW h \in [Levels -> Blocks \cup {NoBlock}], NEW l \in 0 .. MaxDepth, NEW s \in 0 .. l,
         s # 0 => h[s] # NoBlock,
         \A k \in 1 .. l : h[k] # NoBlock => k <= s
  PROVE  BestSource(h, l) = s
<1> DEFINE x == BestSource(h, l)
<1>1. l \in Nat  BY DepthAssumption
<1>2. /\ x \in 0 .. l /\ (x # 0 => h[x] # NoBlock)
      /\ \A k \in 1 .. l : h[k] # NoBlock => k <= x
  BY BestSourceIs
<1> HIDE DEF x
<1>3. x # 0 => x <= s  BY <1>1, <1>2
<1>4. s # 0 => s <= x  BY <1>1, <1>2
<1>5. x = s  BY <1>1, <1>2, <1>3, <1>4
<1> QED  BY <1>5 DEF x

\* A view without a hash of its own answers GetBestBlock with its base's answer.
LEMMA BestStep ==
  ASSUME Topped, NEW h \in [Levels -> Blocks \cup {NoBlock}], NEW d, NEW l \in Levels
  PROVE  BestOf(h, d, l) = IF h[l] # NoBlock THEN h[l] ELSE BestOf(h, d, l - 1)
<1>1. l \in Nat /\ l >= 1 /\ l - 1 \in 0 .. MaxDepth /\ l \in 0 .. MaxDepth
  BY DepthAssumption DEF Levels
<1>2. CASE h[l] # NoBlock
  <2>1. BestSource(h, l) = l  BY <1>1, <1>2, BestSourceUnique
  <2> QED  BY <1>1, <1>2, <2>1 DEF BestOf
<1>3. CASE h[l] = NoBlock
  <2>1. /\ BestSource(h, l - 1) \in 0 .. l - 1
        /\ BestSource(h, l - 1) # 0 => h[BestSource(h, l - 1)] # NoBlock
        /\ \A k \in 1 .. l - 1 : h[k] # NoBlock => k <= BestSource(h, l - 1)
    BY <1>1, BestSourceIs
  <2>2. /\ BestSource(h, l - 1) \in 0 .. l
        /\ \A k \in 1 .. l : h[k] # NoBlock => k <= BestSource(h, l - 1)
    BY <1>1, <1>3, <2>1
  <2>3. BestSource(h, l) = BestSource(h, l - 1)
    BY <1>1, <2>1, <2>2, BestSourceUnique
  <2> QED  BY <1>3, <2>3 DEF BestOf
<1> QED  BY <1>2, <1>3

\* What GetBestBlock answers depends only on the hashes at and below the view.
LEMMA BestFrame ==
  ASSUME Topped, NEW h \in [Levels -> Blocks \cup {NoBlock}], NEW g \in [Levels -> Blocks \cup {NoBlock}],
         NEW d, NEW l \in 0 .. MaxDepth, \A k \in 1 .. l : g[k] = h[k]
  PROVE  BestOf(g, d, l) = BestOf(h, d, l)
<1> DEFINE x == BestSource(h, l)
<1>1. l \in Nat  BY DepthAssumption
<1>2. /\ x \in 0 .. l /\ (x # 0 => h[x] # NoBlock)
      /\ \A k \in 1 .. l : h[k] # NoBlock => k <= x
  BY BestSourceIs
<1> HIDE DEF x
<1>3. BestSource(g, l) = x
  <2>1. x # 0 => g[x] # NoBlock  BY <1>1, <1>2
  <2>2. \A k \in 1 .. l : g[k] # NoBlock => k <= x  BY <1>2
  <2> QED  BY <1>2, <2>1, <2>2, BestSourceUnique
<1>4. x # 0 => g[x] = h[x]  BY <1>1, <1>2
<1> QED  BY <1>3, <1>4 DEF BestOf, x

\* GetBestBlock answers with a block.
LEMMA BestType ==
  ASSUME Topped, NEW h \in [Levels -> Blocks \cup {NoBlock}], NEW d \in Blocks, NEW l \in 0 .. MaxDepth
  PROVE  BestOf(h, d, l) \in Blocks
<1> DEFINE x == BestSource(h, l)
<1>1. l \in Nat /\ MaxDepth \in Nat  BY DepthAssumption
<1>2. /\ x \in 0 .. l /\ (x # 0 => h[x] # NoBlock)
  BY BestSourceIs
<1> HIDE DEF x
<1>3. x # 0 => x \in Levels  BY <1>1, <1>2 DEF Levels
<1>4. x # 0 => h[x] \in Blocks  BY <1>2, <1>3
<1> QED  BY <1>4 DEF BestOf, x

(* GetBestBlock changes no answer of any level.                             *)
LEMMA GetBestBlockOK ==
  ASSUME Topped, CachesTyped, NEW l \in Levels, GetBestBlock(l)
  PROVE  /\ hashBlock' \in [Levels -> Blocks \cup {NoBlock}]
         /\ \A k \in Levels : k > depth => hashBlock'[k] = NoBlock
         /\ \A m \in 0 .. MaxDepth : Best(m)' = Best(m)
<1> DEFINE g == hashBlock'
           x == BestSource(hashBlock, l)
<1>0. l \in Nat /\ l >= 1 /\ l \in 0 .. MaxDepth /\ MaxDepth \in Nat /\ depth \in Nat /\ l <= depth
      /\ hashBlock \in [Levels -> Blocks \cup {NoBlock}]
  BY DepthAssumption DEF Levels, CachesTyped, GetBestBlock
<1>1. Best(l) \in Blocks /\ Best(l) # NoBlock
  <2>1. Best(l) \in Blocks  BY <1>0, BestType DEF Best, CachesTyped
  <2> QED  BY <2>1, CoinsAssumption
<1>2. /\ x \in 0 .. l /\ (x # 0 => hashBlock[x] # NoBlock)
      /\ \A k \in 1 .. l : hashBlock[k] # NoBlock => k <= x
  BY <1>0, BestSourceIs
<1>3. /\ g \in [Levels -> Blocks \cup {NoBlock}]
      /\ \A k \in Levels : g[k] = IF k > x /\ k <= l THEN Best(l) ELSE hashBlock[k]
  BY <1>0, <1>1 DEF GetBestBlock
<1> HIDE DEF g, x
<1>4. \A k \in Levels : k > depth => g[k] = NoBlock
  BY <1>0, <1>3 DEF CachesTyped, Levels
<1>5. ASSUME NEW m \in 0 .. MaxDepth  PROVE BestOf(g, dbBest, m) = Best(m)
  <2> DEFINE y == BestSource(hashBlock, m)
  <2>1. /\ y \in 0 .. m /\ (y # 0 => hashBlock[y] # NoBlock)
        /\ \A k \in 1 .. m : hashBlock[k] # NoBlock => k <= y
    BY <1>0, BestSourceIs
  <2> HIDE DEF y
  <2>2. CASE m <= x \/ x = l
    <3>1. \A k \in 1 .. m : g[k] = hashBlock[k]
      BY <1>0, <1>2, <1>3, <2>2 DEF Levels
    <3>2. BestOf(g, dbBest, m) = BestOf(hashBlock, dbBest, m)
      BY <1>0, <1>3, <3>1, BestFrame
    <3> QED  BY <3>2 DEF Best
  <2>3. CASE x < m /\ m <= l /\ x # l
    <3>1. y = x
      <4>1. x # 0 => x <= y  BY <1>0, <1>2, <2>1, <2>3
      <4>2. y # 0 => y <= x  BY <1>0, <1>2, <2>1, <2>3
      <4> QED  BY <1>0, <1>2, <2>1, <2>3, <4>1, <4>2
    <3>2. Best(m) = Best(l)  BY <3>1 DEF Best, BestOf, x, y
    <3>3. m \in Levels /\ g[m] = Best(l)  BY <1>0, <1>2, <1>3, <2>3 DEF Levels
    <3>4. BestOf(g, dbBest, m) = g[m]
      <4>1. BestOf(g, dbBest, m) = IF g[m] # NoBlock THEN g[m] ELSE BestOf(g, dbBest, m - 1)
        BY <1>3, <3>3, BestStep
      <4> QED  BY <1>1, <3>3, <4>1
    <3> QED  BY <3>2, <3>3, <3>4
  <2>4. CASE l < m /\ x # l
    <3>1. CASE y > l
      <4>1. g[y] = hashBlock[y] /\ y # 0  BY <1>0, <1>3, <2>1, <3>1 DEF Levels
      <4>2. \A k \in 1 .. m : g[k] # NoBlock => k <= y
        BY <1>0, <1>2, <1>3, <2>1, <3>1 DEF Levels
      <4>3. BestSource(g, m) = y
        BY <1>0, <1>3, <2>1, <4>1, <4>2, BestSourceUnique
      <4> QED  BY <4>1, <4>3 DEF Best, BestOf, y
    <3>2. CASE y <= l
      <4>1. y = x
        <5>1. x # 0 => x <= y  BY <1>0, <1>2, <2>1, <2>4
        <5>2. y # 0 => y <= x  BY <1>0, <1>2, <2>1, <3>2
        <5> QED  BY <1>0, <1>2, <2>1, <5>1, <5>2
      <4>2. Best(m) = Best(l)  BY <4>1 DEF Best, BestOf, x, y
      <4>3. g[l] = Best(l)  BY <1>0, <1>2, <1>3, <2>4
      <4>4. \A k \in 1 .. m : g[k] # NoBlock => k <= l
        BY <1>0, <1>2, <1>3, <2>1, <3>2, <4>1 DEF Levels
      <4>5. BestSource(g, m) = l
        BY <1>0, <1>1, <1>3, <2>4, <4>3, <4>4, BestSourceUnique
      <4> QED  BY <1>0, <4>2, <4>3, <4>5 DEF BestOf
    <3> QED  BY <1>0, <2>1, <3>1, <3>2
  <2> QED  BY <1>0, <1>2, <2>2, <2>3, <2>4
<1>6. dbBest' = dbBest  BY DEF GetBestBlock
<1> QED  BY <1>3, <1>4, <1>5, <1>6 DEF Best, g

-----------------------------------------------------------------------------
(* Caches without an entry answer as the database does.                     *)
LEMMA EmptyReads ==
  ASSUME Topped, NEW c \in [Levels -> [Txids -> Entry \cup {NoEntry}]], NEW d, NEW t \in Txids,
         NEW m \in 0 .. MaxDepth, \A k \in Levels : c[k] = Empty
  PROVE  ReadOf(c, d, m, t) = d[t]
<1>1. \A k \in 1 .. m : c[k][t] = NoEntry
  BY DepthAssumption DEF Empty, Levels
<1>2. Source(c, m, t) = 0  BY <1>1, DepthAssumption, SourceUnique
<1> QED  BY <1>2 DEF ReadOf

(* A state without an entry satisfies the invariant.                        *)
LEMMA EmptyOK ==
  ASSUME CachesTyped, \A k \in Levels : cache[k] = Empty, modifier = NoTx
  PROVE  FInv
<1>1. \A k \in Levels, u \in Txids : ~Has(k, u)
  BY DEF Has, Empty
<1> QED  BY <1>1 DEF FInv, FlagsRight, PulledIn

\* Caches without entries have the type of the cache stack.
LEMMA EmptyType ==
  /\ [l \in Levels |-> Empty] \in [Levels -> [Txids -> Entry \cup {NoEntry}]]
  /\ [l \in Levels |-> NoBlock] \in [Levels -> Blocks \cup {NoBlock}]
BY DEF Empty

\* The views as the node constructs them satisfy the inductive invariant.
LEMMA InitOK == ASSUME Init PROVE FInv
<1>1. CachesTyped
  <2>1. db \in [Txids -> Coins]  BY CoinsAssumption DEF Init
  <2>2. 1 \in Levels  BY DepthAssumption DEF Levels
  <2> QED  BY <2>1, <2>2, EmptyType DEF Init, CachesTyped
<1> QED  BY <1>1, EmptyOK DEF Init

(* Constructing a cache changes no answer.                                  *)
LEMMA ConstructOK ==
  ASSUME FInv, Construct
  PROVE  FInv' /\ \A m \in 0 .. MaxDepth, u \in Txids : Read(m, u)' = Read(m, u)
<1>0. UNCHANGED <<db, dbBest, cache, hashBlock, modifier>> /\ depth' = depth + 1 /\ modifier = NoTx
  BY DEF Construct
<1>1. \A m \in 0 .. MaxDepth, u \in Txids : Read(m, u)' = Read(m, u)
  BY <1>0 DEF Read
<1>2. CachesTyped'
  BY <1>0, DepthAssumption DEF FInv, CachesTyped, Levels, Construct
<1>3. FlagsRight'
  <2> SUFFICES ASSUME NEW k \in Levels, NEW u \in Txids, cache[k][u] # NoEntry
               PROVE  /\ cache[k][u].dirty \/ cache[k][u].coins = Read(k - 1, u)'
                      /\ cache[k][u].fresh => Read(k - 1, u)' = Pruned
    BY <1>0 DEF FlagsRight, Has
  <2>1. k - 1 \in 0 .. MaxDepth  BY DepthAssumption DEF Levels
  <2>2. Read(k - 1, u)' = Read(k - 1, u)  BY <1>1, <2>1
  <2> QED  BY <2>2 DEF FInv, FlagsRight, Has
<1>4. PulledIn'  BY <1>0 DEF FInv, PulledIn, Has
<1> QED  BY <1>1, <1>2, <1>3, <1>4 DEF FInv

(* Destroying the top cache changes no answer of the others.                *)
LEMMA DestroyOK ==
  ASSUME Topped, FInv, Destroy
  PROVE  FInv' /\ \A m \in 0 .. depth - 1, u \in Txids : Read(m, u)' = Read(m, u)
<1> DEFINE c == cache'
<1>0. /\ depth \in Levels /\ depth \in Nat /\ depth > 1 /\ depth - 1 \in Levels /\ MaxDepth \in Nat
      /\ cache \in [Levels -> [Txids -> Entry \cup {NoEntry}]]
      /\ UNCHANGED <<db, dbBest, modifier>> /\ depth' = depth - 1 /\ modifier = NoTx
  BY DepthAssumption DEF FInv, CachesTyped, Levels, Destroy
<1>1. /\ c \in [Levels -> [Txids -> Entry \cup {NoEntry}]]
      /\ c[depth] = Empty /\ \A k \in Levels : k # depth => c[k] = cache[k]
  BY <1>0 DEF Destroy, Empty
<1> HIDE DEF c
<1>2. ASSUME NEW m \in 0 .. depth - 1, NEW u \in Txids  PROVE Read(m, u)' = Read(m, u)
  <2>1. m \in 0 .. MaxDepth /\ \A k \in 1 .. m : c[k][u] = cache[k][u]  BY <1>0, <1>1 DEF Levels
  <2>2. ReadOf(c, db, m, u) = ReadOf(cache, db, m, u)
    BY <1>0, <1>1, <2>1, ReadFrame
  <2> QED  BY <1>0, <2>2 DEF Read, c
<1>3. \A k \in Levels : k > depth - 1 => c[k] = Empty
  BY <1>0, <1>1 DEF FInv, CachesTyped, Levels
<1>4. CachesTyped'
  <2>1. /\ hashBlock' \in [Levels -> Blocks \cup {NoBlock}]
        /\ \A k \in Levels : k > depth - 1 => hashBlock'[k] = NoBlock
    BY <1>0 DEF FInv, CachesTyped, Destroy, Levels
  <2> QED  BY <1>0, <1>1, <1>3, <2>1 DEF FInv, CachesTyped, c
<1>5. ASSUME NEW k \in Levels, NEW u \in Txids, c[k][u] # NoEntry
      PROVE  k \in 1 .. depth - 1 /\ c[k][u] = cache[k][u]
  <2>1. ~(k > depth - 1)  BY <1>3, <1>5 DEF Empty
  <2> QED  BY <1>0, <1>1, <2>1 DEF Levels
<1>6. FlagsRight'
  <2>1. ASSUME NEW k \in Levels, NEW u \in Txids, c[k][u] # NoEntry
        PROVE  /\ c[k][u].dirty \/ c[k][u].coins = Read(k - 1, u)'
               /\ c[k][u].fresh => Read(k - 1, u)' = Pruned
    <3>1. k \in 1 .. depth - 1 /\ c[k][u] = cache[k][u]  BY <1>5, <2>1
    <3>2. k - 1 \in 0 .. depth - 1  BY <1>0, <3>1
    <3>3. Read(k - 1, u)' = Read(k - 1, u)  BY <1>2, <3>2
    <3> QED  BY <2>1, <3>1, <3>3 DEF FInv, FlagsRight, Has
  <2> QED  BY <1>0, <2>1 DEF FlagsRight, Has, c
<1>7. PulledIn'
  <2>1. ASSUME NEW k \in Levels \ {1}, NEW u \in Txids, c[k][u] # NoEntry, c[k - 1][u] = NoEntry
        PROVE  c[k][u].fresh
    <3>1. k \in 1 .. depth - 1 /\ c[k][u] = cache[k][u]  BY <1>5, <2>1
    <3>2. k - 1 \in Levels /\ k - 1 # depth  BY <1>0, <3>1 DEF Levels
    <3>3. cache[k - 1][u] = NoEntry  BY <1>1, <2>1, <3>2
    <3> QED  BY <2>1, <3>1, <3>3 DEF FInv, PulledIn, Has
  <2> QED  BY <2>1 DEF PulledIn, Has, c
<1> QED  BY <1>2, <1>4, <1>6, <1>7 DEF FInv

(* The flush of pcoinsTip: the database answers as pcoinsTip did.           *)
LEMMA FlushTipOK ==
  ASSUME Topped, FInv, FlushTip
  PROVE  FInv' /\ (\A k \in Levels : cache'[k] = Empty) /\ \A u \in Txids : db'[u] = Read(1, u)
<1>0. /\ depth = 1 /\ 1 \in Levels /\ MaxDepth \in Nat /\ modifier = NoTx
      /\ cache \in [Levels -> [Txids -> Entry \cup {NoEntry}]] /\ db \in [Txids -> Coins]
      /\ UNCHANGED <<depth, hashBlock, modifier>>
      /\ cache' = [cache EXCEPT ![1] = Empty]
  BY DepthAssumption DEF FInv, CachesTyped, FlagsRight, Levels, FlushTip
<1>1. \A k \in Levels : cache'[k] = Empty
  BY <1>0 DEF FInv, CachesTyped, Levels
<1>2. ASSUME NEW u \in Txids  PROVE db'[u] = Read(1, u)
  <2>1. db'[u] = IF cache[1][u] # NoEntry /\ cache[1][u].dirty THEN cache[1][u].coins ELSE db[u]
    BY DEF FlushTip, BatchWrite, Has
  <2>2. Read(1, u) = IF cache[1][u] # NoEntry THEN cache[1][u].coins ELSE ReadOf(cache, db, 0, u)
    <3>1. ReadOf(cache, db, 1, u) =
            IF cache[1][u] # NoEntry THEN cache[1][u].coins ELSE ReadOf(cache, db, 1 - 1, u)
      BY <1>0, ReadStep, Zenon
    <3> QED  BY <3>1 DEF Read
  <2>3. ReadOf(cache, db, 0, u) = db[u]  BY <1>0, ReadBottom
  <2>4. cache[1][u] # NoEntry /\ ~cache[1][u].dirty => cache[1][u].coins = ReadOf(cache, db, 0, u)
    BY <1>0 DEF FInv, FlagsRight, Has, Read
  <2> QED  BY <2>1, <2>2, <2>3, <2>4
<1>3. ASSUME NEW u \in Txids  PROVE Read(1, u) \in Coins
  BY <1>0, ReadType DEF Read, Levels
<1>4. CachesTyped'
  <2>1. DOMAIN db' = Txids /\ db' \in [Txids -> Coins]
    <3>1. db' = [u \in Txids |-> db'[u]]  BY DEF FlushTip, BatchWrite
    <3>2. \A u \in Txids : db'[u] \in Coins  BY <1>2, <1>3
    <3> QED  BY <3>1, <3>2
  <2>2. dbBest' \in Blocks
    BY <1>0 DEF FInv, CachesTyped, FlushTip, BatchWrite
  <2>3. cache' \in [Levels -> [Txids -> Entry \cup {NoEntry}]]
    BY <1>0, ZenonT(60) DEF Empty
  <2> QED  BY <1>0, <1>1, <2>1, <2>2, <2>3 DEF FInv, CachesTyped
<1>5. FInv'
  <2>1. \A k \in Levels, u \in Txids : ~Has(k, u)'  BY <1>1 DEF Has, Empty
  <2>2. modifier' = NoTx  BY <1>0
  <2> QED  BY <1>4, <2>1, <2>2 DEF FInv, FlagsRight, PulledIn
<1> QED  BY <1>1, <1>2, <1>5

(* A failed flush, and a restart, leave no entry.                           *)
LEMMA FlushTipFailsOK == ASSUME FInv, FlushTipFails PROVE FInv'
<1>0. /\ depth = 1 /\ 1 \in Levels /\ modifier = NoTx
      /\ UNCHANGED <<db, dbBest, depth, hashBlock, modifier>>
      /\ cache' = [cache EXCEPT ![1] = Empty]
  BY DepthAssumption DEF FInv, CachesTyped, FlagsRight, Levels, FlushTipFails
<1>1. /\ \A k \in Levels : cache'[k] = Empty
      /\ cache' \in [Levels -> [Txids -> Entry \cup {NoEntry}]]
  BY <1>0 DEF FInv, CachesTyped, Levels, Empty
<1>2. \A k \in Levels, u \in Txids : ~Has(k, u)'  BY <1>1 DEF Has, Empty
<1>3. CachesTyped'  BY <1>0, <1>1, Zenon DEF FInv, CachesTyped
<1> QED  BY <1>0, <1>2, <1>3 DEF FInv, FlagsRight, PulledIn

\* Losing every cache in a crash preserves the inductive invariant.
LEMMA RestartOK == ASSUME FInv, Restart PROVE FInv' /\ \A k \in Levels : cache'[k] = Empty
<1>1. \A k \in Levels : cache'[k] = Empty  BY DEF Restart
<1>2. \A k \in Levels, u \in Txids : ~Has(k, u)'  BY <1>1 DEF Has, Empty
<1>3. 1 \in Levels  BY DepthAssumption DEF Levels
<1>4. CachesTyped'  BY <1>3, EmptyType DEF FInv, CachesTyped, Restart
<1> QED  BY <1>1, <1>2, <1>4, Zenon DEF FInv, FlagsRight, PulledIn, Restart

(* Steps that change no entry.                                              *)
LEMMA SameEntries ==
  ASSUME FInv, UNCHANGED <<db, dbBest, depth, cache, modifier>>,
         hashBlock' \in [Levels -> Blocks \cup {NoBlock}],
         \A k \in Levels : k > depth => hashBlock'[k] = NoBlock
  PROVE  FInv' /\ \A m \in 0 .. MaxDepth, u \in Txids : Read(m, u)' = Read(m, u)
<1>1. \A m, u : Read(m, u)' = Read(m, u)  BY DEF Read
<1>2. CachesTyped'  BY DEF FInv, CachesTyped
<1>3. FlagsRight'  BY <1>1 DEF FInv, FlagsRight, Has
<1>4. PulledIn'  BY DEF FInv, PulledIn, Has
<1> QED  BY <1>1, <1>2, <1>3, <1>4 DEF FInv

\* SetBestBlock preserves the inductive invariant and changes no coins.
LEMMA SetBestBlockOK ==
  ASSUME FInv, NEW b \in Blocks, SetBestBlock(b)
  PROVE  /\ hashBlock' \in [Levels -> Blocks \cup {NoBlock}]
         /\ \A k \in Levels : k > depth => hashBlock'[k] = NoBlock
BY DEF FInv, CachesTyped, SetBestBlock, Levels

(* Every step keeps the invariant.                                          *)
LEMMA NextOK == ASSUME Topped, FInv, [Next]_vars PROVE FInv'
<1>1. CASE Construct  BY <1>1, ConstructOK
<1>2. CASE Destroy  BY <1>2, DestroyOK
<1>3. ASSUME NEW t \in Txids, NEW l \in Levels, AccessCoins(l, t)  PROVE FInv'
  BY <1>3, AccessCoinsOK
<1>4. ASSUME NEW t \in Txids, ModifyCoins(t)  PROVE FInv'
  BY <1>4, ModifyCoinsOK
<1>5. ASSUME NEW c \in Coins, EndModify(c)  PROVE FInv'
  <2>1. PICK t \in Txids : modifier = t  BY <1>5 DEF EndModify, FInv, CachesTyped
  <2> QED  BY <1>5, <2>1, EndModifyOK
<1>6. ASSUME NEW l \in Levels, GetBestBlock(l)  PROVE FInv'
  <2>1. CachesTyped /\ UNCHANGED <<db, dbBest, depth, cache, modifier>>  BY <1>6 DEF FInv, GetBestBlock
  <2> QED  BY <1>6, <2>1, GetBestBlockOK, SameEntries
<1>7. ASSUME NEW b \in Blocks, SetBestBlock(b)  PROVE FInv'
  <2>1. UNCHANGED <<db, dbBest, depth, cache, modifier>>  BY <1>7 DEF SetBestBlock
  <2> QED  BY <1>7, <2>1, SetBestBlockOK, SameEntries
<1>8. CASE FlushView  BY <1>8, FlushViewOK
<1>9. CASE FlushTip  BY <1>9, FlushTipOK
<1>10. CASE FlushTipFails  BY <1>10, FlushTipFailsOK
<1>11. CASE Restart  BY <1>11, RestartOK
<1>12. CASE UNCHANGED vars
  <2>1. /\ UNCHANGED <<db, dbBest, depth, cache, modifier>>
        /\ hashBlock' \in [Levels -> Blocks \cup {NoBlock}]
        /\ \A k \in Levels : k > depth => hashBlock'[k] = NoBlock
    BY <1>12 DEF vars, FInv, CachesTyped
  <2> QED  BY <2>1, SameEntries
<1> QED
  BY <1>1, <1>2, <1>3, <1>4, <1>5, <1>6, <1>7, <1>8, <1>9, <1>10, <1>11, <1>12 DEF Next

(* Only a failed write is remembered as one.                                *)
LEMMA FailedStep ==
  ASSUME [Next]_vars  PROVE IF FlushTipFails THEN failed' = TRUE ELSE failed' = failed
BY DEF Next, vars, Construct, Destroy, AccessCoins, ModifyCoins, EndModify, GetBestBlock, SetBestBlock,
       FlushView, FlushTip, FlushTipFails, Restart

-----------------------------------------------------------------------------
(* What the steps do to the best block of each level.                       *)
LEMMA SameBest ==
  ASSUME UNCHANGED <<dbBest, hashBlock>>
  PROVE  \A m : Best(m)' = Best(m)
BY DEF Best

\* SetBestBlock changes the answer of the top view and of no other.
LEMMA SetBestBlockBest ==
  ASSUME Topped, FInv, NEW b \in Blocks, SetBestBlock(b)
  PROVE  /\ \A m \in 0 .. depth - 1 : Best(m)' = Best(m)
         /\ Best(depth)' = b
<1> DEFINE g == hashBlock'
<1>0. /\ depth \in Levels /\ depth \in Nat /\ depth > 1 /\ MaxDepth \in Nat
      /\ hashBlock \in [Levels -> Blocks \cup {NoBlock}] /\ dbBest' = dbBest /\ depth' = depth
  BY DepthAssumption DEF FInv, CachesTyped, Levels, SetBestBlock
<1>1. /\ g \in [Levels -> Blocks \cup {NoBlock}] /\ g[depth] = b
      /\ \A k \in Levels : k # depth => g[k] = hashBlock[k]
  BY <1>0 DEF SetBestBlock
<1> HIDE DEF g
<1>2. ASSUME NEW m \in 0 .. depth - 1  PROVE Best(m)' = Best(m)
  <2>1. m \in 0 .. MaxDepth /\ \A k \in 1 .. m : g[k] = hashBlock[k]  BY <1>0, <1>1 DEF Levels
  <2>2. BestOf(g, dbBest, m) = BestOf(hashBlock, dbBest, m)  BY <1>0, <1>1, <2>1, BestFrame
  <2> QED  BY <1>0, <2>2 DEF Best, g
<1>3. Best(depth)' = b
  <2>1. BestOf(g, dbBest, depth) = IF g[depth] # NoBlock THEN g[depth] ELSE BestOf(g, dbBest, depth - 1)
    BY <1>0, <1>1, BestStep
  <2>2. BestOf(g, dbBest, depth) = b  BY <1>1, <2>1, CoinsAssumption
  <2> QED  BY <1>0, <2>2 DEF Best, g
<1> QED  BY <1>2, <1>3

\* Flushing the top view gives its base the block the top view answered with.
LEMMA FlushViewBest ==
  ASSUME Topped, FInv, FlushView
  PROVE  /\ \A m \in 0 .. depth : m # depth - 1 => Best(m)' = Best(m)
         /\ \A m \in 0 .. depth : m = depth - 1 => Best(m)' = Best(depth)
         /\ Best(depth) = hashBlock[depth]
<1> DEFINE g == hashBlock'
           b == hashBlock[depth]
<1>0. /\ depth \in Levels /\ depth \in Nat /\ depth > 1 /\ MaxDepth \in Nat /\ depth - 1 \in Levels
      /\ hashBlock \in [Levels -> Blocks \cup {NoBlock}] /\ dbBest' = dbBest /\ depth' = depth
      /\ b # NoBlock
  BY DepthAssumption DEF FInv, CachesTyped, Levels, FlushView
<1>1. /\ g \in [Levels -> Blocks \cup {NoBlock}] /\ g[depth] = b /\ g[depth - 1] = b
      /\ \A k \in Levels : k # depth - 1 => g[k] = hashBlock[k]
  BY <1>0 DEF FlushView
<1> HIDE DEF g
<1>2. ASSUME NEW m \in 0 .. depth - 2  PROVE Best(m)' = Best(m)
  <2>1. m \in 0 .. MaxDepth /\ \A k \in 1 .. m : g[k] = hashBlock[k]  BY <1>0, <1>1 DEF Levels
  <2>2. BestOf(g, dbBest, m) = BestOf(hashBlock, dbBest, m)  BY <1>0, <1>1, <2>1, BestFrame
  <2> QED  BY <1>0, <2>2 DEF Best, g
<1>3. ASSUME NEW m \in Levels, NEW h \in [Levels -> Blocks \cup {NoBlock}], h[m] = b
      PROVE  BestOf(h, dbBest, m) = b
  <2>1. BestOf(h, dbBest, m) = IF h[m] # NoBlock THEN h[m] ELSE BestOf(h, dbBest, m - 1)
    BY BestStep
  <2> QED  BY <1>0, <1>3, <2>1
<1>4. Best(depth) = b  BY <1>0, <1>3 DEF Best
<1>5. ASSUME NEW m \in Levels, m = depth \/ m = depth - 1  PROVE Best(m)' = b
  <2>1. BestOf(g, dbBest, m) = b  BY <1>1, <1>3, <1>5
  <2> QED  BY <1>0, <2>1 DEF Best, g
<1>6. ASSUME NEW m \in 0 .. depth, m # depth - 1  PROVE Best(m)' = Best(m)
  <2>1. CASE m = depth  BY <1>0, <1>4, <1>5, <2>1
  <2>2. CASE m # depth
    <3>1. m \in 0 .. depth - 2  BY <1>0, <1>6, <2>2
    <3> QED  BY <1>2, <3>1
  <2> QED  BY <2>1, <2>2
<1>7. ASSUME NEW m \in 0 .. depth, m = depth - 1  PROVE Best(m)' = Best(depth)
  BY <1>0, <1>4, <1>5, <1>7
<1> QED  BY <1>4, <1>6, <1>7

\* Dropping the top view leaves the best block of every other view alone.
LEMMA DestroyBest ==
  ASSUME Topped, FInv, Destroy  PROVE \A m \in 0 .. depth - 1 : Best(m)' = Best(m)
<1> DEFINE g == hashBlock'
<1>0. /\ depth \in Levels /\ depth \in Nat /\ MaxDepth \in Nat
      /\ hashBlock \in [Levels -> Blocks \cup {NoBlock}] /\ dbBest' = dbBest
  BY DepthAssumption DEF FInv, CachesTyped, Levels, Destroy
<1>1. /\ g \in [Levels -> Blocks \cup {NoBlock}]
      /\ \A k \in Levels : k # depth => g[k] = hashBlock[k]
  BY <1>0 DEF Destroy
<1> HIDE DEF g
<1>2. ASSUME NEW m \in 0 .. depth - 1  PROVE Best(m)' = Best(m)
  <2>1. m \in 0 .. MaxDepth /\ \A k \in 1 .. m : g[k] = hashBlock[k]  BY <1>0, <1>1 DEF Levels
  <2>2. BestOf(g, dbBest, m) = BestOf(hashBlock, dbBest, m)  BY <1>0, <1>1, <2>1, BestFrame
  <2> QED  BY <1>0, <2>2 DEF Best, g
<1> QED  BY <1>2

(* The best block of pcoinsTip is its own hash, or the database's.          *)
LEMMA BestOne ==
  ASSUME Topped, NEW h \in [Levels -> Blocks \cup {NoBlock}], NEW d
  PROVE  BestOf(h, d, 1) = IF h[1] # NoBlock THEN h[1] ELSE d
<1>1. 1 \in Levels /\ 0 \in 0 .. MaxDepth  BY DepthAssumption DEF Levels
<1>2. BestOf(h, d, 1) = IF h[1] # NoBlock THEN h[1] ELSE BestOf(h, d, 1 - 1)  BY <1>1, BestStep
<1>3. BestSource(h, 0) = 0  BY <1>1, BestSourceUnique
<1> QED  BY <1>2, <1>3 DEF BestOf

(* After its flush, pcoinsTip shows what it showed and the database shows   *)
(* the same; after a restart pcoinsTip shows what the database has.         *)
LEMMA FlushTipViews ==
  ASSUME Topped, FInv, FInv', FlushTip
  PROVE  /\ \A u \in Txids : db'[u] = Read(1, u) /\ Read(1, u)' = db'[u]
         /\ dbBest' = Best(1) /\ Best(1)' = Best(1)
<1>0. 1 \in 0 .. MaxDepth  BY DepthAssumption
<1>1. /\ \A k \in Levels : cache'[k] = Empty
      /\ \A u \in Txids : db'[u] = Read(1, u)
  BY FlushTipOK
<1>2. dbBest' = Best(1) /\ Best(1)' = Best(1)
  <2>1. /\ hashBlock \in [Levels -> Blocks \cup {NoBlock}] /\ hashBlock' = hashBlock
        /\ dbBest' = IF hashBlock[1] # NoBlock THEN hashBlock[1] ELSE dbBest
    BY DEF FInv, CachesTyped, FlushTip, BatchWrite
  <2>2. Best(1) = IF hashBlock[1] # NoBlock THEN hashBlock[1] ELSE dbBest
    BY <2>1, BestOne DEF Best
  <2> DEFINE d == dbBest'
  <2>3. BestOf(hashBlock, d, 1) = IF hashBlock[1] # NoBlock THEN hashBlock[1] ELSE d
    <3> HIDE DEF d
    <3> QED  BY <2>1, BestOne
  <2> QED  BY <2>1, <2>2, <2>3 DEF Best
<1>3. \A u \in Txids : Read(1, u)' = db'[u]
  <2> DEFINE c == cache'  d == db'
  <2>1. c \in [Levels -> [Txids -> Entry \cup {NoEntry}]]  BY DEF FInv, CachesTyped
  <2>2. \A k \in Levels : c[k] = Empty  BY <1>1
  <2> HIDE DEF c, d
  <2>3. \A u \in Txids : ReadOf(c, d, 1, u) = d[u]  BY <1>0, <2>1, <2>2, EmptyReads
  <2> QED  BY <2>3 DEF Read, c, d
<1> QED  BY <1>1, <1>2, <1>3

\* After a restart the tip cache shows what the database holds.
LEMMA RestartViews ==
  ASSUME Topped, FInv, FInv', Restart
  PROVE  /\ UNCHANGED <<db, dbBest>> /\ Best(1)' = dbBest
         /\ \A u \in Txids : Read(1, u)' = db[u]
<1>0. 1 \in 0 .. MaxDepth /\ 1 \in Levels  BY DepthAssumption DEF Levels
<1>1. /\ UNCHANGED <<db, dbBest>> /\ \A k \in Levels : cache'[k] = Empty
      /\ hashBlock' = [l \in Levels |-> NoBlock]
  BY DEF Restart
<1>2. \A u \in Txids : Read(1, u)' = db[u]
  <2> DEFINE c == cache'
  <2>1. c \in [Levels -> [Txids -> Entry \cup {NoEntry}]]  BY DEF FInv, CachesTyped
  <2>2. \A k \in Levels : c[k] = Empty  BY <1>1
  <2> HIDE DEF c
  <2>3. \A u \in Txids : ReadOf(c, db, 1, u) = db[u]  BY <1>0, <2>1, <2>2, EmptyReads
  <2> QED  BY <1>1, <2>3 DEF Read, c
<1>3. Best(1)' = dbBest
  <2> DEFINE h == hashBlock'
  <2>1. h \in [Levels -> Blocks \cup {NoBlock}] /\ h[1] = NoBlock  BY <1>0, <1>1
  <2> HIDE DEF h
  <2>2. BestOf(h, dbBest, 1) = dbBest  BY <2>1, BestOne
  <2> QED  BY <1>1, <2>2 DEF Best, h
<1> QED  BY <1>1, <1>2, <1>3

-----------------------------------------------------------------------------
(* While writes succeed, pcoinsTip too has the coins of its best block.     *)
RInv == FInv /\ DbSurvivesFailure /\ \A t \in Txids : Read(1, t) = CoinsAt[Best(1)][t]

\* The invariant that ties the database to its block holds initially.
LEMMA RInitOK == ASSUME Topped, Init PROVE RInv
<1>1. FInv  BY InitOK
<1>2. DbSurvivesFailure  BY DEF Init, DbSurvivesFailure
<1>3. \A t \in Txids : Read(1, t) = db[t]
  <2>1. /\ cache \in [Levels -> [Txids -> Entry \cup {NoEntry}]] /\ 1 \in 0 .. MaxDepth
        /\ \A k \in Levels : cache[k] = Empty
    BY <1>1, DepthAssumption DEF FInv, CachesTyped, Init
  <2> QED  BY <2>1, EmptyReads DEF Read
<1>4. Best(1) = dbBest
  <2>1. 1 \in Levels /\ hashBlock[1] = NoBlock  BY DepthAssumption DEF Init, Levels
  <2> QED  BY <1>1, <2>1, BestOne DEF FInv, CachesTyped, Best
<1> QED  BY <1>1, <1>2, <1>3, <1>4 DEF RInv, DbSurvivesFailure

\* Every step but a failing write preserves the invariant that ties the database to its block.
LEMMA RNextOK == ASSUME Topped, ~FlushTipFails, RInv, [Next]_vars PROVE RInv'
<1>0. /\ FInv /\ FInv' /\ depth \in Levels /\ depth \in Nat /\ depth >= 1 /\ MaxDepth \in Nat /\ MaxDepth >= 1
      /\ 1 \in 0 .. MaxDepth /\ 1 \in 0 .. depth /\ (depth > 1 => 1 \in 0 .. depth - 1)
  <2>1. FInv  BY DEF RInv
  <2>2. FInv'  BY <2>1, NextOK
  <2>3. depth \in Levels  BY <2>1, ZenonT(60) DEF FInv, CachesTyped
  <2> QED  BY <2>1, <2>2, <2>3, DepthAssumption DEF Levels
<1>1. ASSUME UNCHANGED <<db, dbBest>>, \A t \in Txids : Read(1, t)' = Read(1, t), Best(1)' = Best(1)
      PROVE  RInv'
  BY <1>0, <1>1 DEF RInv, DbSurvivesFailure
<1>2. CASE Construct
  BY <1>0, <1>1, <1>2, ConstructOK, SameBest DEF Construct
<1>3. CASE Destroy
  <2>1. UNCHANGED <<db, dbBest>> /\ 1 \in 0 .. depth - 1  BY <1>0, <1>3 DEF Destroy
  <2> QED  BY <1>0, <1>1, <1>3, <2>1, DestroyOK, DestroyBest
<1>4. ASSUME NEW t \in Txids, NEW l \in Levels, AccessCoins(l, t)  PROVE RInv'
  <2>1. UNCHANGED <<db, dbBest, hashBlock>>  BY <1>4 DEF AccessCoins
  <2> QED  BY <1>0, <1>1, <1>4, <2>1, AccessCoinsOK, SameBest
<1>5. ASSUME NEW t \in Txids, ModifyCoins(t)  PROVE RInv'
  <2>1. UNCHANGED <<db, dbBest, hashBlock>>  BY <1>5 DEF ModifyCoins
  <2> QED  BY <1>0, <1>1, <1>5, <2>1, ModifyCoinsOK, SameBest
<1>6. ASSUME NEW c \in Coins, EndModify(c)  PROVE RInv'
  <2>1. PICK t \in Txids : modifier = t  BY <1>0, <1>6 DEF EndModify, FInv, CachesTyped
  <2>2. UNCHANGED <<db, dbBest, hashBlock>> /\ depth > 1
    BY <1>0, <1>6 DEF EndModify, FInv, FlagsRight
  <2>3. \A m \in 0 .. depth - 1, u \in Txids : Read(m, u)' = Read(m, u)
    BY <1>0, <1>6, <2>1, EndModifyOK
  <2> QED  BY <1>0, <1>1, <2>2, <2>3, SameBest
<1>7. ASSUME NEW l \in Levels, GetBestBlock(l)  PROVE RInv'
  <2>1. CachesTyped /\ UNCHANGED <<db, dbBest, depth, cache, modifier>>  BY <1>0, <1>7 DEF FInv, GetBestBlock
  <2>2. Best(1)' = Best(1)  BY <1>0, <1>7, <2>1, GetBestBlockOK
  <2>3. \A t \in Txids : Read(1, t)' = Read(1, t)  BY <2>1 DEF Read
  <2> QED  BY <1>1, <2>1, <2>2, <2>3
<1>8. ASSUME NEW b \in Blocks, SetBestBlock(b)  PROVE RInv'
  <2>1. UNCHANGED <<db, dbBest, depth, cache, modifier>> /\ depth > 1  BY <1>8 DEF SetBestBlock
  <2>2. Best(1)' = Best(1)  BY <1>0, <1>8, <2>1, SetBestBlockBest
  <2>3. \A t \in Txids : Read(1, t)' = Read(1, t)  BY <2>1 DEF Read
  <2> QED  BY <1>1, <2>1, <2>2, <2>3
<1>9. CASE FlushView
  <2>1. /\ UNCHANGED <<db, dbBest>> /\ depth > 1
        /\ \A t \in Txids : Read(depth, t) = CoinsAt[hashBlock[depth]][t]
    BY <1>9 DEF FlushView, Complete
  <2>2. CASE depth = 2
    <3>1. 1 = depth - 1  BY <2>2
    <3>2. Best(1)' = Best(depth)  BY <1>0, <1>9, <3>1, FlushViewBest
    <3>3. Best(depth) = hashBlock[depth]  BY <1>0, <1>9, FlushViewBest
    <3>4. \A t \in Txids : Read(1, t)' = Read(depth, t)  BY <1>0, <1>9, <3>1, FlushViewOK
    <3>5. \A t \in Txids : Read(1, t)' = CoinsAt[Best(1)'][t]  BY <2>1, <3>2, <3>3, <3>4
    <3>6. DbSurvivesFailure'  BY <2>1 DEF RInv, DbSurvivesFailure
    <3> QED  BY <1>0, <3>5, <3>6 DEF RInv
  <2>3. CASE depth # 2
    <3>1. 1 # depth - 1  BY <1>0, <2>3
    <3>2. Best(1)' = Best(1)  BY <1>0, <1>9, <3>1, FlushViewBest
    <3>3. \A t \in Txids : Read(1, t)' = Read(1, t)  BY <1>0, <1>9, <3>1, FlushViewOK
    <3> QED  BY <1>1, <2>1, <3>2, <3>3
  <2> QED  BY <2>2, <2>3
<1>10. CASE FlushTip
  <2>1. /\ \A u \in Txids : db'[u] = Read(1, u) /\ Read(1, u)' = db'[u]
        /\ dbBest' = Best(1) /\ Best(1)' = Best(1)
    BY <1>0, <1>10, FlushTipViews
  <2>2. \A t \in Txids : Read(1, t) = CoinsAt[Best(1)][t]  BY DEF RInv
  <2>3. DbSurvivesFailure'  BY <2>1, <2>2 DEF DbSurvivesFailure
  <2> QED  BY <1>0, <2>1, <2>2, <2>3 DEF RInv
<1>11. CASE FlushTipFails  BY <1>11
<1>12. CASE Restart
  <2>1. /\ UNCHANGED <<db, dbBest>> /\ Best(1)' = dbBest
        /\ \A u \in Txids : Read(1, u)' = db[u]
    BY <1>0, <1>12, RestartViews
  <2>2. DbSurvivesFailure'  BY <2>1 DEF RInv, DbSurvivesFailure
  <2> QED  BY <1>0, <2>1, <2>2 DEF RInv, DbSurvivesFailure
<1>13. CASE UNCHANGED vars
  <2>1. UNCHANGED <<db, dbBest, hashBlock, cache>>  BY <1>13 DEF vars
  <2>2. \A t \in Txids : Read(1, t)' = Read(1, t)  BY <2>1 DEF Read
  <2> QED  BY <1>1, <2>1, <2>2, SameBest
<1> QED
  BY <1>2, <1>3, <1>4, <1>5, <1>6, <1>7, <1>8, <1>9, <1>10, <1>11, <1>12, <1>13 DEF Next

(* Nothing is claimed of the database once a write has failed.              *)
DInv == FInv /\ (failed # FALSE \/ RInv)

\* Every step preserves the invariant with its exception.
LEMMA DNextOK == ASSUME Topped, DInv, [Next]_vars PROVE DInv'
<1>1. FInv'  BY NextOK DEF DInv
<1>2. CASE FlushTipFails
  <2>1. failed' # FALSE  BY <1>2, FailedStep, Zenon
  <2> QED  BY <1>1, <2>1, Zenon DEF DInv
<1>3. CASE ~FlushTipFails
  <2>1. failed' = failed  BY <1>3, FailedStep
  <2>2. CASE failed # FALSE  BY <1>1, <2>1, <2>2, Zenon DEF DInv
  <2>3. CASE RInv  BY <1>1, <1>3, <2>3, RNextOK, Zenon DEF DInv
  <2> QED  BY <2>2, <2>3, Zenon DEF DInv
<1> QED  BY <1>2, <1>3

-----------------------------------------------------------------------------
(* The view that level l shows, as the refinement mapping reads it.         *)
Shown(l) == [coins |-> [t \in Txids |-> Read(l, t)], best |-> Best(l)]

\* What a view shows is determined by its coins and its best block.
LEMMA ShownSame ==
  ASSUME NEW l, NEW v,
         v = [coins |-> [t \in Txids |-> v.coins[t]], best |-> v.best],
         \A t \in Txids : Read(l, t)' = v.coins[t], Best(l)' = v.best
  PROVE  Shown(l)' = v
<1>1. [t \in Txids |-> Read(l, t)'] = [t \in Txids |-> v.coins[t]]  OBVIOUS
<1>2. Shown(l)' = [coins |-> [t \in Txids |-> Read(l, t)'], best |-> Best(l)']  BY DEF Shown
<1> QED  BY <1>1, <1>2

\* What a view shows is a record of coins and best block.
LEMMA ShownShape ==
  ASSUME NEW l
  PROVE  /\ Shown(l) = [coins |-> [t \in Txids |-> Shown(l).coins[t]], best |-> Shown(l).best]
         /\ Shown(l).best = Best(l) /\ \A t \in Txids : Shown(l).coins[t] = Read(l, t)
BY DEF Shown

(* A level whose answers do not change shows the same view.                 *)
LEMMA ShownKept ==
  ASSUME NEW l, NEW m, \A t \in Txids : Read(l, t)' = Read(m, t), Best(l)' = Best(m)
  PROVE  Shown(l)' = Shown(m)
<1> DEFINE v == Shown(m)
<1>1. /\ v = [coins |-> [t \in Txids |-> v.coins[t]], best |-> v.best]
      /\ v.best = Best(m) /\ \A t \in Txids : v.coins[t] = Read(m, t)
  BY ShownShape
<1> HIDE DEF v
<1>2. (\A t \in Txids : Read(l, t)' = v.coins[t]) /\ Best(l)' = v.best  BY <1>1
<1>3. Shown(l)' = v  BY <1>1, <1>2, ShownSame
<1> QED  BY <1>3 DEF v

\* What a view shows has the type of the abstract view.
LEMMA ShownType ==
  ASSUME Topped, CachesTyped, NEW l \in 0 .. MaxDepth
  PROVE  Shown(l) \in Abs!View
<1>1. \A t \in Txids : Read(l, t) \in Coins  BY ReadType DEF CachesTyped, Read
<1>2. Best(l) \in Blocks  BY BestType DEF CachesTyped, Best
<1> QED  BY <1>1, <1>2 DEF Shown, Abs!View

(* Steps that change the answers of no level are stuttering steps.          *)
LEMMA Stutters ==
  ASSUME CachesTyped, UNCHANGED <<db, dbBest, depth>>,
         \A l \in 1 .. depth : (\A t \in Txids : Read(l, t)' = Read(l, t)) /\ Best(l)' = Best(l)
  PROVE  UNCHANGED Abs!avars
<1>1. \A l \in 1 .. depth : Shown(l)' = Shown(l)
  <2> TAKE l \in 1 .. depth
  <2> QED  BY ShownKept
<1>2. [l \in 1 .. depth |-> Shown(l)'] = [l \in 1 .. depth |-> Shown(l)]  BY <1>1, Zenon
<1> QED  BY <1>2 DEF Abs!avars, Shown

(* Steps that change one transaction, or the best block, of the top view.   *)
LEMMA Changes ==
  ASSUME Topped, CachesTyped, CachesTyped', UNCHANGED <<db, dbBest, depth>>,
         \A l \in 1 .. depth - 1 : (\A t \in Txids : Read(l, t)' = Read(l, t)) /\ Best(l)' = Best(l),
         \/ \A t \in Txids : Read(depth, t)' = Read(depth, t)
         \/ Best(depth)' = Best(depth) /\
            \E t \in Txids : \A u \in Txids \ {t} : Read(depth, u)' = Read(depth, u)
  PROVE  Abs!Change
<1> DEFINE v == Shown(depth)'
<1>0. depth \in Nat /\ depth \in 0 .. MaxDepth /\ depth >= 1  BY DepthAssumption DEF CachesTyped, Levels
<1>1. v \in Abs!View
  <2> DEFINE d == depth
  <2>1. (\A t \in Txids : Read(depth, t)' \in Coins) /\ Best(depth)' \in Blocks
    <3> DEFINE c == cache'  h == hashBlock'  f == db'  g == depth'  b == dbBest'
    <3>1. /\ c \in [Levels -> [Txids -> Entry \cup {NoEntry}]] /\ f \in [Txids -> Coins]
          /\ h \in [Levels -> Blocks \cup {NoBlock}] /\ b \in Blocks /\ g \in 0 .. MaxDepth
      BY <1>0 DEF CachesTyped
    <3> HIDE DEF c, f, g, h, b
    <3>2. (\A t \in Txids : ReadOf(c, f, g, t) \in Coins) /\ BestOf(h, b, g) \in Blocks
      BY <3>1, ReadType, BestType
    <3> QED  BY <3>2 DEF c, f, g, h, b, Read, Best
  <2>2. v = [coins |-> [t \in Txids |-> Read(depth, t)'], best |-> Best(depth)']  BY DEF Shown
  <2> HIDE DEF v
  <2> QED  BY <2>1, <2>2 DEF Abs!View
<1>2. v.best = Best(depth)' /\ \A t \in Txids : v.coins[t] = Read(depth, t)'  BY DEF Shown
<1>3. Shown(depth).best = Best(depth) /\ \A t \in Txids : Shown(depth).coins[t] = Read(depth, t)  BY ZenonT(60) DEF Shown
<1>4. \/ v.coins = Shown(depth).coins
      \/ v.best = Shown(depth).best /\
         \E t \in Txids : \A u \in Txids \ {t} : v.coins[u] = Shown(depth).coins[u]
  <2>1. CASE \A t \in Txids : Read(depth, t)' = Read(depth, t)
    <3>1. [t \in Txids |-> Read(depth, t)'] = [t \in Txids |-> Read(depth, t)]  BY <2>1
    <3>2. v.coins = [t \in Txids |-> Read(depth, t)']  BY DEF Shown
    <3>3. Shown(depth).coins = [t \in Txids |-> Read(depth, t)]  BY DEF Shown
    <3> QED  BY <3>1, <3>2, <3>3, Zenon
  <2>2. CASE Best(depth)' = Best(depth) /\
             \E t \in Txids : \A u \in Txids \ {t} : Read(depth, u)' = Read(depth, u)
    <3> HIDE DEF v
    <3>1. PICK t \in Txids : \A u \in Txids \ {t} : Read(depth, u)' = Read(depth, u)
      BY <2>2
    <3>2. \A u \in Txids \ {t} : v.coins[u] = Shown(depth).coins[u]
      BY <1>2, <1>3, <3>1, ZenonT(60)
    <3>3. v.best = Shown(depth).best
      BY <1>2, <1>3, <2>2
    <3> QED  BY <3>2, <3>3
  <2> QED  BY <2>1, <2>2
<1>5. \A l \in 1 .. depth - 1 : Shown(l)' = Shown(l)
  <2> TAKE l \in 1 .. depth - 1
  <2> QED  BY ShownKept
<1> DEFINE V == [l \in 1 .. depth |-> Shown(l)]
<1>6. [l \in 1 .. depth |-> Shown(l)]' = [V EXCEPT ![depth] = v]
  <2>1. [l \in 1 .. depth |-> Shown(l)]' = [l \in 1 .. depth |-> Shown(l)']  OBVIOUS
  <2>2. ASSUME NEW l \in 1 .. depth  PROVE Shown(l)' = [V EXCEPT ![depth] = v][l]
    <3>1. CASE l = depth  BY <1>0, <3>1
    <3>2. CASE l # depth
      <4>1. l \in 1 .. depth - 1  BY <1>0, <3>2
      <4>2. [V EXCEPT ![depth] = v][l] = Shown(l)  BY <3>2
      <4> QED  BY <1>5, <4>1, <4>2
    <3> QED  BY <3>1, <3>2
  <2> QED  BY <2>1, <2>2, Zenon
<1>7. V[depth] = Shown(depth)  BY <1>0
<1>8. \E w \in Abs!View :
        /\ \/ w.coins = V[depth].coins
           \/ w.best = V[depth].best /\
              \E t \in Txids : \A u \in Txids \ {t} : w.coins[u] = V[depth].coins[u]
        /\ [l \in 1 .. depth |-> Shown(l)]' = [V EXCEPT ![depth] = w]
  <2>1. \/ v.coins = V[depth].coins
        \/ v.best = V[depth].best /\
           \E t \in Txids : \A u \in Txids \ {t} : v.coins[u] = V[depth].coins[u]
    <3> HIDE DEF V, v
    <3> QED  BY <1>4, <1>7
  <2> HIDE DEF V, v
  <2> QED  BY <1>1, <1>6, <2>1, ZenonT(60)
<1> QED  BY <1>8, ZenonT(60) DEF Abs!Change, Shown

-----------------------------------------------------------------------------
(* Initial states map to initial states.                                    *)
LEMMA AbsInit == ASSUME Topped, Init PROVE Abs!AInit
<1>1. FInv /\ CachesTyped  BY InitOK DEF FInv
<1>2. depth = 1 /\ 1 \in Levels  BY DepthAssumption DEF Init, Levels
<1>3. ASSUME NEW t \in Txids  PROVE Read(1, t) = db[t]
  <2>1. /\ cache \in [Levels -> [Txids -> Entry \cup {NoEntry}]] /\ 1 \in 0 .. MaxDepth
        /\ \A k \in Levels : cache[k] = Empty
    BY <1>1, DepthAssumption DEF CachesTyped, Init
  <2> QED  BY <2>1, EmptyReads DEF Read
<1>4. Best(1) = dbBest
  <2>1. hashBlock[1] = NoBlock  BY <1>2 DEF Init
  <2> QED  BY <1>1, <2>1, BestOne DEF CachesTyped, Best
<1>5. Shown(1) = [coins |-> db, best |-> dbBest]
  <2>1. [t \in Txids |-> Read(1, t)] = db  BY <1>1, <1>3 DEF CachesTyped
  <2> QED  BY <1>4, <2>1 DEF Shown
<1>6. [coins |-> db, best |-> dbBest] \in Abs!View  BY <1>1 DEF CachesTyped, Abs!View
<1>7. [l \in 1 .. depth |-> Shown(l)] = [l \in 1 .. 1 |-> [coins |-> db, best |-> dbBest]]
  <2>1. \A l \in 1 .. 1 : Shown(l) = [coins |-> db, best |-> dbBest]
    <3> TAKE l \in 1 .. 1
    <3>1. l = 1  OBVIOUS
    <3> QED  BY <1>5, <3>1
  <2> QED  BY <1>2, <2>1
<1> QED  BY <1>2, <1>6, <1>7 DEF Abs!AInit, Shown

(* A new cache opens a view.                                                *)
LEMMA AbsOpen == ASSUME Topped, FInv, Construct PROVE Abs!Open
<1>0. /\ depth \in Nat /\ depth >= 1 /\ depth + 1 \in Levels /\ depth < MaxDepth /\ depth' = depth + 1
      /\ UNCHANGED <<db, dbBest, cache, hashBlock>> /\ MaxDepth \in Nat
      /\ cache \in [Levels -> [Txids -> Entry \cup {NoEntry}]]
      /\ hashBlock \in [Levels -> Blocks \cup {NoBlock}]
  BY DepthAssumption DEF FInv, CachesTyped, Levels, Construct
<1>1. \A m \in 0 .. MaxDepth : (\A u \in Txids : Read(m, u)' = Read(m, u)) /\ Best(m)' = Best(m)
  BY <1>0, ConstructOK, SameBest
<1> DEFINE d == depth + 1
<1>2. (\A u \in Txids : Read(d, u) = Read(depth, u)) /\ Best(d) = Best(depth)
  <2>1. cache[d] = Empty /\ hashBlock[d] = NoBlock /\ d - 1 = depth
    BY <1>0 DEF FInv, CachesTyped
  <2> HIDE DEF d
  <2>2. \A u \in Txids : cache[d][u] = NoEntry  BY <2>1 DEF Empty
  <2>3. \A u \in Txids : ReadOf(cache, db, d, u) = ReadOf(cache, db, d - 1, u)
    BY <1>0, <2>2, ReadStep, Zenon DEF d
  <2>4. BestOf(hashBlock, dbBest, d) = BestOf(hashBlock, dbBest, d - 1)
    BY <1>0, <2>1, BestStep, Zenon DEF d
  <2> QED  BY <2>1, <2>3, <2>4 DEF Read, Best
<1>3. \A l \in 1 .. depth : Shown(l)' = Shown(l)
  <2> TAKE l \in 1 .. depth
  <2>1. l \in 0 .. MaxDepth  BY <1>0
  <2> QED  BY <1>1, <2>1, ShownKept
<1>4. ASSUME NEW l \in 1 .. depth + 1, l = depth + 1  PROVE Shown(l)' = Shown(depth)
  <2>1. l \in 0 .. MaxDepth  BY <1>0
  <2>2. (\A u \in Txids : Read(l, u)' = Read(l, u)) /\ Best(l)' = Best(l)  BY <1>1, <2>1
  <2>3. (\A u \in Txids : Read(l, u)' = Read(depth, u)) /\ Best(l)' = Best(depth)  BY <1>2, <1>4, <2>2
  <2> QED  BY <2>3, ShownKept
<1> DEFINE V == [l \in 1 .. depth |-> Shown(l)]
<1>5. [l \in 1 .. depth |-> Shown(l)]' = [l \in 1 .. depth + 1 |-> IF l = depth + 1 THEN V[depth] ELSE V[l]]
  <2>1. V[depth] = Shown(depth) /\ \A l \in 1 .. depth : V[l] = Shown(l)  BY <1>0
  <2>2. [l \in 1 .. depth |-> Shown(l)]' = [l \in 1 .. depth + 1 |-> Shown(l)']  BY <1>0
  <2> HIDE DEF V
  <2>3. ASSUME NEW l \in 1 .. depth + 1  PROVE Shown(l)' = IF l = depth + 1 THEN V[depth] ELSE V[l]
    <3>1. CASE l = depth + 1  BY <1>4, <2>1, <3>1
    <3>2. CASE l # depth + 1
      <4>1. l \in 1 .. depth  BY <1>0, <3>2
      <4> QED  BY <1>3, <2>1, <3>2, <4>1
    <3> QED  BY <3>1, <3>2
  <2> QED  BY <2>2, <2>3, Zenon
<1> QED  BY <1>0, <1>5, Zenon DEF Abs!Open, Shown

(* Destroying the top cache forgets its view.                               *)
LEMMA AbsForget == ASSUME Topped, FInv, Destroy PROVE Abs!Forget
<1>0. /\ depth \in Nat /\ depth > 1 /\ depth' = depth - 1 /\ UNCHANGED <<db, dbBest>>
  BY DepthAssumption DEF FInv, CachesTyped, Levels, Destroy
<1>1. \A l \in 1 .. depth - 1 : Shown(l)' = Shown(l)
  <2> TAKE l \in 1 .. depth - 1
  <2>1. l \in 0 .. depth - 1  BY <1>0
  <2> QED  BY <2>1, DestroyOK, DestroyBest, ShownKept
<1> DEFINE V == [l \in 1 .. depth |-> Shown(l)]
<1>2. [l \in 1 .. depth |-> Shown(l)]' = [l \in 1 .. depth - 1 |-> V[l]]
  <2>1. \A l \in 1 .. depth - 1 : V[l] = Shown(l)  BY <1>0
  <2>2. [l \in 1 .. depth |-> Shown(l)]' = [l \in 1 .. depth - 1 |-> Shown(l)']  BY <1>0
  <2> HIDE DEF V
  <2> QED  BY <1>1, <2>1, <2>2, Zenon
<1> QED  BY <1>0, <1>2, ZenonT(60) DEF Abs!Forget, Shown

(* Flushing the top cache into the one below commits its view.              *)
LEMMA AbsCommitView == ASSUME Topped, FInv, FlushView PROVE Abs!Commit
<1>0. /\ depth \in Nat /\ depth > 1 /\ depth' = depth /\ UNCHANGED <<db, dbBest>>
  BY DepthAssumption DEF FInv, CachesTyped, Levels, FlushView
<1>1. ASSUME NEW l \in 1 .. depth, l # depth - 1  PROVE Shown(l)' = Shown(l)
  <2>1. l \in 0 .. depth  BY <1>0
  <2> QED  BY <1>1, <2>1, FlushViewOK, FlushViewBest, ShownKept
<1>2. ASSUME NEW l \in 1 .. depth, l = depth - 1  PROVE Shown(l)' = Shown(depth)
  <2>1. l \in 0 .. depth  BY <1>0
  <2>2. (\A u \in Txids : Read(l, u)' = Read(depth, u)) /\ Best(l)' = Best(depth)
    BY <1>2, <2>1, FlushViewOK, FlushViewBest
  <2> QED  BY <2>2, ShownKept
<1> DEFINE V == [l \in 1 .. depth |-> Shown(l)]
<1>3. [l \in 1 .. depth |-> Shown(l)]' = [V EXCEPT ![depth - 1] = V[depth]]
  <2>1. V[depth] = Shown(depth) /\ (\A l \in 1 .. depth : V[l] = Shown(l)) /\ DOMAIN V = 1 .. depth
        /\ V = [l \in 1 .. depth |-> V[l]]
    BY <1>0
  <2>2. [l \in 1 .. depth |-> Shown(l)]' = [l \in 1 .. depth |-> Shown(l)']  BY <1>0
  <2> HIDE DEF V
  <2>3. ASSUME NEW l \in 1 .. depth  PROVE Shown(l)' = [V EXCEPT ![depth - 1] = V[depth]][l]
    <3>1. CASE l = depth - 1
      <4>1. Shown(l)' = V[depth]  BY <1>2, <2>1, <3>1
      <4> QED  BY <2>1, <3>1, <4>1
    <3>2. CASE l # depth - 1
      <4>1. Shown(l)' = V[l]  BY <1>1, <2>1, <3>2
      <4> QED  BY <2>1, <3>2, <4>1
    <3> QED  BY <3>1, <3>2
  <2> QED  BY <2>1, <2>2, <2>3, Zenon
<1>4. [l \in 1 .. depth |-> [coins |-> [t \in Txids |-> Read(l, t)], best |-> Best(l)]]'
      = [[l \in 1 .. depth |-> [coins |-> [t \in Txids |-> Read(l, t)], best |-> Best(l)]]
           EXCEPT ![depth - 1] =
             [l \in 1 .. depth |-> [coins |-> [t \in Txids |-> Read(l, t)], best |-> Best(l)]][depth]]
  BY <1>3, Zenon DEF Shown
<1>5. depth # 1 /\ UNCHANGED <<db, dbBest, depth>>  BY <1>0
<1> HIDE DEF V
<1> QED  BY <1>4, <1>5, ZenonT(60) DEF Abs!Commit

(* Flushing pcoinsTip commits the view of the bottom cache to the database. *)
LEMMA AbsCommitTip == ASSUME Topped, FInv, FInv', FlushTip PROVE Abs!Commit
<1>0. depth = 1 /\ depth' = 1  BY DEF FlushTip
<1>1. /\ \A u \in Txids : db'[u] = Read(1, u) /\ Read(1, u)' = db'[u]
      /\ dbBest' = Best(1) /\ Best(1)' = Best(1)
  BY FlushTipViews
<1>2. Shown(1)' = Shown(1)  BY <1>1, ShownKept
<1>3. [coins |-> db', best |-> dbBest'] = Shown(1)
  <2>1. db' = [u \in Txids |-> Read(1, u)]  BY <1>1 DEF FInv, CachesTyped
  <2> QED  BY <1>1, <2>1 DEF Shown
<1> DEFINE V == [l \in 1 .. depth |-> Shown(l)]
<1>4. V[1] = Shown(1)  BY <1>0
<1>5. [l \in 1 .. depth |-> Shown(l)]' = V
  <2>1. [l \in 1 .. depth |-> Shown(l)]' = [l \in 1 .. 1 |-> Shown(l)']  BY <1>0
  <2>2. \A l \in 1 .. 1 : Shown(l)' = Shown(l)
    <3> TAKE l \in 1 .. 1
    <3>1. l = 1  OBVIOUS
    <3> QED  BY <1>2, <3>1
  <2> QED  BY <1>0, <2>1, <2>2
<1> QED  BY <1>0, <1>3, <1>4, <1>5, Zenon DEF Abs!Commit, Shown

(* A restart is a crash of the stack of views.                              *)
LEMMA AbsCrash == ASSUME Topped, FInv, FInv', Restart PROVE Abs!Crash
<1>0. depth' = 1  BY DEF Restart
<1>1. /\ UNCHANGED <<db, dbBest>> /\ Best(1)' = dbBest
      /\ \A u \in Txids : Read(1, u)' = db[u]
  BY RestartViews
<1> DEFINE v == [coins |-> db, best |-> dbBest]
<1>2. Shown(1)' = v
  <2>1. v = [coins |-> [t \in Txids |-> v.coins[t]], best |-> v.best]
    <3>1. db = [t \in Txids |-> db[t]]  BY DEF FInv, CachesTyped
    <3> QED  BY <3>1
  <2>2. (\A t \in Txids : Read(1, t)' = v.coins[t]) /\ Best(1)' = v.best  BY <1>1
  <2> HIDE DEF v
  <2> QED  BY <2>1, <2>2, ShownSame
<1>3. [l \in 1 .. depth |-> Shown(l)]' = [l \in 1 .. 1 |-> v]
  <2>1. [l \in 1 .. depth |-> Shown(l)]' = [l \in 1 .. 1 |-> Shown(l)']  BY <1>0
  <2>2. \A l \in 1 .. 1 : Shown(l)' = v
    <3> TAKE l \in 1 .. 1
    <3>1. l = 1  OBVIOUS
    <3> QED  BY <1>2, <3>1
  <2> HIDE DEF v
  <2> QED  BY <2>1, <2>2
<1> QED  BY <1>0, <1>1, <1>3 DEF Abs!Crash, Shown

(* A failed write loses the coins of the tip's view.                        *)
LEMMA AbsLose == ASSUME Topped, FInv, FInv', FlushTipFails PROVE Abs!Lose
<1>0. depth = 1 /\ depth' = 1 /\ UNCHANGED <<db, dbBest, hashBlock>>  BY DEF FlushTipFails
<1>1. \A u \in Txids : Read(1, u)' = db[u]
  <2> DEFINE c == cache'
  <2>1. /\ c \in [Levels -> [Txids -> Entry \cup {NoEntry}]] /\ 1 \in 0 .. MaxDepth
        /\ \A k \in Levels : c[k] = Empty
    BY <1>0, DepthAssumption DEF FInv, CachesTyped, FlushTipFails, Levels
  <2> HIDE DEF c
  <2>2. \A u \in Txids : ReadOf(c, db, 1, u) = db[u]  BY <2>1, EmptyReads
  <2> QED  BY <1>0, <2>2 DEF Read, c
<1>2. Best(1)' = Best(1)  BY <1>0, SameBest
<1> DEFINE v == [coins |-> db, best |-> Best(1)]
<1>3. Shown(1)' = v
  <2>1. v = [coins |-> [t \in Txids |-> v.coins[t]], best |-> v.best]
    <3>1. db = [t \in Txids |-> db[t]]  BY DEF FInv, CachesTyped
    <3> QED  BY <3>1
  <2>2. (\A t \in Txids : Read(1, t)' = v.coins[t]) /\ Best(1)' = v.best  BY <1>1, <1>2
  <2> HIDE DEF v
  <2> QED  BY <2>1, <2>2, ShownSame
<1> DEFINE V == [l \in 1 .. depth |-> Shown(l)]
<1>4. [V EXCEPT ![1].coins = db] = [l \in 1 .. 1 |-> v]
  <2> DEFINE w == Shown(1)  x == [w EXCEPT !.coins = db]
  <2>1. 1 .. depth = {1}  BY <1>0
  <2>2. V = [l \in {1} |-> Shown(l)]  BY <2>1
  <2>3. x = v
    <3>1. w = [coins |-> [t \in Txids |-> Read(1, t)], best |-> Best(1)]  BY DEF Shown
    <3> QED  BY <3>1
  <2>4. V[1] = w /\ DOMAIN V = {1}  BY <2>2
  <2>5. [V EXCEPT ![1].coins = db] = [l \in {1} |-> x]
    <3> HIDE DEF w
    <3>1. [V EXCEPT ![1].coins = db] = [l \in DOMAIN V |-> IF l = 1 THEN [V[1] EXCEPT !.coins = db] ELSE V[l]]
      BY <2>2, Zenon
    <3> QED  BY <2>4, <3>1, Zenon
  <2>6. 1 .. 1 = {1}  OBVIOUS
  <2> HIDE DEF x, v, V
  <2> QED  BY <2>3, <2>5, <2>6
<1>5. [l \in 1 .. depth |-> Shown(l)]' = [l \in 1 .. 1 |-> v]
  <2>1. [l \in 1 .. depth |-> Shown(l)]' = [l \in 1 .. 1 |-> Shown(l)']  BY <1>0
  <2>2. \A l \in 1 .. 1 : Shown(l)' = v
    <3> TAKE l \in 1 .. 1
    <3>1. l = 1  OBVIOUS
    <3> QED  BY <1>3, <3>1
  <2> HIDE DEF v
  <2> QED  BY <2>1, <2>2
<1> QED  BY <1>0, <1>4, <1>5 DEF Abs!Lose, Shown

(* Every step maps to a step of the stack of views, or to a stutter.        *)
LEMMA AbsNext == ASSUME Topped, FInv, [Next]_vars PROVE [Abs!ANext]_(Abs!avars)
<1>0. /\ FInv' /\ CachesTyped /\ CachesTyped' /\ depth \in Nat /\ depth >= 1 /\ MaxDepth \in Nat /\ depth <= MaxDepth
  <2>1. FInv'  BY NextOK
  <2>2. CachesTyped /\ CachesTyped'  BY <2>1 DEF FInv
  <2>3. depth \in Levels  BY <2>2 DEF CachesTyped
  <2> QED  BY <2>1, <2>2, <2>3, DepthAssumption DEF Levels
<1>1. CASE Construct  BY <1>1, AbsOpen DEF Abs!ANext
<1>2. CASE Destroy  BY <1>2, AbsForget DEF Abs!ANext
<1>3. ASSUME NEW t \in Txids, NEW l \in Levels, AccessCoins(l, t)  PROVE UNCHANGED Abs!avars
  <2>1. UNCHANGED <<db, dbBest, depth, hashBlock>>  BY <1>3 DEF AccessCoins
  <2>2. ASSUME NEW k \in 1 .. depth
        PROVE  (\A u \in Txids : Read(k, u)' = Read(k, u)) /\ Best(k)' = Best(k)
    <3>1. k \in 0 .. MaxDepth  BY <1>0
    <3> QED  BY <1>3, <2>1, <3>1, AccessCoinsOK, SameBest
  <2> QED  BY <1>0, <2>1, <2>2, Stutters
<1>4. ASSUME NEW t \in Txids, ModifyCoins(t)  PROVE UNCHANGED Abs!avars
  <2>1. UNCHANGED <<db, dbBest, depth, hashBlock>>  BY <1>4 DEF ModifyCoins
  <2>2. ASSUME NEW k \in 1 .. depth
        PROVE  (\A u \in Txids : Read(k, u)' = Read(k, u)) /\ Best(k)' = Best(k)
    <3>1. k \in 0 .. depth  BY <1>0
    <3> QED  BY <1>4, <2>1, <3>1, ModifyCoinsOK, SameBest
  <2> QED  BY <1>0, <2>1, <2>2, Stutters
<1>5. ASSUME NEW c \in Coins, EndModify(c)  PROVE Abs!Change
  <2>1. PICK t \in Txids : modifier = t  BY <1>5 DEF EndModify, FInv, CachesTyped
  <2>2. UNCHANGED <<db, dbBest, depth, hashBlock>>  BY <1>5 DEF EndModify
  <2>3. /\ \A m \in 0 .. depth - 1, u \in Txids : Read(m, u)' = Read(m, u)
        /\ \A u \in Txids \ {t} : Read(depth, u)' = Read(depth, u)
    BY <1>5, <2>1, EndModifyOK
  <2>4. \A k : Best(k)' = Best(k)  BY <2>2, SameBest
  <2>5. \A k \in 1 .. depth - 1 : (\A u \in Txids : Read(k, u)' = Read(k, u)) /\ Best(k)' = Best(k)
    BY <1>0, <2>3, <2>4
  <2>6. Best(depth)' = Best(depth)  BY <2>2 DEF Best
  <2> QED  BY <1>0, <2>2, <2>3, <2>5, <2>6, Changes
<1>6. ASSUME NEW l \in Levels, GetBestBlock(l)  PROVE UNCHANGED Abs!avars
  <2>1. UNCHANGED <<db, dbBest, depth, cache>>  BY <1>6 DEF GetBestBlock
  <2>2. \A k, u : Read(k, u)' = Read(k, u)  BY <2>1 DEF Read
  <2>3. ASSUME NEW k \in 1 .. depth  PROVE Best(k)' = Best(k)
    <3>1. k \in 0 .. MaxDepth  BY <1>0
    <3> QED  BY <1>0, <1>6, <3>1, GetBestBlockOK
  <2> QED  BY <1>0, <2>1, <2>2, <2>3, Stutters
<1>7. ASSUME NEW b \in Blocks, SetBestBlock(b)  PROVE Abs!Change
  <2>1. UNCHANGED <<db, dbBest, depth, cache>>  BY <1>7 DEF SetBestBlock
  <2>2. \A k, u : Read(k, u)' = Read(k, u)  BY <2>1 DEF Read
  <2>3. \A k \in 0 .. depth - 1 : Best(k)' = Best(k)  BY <1>7, SetBestBlockBest
  <2>4. \A k \in 1 .. depth - 1 : (\A u \in Txids : Read(k, u)' = Read(k, u)) /\ Best(k)' = Best(k)
    BY <1>0, <2>2, <2>3
  <2>5. \A u \in Txids : Read(depth, u)' = Read(depth, u)  BY <2>1 DEF Read
  <2> QED  BY <1>0, <2>1, <2>4, <2>5, Changes
<1>8. CASE FlushView  BY <1>8, AbsCommitView DEF Abs!ANext
<1>9. CASE FlushTip  BY <1>0, <1>9, AbsCommitTip DEF Abs!ANext
<1>10. CASE FlushTipFails  BY <1>0, <1>10, AbsLose DEF Abs!ANext
<1>11. CASE Restart  BY <1>0, <1>11, AbsCrash DEF Abs!ANext
<1>12. CASE UNCHANGED vars
  <2>1. UNCHANGED <<db, dbBest, depth, cache, hashBlock>>  BY <1>12 DEF vars
  <2>2. \A k, u : Read(k, u)' = Read(k, u)  BY <2>1 DEF Read
  <2> QED  BY <1>0, <2>1, <2>2, SameBest, Stutters
<1> QED
  BY <1>1, <1>2, <1>3, <1>4, <1>5, <1>6, <1>7, <1>8, <1>9, <1>10, <1>11, <1>12 DEF Next, Abs!ANext

-----------------------------------------------------------------------------
INSTANCE WellFoundedInduction

(* What the lemmas assume of Topmost.                                       *)
LEMMA TopmostIs ==
  ASSUME NEW n \in Nat, NEW S \in SUBSET (0 .. n), 0 \in S
  PROVE  Topmost(S) \in S /\ \A j \in S : j <= Topmost(S)
<1> DEFINE R == {ss \in Nat \X Nat : ss[1] < ss[2]}
           U == {u \in Nat : \A j \in S : j <= u}
<1>1. IsWellFoundedOn(R, Nat)
  BY NatLessThanWellFounded DEF OpToRel
<1>2. n \in U  OBVIOUS
<1> HIDE DEF R
<1>3. \E u \in U : \A y \in U : ~(<<y, u>> \in R)
  BY <1>1, <1>2, WFMin, Zenon
<1>4. PICK u \in U : \A y \in U : ~(<<y, u>> \in R)
  BY <1>3
<1>5. ASSUME NEW y \in U PROVE y >= u
  <2>1. SUFFICES ASSUME y < u PROVE FALSE  OBVIOUS
  <2>2. <<y, u>> \in R  BY <2>1 DEF R
  <2> QED  BY <1>4, <2>2
<1>6. u \in S
  <2>1. SUFFICES ASSUME u \notin S PROVE FALSE  OBVIOUS
  <2>2. u # 0  BY <2>1
  <2>3. \A j \in S : j <= u - 1  BY <2>1
  <2>4. u - 1 \in U  BY <2>2, <2>3
  <2> QED  BY <1>5, <2>4
<1> QED  BY <1>6, Zenon DEF Topmost

LEMMA AllTopped == Topped
BY TopmostIs DEF Topped

(* The state stays in its types, the flags of every entry are right and the *)
(* assertion of BatchWrite holds, in every reachable state, whether writes  *)
(* can fail or not.                                                         *)
THEOREM FlagsInvariance == Spec => []FInv
<1>1. Init => FInv  BY InitOK
<1>2. FInv /\ [Next]_vars => FInv'  BY AllTopped, NextOK
<1> QED  BY <1>1, <1>2, PTL DEF Spec

(* The types.                                                               *)
THEOREM TypeCorrect == Spec => []TypeOK
<1> DEFINE T == failed \in BOOLEAN
<1>1. Init => T  BY Zenon DEF Init
<1>2. T /\ [Next]_vars => T'
  <2> SUFFICES ASSUME T, [Next]_vars PROVE T'  OBVIOUS
  <2> QED  BY FailedStep, Zenon
<1>3. FInv /\ T => TypeOK  BY DEF FInv, TypeOK
<1> QED  BY <1>1, <1>2, <1>3, FlagsInvariance, PTL DEF Spec

(* DIRTY and FRESH mean what coins.h says, at every level of the stack.     *)
THEOREM FlagsAlwaysRight == Spec => []FlagsRight
<1>1. FInv => FlagsRight  BY DEF FInv
<1> QED  BY <1>1, FlagsInvariance, PTL

(* The assertion in CCoinsViewCache::BatchWrite never fails.                *)
THEOREM AssertionAlwaysHolds == Spec => []PulledIn
<1>1. FInv => PulledIn  BY DEF FInv
<1> QED  BY <1>1, FlagsInvariance, PTL

(* Until a write to the database fails, the coins on disk are those of the  *)
(* block on disk, whatever is flushed, dropped or interrupted.              *)
THEOREM DbAlwaysDescribesItsBlock == Spec => []DbDescribesItsBlock
<1>1. Init => DInv  BY AllTopped, InitOK, RInitOK DEF DInv
<1>2. DInv /\ [Next]_vars => DInv'  BY AllTopped, DNextOK
<1>3. DInv /\ TypeOK => DbDescribesItsBlock
  BY Zenon DEF DInv, RInv, TypeOK, DbDescribesItsBlock, DbSurvivesFailure
<1> QED  BY <1>1, <1>2, <1>3, TypeCorrect, PTL DEF Spec

(* The stack of caches with its flags, its copies on read and its erased    *)
(* entries implements a stack of whole maps, of which only a failed write   *)
(* loses anything.                                                          *)
THEOREM StackImplementsView == Spec => ImplementsView
<1>1. Init => Abs!AInit  BY AllTopped, AbsInit
<1>2. FInv /\ [Next]_vars => [Abs!ANext]_(Abs!avars)  BY AllTopped, AbsNext
<1> QED  BY <1>1, <1>2, FlagsInvariance, PTL DEF Spec, ImplementsView, Abs!ASpec
=============================================================================
