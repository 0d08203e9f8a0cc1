------------------------ MODULE BlockDownload_proofs ------------------------
(***************************************************************************)
(* For any tree of blocks, any peers and any limits: mapBlocksInFlight and *)
(* the lists of the peers tell the same, nSyncStarted counts the peers the *)
(* node syncs with, and what FindNextBlocksToDownload takes for common is  *)
(* stored.                                                                 *)
(***************************************************************************)
EXTENDS BlockDownload, TLAPS

-----------------------------------------------------------------------------
(* The block tree.  What the proofs use of numbers and of sizes; both are  *)
(* shown at the end of the module, with the theorems about finite sets.    *)

Least == \A T \in SUBSET Nat : T # {} => \E x \in T : \A y \in T : x <= y

Heights ==
  /\ Height \in [Blocks -> Nat] /\ Height[Genesis] = 0
  /\ \A b \in Blocks \ {Genesis} : Height[b] = Height[Parent[b]] + 1

LEMMA InductionUpTo ==
    ASSUME Least, NEW n \in Nat, NEW T, 0 \in T, \A i \in 0 .. n - 1 : i \in T => i + 1 \in T
    PROVE  \A i \in 0 .. n : i \in T
<1> DEFINE Out == {i \in 0 .. n : i \notin T}
<1> SUFFICES ASSUME Out # {} PROVE FALSE
  OBVIOUS
<1>1. PICK x \in Out : \A y \in Out : x <= y
  <2>1. Out \in SUBSET Nat
    OBVIOUS
  <2> QED
    BY <2>1, Zenon DEF Least
<1>2. x \in 0 .. n /\ x \notin T /\ x # 0
  OBVIOUS
<1>3. x - 1 \in 0 .. n - 1 /\ x - 1 \in 0 .. n /\ (x - 1) + 1 = x /\ ~(x <= x - 1)
  BY <1>2
<1>4. x - 1 \in T
  BY <1>1, <1>3
<1> QED
  BY <1>2, <1>3, <1>4

LEMMA TreeFacts ==
    /\ Genesis \in Blocks /\ None \notin Blocks /\ None \notin Peers
    /\ Anc \in [Blocks -> SUBSET Blocks] /\ Anc[Genesis] = {Genesis}
    /\ \A b \in Blocks : b \in Anc[b] /\ Anc[b] \subseteq Blocks
    /\ \A b \in Blocks \ {Genesis} : Parent[b] \in Blocks /\ Anc[b] = Anc[Parent[b]] \cup {b}
  BY ConstantsType

\* A chain has a block at every height up to its own.
LEMMA AncestorExists ==
    ASSUME Least, Heights, NEW b \in Blocks
    PROVE  /\ \A h \in 0 .. Height[b] : \E c \in Anc[b] : Height[c] = h
           /\ \A c \in Anc[b] : Height[c] <= Height[b]
<1> DEFINE Full(x) == /\ \A h \in 0 .. Height[x] : \E c \in Anc[x] : Height[c] = h
                      /\ \A c \in Anc[x] : Height[c] <= Height[x]
           Odd == {x \in Blocks : ~Full(x)}
           Low == {Height[x] : x \in Odd}
<1> SUFFICES ASSUME Odd # {} PROVE FALSE
  OBVIOUS
<1>1. Low \in SUBSET Nat /\ Low # {}
  BY ZenonT(60) DEF Heights
<1>2. PICK n \in Low : \A m \in Low : n <= m
  BY <1>1, Zenon DEF Least
<1>3. PICK x \in Odd : Height[x] = n
  BY <1>2, Zenon
<1>4. x # Genesis
  <2>1. Full(Genesis)
    BY TreeFacts DEF Heights
  <2> QED
    BY <2>1, <1>3, Zenon
<1>5. /\ Parent[x] \in Blocks /\ Anc[x] = Anc[Parent[x]] \cup {x}
      /\ Height[Parent[x]] \in Nat /\ Height[x] = Height[Parent[x]] + 1
  BY <1>4, TreeFacts, Zenon DEF Heights
<1>6. Full(Parent[x])
  <2>1. ~(n <= Height[Parent[x]])
    BY <1>3, <1>5
  <2> QED
    BY <1>2, <1>5, <2>1, Zenon
<1>7. ASSUME NEW h \in 0 .. Height[x] PROVE \E c \in Anc[x] : Height[c] = h
  <2>1. h = Height[x] \/ h \in 0 .. Height[Parent[x]]
    BY <1>5
  <2> QED
    BY <1>5, <1>6, <2>1, TreeFacts, Zenon
<1>8. ASSUME NEW c \in Anc[x] PROVE Height[c] <= Height[x]
  <2>1. CASE c = x
    BY <1>5, <2>1
  <2>2. CASE c \in Anc[Parent[x]]
    <3>1. Height[c] <= Height[Parent[x]] /\ Height[c] \in Nat
      BY <1>5, <1>6, <2>2, TreeFacts, Zenon DEF Heights
    <3> QED
      BY <1>5, <3>1
  <2> QED
    BY <1>5, <2>1, <2>2, Zenon
<1> QED
  BY <1>3, <1>7, <1>8, Zenon

LEMMA AncestorAt ==
    ASSUME Least, Heights, NEW b \in Blocks, NEW h \in 0 .. Height[b]
    PROVE  GetAncestor(b, h) \in Anc[b] /\ Height[GetAncestor(b, h)] = h
  BY AncestorExists, Zenon DEF GetAncestor

LEMMA GenesisBelow ==
    ASSUME Least, Heights, NEW b \in Blocks PROVE Genesis \in Anc[b]
<1>1. PICK c \in Anc[b] : Height[c] = 0
  <2>1. 0 \in 0 .. Height[b]
    BY DEF Heights
  <2> QED
    BY <2>1, AncestorExists, Zenon
<1>2. ASSUME c # Genesis PROVE FALSE
  <2>1. Height[c] = Height[Parent[c]] + 1 /\ Height[Parent[c]] \in Nat
    BY <1>2, TreeFacts, Zenon DEF Heights
  <2> QED
    BY <1>1, <2>1
<1> QED
  BY <1>1, <1>2

LEMMA CommonAncestor ==
    ASSUME Least, Heights, NEW a \in Blocks, NEW b \in Blocks
    PROVE  /\ LastCommonAncestor[a][b] \in Blocks
           /\ LastCommonAncestor[a][b] \in Anc[a] /\ LastCommonAncestor[a][b] \in Anc[b]
<1> DEFINE Both == Anc[a] \cap Anc[b]
           Gap == {Height[a] - Height[c] : c \in Both}
<1>1. \A c \in Both : c \in Blocks /\ Height[c] \in Nat /\ Height[c] <= Height[a]
  BY AncestorExists, TreeFacts, Zenon DEF Heights
<1>2. Height[a] \in Nat
  BY Zenon DEF Heights
<1>3. Gap \in SUBSET Nat
  BY <1>1, <1>2
<1>4. Gap # {}
  BY GenesisBelow, Zenon
<1>5. PICK n \in Gap : \A m \in Gap : n <= m
  BY <1>3, <1>4, Zenon DEF Least
<1>6. PICK c \in Both : Height[a] - Height[c] = n
  BY <1>5, Zenon
<1>7. ASSUME NEW d \in Both PROVE Height[d] <= Height[c]
  <2>1. n <= Height[a] - Height[d]
    BY <1>5, Zenon
  <2> HIDE DEF Both, Gap
  <2> QED
    BY <1>1, <1>2, <1>6, <2>1
<1>8. LastCommonAncestor[a][b] = CHOOSE x \in Both : \A d \in Both : Height[d] <= Height[x]
  BY Zenon DEF LastCommonAncestor
<1>9. \E x \in Both : \A d \in Both : Height[d] <= Height[x]
  BY <1>7, Zenon
<1> HIDE DEF Both
<1>10. LastCommonAncestor[a][b] \in Both
  BY <1>8, <1>9, Zenon
<1> QED
  BY <1>1, <1>10, Zenon DEF Both

\* The walk from a towards b is part of the chain of b and has no block twice.
LEMMA PathFacts ==
    ASSUME Least, Heights, NEW a \in Blocks, NEW b \in Blocks
    PROVE  /\ Path[a][b] \in Seq(Blocks) /\ IsInjective(Path[a][b])
           /\ Range(Path[a][b]) \subseteq Anc[b]
<1> DEFINE up == Height[b] - Height[a]
           f == [i \in 1 .. up |-> GetAncestor(b, Height[a] + i)]
<1>1. Height[a] \in Nat /\ Height[b] \in Nat /\ up \in Int
  <2>1. Height[a] \in Nat /\ Height[b] \in Nat
    BY Zenon DEF Heights
  <2> QED
    BY <2>1
<1>2. Path[a][b] = f
  BY Zenon DEF Path
<1>3. \A i \in 1 .. up : Height[a] + i \in 0 .. Height[b]
  BY <1>1
<1> HIDE DEF up
<1>4. \A i \in 1 .. up : f[i] \in Anc[b] /\ Height[f[i]] = Height[a] + i
  BY <1>3, AncestorAt, Zenon
<1>5. DOMAIN f = 1 .. up
  OBVIOUS
<1> HIDE DEF f
<1>6. \A i, j \in 1 .. up : f[i] = f[j] => i = j
  <2> SUFFICES ASSUME NEW i \in 1 .. up, NEW j \in 1 .. up, f[i] = f[j] PROVE i = j
    OBVIOUS
  <2>1. Height[a] + i = Height[a] + j
    BY <1>4, Zenon
  <2> QED
    BY <1>1, <2>1
<1>7. Range(f) \subseteq Anc[b] /\ IsInjective(f)
  BY <1>4, <1>5, <1>6, Zenon DEF Range, IsInjective
<1>8. f \in Seq(Blocks)
  <2>1. \A i \in 1 .. up : f[i] \in Blocks
    BY <1>4, TreeFacts, Zenon
  <2>2. \E n \in Nat : 1 .. up = 1 .. n
    <3>1. CASE up \in Nat
      BY <3>1
    <3>2. CASE up \notin Nat
      <4>1. 1 .. up = 1 .. 0
        BY <1>1, <3>2
      <4> QED
        BY <4>1, Zenon
    <3> QED
      BY <3>1, <3>2
  <2>3. PICK n \in Nat : 1 .. up = 1 .. n
    BY <2>2
  <2>4. f = [i \in 1 .. n |-> f[i]]
    BY <1>5, <2>3 DEF f
  <2>5. \A i \in 1 .. n : f[i] \in Blocks
    BY <2>1, <2>3, Zenon
  <2>6. [i \in 1 .. n |-> f[i]] \in Seq(Blocks)
    BY <2>5
  <2> QED
    BY <2>4, <2>6, Zenon
<1> QED
  BY <1>2, <1>7, <1>8, Zenon

-----------------------------------------------------------------------------
(* Sequences *)

LEMMA AppendFacts ==
    ASSUME NEW B, NEW q \in Seq(B), NEW x \in B
    PROVE  /\ Append(q, x) \in Seq(B) /\ Range(Append(q, x)) = Range(q) \cup {x}
           /\ Len(Append(q, x)) = Len(q) + 1
           /\ IsInjective(q) /\ x \notin Range(q) => IsInjective(Append(q, x))
<1> DEFINE r == Append(q, x)
<1>1. /\ r \in Seq(B) /\ Len(q) \in Nat /\ Len(r) = Len(q) + 1
      /\ DOMAIN q = 1 .. Len(q) /\ DOMAIN r = 1 .. Len(q) + 1
      /\ r[Len(q) + 1] = x /\ \A i \in 1 .. Len(q) : r[i] = q[i]
  OBVIOUS
<1> HIDE DEF r
<1>2. \A i : i \in 1 .. Len(q) + 1 <=> i \in 1 .. Len(q) \/ i = Len(q) + 1
  BY <1>1
<1>3. Range(r) = Range(q) \cup {x}
  BY <1>1, <1>2, Zenon DEF Range
<1>4. ASSUME IsInjective(q), x \notin Range(q) PROVE IsInjective(r)
  BY <1>1, <1>2, <1>4, Zenon DEF Range, IsInjective
<1> QED
  BY <1>1, <1>3, <1>4 DEF r

LEMMA ConcatFacts ==
    ASSUME NEW B, NEW q \in Seq(B), NEW r \in Seq(B)
    PROVE  /\ q \o r \in Seq(B) /\ Range(q \o r) = Range(q) \cup Range(r)
           /\ Len(q \o r) = Len(q) + Len(r)
           /\ IsInjective(q) /\ IsInjective(r) /\ Range(q) \cap Range(r) = {} => IsInjective(q \o r)
<1> DEFINE s == q \o r
<1>1. /\ s \in Seq(B) /\ Len(q) \in Nat /\ Len(r) \in Nat /\ Len(s) = Len(q) + Len(r)
      /\ DOMAIN q = 1 .. Len(q) /\ DOMAIN r = 1 .. Len(r) /\ DOMAIN s = 1 .. Len(q) + Len(r)
      /\ \A i \in 1 .. Len(q) : s[i] = q[i] /\ i \in DOMAIN s
      /\ \A i \in 1 .. Len(r) : s[Len(q) + i] = r[i] /\ Len(q) + i \in DOMAIN s
  OBVIOUS
<1> HIDE DEF s
<1>2. \A i \in DOMAIN s : i \in DOMAIN q \/ \E k \in DOMAIN r : i = Len(q) + k
  <2> SUFFICES ASSUME NEW i \in DOMAIN s, i \notin DOMAIN q PROVE \E k \in DOMAIN r : i = Len(q) + k
    OBVIOUS
  <2>1. i - Len(q) \in 1 .. Len(r) /\ i = Len(q) + (i - Len(q))
    BY <1>1
  <2> QED
    BY <1>1, <2>1, Zenon
<1>3. Range(s) = Range(q) \cup Range(r)
  <2>1. ASSUME NEW i \in DOMAIN s PROVE s[i] \in Range(q) \cup Range(r)
    <3>1. CASE i \in DOMAIN q
      BY <1>1, <3>1, Zenon DEF Range
    <3>2. CASE i \notin DOMAIN q
      <4>1. PICK k \in DOMAIN r : i = Len(q) + k
        BY <1>2, <3>2, Zenon
      <4>2. s[i] = r[k]
        BY <1>1, <4>1, Zenon
      <4> QED
        BY <4>2, Zenon DEF Range
    <3> QED
      BY <3>1, <3>2, Zenon
  <2>2. \A x \in Range(q) \cup Range(r) : x \in Range(s)
    BY <1>1, ZenonT(60) DEF Range
  <2>3. \A x \in Range(s) : x \in Range(q) \cup Range(r)
    BY <2>1, Zenon DEF Range
  <2> QED
    BY <2>2, <2>3, Zenon
<1>4. ASSUME IsInjective(q), IsInjective(r), Range(q) \cap Range(r) = {} PROVE IsInjective(s)
  <2> SUFFICES ASSUME NEW i \in DOMAIN s, NEW j \in DOMAIN s, s[i] = s[j] PROVE i = j
    BY Zenon DEF IsInjective
  <2>1. CASE i \in DOMAIN q /\ j \in DOMAIN q
    BY <1>1, <1>4, <2>1, Zenon DEF IsInjective
  <2>2. ASSUME NEW x \in DOMAIN q, NEW y \in DOMAIN s \ DOMAIN q, s[x] = s[y] PROVE FALSE
    <3>1. PICK k \in DOMAIN r : y = Len(q) + k
      BY <1>2, <2>2, Zenon
    <3>2. q[x] = r[k]
      BY <1>1, <2>2, <3>1, Zenon
    <3>3. q[x] \in Range(q) /\ r[k] \in Range(r)
      BY Zenon DEF Range
    <3> QED
      BY <1>4, <3>2, <3>3, Zenon
  <2>3. CASE i \notin DOMAIN q /\ j \notin DOMAIN q
    <3>1. PICK k \in DOMAIN r : i = Len(q) + k
      BY <1>2, <2>3, Zenon
    <3>2. PICK l \in DOMAIN r : j = Len(q) + l
      BY <1>2, <2>3, Zenon
    <3>3. r[k] = r[l]
      BY <1>1, <3>1, <3>2, Zenon
    <3> QED
      BY <1>4, <3>1, <3>2, <3>3, Zenon DEF IsInjective
  <2> QED
    BY <2>1, <2>2, <2>3, Zenon
<1> QED
  BY <1>1, <1>3, <1>4 DEF s

LEMMA FirstFacts ==
    ASSUME NEW B, NEW q \in Seq(B), NEW n \in Nat
    PROVE  /\ First(n, q) \in Seq(B) /\ Range(First(n, q)) \subseteq Range(q)
           /\ Len(First(n, q)) <= n
           /\ IsInjective(q) => IsInjective(First(n, q))
<1> DEFINE k == IF n < Len(q) THEN n ELSE Len(q)
           r == SubSeq(q, 1, k)
<1>1. k \in Nat /\ k <= n /\ k <= Len(q) /\ Len(q) \in Nat
  OBVIOUS
<1>2. First(n, q) = r
  BY Zenon DEF First
<1> HIDE DEF k
<1>3. r \in Seq(B) /\ DOMAIN r = 1 .. k /\ Len(r) = k /\ \A i \in 1 .. k : r[i] = q[i]
  BY <1>1
<1>4. DOMAIN q = 1 .. Len(q) /\ \A i \in 1 .. k : i \in DOMAIN q
  BY <1>1
<1> HIDE DEF r
<1>5. Range(r) \subseteq Range(q) /\ (IsInjective(q) => IsInjective(r))
  BY <1>3, <1>4, Zenon DEF Range, IsInjective
<1> QED
  BY <1>1, <1>2, <1>3, <1>5

\* A function defined by recursion over an initial segment of the naturals.
Defines(n, X, x, D) ==
  \E f \in [0 .. n -> X] : f[0] = x /\ \A i \in 1 .. n : f[i] = D[i][f[i - 1]]

LEMMA Recursion ==
    ASSUME Least, NEW n \in Nat, NEW X, NEW x \in X, NEW D \in [1 .. n -> [X -> X]]
    PROVE  Defines(n, X, x, D)
<1> DEFINE Is(f, k) == f[0] = x /\ \A i \in 1 .. k : f[i] = D[i][f[i - 1]]
           Made == {k \in 0 .. n : \E f \in [0 .. k -> X] : Is(f, k)}
<1>1. 0 \in Made
  <2> DEFINE f == [i \in 0 .. 0 |-> x]
  <2>1. f \in [0 .. 0 -> X] /\ Is(f, 0)
    OBVIOUS
  <2> HIDE DEF f, Is
  <2> QED
    BY <2>1
<1>2. ASSUME NEW k \in 0 .. n - 1, k \in Made PROVE k + 1 \in Made
  <2>0. k \in Nat /\ k + 1 \in 0 .. n /\ k + 1 \in 1 .. n /\ (k + 1) - 1 = k
    OBVIOUS
  <2>1. PICK f \in [0 .. k -> X] : Is(f, k)
    BY <1>2, Zenon
  <2> DEFINE y == D[k + 1][f[k]]
             g == [i \in 0 .. k + 1 |-> IF i <= k THEN f[i] ELSE y]
  <2>2. f[k] \in X /\ k \in 0 .. k
    BY <2>0
  <2>3. y \in X
    BY <2>0, <2>2
  <2> HIDE DEF y
  <2>4. /\ \A i \in 0 .. k : g[i] = f[i]
        /\ g[k + 1] = y /\ g \in [0 .. k + 1 -> X]
    BY <2>0, <2>3
  <2> HIDE DEF g
  <2>5. ASSUME NEW i \in 1 .. k + 1 PROVE g[i] = D[i][g[i - 1]]
    <3>1. CASE i = k + 1
      <4>1. g[i] = y /\ i - 1 = k /\ g[k] = f[k]
        BY <2>0, <2>2, <2>4, <3>1
      <4> QED
        BY <3>1, <4>1, Zenon DEF y
    <3>2. CASE i # k + 1
      <4>1. i \in 1 .. k /\ i \in 0 .. k /\ i - 1 \in 0 .. k
        BY <2>0, <3>2
      <4>2. f[i] = D[i][f[i - 1]]
        BY <2>1, <4>1, Zenon
      <4> QED
        BY <2>4, <4>1, <4>2, Zenon
    <3> QED
      BY <3>1, <3>2
  <2>6. g[0] = x
    BY <2>0, <2>1, <2>4
  <2>7. Is(g, k + 1)
    BY <2>5, <2>6, Zenon
  <2> HIDE DEF Is
  <2> QED
    BY <2>0, <2>4, <2>7, Zenon
<1> HIDE DEF Made
<1>3. n \in Made
  <2>1. \A i \in 0 .. n : i \in Made
    BY <1>1, <1>2, InductionUpTo, Zenon
  <2> QED
    BY <2>1
<1> QED
  BY <1>3, Zenon DEF Made, Defines

\* What Those keeps: the members of S, each as often as before.
LEMMA ThoseFacts ==
    ASSUME Least, NEW B, NEW s \in Seq(B), NEW S
    PROVE  /\ Those(s, S) \in Seq(B) /\ Range(Those(s, S)) = Range(s) \cap S
           /\ Len(Those(s, S)) <= Len(s)
           /\ IsInjective(s) => IsInjective(Those(s, S))
<1> DEFINE n == Len(s)
           Is(g) == g = [i \in 0 .. n |->
                           IF i = 0 THEN <<>>
                           ELSE IF s[i] \in S THEN Append(g[i - 1], s[i]) ELSE g[i - 1]]
           kept == CHOOSE g : Is(g)
<1>1. Those(s, S) = kept[n]
  BY Zenon DEF Those
<1>2. n \in Nat /\ DOMAIN s = 1 .. n /\ \A i \in 1 .. n : s[i] \in B
  OBVIOUS
<1> HIDE DEF n
<1>3. \E g : Is(g)
  <2> DEFINE D == [i \in 1 .. n |-> [q \in Seq(B) |->
                     IF s[i] \in S THEN Append(q, s[i]) ELSE q]]
  <2>1. D \in [1 .. n -> [Seq(B) -> Seq(B)]]
    BY <1>2
  <2>2. \A i \in 1 .. n : \A q \in Seq(B) :
          D[i][q] = IF s[i] \in S THEN Append(q, s[i]) ELSE q
    OBVIOUS
  <2> HIDE DEF D
  <2>3. <<>> \in Seq(B)
    OBVIOUS
  <2>4. PICK f \in [0 .. n -> Seq(B)] :
          f[0] = <<>> /\ \A i \in 1 .. n : f[i] = D[i][f[i - 1]]
    <3>1. Defines(n, Seq(B), <<>>, D)
      BY <1>2, <2>1, <2>3, Recursion, Zenon
    <3> QED
      BY <3>1, Zenon DEF Defines
  <2>5. ASSUME NEW i \in 0 .. n
        PROVE  f[i] = IF i = 0 THEN <<>>
                      ELSE IF s[i] \in S THEN Append(f[i - 1], s[i]) ELSE f[i - 1]
    <3>1. CASE i = 0
      BY <2>4, <3>1, Zenon
    <3>2. CASE i # 0
      <4>1. i \in 1 .. n /\ i - 1 \in 0 .. n
        BY <1>2, <3>2
      <4> QED
        BY <2>2, <2>4, <3>2, <4>1, Zenon
    <3> QED
      BY <3>1, <3>2, Zenon
  <2>6. f = [i \in 0 .. n |-> f[i]]
    OBVIOUS
  <2>7. Is(f)
    BY <2>5, <2>6, Zenon
  <2> QED
    BY <2>7, Zenon
<1>4. /\ kept[0] = <<>>
      /\ \A i \in 1 .. n : kept[i] = IF s[i] \in S THEN Append(kept[i - 1], s[i]) ELSE kept[i - 1]
  <2>1. Is(kept)
    BY <1>3, Zenon
  <2> HIDE DEF kept
  <2>2. \A i \in 0 .. n : kept[i] = IF i = 0 THEN <<>>
                                    ELSE IF s[i] \in S THEN Append(kept[i - 1], s[i]) ELSE kept[i - 1]
    BY <2>1, Zenon
  <2>3. 0 \in 0 .. n /\ \A i \in 1 .. n : i \in 0 .. n /\ i # 0
    BY <1>2
  <2> QED
    BY <2>2, <2>3, Zenon
<1> HIDE DEF kept
<1> DEFINE Upto(i) == {s[j] : j \in 1 .. i}
           Right(i) == /\ kept[i] \in Seq(B) /\ Range(kept[i]) = Upto(i) \cap S /\ Len(kept[i]) <= i
                       /\ IsInjective(s) => IsInjective(kept[i])
           Done == {i \in 0 .. n : Right(i)}
<1>5. 0 \in Done
  <2>1. <<>> \in Seq(B) /\ Len(<<>>) <= 0 /\ DOMAIN <<>> = {} /\ 0 \in 0 .. n /\ 1 .. 0 = {}
    BY <1>2
  <2>2. Range(<<>>) = Upto(0) \cap S /\ IsInjective(<<>>)
    BY <2>1, Zenon DEF Range, IsInjective
  <2> QED
    BY <1>4, <2>1, <2>2, Zenon
<1>6. ASSUME NEW i \in 0 .. n - 1, i \in Done PROVE i + 1 \in Done
  <2> DEFINE x == s[i + 1]
             q == kept[i]
  <2>1. /\ i \in Nat /\ i + 1 \in 1 .. n /\ i + 1 \in 0 .. n /\ (i + 1) - 1 = i
        /\ \A j \in 1 .. i : j \in 1 .. n /\ j # i + 1
        /\ \A j : j \in 1 .. i + 1 <=> j \in 1 .. i \/ j = i + 1
    BY <1>2
  <2>2. kept[i + 1] = IF x \in S THEN Append(q, x) ELSE q
    BY <1>4, <2>1, Zenon
  <2>3. q \in Seq(B) /\ Range(q) = Upto(i) \cap S /\ Len(q) <= i /\ (IsInjective(s) => IsInjective(q))
    BY <1>6, Zenon
  <2>4. x \in B
    BY <1>2, <2>1, Zenon
  <2>5. Upto(i + 1) = Upto(i) \cup {x}
    BY <2>1, Zenon
  <2>6. IsInjective(s) => x \notin Upto(i)
    BY <1>2, <2>1, Zenon DEF IsInjective
  <2>7. Len(q) \in Nat
    BY <2>3
  <2> HIDE DEF q, x, Upto
  <2>8. CASE x \in S
    <3>1. /\ Append(q, x) \in Seq(B) /\ Range(Append(q, x)) = Range(q) \cup {x}
          /\ Len(Append(q, x)) = Len(q) + 1
          /\ IsInjective(q) /\ x \notin Range(q) => IsInjective(Append(q, x))
      BY <2>3, <2>4, AppendFacts, Zenon
    <3>2. Len(q) + 1 <= i + 1
      BY <2>1, <2>3, <2>7
    <3>3. Range(Append(q, x)) = Upto(i + 1) \cap S
      BY <2>3, <2>5, <2>8, <3>1, Zenon
    <3>4. IsInjective(s) => IsInjective(Append(q, x))
      BY <2>3, <2>6, <3>1, Zenon
    <3>5. kept[i + 1] = Append(q, x)
      BY <2>2, <2>8, Zenon
    <3>6. Right(i + 1)
      BY <3>1, <3>2, <3>3, <3>4, <3>5, Zenon
    <3> QED
      BY <2>1, <3>6, Zenon
  <2>9. CASE x \notin S
    <3>1. Len(q) <= i + 1
      BY <2>1, <2>3, <2>7
    <3>2. Range(q) = Upto(i + 1) \cap S
      BY <2>3, <2>5, <2>9, Zenon
    <3>3. Right(i + 1)
      BY <2>2, <2>3, <2>9, <3>1, <3>2, Zenon
    <3> QED
      BY <2>1, <3>3, Zenon
  <2> QED
    BY <2>8, <2>9
<1> HIDE DEF Done
<1>7. n \in Done
  <2>1. \A i \in 0 .. n : i \in Done
    BY <1>2, <1>5, <1>6, InductionUpTo, Zenon
  <2> QED
    BY <1>2, <2>1
<1>8. Right(n)
  BY <1>7, Zenon DEF Done
<1>9. Upto(n) = Range(s)
  BY <1>2, Zenon DEF Range
<1> QED
  BY <1>1, <1>8, <1>9, Zenon DEF n

-----------------------------------------------------------------------------
(* Types *)

Block1 == Blocks \cup {None}
State == [best : Block1, unknown : Block1, common : Block1, sync : BOOLEAN,
          stalling : BOOLEAN, flight : Seq(Blocks), requested : SUBSET Blocks]
Serving == [known : SUBSET Blocks, toSend : Seq(Blocks), continue : Block1]
ToPeer == [type : {"getblocks"}, locator : Blocks, stop : Block1]
          \cup [type : {"getdata"}, blocks : Seq(Blocks)]
ToNode == [type : {"inv"}, blocks : Seq(Blocks)] \cup [type : {"block"}, block : Blocks]

NodeTypes ==
  /\ index \in [Blocks -> {"absent", "header", "data"}] /\ tip \in Blocks
  /\ owner \in [Blocks -> Peers \cup {None}] /\ st \in [Peers -> State]
  /\ conn \subseteq Peers /\ disc \subseteq conn
WireTypes ==
  /\ toPeer \in [Peers -> Seq(ToPeer)] /\ toNode \in [Peers -> Seq(ToNode)]
  /\ serving \in [Peers -> Serving] /\ serves \in [Peers -> Blocks]

\* What an announcement may change of the state of a peer: its best block, to
\* one that is known, and the unknown one.
Learnt(s, t) ==
  /\ t \in State /\ t.flight = s.flight /\ t.sync = s.sync /\ t.common = s.common
  /\ t.best = s.best \/ (t.best \in Blocks /\ index[t.best] # "absent")

LEMMA LearntTrans ==
    ASSUME NEW s, NEW t, NEW u, Learnt(s, t), Learnt(t, u) PROVE Learnt(s, u)
  BY Zenon DEF Learnt

LEMMA LearntBest ==
    ASSUME NEW s \in State, NEW b \in Blocks, index[b] # "absent"
    PROVE  Learnt(s, [s EXCEPT !.best = Announced(s, b)])
<1> DEFINE x == Announced(s, b)
<1>1. x = b \/ x = s.best
  BY Zenon DEF Announced
<1>2. s.best \in Block1 /\ b \in Block1
  BY DEF State, Block1
<1> HIDE DEF x
<1>3. x \in Block1
  BY <1>1, <1>2, Zenon
<1> DEFINE t == [s EXCEPT !.best = x]
<1>4. t \in State
  BY <1>3 DEF State
<1>5. t.flight = s.flight /\ t.sync = s.sync /\ t.common = s.common /\ t.best = x
  BY DEF State
<1> HIDE DEF t
<1>6. Learnt(s, t)
  BY <1>1, <1>4, <1>5, Zenon DEF Learnt
<1> QED
  BY <1>6 DEF t, x

LEMMA LearntUnknown ==
    ASSUME NEW s \in State, NEW b \in Block1 PROVE Learnt(s, [s EXCEPT !.unknown = b])
<1> DEFINE t == [s EXCEPT !.unknown = b]
<1>1. t \in State
  BY DEF State
<1>2. t.flight = s.flight /\ t.sync = s.sync /\ t.common = s.common /\ t.best = s.best
  BY DEF State
<1> HIDE DEF t
<1>3. Learnt(s, t)
  BY <1>1, <1>2, Zenon DEF Learnt
<1> QED
  BY <1>3 DEF t

LEMMA LearntNothing == ASSUME NEW s \in State PROVE Learnt(s, s)
  BY DEF Learnt

LEMMA ProcessFacts ==
    ASSUME NEW s \in State PROVE Learnt(s, ProcessBlockAvailability(s))
<1>1. CASE Known(s.unknown)
  <2>1. s.unknown \in Blocks /\ index[s.unknown] # "absent"
    BY <1>1 DEF Known, State, Block1
  <2> DEFINE t == [s EXCEPT !.best = Announced(s, s.unknown)]
  <2>2. Learnt(s, t)
    BY <2>1, LearntBest, Zenon
  <2>3. ProcessBlockAvailability(s) = [t EXCEPT !.unknown = None]
    BY <1>1 DEF ProcessBlockAvailability
  <2> HIDE DEF t
  <2>4. Learnt(t, [t EXCEPT !.unknown = None])
    BY <2>2, LearntUnknown, Zenon DEF Learnt, Block1
  <2> QED
    BY <2>2, <2>3, <2>4, LearntTrans, Zenon
<1>2. CASE ~Known(s.unknown)
  BY <1>2, LearntNothing, Zenon DEF ProcessBlockAvailability
<1> QED
  BY <1>1, <1>2, Zenon

LEMMA UpdateFacts ==
    ASSUME NEW s \in State, NEW b \in Blocks PROVE Learnt(s, UpdateBlockAvailability(s, b))
<1> DEFINE t == ProcessBlockAvailability(s)
<1>1. Learnt(s, t) /\ t \in State
  BY ProcessFacts, Zenon DEF Learnt
<1>2. UpdateBlockAvailability(s, b) =
        IF Known(b) THEN [t EXCEPT !.best = Announced(t, b)] ELSE [t EXCEPT !.unknown = b]
  BY Zenon DEF UpdateBlockAvailability
<1> HIDE DEF t
<1>3. Known(b) => Learnt(t, [t EXCEPT !.best = Announced(t, b)])
  BY <1>1, LearntBest, Zenon DEF Known
<1>4. Learnt(t, [t EXCEPT !.unknown = b])
  BY <1>1, LearntUnknown, Zenon DEF Block1
<1> QED
  BY <1>1, <1>2, <1>3, <1>4, LearntTrans, Zenon

LEMMA AllAnnouncedFacts ==
    ASSUME Least, NEW s \in State, NEW blocks \in Seq(Blocks)
    PROVE  Learnt(s, AllAnnounced(s, blocks))
<1> DEFINE n == Len(blocks)
           Is(g) == g = [i \in 0 .. n |->
                           IF i = 0 THEN s ELSE UpdateBlockAvailability(g[i - 1], blocks[i])]
           heard == CHOOSE g : Is(g)
<1>1. AllAnnounced(s, blocks) = heard[n]
  BY Zenon DEF AllAnnounced
<1>2. n \in Nat /\ \A i \in 1 .. n : blocks[i] \in Blocks
  OBVIOUS
<1> HIDE DEF n
<1>3. \E g : Is(g)
  <2> DEFINE D == [i \in 1 .. n |-> [t \in State |-> UpdateBlockAvailability(t, blocks[i])]]
  <2>1. \A i \in 1 .. n : \A t \in State : UpdateBlockAvailability(t, blocks[i]) \in State
    BY <1>2, UpdateFacts, Zenon DEF Learnt
  <2>2. D \in [1 .. n -> [State -> State]]
    BY <2>1, Zenon
  <2>3. \A i \in 1 .. n : \A t \in State : D[i][t] = UpdateBlockAvailability(t, blocks[i])
    BY Zenon
  <2> HIDE DEF D
  <2>4. Defines(n, State, s, D)
    BY <1>2, <2>2, Recursion, Zenon
  <2>5. PICK f \in [0 .. n -> State] : f[0] = s /\ \A i \in 1 .. n : f[i] = D[i][f[i - 1]]
    BY <2>4, Zenon DEF Defines
  <2>6. ASSUME NEW i \in 0 .. n
        PROVE  f[i] = IF i = 0 THEN s ELSE UpdateBlockAvailability(f[i - 1], blocks[i])
    <3>1. CASE i = 0
      BY <2>5, <3>1, Zenon
    <3>2. CASE i # 0
      <4>1. i \in 1 .. n /\ i - 1 \in 0 .. n
        BY <1>2, <3>2
      <4> QED
        BY <2>3, <2>5, <3>2, <4>1, Zenon
    <3> QED
      BY <3>1, <3>2, Zenon
  <2>7. f = [i \in 0 .. n |-> f[i]]
    OBVIOUS
  <2> QED
    BY <2>6, <2>7, Zenon
<1>4. /\ heard[0] = s
      /\ \A i \in 1 .. n : heard[i] = UpdateBlockAvailability(heard[i - 1], blocks[i])
  <2>1. Is(heard)
    BY <1>3, Zenon
  <2> HIDE DEF heard
  <2>2. \A i \in 0 .. n : heard[i] = IF i = 0 THEN s
                                     ELSE UpdateBlockAvailability(heard[i - 1], blocks[i])
    BY <2>1, Zenon
  <2>3. 0 \in 0 .. n /\ \A i \in 1 .. n : i \in 0 .. n /\ i # 0
    BY <1>2
  <2> QED
    BY <2>2, <2>3, Zenon
<1> HIDE DEF heard
<1> DEFINE Done == {i \in 0 .. n : Learnt(s, heard[i])}
<1>5. 0 \in Done
  <2>1. 0 \in 0 .. n
    BY <1>2
  <2> QED
    BY <1>4, <2>1, LearntNothing, Zenon
<1>6. ASSUME NEW i \in 0 .. n - 1, i \in Done PROVE i + 1 \in Done
  <2>1. i + 1 \in 1 .. n /\ i + 1 \in 0 .. n /\ (i + 1) - 1 = i
    BY <1>2
  <2>2. Learnt(s, heard[i]) /\ heard[i] \in State
    BY <1>6, Zenon DEF Learnt
  <2>3. Learnt(heard[i], heard[i + 1])
    BY <1>2, <1>4, <2>1, <2>2, UpdateFacts, Zenon
  <2>4. Learnt(s, heard[i + 1])
    BY <2>2, <2>3, LearntTrans, Zenon
  <2> QED
    BY <2>1, <2>4, Zenon
<1> HIDE DEF Done
<1>7. \A i \in 0 .. n : i \in Done
  BY <1>2, <1>5, <1>6, InductionUpTo, Zenon
<1>8. n \in 0 .. n
  BY <1>2
<1> QED
  BY <1>1, <1>7, <1>8, Zenon DEF Done

\* ProcessGetData sends blocks and inventories.
Sent == [sent : Seq(ToNode), continue : Block1]

LEMMA AnswerType ==
    ASSUME NEW p \in Peers, serves[p] \in Blocks, NEW a \in Sent, NEW b \in Blocks
    PROVE  Answer(p, a, b) \in Sent
<1> DEFINE m == [type |-> "block", block |-> b]
           i == [type |-> "inv", blocks |-> <<serves[p]>>]
<1>1. m \in ToNode
  BY DEF ToNode
<1>2. <<serves[p]>> \in Seq(Blocks)
  OBVIOUS
<1>3. i \in ToNode
  BY <1>2 DEF ToNode
<1> HIDE DEF m, i
<1>4. a.sent \in Seq(ToNode) /\ a.continue \in Block1
  BY DEF Sent
<1>5. a.sent \o <<m>> \o <<i>> \in Seq(ToNode) /\ a.sent \o <<m>> \o <<>> \in Seq(ToNode)
  BY <1>1, <1>3, <1>4
<1>6. Answer(p, a, b) = [sent |-> a.sent \o <<m>> \o IF b = a.continue THEN <<i>> ELSE <<>>,
                         continue |-> IF b = a.continue THEN None ELSE a.continue]
  BY Zenon DEF Answer, m, i
<1>7. a.sent \o <<m>> \o (IF b = a.continue THEN <<i>> ELSE <<>>) \in Seq(ToNode)
  BY <1>5, Zenon
<1>8. (IF b = a.continue THEN None ELSE a.continue) \in Block1
  BY <1>4, Zenon DEF Block1
<1> QED
  BY <1>6, <1>7, <1>8 DEF Sent

LEMMA AnswersType ==
    ASSUME Least, WireTypes, NEW p \in Peers, NEW asked \in Seq(Blocks)
    PROVE  Answers(p, asked) \in Sent
<1> DEFINE n == Len(asked)
           x == [sent |-> toNode[p], continue |-> serving[p].continue]
           Is(g) == g = [i \in 0 .. n |-> IF i = 0 THEN x ELSE Answer(p, g[i - 1], asked[i])]
           answered == CHOOSE g : Is(g)
<1>1. Answers(p, asked) = answered[n]
  BY Zenon DEF Answers
<1>2. n \in Nat /\ \A i \in 1 .. n : asked[i] \in Blocks
  OBVIOUS
<1>3. x \in Sent
  <2>1. toNode[p] \in Seq(ToNode) /\ serving[p] \in Serving
    BY Zenon DEF WireTypes
  <2>2. serving[p].continue \in Block1
    BY <2>1 DEF Serving
  <2> QED
    BY <2>1, <2>2 DEF Sent
<1>4. serves[p] \in Blocks
  BY Zenon DEF WireTypes
<1> HIDE DEF n, x
<1>5. \A i \in 1 .. n : \A a \in Sent : Answer(p, a, asked[i]) \in Sent
  BY <1>2, <1>4, AnswerType, Zenon
<1>6. \E g : Is(g)
  <2> DEFINE D == [i \in 1 .. n |-> [a \in Sent |-> Answer(p, a, asked[i])]]
  <2>1. D \in [1 .. n -> [Sent -> Sent]]
    BY <1>5, Zenon
  <2>2. \A i \in 1 .. n : \A a \in Sent : D[i][a] = Answer(p, a, asked[i])
    BY Zenon
  <2> HIDE DEF D
  <2>3. Defines(n, Sent, x, D)
    BY <1>2, <1>3, <2>1, Recursion, Zenon
  <2>4. PICK f \in [0 .. n -> Sent] : f[0] = x /\ \A i \in 1 .. n : f[i] = D[i][f[i - 1]]
    BY <2>3, Zenon DEF Defines
  <2>5. ASSUME NEW i \in 0 .. n PROVE f[i] = IF i = 0 THEN x ELSE Answer(p, f[i - 1], asked[i])
    <3>1. CASE i = 0
      BY <2>4, <3>1, Zenon
    <3>2. CASE i # 0
      <4>1. i \in 1 .. n /\ i - 1 \in 0 .. n
        BY <1>2, <3>2
      <4> QED
        BY <2>2, <2>4, <3>2, <4>1, Zenon
    <3> QED
      BY <3>1, <3>2, Zenon
  <2>6. f = [i \in 0 .. n |-> f[i]]
    OBVIOUS
  <2> QED
    BY <2>5, <2>6, Zenon
<1>7. answered[0] = x /\ \A i \in 1 .. n : answered[i] = Answer(p, answered[i - 1], asked[i])
  <2>1. Is(answered)
    BY <1>6, Zenon
  <2> HIDE DEF answered
  <2>2. \A i \in 0 .. n : answered[i] = IF i = 0 THEN x ELSE Answer(p, answered[i - 1], asked[i])
    BY <2>1, Zenon
  <2>3. 0 \in 0 .. n /\ \A i \in 1 .. n : i \in 0 .. n /\ i # 0
    BY <1>2
  <2> QED
    BY <2>2, <2>3, Zenon
<1> HIDE DEF answered
<1> DEFINE Done == {i \in 0 .. n : answered[i] \in Sent}
<1>8. 0 \in Done /\ n \in 0 .. n
  <2>1. 0 \in 0 .. n /\ n \in 0 .. n
    BY <1>2
  <2> QED
    BY <1>3, <1>7, <2>1, Zenon
<1>9. ASSUME NEW i \in 0 .. n - 1, i \in Done PROVE i + 1 \in Done
  <2>1. i + 1 \in 1 .. n /\ i + 1 \in 0 .. n /\ (i + 1) - 1 = i
    BY <1>2
  <2>2. answered[i + 1] \in Sent
    BY <1>5, <1>7, <1>9, <2>1, Zenon
  <2> QED
    BY <2>1, <2>2, Zenon
<1> HIDE DEF Done
<1>10. \A i \in 0 .. n : i \in Done
  BY <1>2, <1>8, <1>9, InductionUpTo, Zenon
<1> QED
  BY <1>1, <1>8, <1>10, Zenon DEF Done

-----------------------------------------------------------------------------
(* The messages keep their types. *)

LEMMA ToPeerKinds ==
    ASSUME NEW m \in ToPeer
    PROVE  /\ m.type = "getblocks" => m.locator \in Blocks /\ m.stop \in Block1
           /\ m.type = "getdata" => m.blocks \in Seq(Blocks)
  BY DEF ToPeer

LEMMA ToNodeKinds ==
    ASSUME NEW m \in ToNode
    PROVE  /\ m.type = "inv" => m.blocks \in Seq(Blocks)
           /\ m.type = "block" => m.block \in Blocks
  BY DEF ToNode

LEMMA GetBlocksType ==
    ASSUME NodeTypes, NEW b \in Block1 PROVE GetBlocks(b) \in ToPeer
  BY DEF NodeTypes, GetBlocks, ToPeer

LEMMA GetDataType ==
    ASSUME NEW q \in Seq(Blocks) PROVE GetData(q) \in ToPeer
  BY DEF GetData, ToPeer

LEMMA SendType ==
    ASSUME WireTypes, NEW p \in Peers, NEW m \in ToPeer, Send(p, m)
    PROVE  toPeer' \in [Peers -> Seq(ToPeer)]
<1>1. toPeer[p] \in Seq(ToPeer)
  BY Zenon DEF WireTypes
<1>2. Append(toPeer[p], m) \in Seq(ToPeer)
  BY <1>1
<1> QED
  BY <1>2, Zenon DEF WireTypes, Send

\* Receive takes the first message.
LEMMA ReceiveType ==
    ASSUME WireTypes, NEW p \in Peers, NEW t, Receive(p, t)
    PROVE  Head(toNode[p]) \in ToNode /\ toNode' \in [Peers -> Seq(ToNode)]
<1>1. toNode[p] \in Seq(ToNode) /\ toNode[p] # <<>>
  BY Zenon DEF WireTypes, Receive
<1>2. Head(toNode[p]) \in ToNode /\ Tail(toNode[p]) \in Seq(ToNode)
  BY <1>1
<1> QED
  BY <1>2, Zenon DEF WireTypes, Receive

LEMMA ServedType ==
    ASSUME WireTypes, NEW p \in Peers, toPeer[p] # <<>>
    PROVE  /\ Head(toPeer[p]) \in ToPeer
           /\ [toPeer EXCEPT ![p] = Tail(@)] \in [Peers -> Seq(ToPeer)]
<1>1. toPeer[p] \in Seq(ToPeer)
  BY Zenon DEF WireTypes
<1>2. Head(toPeer[p]) \in ToPeer /\ Tail(toPeer[p]) \in Seq(ToPeer)
  BY <1>1
<1> QED
  BY <1>2, Zenon DEF WireTypes

LEMMA ServeGetBlocksType ==
    ASSUME Least, Heights, WireTypes, NEW p \in Peers, ServeGetBlocks(p) PROVE WireTypes'
<1> DEFINE m    == Head(toPeer[p])
           rest == Path[LastCommonAncestor[m.locator][serves[p]]][serves[p]]
           upTo == Those(rest, {b \in Blocks : m.stop \notin Anc[b]})
           sent == First(Batch, upTo)
           new  == Blocks \ (serving[p].known \cup Range(serving[p].toSend))
           send == serving[p].toSend \o Those(sent, new)
           cont == IF Len(sent) = Batch THEN Last(sent) ELSE serving[p].continue
<1>1. /\ toPeer[p] # <<>> /\ m.type = "getblocks"
      /\ serving' = [serving EXCEPT ![p].toSend = send, ![p].continue = cont]
      /\ toPeer' = [toPeer EXCEPT ![p] = Tail(@)] /\ toNode' = toNode /\ serves' = serves
  BY Zenon DEF ServeGetBlocks
<1>2. m \in ToPeer /\ toPeer' \in [Peers -> Seq(ToPeer)]
  BY <1>1, ServedType, Zenon
<1>3. m.locator \in Blocks /\ serves[p] \in Blocks /\ serving[p] \in Serving
  BY <1>1, <1>2, ToPeerKinds, Zenon DEF WireTypes
<1> HIDE DEF m, send, cont
<1>4. rest \in Seq(Blocks)
  <2>1. LastCommonAncestor[m.locator][serves[p]] \in Blocks
    BY <1>3, CommonAncestor, Zenon
  <2> QED
    BY <1>3, <2>1, PathFacts, Zenon
<1> HIDE DEF rest
<1>5. upTo \in Seq(Blocks)
  BY <1>4, ThoseFacts, Zenon
<1> HIDE DEF upTo
<1>6. sent \in Seq(Blocks) /\ Batch \in Nat \ {0}
  BY <1>5, ConstantsType, FirstFacts, Zenon
<1> HIDE DEF sent
<1>7. send \in Seq(Blocks)
  <2>1. Those(sent, new) \in Seq(Blocks)
    BY <1>6, ThoseFacts, Zenon
  <2>2. serving[p].toSend \in Seq(Blocks)
    BY <1>3 DEF Serving
  <2> HIDE DEF new
  <2> QED
    BY <2>1, <2>2, ConcatFacts, Zenon DEF send
<1>8. cont \in Block1
  <2>1. serving[p].continue \in Block1
    BY <1>3 DEF Serving
  <2>2. Len(sent) = Batch => Last(sent) \in Blocks
    BY <1>6 DEF Last
  <2> QED
    BY <2>1, <2>2, Zenon DEF cont, Block1
<1>9. [serving[p] EXCEPT !.toSend = send, !.continue = cont] \in Serving
  BY <1>3, <1>7, <1>8, Zenon DEF Serving
<1>10. serving' = [serving EXCEPT ![p] = [serving[p] EXCEPT !.toSend = send, !.continue = cont]]
  BY <1>1, Zenon DEF WireTypes
<1>11. serving' \in [Peers -> Serving]
  BY <1>9, <1>10, Zenon DEF WireTypes
<1> QED
  BY <1>1, <1>2, <1>11, ZenonT(60) DEF WireTypes

LEMMA ServeInventoryType ==
    ASSUME Least, WireTypes, NEW p \in Peers, ServeInventory(p) PROVE WireTypes'
<1> DEFINE new == Those(serving[p].toSend, Blocks \ serving[p].known)
           msg == [type |-> "inv", blocks |-> new]
           x == IF new = <<>> THEN toNode[p] ELSE Append(toNode[p], msg)
           y == [serving[p] EXCEPT !.known = @ \cup Range(serving[p].toSend), !.toSend = <<>>]
<1>1. toNode' = [toNode EXCEPT ![p] = x] /\ toPeer' = toPeer /\ serves' = serves
  BY DEF ServeInventory
<1>2. serving' = [serving EXCEPT ![p] = y]
  BY Zenon DEF ServeInventory, WireTypes
<1>3. serving[p] \in Serving /\ toNode[p] \in Seq(ToNode)
  BY Zenon DEF WireTypes
<1>4. serving[p].toSend \in Seq(Blocks) /\ serving[p].known \subseteq Blocks
  BY <1>3 DEF Serving
<1>5. new \in Seq(Blocks)
  BY <1>4, ThoseFacts, Zenon
<1> HIDE DEF new
<1>6. msg \in ToNode
  BY <1>5 DEF ToNode
<1> HIDE DEF msg
<1>7. x \in Seq(ToNode)
  BY <1>3, <1>6
<1>8. y \in Serving
  <2>1. Range(serving[p].toSend) \subseteq Blocks
    BY <1>4 DEF Range
  <2> DEFINE u == serving[p].known \cup Range(serving[p].toSend)
  <2>2. u \in SUBSET Blocks
    BY <1>4, <2>1, Zenon
  <2>3. y = [serving[p] EXCEPT !.known = u, !.toSend = <<>>]
    BY Zenon
  <2> HIDE DEF u, y
  <2>4. <<>> \in Seq(Blocks)
    OBVIOUS
  <2> QED
    BY <1>3, <2>2, <2>3, <2>4, Zenon DEF Serving
<1> HIDE DEF x, y
<1> QED
  BY <1>1, <1>2, <1>7, <1>8, Zenon DEF WireTypes

LEMMA ServeGetDataType ==
    ASSUME Least, WireTypes, NEW p \in Peers, ServeGetData(p) PROVE WireTypes'
<1> DEFINE asked == Those(Head(toPeer[p]).blocks, Anc[serves[p]])
           a == Answers(p, asked)
           y == [serving[p] EXCEPT !.continue = a.continue]
<1>1. /\ toPeer[p] # <<>> /\ Head(toPeer[p]).type = "getdata"
      /\ toNode' = [toNode EXCEPT ![p] = a.sent]
      /\ toPeer' = [toPeer EXCEPT ![p] = Tail(@)] /\ serves' = serves
  BY DEF ServeGetData
<1>2. serving' = [serving EXCEPT ![p] = y]
  BY DEF ServeGetData, WireTypes
<1>3. Head(toPeer[p]) \in ToPeer /\ toPeer' \in [Peers -> Seq(ToPeer)]
  BY <1>1, ServedType, Zenon
<1>4. Head(toPeer[p]).blocks \in Seq(Blocks)
  BY <1>1, <1>3, ToPeerKinds, Zenon
<1>5. asked \in Seq(Blocks)
  BY <1>4, ThoseFacts, Zenon
<1> HIDE DEF asked
<1>6. a \in Sent
  BY <1>5, AnswersType, Zenon
<1>7. serving[p] \in Serving
  BY Zenon DEF WireTypes
<1> HIDE DEF a
<1>8. a.sent \in Seq(ToNode) /\ a.continue \in Block1
  BY <1>6 DEF Sent
<1>9. y \in Serving
  BY <1>7, <1>8 DEF Serving
<1> HIDE DEF y
<1> QED
  BY <1>1, <1>2, <1>3, <1>8, <1>9, Zenon DEF WireTypes

-----------------------------------------------------------------------------
(* The invariant *)

Data(b) == b \in Blocks /\ index[b] = "data"
Indexed(b) == b \in Blocks /\ index[b] # "absent"

\* The index is closed under ancestors, and so is the part of it with data.
IndexOK ==
  /\ Data(Genesis) /\ Data(tip)
  /\ \A b \in Blocks : Indexed(b) => \A a \in Anc[b] : Indexed(a)
  /\ \A b \in Blocks : Data(b) => \A a \in Anc[b] : Data(a)

\* A peer that is not connected has left nothing behind; the pointers of the
\* others are to blocks of the index.
Pointers(s, ix) ==
  /\ s.best # None => s.best \in Blocks /\ ix[s.best] # "absent"
  /\ s.common # None => s.common \in Blocks /\ ix[s.common] = "data"
PeersOK == \A p \in Peers : Pointers(st[p], index) /\ (p \notin conn => st[p] = NewState)

Agrees(p) ==
  /\ \A b \in Blocks : owner[b] = p <=> b \in Range(st[p].flight)
  /\ IsInjective(st[p].flight) /\ Len(st[p].flight) <= MAX_BLOCKS_IN_TRANSIT_PER_PEER
FlightOK ==
  /\ \A b \in Blocks : owner[b] # None => owner[b] \in conn /\ Indexed(b)
  /\ \A p \in Peers : Agrees(p)

BInv == NodeTypes /\ WireTypes /\ IndexOK /\ PeersOK /\ FlightOK

-----------------------------------------------------------------------------
(* FindNextBlocksToDownload *)

LEMMA CommonFacts ==
    ASSUME Least, Heights, NodeTypes, IndexOK, NEW s \in State, Pointers(s, index)
    PROVE  CommonBlock(s) = None \/ (Indexed(s.best) /\ Data(CommonBlock(s)))
<1> SUFFICES ASSUME Interesting(s) PROVE Indexed(s.best) /\ Data(CommonBlock(s))
  BY Zenon DEF CommonBlock
<1> DEFINE lower == IF Height[s.best] < Height[tip] THEN Height[s.best] ELSE Height[tip]
           guess == IF s.common # None THEN s.common ELSE GetAncestor(tip, lower)
<1>1. Indexed(s.best) /\ s.best \in Blocks
  BY Zenon DEF Interesting, Pointers, Indexed
<1>2. CommonBlock(s) = LastCommonAncestor[guess][s.best]
  BY Zenon DEF CommonBlock
<1>3. tip \in Blocks /\ Height[tip] \in Nat /\ Height[s.best] \in Nat /\ Height[s.best] >= Height[tip]
  BY <1>1, Zenon DEF NodeTypes, Interesting, Heights
<1>4. lower = Height[tip] /\ Height[tip] \in 0 .. Height[tip]
  BY <1>3
<1> HIDE DEF lower
<1>5. GetAncestor(tip, lower) \in Anc[tip]
  BY <1>3, <1>4, AncestorAt, Zenon
<1>6. Data(guess) /\ guess \in Blocks
  BY <1>3, <1>5, Zenon DEF IndexOK, Pointers, Data
<1> HIDE DEF guess
<1>7. LastCommonAncestor[guess][s.best] \in Anc[guess]
  BY <1>1, <1>6, CommonAncestor, Zenon
<1> QED
  BY <1>1, <1>2, <1>6, <1>7, Zenon DEF IndexOK

LEMMA WalkFacts ==
    ASSUME Least, Heights, IndexOK, NEW s \in State, NEW c,
           c = None \/ (Indexed(s.best) /\ Data(c))
    PROVE  /\ Walk(s, c) \in Seq(Blocks) /\ IsInjective(Walk(s, c))
           /\ \A b \in Range(Walk(s, c)) : Indexed(b)
<1>1. CASE c = None
  <2>1. Walk(s, c) = <<>>
    BY <1>1, Zenon DEF Walk
  <2>2. <<>> \in Seq(Blocks) /\ DOMAIN <<>> = {}
    OBVIOUS
  <2> QED
    BY <2>1, <2>2, Zenon DEF Range, IsInjective
<1>2. CASE c # None
  <2> DEFINE q == Path[c][s.best]
             k == BLOCK_DOWNLOAD_WINDOW + 1
  <2>1. c \in Blocks /\ s.best \in Blocks /\ Indexed(s.best)
    BY <1>2, Zenon DEF Data, Indexed
  <2>2. q \in Seq(Blocks) /\ IsInjective(q) /\ Range(q) \subseteq Anc[s.best]
    BY <2>1, PathFacts, Zenon
  <2>3. k \in Nat
    BY ConstantsType
  <2>4. Walk(s, c) = First(k, q)
    BY <1>2, Zenon DEF Walk
  <2> HIDE DEF q, k
  <2>5. First(k, q) \in Seq(Blocks) /\ Range(First(k, q)) \subseteq Range(q) /\ IsInjective(First(k, q))
    BY <2>2, <2>3, FirstFacts, Zenon
  <2>6. \A b \in Anc[s.best] : Indexed(b)
    BY <2>1, Zenon DEF IndexOK
  <2> QED
    BY <2>2, <2>4, <2>5, <2>6, Zenon
<1> QED
  BY <1>1, <1>2, Zenon

\* Only stored blocks move the last common block.
LEMMA MovedFacts ==
    ASSUME Least, NEW c, NEW walk \in Seq(Blocks), Data(c) PROVE Data(MovedTo(c, walk))
<1> DEFINE D == {b \in Blocks : index[b] = "data"}
           q == Those(walk, D)
<1>1. q \in Seq(Blocks) /\ Range(q) = Range(walk) \cap D
  BY ThoseFacts, Zenon
<1>2. MovedTo(c, walk) = IF q = <<>> THEN c ELSE Last(q)
  BY Zenon DEF MovedTo
<1> HIDE DEF q
<1>3. q # <<>> => Last(q) \in Range(q)
  <2>1. q # <<>> => Len(q) \in DOMAIN q
    BY <1>1
  <2> QED
    BY <2>1, Zenon DEF Last, Range
<1> QED
  BY <1>1, <1>2, <1>3, Zenon DEF Data

LEMMA FetchFacts ==
    ASSUME Least, NEW c, NEW walk \in Seq(Blocks), IsInjective(walk), NEW n \in Nat,
           \A b \in Range(walk) : Indexed(b)
    PROVE  /\ Fetch(c, walk, n) \in Seq(Blocks) /\ IsInjective(Fetch(c, walk, n))
           /\ Len(Fetch(c, walk, n)) <= n
           /\ \A b \in Range(Fetch(c, walk, n)) : Indexed(b) /\ owner[b] = None
<1> DEFINE A == {b \in Blocks : index[b] # "data" /\ owner[b] = None}
           B == {b \in Blocks : Height[b] <= Height[c] + BLOCK_DOWNLOAD_WINDOW}
           q == Those(walk, A)
           r == Those(q, B)
<1>1. q \in Seq(Blocks) /\ IsInjective(q) /\ Range(q) = Range(walk) \cap A
  BY ThoseFacts, Zenon
<1>2. Fetch(c, walk, n) = First(n, r)
  BY Zenon DEF Fetch, Lacks
<1> HIDE DEF q
<1>3. r \in Seq(Blocks) /\ IsInjective(r) /\ Range(r) = Range(q) \cap B
  BY <1>1, ThoseFacts, ZenonT(60)
<1> HIDE DEF r, B
<1>4. /\ First(n, r) \in Seq(Blocks) /\ Range(First(n, r)) \subseteq Range(r)
      /\ Len(First(n, r)) <= n /\ IsInjective(First(n, r))
  BY <1>3, FirstFacts, Zenon
<1> QED
  BY <1>1, <1>2, <1>3, <1>4, Zenon

-----------------------------------------------------------------------------
(* What the steps do to the invariant *)

\* Blocks and their data stay in the index.
Grows == \A b \in Blocks : (Indexed(b) => Indexed(b)') /\ (Data(b) => Data(b)')

LEMMA GrowsSame == ASSUME index' = index PROVE Grows
  BY Zenon DEF Grows, Indexed, Data

LEMMA SameIndex == ASSUME IndexOK, index' = index, tip' = tip PROVE IndexOK'
  BY Zenon DEF IndexOK, Indexed, Data

LEMMA GrowsPointers == ASSUME Grows, NEW s, Pointers(s, index) PROVE Pointers(s, index')
  BY Zenon DEF Grows, Pointers, Indexed, Data

\* The state of a peer as the other data of the node sees it.
LEMMA SamePeers ==
    ASSUME PeersOK, Grows, NodeTypes, conn \subseteq conn', st' = st PROVE PeersOK'
<1> SUFFICES ASSUME NEW p \in Peers PROVE Pointers(st'[p], index') /\ (p \notin conn' => st'[p] = NewState)
  BY Zenon DEF PeersOK
<1>1. Pointers(st[p], index) /\ (p \notin conn => st[p] = NewState)
  BY Zenon DEF PeersOK
<1> QED
  BY <1>1, GrowsPointers, Zenon

LEMMA SameFlight ==
    ASSUME FlightOK, Grows, owner' = owner, conn \subseteq conn',
           \A p \in Peers : st'[p].flight = st[p].flight
    PROVE  FlightOK'
<1>1. \A p \in Peers : Agrees(p)'
  BY Zenon DEF FlightOK, Agrees
<1>2. \A b \in Blocks : owner'[b] # None => owner'[b] \in conn' /\ Indexed(b)'
  BY Zenon DEF FlightOK, Grows
<1> QED
  BY <1>1, <1>2, Zenon DEF FlightOK

LEMMA NewStateType == NewState \in State /\ NewState.flight = <<>> /\ NewState.sync = FALSE
                      /\ NewState.best = None /\ NewState.common = None
  BY DEF NewState, State, Block1

LEMMA ConnectStep == ASSUME BInv, NEW p \in Peers, Connect(p) PROVE BInv'
<1>1. /\ conn' = conn \cup {p} /\ UNCHANGED <<index, tip, owner, disc, st>>
      /\ UNCHANGED <<toPeer, toNode, serving, serves>>
  BY Zenon DEF Connect, node
<1>2. Grows /\ IndexOK'
  BY <1>1, GrowsSame, SameIndex, Zenon DEF BInv
<1>3. PeersOK' /\ FlightOK'
  BY <1>1, <1>2, SamePeers, SameFlight, Zenon DEF BInv
<1>4. NodeTypes' /\ WireTypes'
  BY <1>1, Zenon DEF BInv, NodeTypes, WireTypes
<1> QED
  BY <1>2, <1>3, <1>4, Zenon DEF BInv

LEMMA DropStep == ASSUME BInv, NEW p \in Peers, Drop(p) PROVE BInv'
<1>1. /\ disc' = disc \cup {p} /\ p \in conn /\ UNCHANGED <<index, tip, owner, conn, st>>
      /\ UNCHANGED <<toPeer, toNode, serving, serves>>
  BY Zenon DEF Drop, node
<1>2. Grows /\ IndexOK'
  BY <1>1, GrowsSame, SameIndex, Zenon DEF BInv
<1>3. PeersOK' /\ FlightOK'
  BY <1>1, <1>2, SamePeers, SameFlight, Zenon DEF BInv
<1>4. NodeTypes' /\ WireTypes'
  BY <1>1, Zenon DEF BInv, NodeTypes, WireTypes
<1> QED
  BY <1>2, <1>3, <1>4, Zenon DEF BInv

LEMMA ServeStep ==
    ASSUME BInv, WireTypes', UNCHANGED <<node, peers, st>> PROVE BInv'
<1>1. UNCHANGED <<index, tip, owner, conn, disc, st>>
  BY Zenon DEF node, peers
<1>2. Grows /\ IndexOK'
  BY <1>1, GrowsSame, SameIndex, Zenon DEF BInv
<1>3. PeersOK' /\ FlightOK'
  BY <1>1, <1>2, SamePeers, SameFlight, Zenon DEF BInv
<1>4. NodeTypes'
  BY <1>1, Zenon DEF BInv, NodeTypes
<1> QED
  BY <1>2, <1>3, <1>4, Zenon DEF BInv

\* FinalizeNode: the blocks of the peer are in flight from nobody, the others
\* as before.
LEMMA FinalizeStep == ASSUME BInv, NEW p \in Peers, FinalizeNode(p) PROVE BInv'
<1>1. /\ p \in disc /\ conn' = conn \ {p} /\ disc' = disc \ {p}
      /\ owner' = [b \in Blocks |-> IF b \in Range(st[p].flight) THEN None ELSE owner[b]]
      /\ st' = [st EXCEPT ![p] = NewState] /\ serving' = [serving EXCEPT ![p] = NewServing]
      /\ toPeer' = [toPeer EXCEPT ![p] = <<>>] /\ toNode' = [toNode EXCEPT ![p] = <<>>]
      /\ UNCHANGED <<index, tip, serves>>
  BY Zenon DEF FinalizeNode
<1>2. Grows /\ IndexOK'
  BY <1>1, GrowsSame, SameIndex, Zenon DEF BInv
<1>3. st \in [Peers -> State] /\ owner \in [Blocks -> Peers \cup {None}]
  BY Zenon DEF BInv, NodeTypes
<1>4. st'[p] = NewState /\ \A q \in Peers \ {p} : st'[q] = st[q]
  BY <1>1, <1>3, Zenon
<1>5. \A b \in Blocks : owner[b] = p <=> b \in Range(st[p].flight)
  BY Zenon DEF BInv, FlightOK, Agrees
<1>6. \A b \in Blocks : owner'[b] = IF owner[b] = p THEN None ELSE owner[b]
  BY <1>1, <1>5, Zenon
<1>7. NodeTypes'
  <2>1. owner' \in [Blocks -> Peers \cup {None}]
    BY <1>1, <1>3, Zenon
  <2>2. st' \in [Peers -> State]
    BY <1>1, <1>3, NewStateType, Zenon
  <2> QED
    BY <1>1, <2>1, <2>2, Zenon DEF BInv, NodeTypes
<1>8. WireTypes'
  <2>1. <<>> \in Seq(ToPeer) /\ <<>> \in Seq(ToNode)
    OBVIOUS
  <2>2. NewServing \in Serving
    BY DEF NewServing, Serving, Block1
  <2> QED
    BY <1>1, <2>1, <2>2, Zenon DEF BInv, WireTypes
<1>9. PeersOK'
  <2>1. ASSUME NEW q \in Peers PROVE Pointers(st'[q], index') /\ (q \notin conn' => st'[q] = NewState)
    <3>1. CASE q = p
      <4>1. Pointers(NewState, index')
        BY NewStateType, Zenon DEF Pointers
      <4> QED
        BY <1>4, <3>1, <4>1, Zenon
    <3>2. CASE q # p
      <4>1. Pointers(st[q], index) /\ (q \notin conn => st[q] = NewState)
        BY Zenon DEF BInv, PeersOK
      <4> QED
        BY <1>1, <1>2, <1>4, <3>2, <4>1, GrowsPointers, Zenon
    <3> QED
      BY <3>1, <3>2, Zenon
  <2> QED
    BY <2>1, Zenon DEF PeersOK
<1>10. FlightOK'
  <2>1. \A b \in Blocks : owner'[b] # None => owner'[b] \in conn' /\ Indexed(b)'
    BY <1>1, <1>2, <1>6, Zenon DEF BInv, FlightOK, Grows
  <2>2. Agrees(p)'
    <3>1. st'[p].flight = <<>> /\ DOMAIN <<>> = {} /\ Len(<<>>) <= MAX_BLOCKS_IN_TRANSIT_PER_PEER
      BY <1>4, NewStateType, ConstantsType
    <3>2. Range(<<>>) = {} /\ IsInjective(<<>>)
      BY <3>1, Zenon DEF Range, IsInjective
    <3>3. \A b \in Blocks : owner'[b] # p
      BY <1>6, TreeFacts, Zenon
    <3> QED
      BY <3>1, <3>2, <3>3, Zenon DEF Agrees
  <2>3. ASSUME NEW q \in Peers \ {p} PROVE Agrees(q)'
    <3>1. \A b \in Blocks : owner'[b] = q <=> owner[b] = q
      BY <1>6, TreeFacts, ZenonT(60)
    <3>2. Agrees(q)
      BY Zenon DEF BInv, FlightOK
    <3> QED
      BY <1>4, <3>1, <3>2, Zenon DEF Agrees
  <2> QED
    BY <2>1, <2>2, <2>3, Zenon DEF FlightOK
<1> QED
  BY <1>2, <1>7, <1>8, <1>9, <1>10, Zenon DEF BInv

LEMMA LearntPointers ==
    ASSUME NEW s, NEW t, Learnt(s, t), Pointers(s, index) PROVE Pointers(t, index)
  BY Zenon DEF Learnt, Pointers

\* A step that changes one connected peer and none of its blocks in flight
LEMMA PeerStep ==
    ASSUME BInv, WireTypes', NEW p \in conn, NEW s \in State, Pointers(s, index),
           s.flight = st[p].flight, st' = [st EXCEPT ![p] = s],
           UNCHANGED <<index, tip, owner, conn>>, disc' \subseteq conn
    PROVE  BInv'
<1>1. Grows /\ IndexOK'
  BY GrowsSame, SameIndex, Zenon DEF BInv
<1>2. st \in [Peers -> State] /\ p \in Peers
  BY Zenon DEF BInv, NodeTypes
<1>3. st'[p] = s /\ \A q \in Peers \ {p} : st'[q] = st[q]
  BY <1>2, Zenon
<1>4. FlightOK'
  BY <1>1, <1>3, SameFlight, Zenon DEF BInv
<1>5. PeersOK'
  BY <1>2, <1>3, Zenon DEF BInv, PeersOK
<1>6. NodeTypes'
  BY <1>2, Zenon DEF BInv, NodeTypes
<1> QED
  BY <1>1, <1>4, <1>5, <1>6, Zenon DEF BInv

LEMMA ReceiveInvStep ==
    ASSUME Least, BInv, NEW p \in Peers, ReceiveInv(p) PROVE BInv'
<1> DEFINE blocks == Head(toNode[p]).blocks
           fetch  == Those(blocks, {b \in Blocks : ~Known(b) /\ owner[b] = None})
           s == AllAnnounced(st[p], blocks)
<1>1. /\ Receive(p, "inv") /\ st' = [st EXCEPT ![p] = s]
      /\ IF fetch = <<>> THEN UNCHANGED toPeer ELSE Send(p, GetData(fetch))
      /\ UNCHANGED <<index, tip, owner, conn, disc, serving, serves>>
  BY DEF ReceiveInv, node, peers
<1>2. Head(toNode[p]) \in ToNode /\ toNode' \in [Peers -> Seq(ToNode)]
  BY <1>1, ReceiveType, Zenon DEF BInv
<1>3. p \in conn /\ Head(toNode[p]).type = "inv"
  BY <1>1, Zenon DEF Receive
<1>4. blocks \in Seq(Blocks)
  BY <1>2, <1>3, ToNodeKinds, Zenon
<1> HIDE DEF blocks
<1>5. fetch \in Seq(Blocks)
  BY <1>4, ThoseFacts, Zenon
<1> HIDE DEF fetch
<1>6. toPeer' \in [Peers -> Seq(ToPeer)]
  <2>1. GetData(fetch) \in ToPeer
    BY <1>5, GetDataType, Zenon
  <2> QED
    BY <1>1, <2>1, SendType, Zenon DEF BInv, WireTypes
<1>7. WireTypes'
  BY <1>1, <1>2, <1>6, Zenon DEF BInv, WireTypes
<1>8. st[p] \in State /\ Pointers(st[p], index)
  BY Zenon DEF BInv, NodeTypes, PeersOK
<1>9. Learnt(st[p], s)
  BY <1>4, <1>8, AllAnnouncedFacts, Zenon
<1> HIDE DEF s
<1>10. s \in State /\ s.flight = st[p].flight /\ Pointers(s, index)
  BY <1>8, <1>9, LearntPointers, Zenon DEF Learnt
<1>11. disc' \subseteq conn
  BY <1>1, Zenon DEF BInv, NodeTypes
<1> QED
  BY <1>1, <1>3, <1>7, <1>10, <1>11, PeerStep, Zenon

\* AcceptBlock: the parent of the block is in the index, and has its data if the
\* block gets its own.
LEMMA AcceptFacts ==
    ASSUME Heights, NodeTypes, IndexOK, NEW b \in Blocks \ {Genesis}, ~Data(b), Indexed(Parent[b]),
           AcceptBlock(b)
    PROVE  /\ index' \in [Blocks -> {"absent", "header", "data"}] /\ tip' \in Blocks
           /\ IndexOK' /\ Grows
<1>1. PICK ok \in BOOLEAN :
        /\ ok => index[Parent[b]] # "header"
        /\ index' = [index EXCEPT ![b] = IF ok THEN "data" ELSE "header"]
        /\ tip' = IF ok /\ Height[b] > Height[tip] THEN b ELSE tip
  BY Zenon DEF AcceptBlock
<1>2. index \in [Blocks -> {"absent", "header", "data"}] /\ tip \in Blocks
  BY Zenon DEF NodeTypes
<1>3. index' \in [Blocks -> {"absent", "header", "data"}] /\ tip' \in Blocks
  BY <1>1, <1>2, Zenon
<1>4. index'[b] = (IF ok THEN "data" ELSE "header") /\ \A x \in Blocks \ {b} : index'[x] = index[x]
  BY <1>1, <1>2, Zenon
<1>5. /\ "data" # "absent" /\ "header" # "absent" /\ "data" # "header"
      /\ index[b] # "data" /\ index'[b] # "absent"
  BY <1>4 DEF Data
<1>6. \A x \in Blocks : (Indexed(x) => Indexed(x)') /\ (Data(x) => Data(x)')
  BY <1>4, <1>5, Zenon DEF Indexed, Data
<1>7. Parent[b] \in Blocks /\ Anc[b] = Anc[Parent[b]] \cup {b}
  BY TreeFacts, Zenon
<1>8. ok => Data(Parent[b])
  BY <1>1, <1>2, <1>7 DEF Indexed, Data
<1>9. ASSUME NEW x \in Blocks, Indexed(x)', NEW a \in Anc[x] PROVE Indexed(a)'
  <2>1. a \in Blocks
    BY TreeFacts, Zenon
  <2>2. CASE x = b
    BY <1>4, <1>5, <1>6, <1>7, <2>1, <2>2, Zenon DEF IndexOK, Indexed
  <2>3. CASE x # b
    BY <1>4, <1>6, <1>9, <2>1, <2>3, Zenon DEF IndexOK, Indexed
  <2> QED
    BY <2>2, <2>3, Zenon
<1>10. ASSUME NEW x \in Blocks, Data(x)', NEW a \in Anc[x] PROVE Data(a)'
  <2>1. a \in Blocks
    BY TreeFacts, Zenon
  <2>2. CASE x = b
    <3>1. ok
      BY <1>4, <1>5, <1>10, <2>2, Zenon DEF Data
    <3>2. a = b \/ Data(a)
      BY <1>7, <1>8, <2>2, <3>1, Zenon DEF IndexOK
    <3>3. Data(b)'
      BY <1>4, <3>1, Zenon DEF Data
    <3> QED
      BY <1>6, <2>1, <3>2, <3>3, Zenon
  <2>3. CASE x # b
    <3>1. Data(x)
      BY <1>4, <1>10, <2>3, Zenon DEF Data
    <3> QED
      BY <1>6, <2>1, <3>1, Zenon DEF IndexOK
  <2> QED
    BY <2>2, <2>3, Zenon
<1>11. Data(Genesis)' /\ Data(tip)'
  <2>1. Data(Genesis)'
    BY <1>6, TreeFacts, Zenon DEF IndexOK
  <2>2. CASE tip' = tip
    <3>1. index'[tip] = "data"
      BY <1>2, <1>6, Zenon DEF IndexOK, Data
    <3> QED
      BY <1>3, <2>1, <2>2, <3>1, Zenon DEF Data
  <2>3. CASE tip' # tip
    <3>1. tip' = b /\ ok
      BY <1>1, <2>3, Zenon
    <3> QED
      BY <1>4, <2>1, <3>1, Zenon DEF Data
  <2> QED
    BY <2>2, <2>3, Zenon
<1>12. IndexOK'
  BY <1>9, <1>10, <1>11, Zenon DEF IndexOK
<1> QED
  BY <1>3, <1>6, <1>12, Zenon DEF Grows

\* AcceptBlock and then MarkBlockAsReceived, whoever has the block in flight
LEMMA AcceptStep ==
    ASSUME Least, Heights, BInv, WireTypes', UNCHANGED <<conn, disc>>,
           NEW b \in Blocks \ {Genesis}, ~Data(b), Indexed(Parent[b]), AcceptBlock(b), Received(b)
    PROVE  BInv'
<1>1. /\ index' \in [Blocks -> {"absent", "header", "data"}] /\ tip' \in Blocks
      /\ IndexOK' /\ Grows
  BY AcceptFacts, Zenon DEF BInv
<1>2. /\ st \in [Peers -> State] /\ owner \in [Blocks -> Peers \cup {None}]
      /\ \A x \in Blocks : owner[x] # None => owner[x] \in conn /\ Indexed(x)
      /\ \A p \in Peers : Agrees(p)
  BY Zenon DEF BInv, NodeTypes, FlightOK
<1>3. CASE owner[b] = None
  <2>1. owner' = owner /\ st' = st
    BY <1>3, Zenon DEF Received
  <2>2. PeersOK' /\ FlightOK'
    BY <1>1, <2>1, SamePeers, SameFlight, Zenon DEF BInv
  <2>3. NodeTypes'
    BY <1>1, <2>1, Zenon DEF BInv, NodeTypes
  <2> QED
    BY <1>1, <2>2, <2>3, Zenon DEF BInv
<1>4. CASE owner[b] # None
  <2> DEFINE q == owner[b]
             f == Those(st[q].flight, Blocks \ {b})
             s == [st[q] EXCEPT !.flight = f, !.stalling = FALSE]
  <2>1. q \in Peers /\ q \in conn
    BY <1>2, <1>4, Zenon
  <2>2. owner' = [owner EXCEPT ![b] = None]
    BY <1>4, Zenon DEF Received
  <2>3. st' = [st EXCEPT ![q] = s]
    BY <1>2, <1>4, <2>1, Zenon DEF Received
  <2>4. st[q] \in State
    BY <1>2, <2>1, Zenon
  <2>5. st[q].flight \in Seq(Blocks)
    BY <2>4 DEF State
  <2>6. Agrees(q)
    BY <1>2, <2>1, Zenon
  <2> HIDE DEF q
  <2>7. /\ f \in Seq(Blocks) /\ IsInjective(f) /\ Len(f) <= Len(st[q].flight)
        /\ Range(f) = Range(st[q].flight) \cap (Blocks \ {b})
    BY <2>5, <2>6, ThoseFacts, Zenon DEF Agrees
  <2> HIDE DEF f
  <2>8. s \in State /\ s.flight = f /\ s.best = st[q].best /\ s.common = st[q].common
    BY <2>4, <2>7, Zenon DEF State
  <2> HIDE DEF s
  <2>9. st'[q] = s /\ \A p \in Peers \ {q} : st'[p] = st[p]
    BY <1>2, <2>1, <2>3, Zenon
  <2>10. owner'[b] = None /\ \A x \in Blocks \ {b} : owner'[x] = owner[x]
    BY <1>2, <2>2, Zenon
  <2>11. NodeTypes'
    <3>1. owner' \in [Blocks -> Peers \cup {None}] /\ st' \in [Peers -> State]
      BY <1>2, <2>2, <2>3, <2>8, Zenon
    <3> QED
      BY <1>1, <3>1, Zenon DEF BInv, NodeTypes
  <2>12. PeersOK'
    <3>1. ASSUME NEW p \in Peers PROVE Pointers(st'[p], index') /\ (p \notin conn' => st'[p] = NewState)
      <4>1. Pointers(st[p], index') /\ (p \notin conn => st[p] = NewState)
        BY <1>1, GrowsPointers, Zenon DEF BInv, PeersOK
      <4>2. CASE p = q
        BY <2>1, <2>8, <2>9, <4>1, <4>2, Zenon DEF Pointers
      <4>3. CASE p # q
        BY <2>9, <4>1, <4>3, Zenon
      <4> QED
        BY <4>2, <4>3, Zenon
    <3> QED
      BY <3>1, Zenon DEF PeersOK
  <2>13. ASSUME NEW p \in Peers PROVE Agrees(p)'
    <3>1. CASE p = q
      <4>1. Len(f) <= MAX_BLOCKS_IN_TRANSIT_PER_PEER
        <5>1. Len(st[q].flight) <= MAX_BLOCKS_IN_TRANSIT_PER_PEER
          BY <2>6, Zenon DEF Agrees
        <5> QED
          BY <2>5, <2>7, <5>1, ConstantsType
      <4>2. ASSUME NEW x \in Blocks PROVE owner'[x] = q <=> x \in Range(f)
        BY <2>1, <2>6, <2>7, <2>10, TreeFacts, Zenon DEF Agrees
      <4> QED
        BY <2>7, <2>8, <2>9, <3>1, <4>1, <4>2, ZenonT(60) DEF Agrees
    <3>2. CASE p # q
      <4>1. ASSUME NEW x \in Blocks PROVE owner'[x] = p <=> owner[x] = p
        BY <2>10, <3>2, TreeFacts, Zenon DEF q
      <4>2. Agrees(p)
        BY <1>2, Zenon
      <4> QED
        BY <2>9, <3>2, <4>1, <4>2, Zenon DEF Agrees
    <3> QED
      BY <3>1, <3>2, Zenon
  <2>14. FlightOK'
    <3>1. \A x \in Blocks : owner'[x] # None => owner'[x] \in conn' /\ Indexed(x)'
      BY <1>1, <1>2, <2>10, Zenon DEF Grows
    <3> QED
      BY <2>13, <3>1, Zenon DEF FlightOK
  <2> QED
    BY <1>1, <2>11, <2>12, <2>14, Zenon DEF BInv
<1> QED
  BY <1>3, <1>4, Zenon

LEMMA ReceiveBlockStep ==
    ASSUME Least, Heights, BInv, NEW p \in Peers, ReceiveBlock(p) PROVE BInv'
<1> DEFINE b    == Head(toNode[p]).block
           stop == IF b \in st[p].requested THEN Parent[b] ELSE b
<1>1. /\ Receive(p, "block")
      /\ UNCHANGED <<conn, disc, serving, serves>>
      /\ IF b # Genesis /\ ~Known(Parent[b])
         THEN /\ Send(p, GetBlocks(stop))
              /\ st' = [st EXCEPT ![p].requested = @ \cup {stop}]
              /\ UNCHANGED node
         ELSE /\ UNCHANGED toPeer
              /\ IF Known(b) THEN UNCHANGED <<node, st>> ELSE AcceptBlock(b) /\ Received(b)
  BY DEF ReceiveBlock, peers
<1>2. Head(toNode[p]) \in ToNode /\ toNode' \in [Peers -> Seq(ToNode)]
  BY <1>1, ReceiveType, Zenon DEF BInv
<1>3. p \in conn /\ Head(toNode[p]).type = "block"
  BY <1>1, Zenon DEF Receive
<1>4. b \in Blocks
  BY <1>2, <1>3, ToNodeKinds, Zenon
<1> HIDE DEF b
<1>5. st[p] \in State /\ Pointers(st[p], index) /\ st \in [Peers -> State]
  BY Zenon DEF BInv, NodeTypes, PeersOK
<1>6. disc' \subseteq conn /\ disc' \subseteq conn'
  BY <1>1, Zenon DEF BInv, NodeTypes
<1>7. CASE b # Genesis /\ ~Known(Parent[b])
  <2> DEFINE r == st[p].requested \cup {stop}
             s == [st[p] EXCEPT !.requested = r]
  <2>1. stop \in Blocks
    BY <1>4, <1>7, TreeFacts, Zenon
  <2>2. st' = [st EXCEPT ![p] = s]
    BY <1>1, <1>5, <1>7
  <2>3. Send(p, GetBlocks(stop)) /\ UNCHANGED <<index, tip, owner>>
    BY <1>1, <1>7, Zenon DEF node
  <2> HIDE DEF stop
  <2>4. GetBlocks(stop) \in ToPeer
    BY <2>1, GetBlocksType, Zenon DEF BInv, Block1
  <2>5. WireTypes'
    <3>1. toPeer' \in [Peers -> Seq(ToPeer)]
      BY <2>3, <2>4, SendType, Zenon DEF BInv
    <3> QED
      BY <1>1, <1>2, <3>1, Zenon DEF BInv, WireTypes
  <2>6. r \in SUBSET Blocks
    BY <1>5, <2>1 DEF State
  <2> HIDE DEF r
  <2>7. s \in State /\ s.flight = st[p].flight /\ s.best = st[p].best /\ s.common = st[p].common
    BY <1>5, <2>6 DEF State
  <2> HIDE DEF s
  <2>8. Pointers(s, index)
    BY <1>5, <2>7, Zenon DEF Pointers
  <2> QED
    BY <1>1, <1>3, <1>6, <2>2, <2>3, <2>5, <2>7, <2>8, PeerStep, Zenon
<1>8. CASE ~(b # Genesis /\ ~Known(Parent[b]))
  <2>1. WireTypes'
    BY <1>1, <1>2, <1>8, Zenon DEF BInv, WireTypes
  <2>2. CASE Known(b)
    <3>1. UNCHANGED <<index, tip, owner, st>>
      BY <1>1, <1>8, <2>2, Zenon DEF node
    <3>2. st' = [st EXCEPT ![p] = st[p]]
      BY <1>5, <3>1, Zenon
    <3> QED
      BY <1>1, <1>3, <1>5, <1>6, <2>1, <3>1, <3>2, PeerStep, Zenon
  <2>3. CASE ~Known(b)
    <3>1. AcceptBlock(b) /\ Received(b)
      BY <1>1, <1>8, <2>3, Zenon
    <3>2. b # Genesis
      BY <2>3, TreeFacts DEF Known, BInv, IndexOK, Data
    <3>3. b \in Blocks \ {Genesis} /\ Parent[b] \in Blocks
      BY <1>4, <3>2, TreeFacts, Zenon
    <3>4. Indexed(Parent[b])
      BY <1>8, <3>2, <3>3, Zenon DEF Known, Indexed
    <3>5. ~Data(b)
      BY <1>4, <2>3, TreeFacts DEF Known, Data
    <3> QED
      BY <1>1, <2>1, <3>1, <3>3, <3>4, <3>5, AcceptStep, Zenon
  <2> QED
    BY <2>2, <2>3, Zenon
<1> QED
  BY <1>7, <1>8, Zenon

LEMMA SubmitStep ==
    ASSUME Least, Heights, BInv, NEW b \in Refusable, SubmitBlock(b) PROVE BInv'
<1>1. /\ index[b] = "header" /\ AcceptBlock(b) /\ Received(b)
      /\ UNCHANGED <<conn, disc, toPeer, toNode, serving, serves>>
  BY Zenon DEF SubmitBlock
<1>2. b \in Blocks \ {Genesis} /\ Parent[b] \in Blocks
  BY ConstantsType, TreeFacts, Zenon
<1>3. Indexed(b) /\ ~Data(b)
  BY <1>1, <1>2 DEF Indexed, Data
<1>4. Indexed(Parent[b])
  <2>1. Parent[b] \in Anc[b]
    BY <1>2, TreeFacts, ZenonT(60)
  <2> QED
    BY <1>2, <1>3, <2>1, Zenon DEF BInv, IndexOK
<1>5. WireTypes'
  BY <1>1, Zenon DEF BInv, WireTypes
<1> QED
  BY <1>1, <1>2, <1>3, <1>4, <1>5, AcceptStep, Zenon

LEMMA SyncType ==
    ASSUME NEW x \in State, NEW c \in BOOLEAN
    PROVE  LET s == [x EXCEPT !.sync = c]
           IN  /\ s \in State /\ s.flight = x.flight /\ s.best = x.best /\ s.common = x.common
               /\ s.sync = c
  BY DEF State

LEMMA GiveUpStep ==
    ASSUME BInv, NEW p \in conn, GiveUp(p),
           UNCHANGED <<index, tip, conn, toNode, serving, serves>>
    PROVE  BInv'
<1> DEFINE c == st[p].sync \/ StartSync(p)
           s == [st[p] EXCEPT !.sync = c]
<1>1. /\ disc' = disc \cup {p} /\ owner' = owner
      /\ IF StartSync(p) THEN Send(p, GetBlocks(None)) ELSE UNCHANGED toPeer
  BY Zenon DEF GiveUp
<1>2. /\ st[p] \in State /\ Pointers(st[p], index) /\ st \in [Peers -> State]
      /\ disc \subseteq conn /\ p \in Peers
  BY Zenon DEF BInv, NodeTypes, PeersOK
<1>3. st' = [st EXCEPT ![p] = s]
  BY <1>2 DEF GiveUp
<1>4. c \in BOOLEAN
  BY Zenon DEF StartSync
<1> HIDE DEF c
<1>5. s \in State /\ s.flight = st[p].flight /\ s.best = st[p].best /\ s.common = st[p].common
  BY <1>2, <1>4, SyncType, Zenon
<1> HIDE DEF s
<1>6. Pointers(s, index)
  BY <1>2, <1>5, Zenon DEF Pointers
<1>7. WireTypes'
  <2>1. GetBlocks(None) \in ToPeer
    BY GetBlocksType, Zenon DEF BInv, Block1
  <2>2. toPeer' \in [Peers -> Seq(ToPeer)]
    BY <1>1, <1>2, <2>1, SendType, Zenon DEF BInv, WireTypes
  <2> QED
    BY <2>2, Zenon DEF BInv, WireTypes
<1>8. disc' \subseteq conn
  BY <1>1, <1>2, Zenon
<1> QED
  BY <1>1, <1>3, <1>5, <1>6, <1>7, <1>8, PeerStep, Zenon

\* The effects of Download, once what it computes has names.
Requests(p, s, common, walk, fetch) ==
  /\ toPeer' = [toPeer EXCEPT ![p] = @ \o (IF StartSync(p) THEN <<GetBlocks(None)>> ELSE <<>>)
                                      \o (IF fetch = <<>> THEN <<>> ELSE <<GetData(fetch)>>)]
  /\ MarkBlocksAsInFlight(p, fetch)
  /\ st' = [q \in Peers |->
       IF q = p THEN [s EXCEPT !.sync = @ \/ StartSync(p), !.flight = @ \o fetch,
                               !.common = IF common = None THEN @ ELSE MovedTo(common, walk)]
       ELSE IF s.flight = <<>> /\ fetch = <<>> /\ q = Staller(p, walk)
       THEN [st[q] EXCEPT !.stalling = TRUE] ELSE st[q]]
  /\ disc' = disc

\* What is fetched is in the index and in flight from nobody, and there is room
\* for it; what moves the last common block is stored.
LEMMA DownloadStep ==
    ASSUME Least, Heights, BInv, NEW p \in conn, Download(p),
           UNCHANGED <<index, tip, conn, toNode, serving, serves>>
    PROVE  BInv'
<1>a. PICK s \in {IF Room(p) > 0 THEN ProcessBlockAvailability(st[p]) ELSE st[p]} :
      \E common \in {IF Room(p) > 0 THEN CommonBlock(s) ELSE None} :
      \E walk \in {Walk(s, common)} :
      \E fetch \in {Fetch(common, walk, Room(p))} : Requests(p, s, common, walk, fetch)
  BY Zenon DEF Download, Requests
<1>b. PICK common \in {IF Room(p) > 0 THEN CommonBlock(s) ELSE None} :
      \E walk \in {Walk(s, common)} :
      \E fetch \in {Fetch(common, walk, Room(p))} : Requests(p, s, common, walk, fetch)
  BY <1>a, Zenon
<1>c. PICK walk \in {Walk(s, common)} :
      \E fetch \in {Fetch(common, walk, Room(p))} : Requests(p, s, common, walk, fetch)
  BY <1>b, Zenon
<1>d. PICK fetch \in {Fetch(common, walk, Room(p))} : Requests(p, s, common, walk, fetch)
  BY <1>c, Zenon
<1>e. /\ common = IF Room(p) > 0 THEN CommonBlock(s) ELSE None
      /\ walk = Walk(s, common) /\ fetch = Fetch(common, walk, Room(p))
  BY <1>b, <1>c, <1>d, Zenon
<1> DEFINE start  == IF StartSync(p) THEN <<GetBlocks(None)>> ELSE <<>>
           ask    == IF fetch = <<>> THEN <<>> ELSE <<GetData(fetch)>>
           sync   == s.sync \/ StartSync(p)
           moved  == IF common = None THEN s.common ELSE MovedTo(common, walk)
           flight == s.flight \o fetch
           t      == [s EXCEPT !.sync = sync, !.flight = flight, !.common = moved]
           Held(q) == s.flight = <<>> /\ fetch = <<>> /\ q = Staller(p, walk)
<1>1. /\ toPeer' = [toPeer EXCEPT ![p] = @ \o start \o ask]
      /\ owner' = [b \in Blocks |-> IF b \in Range(fetch) THEN p ELSE owner[b]]
      /\ st' = [q \in Peers |-> IF q = p THEN t
                                ELSE IF Held(q) THEN [st[q] EXCEPT !.stalling = TRUE] ELSE st[q]]
      /\ disc' = disc
  BY <1>d, Zenon DEF Requests, MarkBlocksAsInFlight
<1>2. s = IF Room(p) > 0 THEN ProcessBlockAvailability(st[p]) ELSE st[p]
  BY <1>a, Zenon
<1>3. /\ st \in [Peers -> State] /\ owner \in [Blocks -> Peers \cup {None}] /\ p \in Peers
      /\ st[p] \in State /\ Pointers(st[p], index) /\ Agrees(p)
      /\ \A b \in Blocks : owner[b] # None => owner[b] \in conn /\ Indexed(b)
  BY Zenon DEF BInv, NodeTypes, PeersOK, FlightOK
<1>4. Learnt(st[p], s)
  BY <1>2, <1>3, ProcessFacts, LearntNothing, Zenon
<1>5. s \in State /\ s.flight = st[p].flight /\ Pointers(s, index)
  BY <1>3, <1>4, LearntPointers, ZenonT(60) DEF Learnt
<1>6. s.flight \in Seq(Blocks) /\ s.common \in Block1 /\ s.sync \in BOOLEAN /\ s.best \in Block1
  BY <1>5 DEF State
<1>7. Room(p) \in Nat /\ Len(s.flight) + Room(p) <= MAX_BLOCKS_IN_TRANSIT_PER_PEER
  <2>1. Len(st[p].flight) \in Nat
    BY <1>5, <1>6
  <2>2. Len(st[p].flight) <= MAX_BLOCKS_IN_TRANSIT_PER_PEER /\ MAX_BLOCKS_IN_TRANSIT_PER_PEER \in Nat
    BY <1>3, ConstantsType, Zenon DEF Agrees
  <2>3. Room(p) = MAX_BLOCKS_IN_TRANSIT_PER_PEER - Len(st[p].flight) \/ Room(p) = 0
    BY Zenon DEF Room
  <2> QED
    BY <1>5, <2>1, <2>2, <2>3
<1>8. common = None \/ (Indexed(s.best) /\ Data(common))
  <2>1. CommonBlock(s) = None \/ (Indexed(s.best) /\ Data(CommonBlock(s)))
    BY <1>5, CommonFacts, Zenon DEF BInv
  <2> QED
    BY <1>e, <2>1, Zenon
<1>9. walk \in Seq(Blocks) /\ IsInjective(walk) /\ \A b \in Range(walk) : Indexed(b)
  BY <1>5, <1>8, <1>e, WalkFacts, Zenon DEF BInv
<1>10. /\ fetch \in Seq(Blocks) /\ IsInjective(fetch) /\ Len(fetch) <= Room(p)
       /\ \A b \in Range(fetch) : Indexed(b) /\ owner[b] = None
  BY <1>7, <1>9, <1>e, FetchFacts, Zenon
<1>11. moved \in Block1 /\ (moved # None => Data(moved))
  <2>1. common # None => Data(MovedTo(common, walk))
    BY <1>8, <1>9, MovedFacts, Zenon
  <2>2. s.common # None => Data(s.common)
    BY <1>5, Zenon DEF Pointers, Data
  <2> QED
    BY <1>6, <2>1, <2>2, Zenon DEF Block1, Data
<1> HIDE DEF moved
<1>12. Range(s.flight) \cap Range(fetch) = {}
  <2>1. \A b \in Range(s.flight) : b \in Blocks => owner[b] = p
    BY <1>3, <1>5, Zenon DEF Agrees
  <2>2. \A b \in Range(fetch) : b \in Blocks /\ owner[b] # p
    BY <1>3, <1>10, TreeFacts, ZenonT(60) DEF Indexed
  <2> QED
    BY <2>1, <2>2, Zenon
<1>13. /\ flight \in Seq(Blocks) /\ IsInjective(flight) /\ Len(flight) = Len(s.flight) + Len(fetch)
       /\ Range(flight) = Range(s.flight) \cup Range(fetch)
  <2>1. IsInjective(s.flight)
    BY <1>3, <1>5, Zenon DEF Agrees
  <2> QED
    <3>1. s.flight \in Seq(Blocks) /\ fetch \in Seq(Blocks) /\ IsInjective(fetch)
      BY <1>6, <1>10, Zenon
    <3> QED
      BY <1>12, <2>1, <3>1, ConcatFacts
<1>14. Len(flight) <= MAX_BLOCKS_IN_TRANSIT_PER_PEER
  <2>1. Len(s.flight) \in Nat /\ Len(fetch) \in Nat /\ MAX_BLOCKS_IN_TRANSIT_PER_PEER \in Nat
    BY <1>6, <1>10, ConstantsType
  <2> HIDE DEF flight
  <2> QED
    BY <1>7, <1>10, <1>13, <2>1
<1>15. sync \in BOOLEAN
  BY <1>6, Zenon DEF StartSync
<1> HIDE DEF flight, sync
<1>16. t \in State /\ t.flight = flight /\ t.common = moved /\ t.best = s.best
  BY <1>5, <1>11, <1>13, <1>15, Zenon DEF State
<1> HIDE DEF t
<1>17. ASSUME NEW q \in Peers \ {p}
       PROVE  /\ st'[q] \in State /\ st'[q].flight = st[q].flight
              /\ st'[q].best = st[q].best /\ st'[q].common = st[q].common
              /\ st'[q] = st[q] \/ q \in conn
  <2>1. st[q] \in State
    BY <1>3, Zenon
  <2>2. CASE Held(q)
    <3> DEFINE u == [st[q] EXCEPT !.stalling = TRUE]
    <3>1. st'[q] = u
      BY <1>1, <2>2, Zenon
    <3>2. u \in State /\ u.flight = st[q].flight /\ u.best = st[q].best /\ u.common = st[q].common
      BY <2>1, Zenon DEF State
    <3>3. q \in conn
      <4> DEFINE busy == Those(walk, {b \in Blocks : index[b] # "data" /\ owner[b] # None})
      <4>1. busy \in Seq(Blocks)
        BY <1>9, ThoseFacts, Zenon
      <4>2. q # None
        BY TreeFacts, Zenon
      <4>3. busy # <<>> /\ q = owner[Head(busy)]
        BY <2>2, <4>2, Zenon DEF Staller
      <4> HIDE DEF busy
      <4>4. Head(busy) \in Blocks
        BY <4>1, <4>3
      <4> QED
        BY <1>3, <4>2, <4>3, <4>4, Zenon
    <3> HIDE DEF u
    <3> QED
      BY <3>1, <3>2, <3>3, Zenon
  <2>3. CASE ~Held(q)
    <3>1. st'[q] = st[q]
      BY <1>1, <2>3, Zenon
    <3> QED
      BY <2>1, <3>1, Zenon
  <2> QED
    BY <2>2, <2>3, Zenon
<1>18. st'[p] = t
  BY <1>1, <1>3, Zenon
<1>19. Grows /\ IndexOK'
  BY GrowsSame, SameIndex, Zenon DEF BInv
<1>20. NodeTypes'
  <2>1. st' \in [Peers -> State]
    <3>1. \A q \in Peers : st'[q] \in State
      BY <1>16, <1>17, <1>18, Zenon
    <3>2. DOMAIN st' = Peers /\ st' = [q \in DOMAIN st' |-> st'[q]]
      BY <1>1, Zenon
    <3> QED
      BY <3>1, <3>2, Zenon
  <2>2. owner' \in [Blocks -> Peers \cup {None}]
    BY <1>1, <1>3, Zenon
  <2> QED
    BY <1>1, <2>1, <2>2, Zenon DEF BInv, NodeTypes
<1>21. WireTypes'
  <2>1. GetBlocks(None) \in ToPeer /\ GetData(fetch) \in ToPeer
    BY <1>10, GetBlocksType, GetDataType, Zenon DEF BInv, Block1
  <2>2. start \in Seq(ToPeer) /\ ask \in Seq(ToPeer)
    BY <2>1
  <2>3. toPeer \in [Peers -> Seq(ToPeer)] /\ toPeer[p] \in Seq(ToPeer)
    BY <1>3, Zenon DEF BInv, WireTypes
  <2> HIDE DEF start, ask
  <2>4. toPeer[p] \o start \o ask \in Seq(ToPeer)
    BY <2>2, <2>3
  <2>5. toPeer' \in [Peers -> Seq(ToPeer)]
    BY <1>1, <2>3, <2>4, Zenon
  <2> QED
    BY <2>5, Zenon DEF BInv, WireTypes
<1>22. PeersOK'
  <2>1. Pointers(t, index)
    BY <1>5, <1>11, <1>16, Zenon DEF Pointers, Data
  <2>2. ASSUME NEW q \in Peers PROVE Pointers(st'[q], index) /\ (q \notin conn => st'[q] = NewState)
    <3>1. CASE q = p
      BY <1>18, <2>1, <3>1, Zenon
    <3>2. CASE q # p
      <4>1. Pointers(st[q], index) /\ (q \notin conn => st[q] = NewState)
        BY Zenon DEF BInv, PeersOK
      <4> QED
        BY <1>17, <3>2, <4>1, Zenon DEF Pointers
    <3> QED
      BY <3>1, <3>2, Zenon
  <2> QED
    BY <2>2, Zenon DEF PeersOK
<1>23. \A b \in Blocks : owner'[b] = IF b \in Range(fetch) THEN p ELSE owner[b]
  BY <1>1, Zenon
<1>24. FlightOK'
  <2>1. \A b \in Blocks : owner'[b] # None => owner'[b] \in conn' /\ Indexed(b)'
    BY <1>3, <1>10, <1>19, <1>23, Zenon DEF Grows
  <2>2. Agrees(p)'
    <3>1. \A b \in Blocks : owner'[b] = p <=> b \in Range(flight)
      <4>1. \A b \in Blocks : owner[b] = p <=> b \in Range(s.flight)
        BY <1>3, <1>5, Zenon DEF Agrees
      <4>2. \A b : b \in Range(flight) <=> b \in Range(s.flight) \/ b \in Range(fetch)
        BY <1>13, Zenon
      <4> QED
        BY <1>23, <4>1, <4>2, Zenon
    <3>2. st'[p].flight = flight
      BY <1>16, <1>18, Zenon
    <3>3. IsInjective(flight)
      BY <1>13, Zenon
    <3> QED
      BY <1>14, <3>1, <3>2, <3>3, Zenon DEF Agrees
  <2>3. ASSUME NEW q \in Peers \ {p} PROVE Agrees(q)'
    <3>1. \A b \in Blocks : owner'[b] = q <=> owner[b] = q
      <4>0. q # None /\ p # q
        BY TreeFacts, Zenon
      <4>1. \A b \in Range(fetch) : owner[b] # q /\ p # q
        BY <1>10, <4>0
      <4> QED
        BY <1>23, <4>1, Zenon
    <3>2. Agrees(q)
      BY Zenon DEF BInv, FlightOK
    <3> QED
      BY <1>17, <3>1, <3>2, Zenon DEF Agrees
  <2> QED
    BY <2>1, <2>2, <2>3, Zenon DEF FlightOK
<1> QED
  BY <1>19, <1>20, <1>21, <1>22, <1>24, Zenon DEF BInv

LEMMA SendMessagesStep ==
    ASSUME Least, Heights, BInv, NEW p \in Peers, SendMessages(p) PROVE BInv'
<1>1. p \in conn /\ UNCHANGED <<index, tip, conn, toNode, serving, serves>>
  BY Zenon DEF SendMessages
<1>2. CASE GiveUp(p)
  BY <1>1, <1>2, GiveUpStep, Zenon
<1>3. CASE Download(p)
  BY <1>1, <1>3, DownloadStep, Zenon
<1> QED
  BY <1>2, <1>3, Zenon DEF SendMessages

LEMMA StutterStep == ASSUME BInv, UNCHANGED vars PROVE BInv'
<1>1. UNCHANGED <<node, peers, st>> /\ UNCHANGED <<toPeer, toNode, serving, serves>>
  BY Zenon DEF vars, node, peers
<1>2. WireTypes'
  BY <1>1, Zenon DEF BInv, WireTypes
<1> QED
  BY <1>1, <1>2, ServeStep, Zenon

LEMMA NextBInv == ASSUME Least, Heights, BInv, [Next]_vars PROVE BInv'
<1>1. CASE UNCHANGED vars
  BY <1>1, StutterStep, Zenon
<1>2. CASE \E b \in Refusable : SubmitBlock(b)
  BY <1>2, SubmitStep, Zenon
<1>3. ASSUME NEW p \in Peers, Connect(p) \/ Drop(p) \/ FinalizeNode(p) PROVE BInv'
  BY <1>3, ConnectStep, DropStep, FinalizeStep, Zenon
<1>4. ASSUME NEW p \in Peers, ServeGetBlocks(p) \/ ServeInventory(p) \/ ServeGetData(p)
      PROVE  BInv'
  <2>1. WireTypes'
    BY <1>4, ServeGetBlocksType, ServeInventoryType, ServeGetDataType, Zenon DEF BInv
  <2>2. UNCHANGED <<node, peers, st>>
    BY <1>4, Zenon DEF ServeGetBlocks, ServeInventory, ServeGetData
  <2> QED
    BY <2>1, <2>2, ServeStep, Zenon
<1>5. ASSUME NEW p \in Peers, ReceiveInv(p) \/ ReceiveBlock(p) \/ SendMessages(p) PROVE BInv'
  BY <1>5, ReceiveInvStep, ReceiveBlockStep, SendMessagesStep, Zenon
<1> QED
  BY <1>1, <1>2, <1>3, <1>4, <1>5, Zenon DEF Next

LEMMA InitBInv == ASSUME Init PROVE BInv
<1>1. /\ index = [b \in Blocks |-> IF b = Genesis THEN "data" ELSE "absent"]
      /\ tip = Genesis /\ conn = {} /\ disc = {}
      /\ st = [p \in Peers |-> NewState] /\ owner = [b \in Blocks |-> None]
      /\ toPeer = [p \in Peers |-> <<>>] /\ toNode = [p \in Peers |-> <<>>]
      /\ serving = [p \in Peers |-> NewServing]
      /\ serves \in [Peers -> Blocks]
  BY ConstantsType DEF Init
<1>2. NodeTypes
  BY <1>1, NewStateType, TreeFacts DEF NodeTypes
<1>3. WireTypes
  <2>1. NewServing \in Serving
    BY DEF NewServing, Serving, Block1
  <2> HIDE DEF NewServing
  <2> QED
    BY <1>1, <2>1 DEF WireTypes
<1>4. IndexOK
  <2>1. \A b \in Blocks : Indexed(b) <=> b = Genesis
    BY <1>1, TreeFacts DEF Indexed
  <2>2. \A b \in Blocks : Data(b) <=> b = Genesis
    BY <1>1, TreeFacts DEF Data
  <2> QED
    BY <1>1, <2>1, <2>2, TreeFacts, ZenonT(60) DEF IndexOK
<1>5. PeersOK
  <2>1. \A p \in Peers : st[p] = NewState
    BY <1>1, Zenon
  <2>2. Pointers(NewState, index)
    BY NewStateType, Zenon DEF Pointers
  <2> QED
    BY <2>1, <2>2, Zenon DEF PeersOK
<1>6. FlightOK
  <2>1. \A p \in Peers : st[p].flight = <<>>
    BY <1>1, NewStateType, Zenon
  <2>2. Range(<<>>) = {} /\ IsInjective(<<>>) /\ Len(<<>>) <= MAX_BLOCKS_IN_TRANSIT_PER_PEER
    BY ConstantsType DEF Range, IsInjective
  <2>3. \A b \in Blocks : owner[b] = None
    BY <1>1, Zenon
  <2> QED
    BY <2>1, <2>2, <2>3, TreeFacts, Zenon DEF FlightOK, Agrees
<1> QED
  BY <1>2, <1>3, <1>4, <1>5, <1>6, ZenonT(60) DEF BInv

-----------------------------------------------------------------------------
(* nSyncStarted *)

Syncing == {p \in conn : st[p].sync}
SameSync == \A q \in Peers : st'[q].sync = st[q].sync

LEMMA ReceivedSync ==
    ASSUME BInv, NEW b \in Blocks, Received(b) PROVE SameSync
<1>1. st \in [Peers -> State] /\ owner[b] \in Peers \cup {None}
  BY Zenon DEF BInv, NodeTypes
<1>2. CASE owner[b] = None
  BY <1>2, Zenon DEF Received, SameSync
<1>3. CASE owner[b] # None
  <2> DEFINE q == owner[b]
             f == Those(st[q].flight, Blocks \ {b})
             s == [st[q] EXCEPT !.flight = f, !.stalling = FALSE]
  <2>1. q \in Peers
    BY <1>1, <1>3, Zenon
  <2>2. st' = [st EXCEPT ![q] = s]
    BY <1>1, <1>3, <2>1, Zenon DEF Received
  <2>3. st[q] \in State
    BY <1>1, <2>1, Zenon
  <2> HIDE DEF q, f
  <2>4. s.sync = st[q].sync
    BY <2>3 DEF State
  <2> HIDE DEF s
  <2> QED
    BY <1>1, <2>2, <2>4, Zenon DEF SameSync
<1> QED
  BY <1>2, <1>3, Zenon

LEMMA ReceiveSync ==
    ASSUME Least, BInv, NEW p \in Peers, ReceiveInv(p) \/ ReceiveBlock(p)
    PROVE  SameSync /\ conn' = conn /\ nSyncStarted' = nSyncStarted
<1> DEFINE m == Head(toNode[p])
<1>1. st \in [Peers -> State] /\ st[p] \in State
  BY Zenon DEF BInv, NodeTypes
<1>2. CASE ReceiveInv(p)
  <2> DEFINE s == AllAnnounced(st[p], m.blocks)
  <2>1. /\ Receive(p, "inv") /\ st' = [st EXCEPT ![p] = s]
        /\ conn' = conn /\ nSyncStarted' = nSyncStarted
    BY <1>2 DEF ReceiveInv, peers
  <2>2. m \in ToNode /\ m.type = "inv"
    BY <2>1, ReceiveType, Zenon DEF BInv, Receive
  <2>3. m.blocks \in Seq(Blocks)
    BY <2>2, ToNodeKinds, Zenon
  <2>4. s.sync = st[p].sync
    BY <1>1, <2>3, AllAnnouncedFacts, Zenon DEF Learnt
  <2> HIDE DEF s
  <2> QED
    BY <1>1, <2>1, <2>4, Zenon DEF SameSync
<1>3. CASE ReceiveBlock(p)
  <2> DEFINE b    == m.block
             stop == IF b \in st[p].requested THEN Parent[b] ELSE b
             s    == [st[p] EXCEPT !.requested = @ \cup {stop}]
  <2>1. /\ Receive(p, "block")
        /\ conn' = conn /\ nSyncStarted' = nSyncStarted
        /\ \/ st' = [st EXCEPT ![p].requested = @ \cup {stop}]
           \/ st' = st
           \/ Received(b)
    BY <1>3, Zenon DEF ReceiveBlock, peers
  <2>2. m \in ToNode /\ m.type = "block"
    BY <2>1, ReceiveType, Zenon DEF BInv, Receive
  <2>3. b \in Blocks
    BY <2>2, ToNodeKinds, Zenon
  <2> HIDE DEF stop, b
  <2>4. CASE st' = [st EXCEPT ![p].requested = @ \cup {stop}]
    <3>1. st' = [st EXCEPT ![p] = s]
      BY <1>1, <2>4
    <3>2. s.sync = st[p].sync
      BY <1>1 DEF State
    <3> HIDE DEF s
    <3> QED
      BY <1>1, <2>1, <3>1, <3>2, Zenon DEF SameSync
  <2> QED
    BY <2>1, <2>3, <2>4, ReceivedSync, Zenon DEF SameSync
<1> QED
  BY <1>2, <1>3, Zenon

LEMMA SendSync ==
    ASSUME Least, BInv, NEW p \in Peers, SendMessages(p)
    PROVE  /\ p \in conn /\ conn' = conn
           /\ nSyncStarted' = nSyncStarted + (IF StartSync(p) THEN 1 ELSE 0)
           /\ st'[p].sync <=> st[p].sync \/ StartSync(p)
           /\ \A q \in Peers \ {p} : st'[q].sync = st[q].sync
<1>1. /\ p \in conn /\ conn' = conn
      /\ nSyncStarted' = nSyncStarted + (IF StartSync(p) THEN 1 ELSE 0)
  BY Zenon DEF SendMessages
<1>2. st \in [Peers -> State] /\ st[p] \in State
  BY Zenon DEF BInv, NodeTypes
<1>3. CASE GiveUp(p)
  <2> DEFINE c == st[p].sync \/ StartSync(p)
             s == [st[p] EXCEPT !.sync = c]
  <2>1. st' = [st EXCEPT ![p] = s]
    BY <1>2, <1>3 DEF GiveUp
  <2> HIDE DEF c
  <2>2. s.sync = c
    BY <1>2 DEF State
  <2> HIDE DEF s
  <2>3. st'[p].sync = c /\ \A q \in Peers \ {p} : st'[q].sync = st[q].sync
    BY <1>2, <2>1, <2>2, Zenon
  <2> QED
    BY <1>1, <2>3, Zenon DEF c
<1>4. CASE Download(p)
  <2>1. PICK s \in {IF Room(p) > 0 THEN ProcessBlockAvailability(st[p]) ELSE st[p]} :
        \E common, walk, fetch : Requests(p, s, common, walk, fetch)
    <3>1. \E s \in {IF Room(p) > 0 THEN ProcessBlockAvailability(st[p]) ELSE st[p]} :
          \E common \in {IF Room(p) > 0 THEN CommonBlock(s) ELSE None} :
          \E walk \in {Walk(s, common)} :
          \E fetch \in {Fetch(common, walk, Room(p))} : Requests(p, s, common, walk, fetch)
      BY <1>4, Zenon DEF Download, Requests
    <3> QED
      BY <3>1, Zenon
  <2>2. PICK common, walk, fetch : Requests(p, s, common, walk, fetch)
    BY <2>1, Zenon
  <2> DEFINE c    == s.sync \/ StartSync(p)
             both == s.flight \o fetch
             up   == IF common = None THEN s.common ELSE MovedTo(common, walk)
             t    == [s EXCEPT !.sync = c, !.flight = both, !.common = up]
             Held(q) == s.flight = <<>> /\ fetch = <<>> /\ q = Staller(p, walk)
  <2>3. st' = [q \in Peers |-> IF q = p THEN t
                               ELSE IF Held(q) THEN [st[q] EXCEPT !.stalling = TRUE] ELSE st[q]]
    BY <2>2, Zenon DEF Requests
  <2>4. Learnt(st[p], s)
    BY <1>2, <2>1, ProcessFacts, LearntNothing, Zenon
  <2>5. s \in State /\ s.sync = st[p].sync
    BY <2>4, Zenon DEF Learnt
  <2> HIDE DEF c, both, up
  <2>6. t.sync = c
    BY <2>5 DEF State
  <2> HIDE DEF t
  <2>7. st'[p].sync = c
    BY <2>3, <2>6, Zenon
  <2>8. ASSUME NEW q \in Peers \ {p} PROVE st'[q].sync = st[q].sync
    <3> DEFINE u == [st[q] EXCEPT !.stalling = TRUE]
    <3>1. st'[q] = u \/ st'[q] = st[q]
      BY <2>3, Zenon
    <3>2. u.sync = st[q].sync
      BY <1>2 DEF State
    <3> HIDE DEF u
    <3> QED
      BY <3>1, <3>2, Zenon
  <2> QED
    BY <1>1, <2>5, <2>7, <2>8, Zenon DEF c
<1> QED
  BY <1>3, <1>4, Zenon DEF SendMessages

\* nSyncStarted moves with the set of connected peers the node syncs with.
LEMMA SyncingStep ==
    ASSUME Least, BInv, nSyncStarted \in Nat, [Next]_vars
    PROVE  \/ Syncing' = Syncing /\ nSyncStarted' = nSyncStarted
           \/ \E p \in Peers \ Syncing :
                Syncing' = Syncing \cup {p} /\ nSyncStarted' = nSyncStarted + 1
           \/ \E p \in Syncing :
                Syncing' = Syncing \ {p} /\ nSyncStarted' = nSyncStarted - 1
<1>1. conn \subseteq Peers /\ disc \subseteq conn /\ st \in [Peers -> State]
  BY Zenon DEF BInv, NodeTypes
<1>2. ASSUME SameSync, conn' = conn PROVE Syncing' = Syncing
  BY <1>1, <1>2, Zenon DEF SameSync, Syncing
<1>3. ASSUME st' = st, conn' = conn PROVE Syncing' = Syncing
  BY <1>3, Zenon DEF Syncing
<1>4. CASE UNCHANGED vars
  BY <1>3, <1>4, Zenon DEF vars
<1>5. ASSUME NEW b \in Refusable, SubmitBlock(b)
      PROVE  Syncing' = Syncing /\ nSyncStarted' = nSyncStarted
  <2>1. Received(b) /\ conn' = conn /\ nSyncStarted' = nSyncStarted
    BY <1>5, Zenon DEF SubmitBlock
  <2>2. b \in Blocks
    BY ConstantsType, Zenon
  <2> QED
    BY <1>2, <2>1, <2>2, ReceivedSync, Zenon
<1>6. ASSUME NEW p \in Peers, Connect(p) PROVE Syncing' = Syncing /\ nSyncStarted' = nSyncStarted
  <2>1. p \notin conn /\ conn' = conn \cup {p} /\ st' = st /\ nSyncStarted' = nSyncStarted
    BY <1>6, Zenon DEF Connect
  <2>2. st[p] = NewState
    BY <2>1, Zenon DEF BInv, PeersOK
  <2>3. ~st[p].sync
    BY <2>2, NewStateType, Zenon
  <2> QED
    BY <2>1, <2>3, Zenon DEF Syncing
<1>7. ASSUME NEW p \in Peers,
             Drop(p) \/ ServeGetBlocks(p) \/ ServeInventory(p) \/ ServeGetData(p)
      PROVE  Syncing' = Syncing /\ nSyncStarted' = nSyncStarted
  <2>1. st' = st /\ conn' = conn /\ nSyncStarted' = nSyncStarted
    BY <1>7, Zenon DEF Drop, ServeGetBlocks, ServeInventory, ServeGetData, peers
  <2> QED
    BY <1>3, <2>1, Zenon
<1>8. ASSUME NEW p \in Peers, FinalizeNode(p)
      PROVE  \/ Syncing' = Syncing /\ nSyncStarted' = nSyncStarted
             \/ p \in Syncing /\ Syncing' = Syncing \ {p} /\ nSyncStarted' = nSyncStarted - 1
  <2>1. /\ p \in conn /\ conn' = conn \ {p} /\ st' = [st EXCEPT ![p] = NewState]
        /\ nSyncStarted' = nSyncStarted - (IF st[p].sync THEN 1 ELSE 0)
    BY <1>1, <1>8, Zenon DEF FinalizeNode
  <2>2. Syncing' = Syncing \ {p}
    BY <1>1, <2>1, Zenon DEF Syncing
  <2>3. CASE st[p].sync
    <3>1. nSyncStarted' = nSyncStarted - 1
      BY <2>1, <2>3
    <3> QED
      BY <2>1, <2>2, <2>3, <3>1, Zenon DEF Syncing
  <2>4. CASE ~st[p].sync
    <3>1. nSyncStarted' = nSyncStarted - 0
      BY <2>1, <2>4
    <3>2. Syncing' = Syncing
      BY <2>2, <2>4, Zenon DEF Syncing
    <3> QED
      BY <3>1, <3>2
  <2> QED
    BY <2>3, <2>4, Zenon
<1>9. ASSUME NEW p \in Peers, ReceiveInv(p) \/ ReceiveBlock(p)
      PROVE  Syncing' = Syncing /\ nSyncStarted' = nSyncStarted
  BY <1>2, <1>9, ReceiveSync, Zenon
<1>10. ASSUME NEW p \in Peers, SendMessages(p)
       PROVE  \/ Syncing' = Syncing /\ nSyncStarted' = nSyncStarted
              \/ p \notin Syncing /\ Syncing' = Syncing \cup {p} /\ nSyncStarted' = nSyncStarted + 1
  <2>1. /\ p \in conn /\ conn' = conn
        /\ nSyncStarted' = nSyncStarted + (IF StartSync(p) THEN 1 ELSE 0)
        /\ st'[p].sync <=> st[p].sync \/ StartSync(p)
        /\ \A q \in Peers \ {p} : st'[q].sync = st[q].sync
    BY <1>10, SendSync, Zenon
  <2>2. CASE StartSync(p)
    <3>1. nSyncStarted' = nSyncStarted + 1
      BY <2>1, <2>2, Zenon
    <3>2. ~st[p].sync
      BY <2>2, Zenon DEF StartSync
    <3>3. Syncing' = Syncing \cup {p}
      BY <1>1, <2>1, <2>2, Zenon DEF Syncing
    <3> QED
      BY <3>1, <3>2, <3>3, Zenon DEF Syncing
  <2>3. CASE ~StartSync(p)
    <3>1. nSyncStarted' = nSyncStarted + 0
      BY <2>1, <2>3, Zenon
    <3>2. Syncing' = Syncing
      BY <1>1, <2>1, <2>3, Zenon DEF Syncing
    <3> QED
      BY <3>1, <3>2
  <2> QED
    BY <2>2, <2>3, Zenon
<1> QED
  BY <1>4, <1>5, <1>6, <1>7, <1>8, <1>9, <1>10, Zenon DEF Next, Syncing

-----------------------------------------------------------------------------
(* The results *)

INSTANCE FiniteSetTheorems

Less == {pair \in Nat \X Nat : pair[1] < pair[2]}

LEMMA LeastNumbers == Least
<1> SUFFICES ASSUME NEW T \in SUBSET Nat, T # {} PROVE \E x \in T : \A y \in T : x <= y
  BY DEF Least
<1>1. IsWellFoundedOn(Less, Nat)
  BY NatLessThanWellFounded DEF OpToRel, Less
<1>2. PICK x \in T : \A y \in T : <<y, x>> \notin Less
  BY <1>1, WFMin, Zenon
<1>3. \A y \in T : ~(y < x)
  BY <1>2, Zenon DEF Less
<1> QED
  BY <1>3

LEMMA AllHeights == Heights
<1>1. ASSUME NEW b \in Blocks PROVE Cardinality(Anc[b]) \in Nat \ {0}
  <2>1. IsFiniteSet(Anc[b]) /\ Anc[b] # {}
    BY ConstantsType, TreeFacts, Zenon
  <2> QED
    BY <2>1, FS_CardinalityType, FS_EmptySet
<1>2. \A b \in Blocks : Height[b] = Cardinality(Anc[b]) - 1
  BY Zenon DEF Height
<1>3. Height \in [Blocks -> Nat]
  <2>1. \A b \in Blocks : Height[b] \in Nat
    BY <1>1, <1>2
  <2> QED
    BY <2>1, ZenonT(60) DEF Height
<1>4. Height[Genesis] = 0
  <2>1. Cardinality(Anc[Genesis]) = 1
    BY TreeFacts, FS_Singleton, ZenonT(60)
  <2> QED
    BY <1>2, <2>1, TreeFacts
<1>5. ASSUME NEW b \in Blocks \ {Genesis} PROVE Height[b] = Height[Parent[b]] + 1
  <2>1. Parent[b] \in Blocks /\ Anc[b] = Anc[Parent[b]] \cup {b}
    BY TreeFacts, Zenon
  <2>2. b \notin Anc[Parent[b]] /\ IsFiniteSet(Anc[Parent[b]])
    BY <2>1, ConstantsType, Zenon
  <2>3. Cardinality(Anc[Parent[b]] \cup {b}) = Cardinality(Anc[Parent[b]]) + 1
    BY <2>2, FS_AddElement, Zenon
  <2>4. Cardinality(Anc[b]) = Cardinality(Anc[Parent[b]]) + 1
    BY <2>1, <2>3, Zenon
  <2>5. /\ Height[b] = Cardinality(Anc[b]) - 1
        /\ Height[Parent[b]] = Cardinality(Anc[Parent[b]]) - 1
        /\ Cardinality(Anc[Parent[b]]) \in Nat
    BY <1>1, <1>2, <2>1, ZenonT(60)
  <2> QED
    BY <2>4, <2>5
<1> QED
  BY <1>3, <1>4, <1>5, ZenonT(60) DEF Heights

LEMMA NextInvariant == BInv /\ [Next]_vars => BInv'
<1> SUFFICES ASSUME BInv, [Next]_vars PROVE BInv'
  OBVIOUS
<1> QED
  BY LeastNumbers, AllHeights, NextBInv

\* Whatever peers connect, announce, send, time out and leave, and whatever
\* blocks are refused or submitted: mapBlocksInFlight names exactly the blocks in
\* the peers' vBlocksInFlight, each in one list, of a connected peer, once, and no
\* list exceeds MAX_BLOCKS_IN_TRANSIT_PER_PEER.
THEOREM FlightAlwaysAgrees == Spec => []FlightAgrees
<1>1. ASSUME BInv PROVE FlightAgrees
  <2>1. ASSUME NEW p \in Peers
        PROVE  /\ {b \in Blocks : owner[b] = p} = Range(st[p].flight)
               /\ IsInjective(st[p].flight) /\ Len(st[p].flight) <= MAX_BLOCKS_IN_TRANSIT_PER_PEER
    <3>1. Agrees(p) /\ st[p] \in State
      BY <1>1, Zenon DEF BInv, FlightOK, NodeTypes
    <3>2. st[p].flight \in Seq(Blocks)
      BY <3>1 DEF State
    <3>3. Range(st[p].flight) \subseteq Blocks
      BY <3>2 DEF Range
    <3> QED
      BY <3>1, <3>3, Zenon DEF Agrees
  <2>2. \A b \in Blocks : owner[b] # None => owner[b] \in conn /\ index[b] # "absent"
    BY <1>1, Zenon DEF BInv, FlightOK, Indexed
  <2> QED
    BY <2>1, <2>2, Zenon DEF FlightAgrees
<1>2. Init => BInv
  BY InitBInv, ZenonT(60)
<1> QED
  BY <1>1, <1>2, NextInvariant, PTL DEF Spec

\* The last common block of a peer, below which FindNextBlocksToDownload never
\* looks again, is on disk with all its ancestors.
THEOREM CommonAlwaysStored == Spec => []CommonStored
<1>1. ASSUME BInv PROVE CommonStored
  BY <1>1, ZenonT(60) DEF BInv, PeersOK, Pointers, IndexOK, Data, CommonStored
<1>2. Init => BInv
  BY InitBInv, Zenon
<1> QED
  BY <1>1, <1>2, NextInvariant, PTL DEF Spec

\* nSyncStarted is the number of the connected peers the node syncs with, so
\* that it looks for another one when the last of them has gone.
THEOREM SyncAlwaysCounted == Spec => []SyncCounted
<1> DEFINE Counted == IsFiniteSet(Syncing) /\ nSyncStarted = Cardinality(Syncing)
<1>1. ASSUME Init PROVE BInv /\ Counted
  <2>1. Syncing = {} /\ nSyncStarted = 0
    BY <1>1, Zenon DEF Init, Syncing
  <2> QED
    BY <1>1, <2>1, InitBInv, FS_EmptySet, ZenonT(60)
<1>2. ASSUME BInv, Counted, [Next]_vars PROVE Counted'
  <2>1. nSyncStarted \in Nat
    BY <1>2, FS_CardinalityType, Zenon
  <2>2. \/ Syncing' = Syncing /\ nSyncStarted' = nSyncStarted
        \/ \E p \in Peers \ Syncing :
             Syncing' = Syncing \cup {p} /\ nSyncStarted' = nSyncStarted + 1
        \/ \E p \in Syncing :
             Syncing' = Syncing \ {p} /\ nSyncStarted' = nSyncStarted - 1
    BY <1>2, <2>1, LeastNumbers, SyncingStep, ZenonT(60)
  <2>3. CASE Syncing' = Syncing /\ nSyncStarted' = nSyncStarted
    BY <1>2, <2>3, ZenonT(60)
  <2>4. ASSUME NEW p \in Peers \ Syncing,
               Syncing' = Syncing \cup {p}, nSyncStarted' = nSyncStarted + 1
        PROVE  Counted'
    <3>1. IsFiniteSet(Syncing \cup {p}) /\ Cardinality(Syncing \cup {p}) = Cardinality(Syncing) + 1
      BY <1>2, FS_AddElement, ZenonT(60)
    <3> QED
      BY <1>2, <2>4, <3>1, ZenonT(60)
  <2>5. ASSUME NEW p \in Syncing, Syncing' = Syncing \ {p}, nSyncStarted' = nSyncStarted - 1
        PROVE  Counted'
    <3>1. IsFiniteSet(Syncing \ {p}) /\ Cardinality(Syncing \ {p}) = Cardinality(Syncing) - 1
      BY <1>2, FS_RemoveElement, ZenonT(60)
    <3> QED
      BY <1>2, <2>5, <3>1, ZenonT(60)
  <2> QED
    BY <2>2, <2>3, <2>4, <2>5, ZenonT(60)
<1>3. Counted => SyncCounted
  BY Zenon DEF SyncCounted, Syncing
<1> HIDE DEF Counted
<1> QED
  BY <1>1, <1>2, <1>3, NextInvariant, PTL DEF Spec
=============================================================================
