------------------------------ MODULE CoinsView ------------------------------
(***************************************************************************)
(* What a stack of CCoinsViews promises (coins.h): every view is a whole    *)
(* map from transactions to coins together with the block it represents.    *)
(* A new view is a copy, a change to the top view stays there until it is   *)
(* flushed, and what is flushed to the database survives a crash.  A write  *)
(* that fails loses coins, and nothing else may.                            *)
(***************************************************************************)
EXTENDS Naturals

CONSTANTS
  Txids,    \* transaction ids
  Coins,    \* CCoins values, Cleanup applied
  Pruned,   \* the value with no unspent output
  Blocks,   \* block hashes
  MaxDepth  \* how many caches may be stacked on the database

VARIABLES
  disk,     \* the view of the database
  views,    \* the view of every cache of the stack
  height    \* the number of caches

avars == <<disk, views, height>>

View == [coins : [Txids -> Coins], best : Blocks]

AInit ==
  /\ disk \in View
  /\ height = 1
  /\ views = [l \in 1 .. 1 |-> disk]

(* A cache on top of the stack shows what the view below it shows.         *)
Open ==
  /\ height < MaxDepth
  /\ height' = height + 1
  /\ views' = [l \in 1 .. height + 1 |-> IF l = height + 1 THEN views[height] ELSE views[l]]
  /\ UNCHANGED disk

(* The top view is forgotten with everything changed in it.                *)
Forget ==
  /\ height > 1
  /\ height' = height - 1
  /\ views' = [l \in 1 .. height - 1 |-> views[l]]
  /\ UNCHANGED disk

(* A change to one transaction's coins, or to the best block.              *)
Change ==
  /\ \E v \in View :
       /\ \/ v.coins = views[height].coins
          \/ v.best = views[height].best /\
             \E t \in Txids : \A u \in Txids \ {t} : v.coins[u] = views[height].coins[u]
       /\ views' = [views EXCEPT ![height] = v]
  /\ UNCHANGED <<disk, height>>

(* The view below becomes what the top view is.                            *)
Commit ==
  /\ IF height = 1 THEN disk' = views[1] /\ UNCHANGED views
                   ELSE views' = [views EXCEPT ![height - 1] = views[height]] /\ UNCHANGED disk
  /\ UNCHANGED height

(* A failed write loses the coins that should have been written, and the   *)
(* view goes on to name its block.                                         *)
Lose ==
  /\ height = 1
  /\ views' = [views EXCEPT ![1].coins = disk.coins]
  /\ UNCHANGED <<disk, height>>

(* Only the database is left.                                              *)
Crash ==
  /\ height' = 1
  /\ views' = [l \in 1 .. 1 |-> disk]
  /\ UNCHANGED disk

ANext == Open \/ Forget \/ Change \/ Commit \/ Lose \/ Crash

ASpec == AInit /\ [][ANext]_avars
=============================================================================
