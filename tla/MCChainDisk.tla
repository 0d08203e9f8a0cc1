---------------------------- MODULE MCChainDisk ----------------------------
EXTENDS ChainDisk, TLC

CONSTANTS g, a1, a2, a3, b1, b2, t1, t2, t3, t4, s1, s2, none

(* Two branches from the genesis block.  The spend t1 is in both; the      *)
(* serial s2 is spent by a different transaction in each; a3 spends s1 a   *)
(* second time.                                                            *)
MCParent == a1 :> g @@ a2 :> a1 @@ a3 :> a2 @@ b1 :> g @@ b2 :> b1
MCAnc == g :> {g} @@ a1 :> {g, a1} @@ a2 :> {g, a1, a2} @@ a3 :> {g, a1, a2, a3}
         @@ b1 :> {g, b1} @@ b2 :> {g, b1, b2}
MCSpends == g :> {} @@ a1 :> {t1} @@ a2 :> {t2} @@ a3 :> {t3}
            @@ b1 :> {t1} @@ b2 :> {t4}
MCSerial == t1 :> s1 @@ t2 :> s2 @@ t3 :> s1 @@ t4 :> s2

(* A machine of c blocks per file on which the given faults happen.        *)
Machine(c, verify, kinds, n) ==
  [cap |-> c, room |-> 1, rpc |-> verify, spent |-> {}, faults |-> kinds, max |-> n]

(* The write of the block index fails; power loss with several files.      *)
IndexFails == {Machine(7, 0, {"index"}, 1)}
ManyFiles == {Machine(2, 0, {"power"}, 1)}

(* b2 spends the last output of the coinstake of b1.                       *)
StakeSpent == {[Machine(7, 1, {"crash"}, 1) EXCEPT !.spent = {<<b1, b2>>}]}

(* The process may be killed, with small block files and a small cache; or *)
(* the machine may lose power, with one block file or several; or          *)
(* verifychain is used and cut short, also with a coinstake spent; or the  *)
(* write of the block index fails.                                         *)
Machines ==
  {[Machine(2, 0, {"crash", "space"}, 2) EXCEPT !.room = 0],
   Machine(7, 0, {"power"}, 1), Machine(7, 1, {"crash"}, 1)}
  \cup IndexFails \cup ManyFiles \cup StakeSpent

(* Without the second spend of s1.                                         *)
SpendsOnce == [MCSpends EXCEPT ![a3] = {}]

(* A further machine: verifychain looks deeper than the next start.        *)
DeepVerify == {[Machine(7, 2, {}, 0) EXCEPT !.room = 2]}
=============================================================================
