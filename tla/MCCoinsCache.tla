---------------------------- MODULE MCCoinsCache -----------------------------
(***************************************************************************)
(* Instances of CoinsCache.  b0 has the coins of t1; b1 spends them and     *)
(* creates those of t2; b2 spends these too, and b3 brings t1 back with     *)
(* other coins.                                                             *)
(***************************************************************************)
EXTENDS CoinsCache, TLC

CONSTANTS t1, t2, full, part, gone, b0, b1, b2, b3

CoinsOfT1 == b0 :> full @@ b1 :> gone @@ b2 :> gone @@ b3 :> part
CoinsOfT2 == b0 :> gone @@ b1 :> full @@ b2 :> gone @@ b3 :> gone

MCCoinsAt == [b \in Blocks |-> [t \in Txids |-> IF t = t1 THEN CoinsOfT1[b] ELSE CoinsOfT2[b]]]
=============================================================================
