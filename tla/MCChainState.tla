---------------------------- MODULE MCChainState ----------------------------
EXTENDS ChainState

CONSTANTS g, a1, a2, a3, b1, b2, c2, none, nobody

(* Two branches from the genesis block that overtake each other; c2 is a   *)
(* sibling of a2 with the same work, so that the order of arrival counts.  *)
MCParent == [b \in Blocks \ {g} |-> CASE b \in {a1, b1} -> g
                                      [] b \in {a2, c2} -> a1
                                      [] b = a3 -> a2
                                      [] b = b2 -> b1]
MCAnc ==
  LET up[b \in Blocks] == IF b = g THEN {g} ELSE {b} \cup up[MCParent[b]]
  IN  up
MCWork == [b \in Blocks |-> CASE b = g -> 0 [] b = a1 -> 1 [] b = b1 -> 2
                              [] b \in {a2, c2} -> 3 [] b = b2 -> 4 [] b = a3 -> 5]
=============================================================================
