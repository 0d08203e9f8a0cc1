-------------------------- MODULE MCBlockDownload --------------------------
EXTENDS BlockDownload, TLC

CONSTANTS g, m1, m2, m3, m4, m5, m6, r1, r2, r3, p1, p2, none

(* A chain of three batches, and a branch that may be refused.             *)
MCParent == m1 :> g @@ m2 :> m1 @@ m3 :> m2 @@ m4 :> m3 @@ m5 :> m4 @@ m6 :> m5
            @@ r1 :> g @@ r2 :> r1 @@ r3 :> r2
MCAnc == g :> {g} @@ m1 :> {g, m1} @@ m2 :> {g, m1, m2} @@ m3 :> {g, m1, m2, m3}
         @@ m4 :> {g, m1, m2, m3, m4} @@ m5 :> {g, m1, m2, m3, m4, m5}
         @@ m6 :> {g, m1, m2, m3, m4, m5, m6}
         @@ r1 :> {g, r1} @@ r2 :> {g, r1, r2} @@ r3 :> {g, r1, r2, r3}

World(a, b, n, k, i) == [serves |-> [p \in Peers |-> IF p = p1 THEN a ELSE b],
                      visits |-> [p \in Peers |-> IF p = p1 THEN n ELSE k],
                         submits |-> i]

(* Two peers with the long chain, of which each may leave once; one on     *)
(* the refused branch and one with a short chain; both on that branch.     *)
MCWorlds == {World(m6, m6, 2, 2, 0), World(r3, m2, 2, 2, 1), World(r3, r3, 2, 1, 1)}

(* One peer alone.                                                         *)
Alone == {World(m6, g, 1, 0, 0)}
=============================================================================
