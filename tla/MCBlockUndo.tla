----------------------------- MODULE MCBlockUndo -----------------------------
(* Small instances of BlockUndo. *)
EXTENDS BlockUndo, TLC

CONSTANTS g, h, k, a, b, s

\* g, h: coinbases with two and one outputs; k: a coinstake that spends g:0; a
\* spends both outputs of g or what is left; b spends a and h; s spends k.
MCTxs == {g, h, k, a, b, s}
MCCoinBase == {g, h}
MCCoinStake == {k}

MCvin == g :> <<>> @@ h :> <<>> @@ k :> << <<g, 0>> >>
         @@ a :> << <<g, 1>>, <<g, 0>> >> @@ b :> << <<a, 0>>, <<h, 0>> >>
         @@ s :> << <<k, 1>>, <<k, 0>> >>

MCnOut == g :> 2 @@ h :> 1 @@ k :> 2 @@ a :> 1 @@ b :> 1 @@ s :> 1

MCBlocks == {<<>>, <<g>>, <<h>>, <<k>>, <<a>>, <<a, b>>, <<b>>, <<s>>, <<h, k>>, <<h, a>>, <<k, s>>}
=============================================================================
