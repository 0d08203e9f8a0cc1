------------------------------ MODULE MCSwiftTx ------------------------------
(* Two transactions that conflict over one input; the first has another one.    *)
EXTENDS SwiftTx

CONSTANTS t1, t2, i0, i1

MCTxs      == {t1, t2}
MCOwn      == {t1}
MCInputs   == {i0, i1}
MCInputsOf == [t \in MCTxs |-> IF t = t1 THEN {i0, i1} ELSE {i0}]
=============================================================================
