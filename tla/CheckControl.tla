---------------------------- MODULE CheckControl ----------------------------
(***************************************************************************)
(* What CCheckQueueControl (src/src/checkqueue.h) promises to ConnectBlock *)
(* : a session is opened on a queue, checks are handed over in batches, and *)
(* Wait() answers whether every check of the session passes.  Nothing of   *)
(* threads, batches or counters is visible here; CheckQueue implements it. *)
(***************************************************************************)
CONSTANTS Checks,   \* identities of the script checks of one session
          Bad       \* the checks whose operator() returns false

VARIABLES open,     \* a CCheckQueueControl exists
          added,    \* the checks handed over since it was constructed
          result    \* what the last Wait() returned: "none", "ok", "fail"

cvars == <<open, added, result>>

Verdict(S) == IF S \cap Bad = {} THEN "ok" ELSE "fail"

CInit == open = FALSE /\ added = {} /\ result = "none"

Open == /\ ~open
        /\ open' = TRUE
        /\ added' = {}
        /\ result' = "none"

Hand(S) == /\ open
           /\ S \cap added = {}
           /\ added' = added \cup S
           /\ UNCHANGED <<open, result>>

\* An interrupted caller leaves without an answer (the destructor drains the
\* queue and drops the answer), every other one with the verdict.
Close == /\ open
         /\ open' = FALSE
         /\ result' \in {Verdict(added), "none"}
         /\ UNCHANGED added

CNext == Open \/ Close \/ \E S \in SUBSET Checks : Hand(S)

CSpec == CInit /\ [][CNext]_cvars
=============================================================================
