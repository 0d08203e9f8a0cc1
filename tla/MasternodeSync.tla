---------------------------- MODULE MasternodeSync ----------------------------
(***************************************************************************)
(* CMasternodeSync (masternode-sync.cpp): a node gets sporks, the list of   *)
(* masternodes, the winners and the budget from its peers, one after the    *)
(* other.  Process runs in the masternode thread; items come in the         *)
(* message thread; IsBlockchainSynced, which may reset everything, is       *)
(* called from all of them, and "mnsync reset" from RPC.  Times are kept as *)
(* what the code tells apart: no item yet, one lately, the last one long    *)
(* ago.  The counts of "ssc" messages are only shown and are left out, and  *)
(* so is the short cut for regtest.                                         *)
(***************************************************************************)
EXTENDS Naturals

CONSTANTS
  Peers,
  Capable,     \* peers whose version is recent enough for masternode data
  Threshold,   \* MASTERNODE_SYNC_THRESHOLD
  Enforced     \* SPORK_8_MASTERNODE_PAYMENT_ENFORCEMENT is active

ASSUME SyncAssumption ==
  /\ Capable \subseteq Peers
  /\ Threshold \in Nat \ {0}
  /\ Enforced \in BOOLEAN

Data   == {"list", "winners", "budget"}
Assets == {"initial", "sporks", "finished", "failed"} \cup Data
Later  == {"finished", "failed"} \cup Data   \* RequestedMasternodeAssets > MASTERNODE_SYNC_SPORKS

VARIABLES
  s,         \* the members of masternodeSync
  fulfilled, \* peer |-> what HasFulfilledRequest says of it
  connected, \* vNodes
  reading,   \* the stage that GetNextAsset has read in Process, before it writes the next
  forced,    \* history: the operator has pushed this round on with "mnsync next"
  raced      \* history: GetNextAsset wrote over a stage that it had not read

syncVars == <<s, fulfilled, connected, reading, forced, raced>>

Sync ==
  [asset : Assets, attempt : Nat,
   last : [Data -> {"never", "lately", "long ago"}],  \* lastMasternodeList and its kind
   seen : [Data -> 0..Threshold],                      \* mapSeenSyncMNB and its kind
   overdue : BOOLEAN,   \* nAssetSyncStarted is more than five timeouts ago
   retry : BOOLEAN,     \* lastFailure is more than a minute ago
   slept : BOOLEAN,     \* lastProcess is more than an hour ago, or 0
   chain : BOOLEAN]     \* fBlockchainSynced

Reset ==
  [asset |-> "initial", attempt |-> 0,
   last |-> [d \in Data |-> "never"], seen |-> [d \in Data |-> 0],
   overdue |-> FALSE, retry |-> TRUE, slept |-> TRUE, chain |-> FALSE]

(* Faulty: the winners are left out.                                       *)
AfterSkips == [initial |-> "sporks", failed |-> "sporks", sporks |-> "list", list |-> "budget",
               winners |-> "budget", budget |-> "finished", finished |-> "finished"]

After == [initial |-> "sporks", failed |-> "sporks", sporks |-> "list", list |-> "winners",
          winners |-> "budget", budget |-> "finished", finished |-> "finished"]

GetNextAsset(x) == [x EXCEPT !.asset = After[@], !.attempt = 0, !.overdue = FALSE]

(* IsBlockchainSynced, when the tip is recent and cs_main is free, or not. *)
IsBlockchainSynced(x, recent) ==
  LET r == IF x.slept THEN Reset ELSE x
  IN [r EXCEPT !.slept = FALSE, !.chain = @ \/ recent]

(* Faulty: a failure is final.                                             *)
RestartsSynced(enabled) == s.asset = "finished" /\ ~enabled

(* Process up to the loop over the peers; enabled: CountEnabled() > 0.     *)
Restarts(enabled) ==
  \/ s.asset = "finished" /\ ~enabled
  \/ s.asset = "failed" /\ s.retry
Returns(enabled) ==
  \/ s.asset = "finished" /\ enabled
  \/ s.asset = "failed" /\ ~s.retry
(* This call starts a new round from the beginning.                       *)
Begins(enabled) == Restarts(enabled) \/ s.slept
Begun(enabled) ==
  LET x == IF Restarts(enabled) THEN Reset ELSE s
  IN IF x.asset = "initial" THEN GetNextAsset(x) ELSE x

-----------------------------------------------------------------------------
(* The loop over the peers, one action for each way it ends; p is the peer *)
(* at which it ends.                                                       *)
Unasked(f, a) == {p \in connected : a \notin f[p]}
Asked(f, p, a) == [f EXCEPT ![p] = @ \cup {a}]

AskForSporks(x, f, p) ==
  /\ x.asset = "sporks"
  /\ p \in Unasked(f, "sporks")
  /\ fulfilled' = Asked(f, p, "sporks")
  /\ LET y == IF x.attempt >= 2 THEN GetNextAsset(x) ELSE x
     IN s' = [y EXCEPT !.attempt = @ + 1]

(* Nothing new for two timeouts, after enough requests.                    *)
Completed(x) ==
  /\ x.asset \in Data
  /\ x.last[x.asset] = "long ago" /\ x.attempt >= Threshold

(* Process calls GetNextAsset, which reads the stage here and writes the   *)
(* next one in GetNextAssetWrites: no lock protects the members.           *)
MoveOn(x, f) ==
  /\ Completed(x) /\ connected \cap Capable # {}
  /\ s' = x
  /\ reading' = x.asset
  /\ fulfilled' = f

TimedOut(x) == x.last[x.asset] = "never" /\ (x.attempt >= 3 * Threshold \/ x.overdue)

(* Faulty: a timeout moves on even when payments are enforced.             *)
FailedAnyway(x) == GetNextAsset(x)

Failed(x) ==
  IF Enforced THEN [x EXCEPT !.asset = "failed", !.attempt = 0, !.retry = FALSE]
  ELSE GetNextAsset(x)

(* The list and the winners: the timeout is looked at only at a peer that  *)
(* has not been asked yet, and counts as asking it.                        *)
AskForList(x, f, p) ==
  /\ x.asset \in {"list", "winners"} /\ ~Completed(x)
  /\ p \in Unasked(f, x.asset) \cap Capable
  /\ fulfilled' = Asked(f, p, x.asset)
  /\ s' = IF TimedOut(x) THEN Failed(x)
          ELSE IF x.attempt >= 3 * Threshold THEN x
          ELSE [x EXCEPT !.attempt = @ + 1]

(* The budget: a timeout, at any peer, finishes the sync.                  *)
BudgetTimeout(x, f) ==
  /\ x.asset = "budget" /\ ~Completed(x) /\ TimedOut(x)
  /\ connected \cap Capable # {}
  /\ s' = GetNextAsset(x)
  /\ fulfilled' = f

AskForBudget(x, f, p) ==
  /\ x.asset = "budget" /\ ~Completed(x) /\ ~TimedOut(x)
  /\ p \in Unasked(f, "budget") \cap Capable
  /\ fulfilled' = Asked(f, p, "budget")
  /\ s' = IF x.attempt >= 3 * Threshold THEN x ELSE [x EXCEPT !.attempt = @ + 1]

(* No peer ends the loop.                                                  *)
Exhausted(x, f) ==
  \/ x.asset = "initial"
  \/ x.asset = "sporks" /\ Unasked(f, "sporks") = {}
  \/ /\ x.asset \in Data
     /\ \/ connected \cap Capable = {}
        \/ /\ ~Completed(x) /\ ~(x.asset = "budget" /\ TimedOut(x))
           /\ Unasked(f, x.asset) \cap Capable = {}

(* ClearFulfilledRequest, which does nothing while cs_vNodes is taken.     *)
ClearFulfilledRequest(free) ==
  [p \in Peers |-> IF free /\ p \in connected THEN {} ELSE fulfilled[p]]

Clears(enabled) == Restarts(enabled) \/ s.asset = "initial"

(* Process.  recent: the tip is; clears, loops: cs_vNodes is free for      *)
(* ClearFulfilledRequest, and for the loop.                                *)
Process(recent, clears, loops, enabled) ==
  LET x == IsBlockchainSynced(Begun(enabled), recent)
      f == IF Clears(enabled) THEN ClearFulfilledRequest(clears) ELSE fulfilled
      waits == ~x.chain /\ x.asset \in Later
  IN /\ ~Returns(enabled) /\ reading = "none"
     /\ UNCHANGED connected
     /\ forced' = (forced /\ ~Begins(enabled))
     /\ raced' = (raced /\ ~Begins(enabled))
     /\ \/ /\ waits \/ ~loops \/ Exhausted(x, f)
           /\ s' = x /\ fulfilled' = f
           /\ UNCHANGED reading
        \/ /\ ~waits /\ loops
           /\ MoveOn(x, f)
        \/ /\ ~waits /\ loops
           /\ \/ BudgetTimeout(x, f)
              \/ \E p \in Peers : \/ AskForSporks(x, f, p)
                                  \/ AskForList(x, f, p)
                                  \/ AskForBudget(x, f, p)
           /\ UNCHANGED reading

(* The end of the call that MoveOn began, whatever the other threads have  *)
(* done to the members since.                                              *)
GetNextAssetWrites ==
  /\ reading # "none"
  /\ s' = [s EXCEPT !.asset = After[reading], !.attempt = 0, !.overdue = FALSE]
  /\ reading' = "none"
  /\ raced' = (raced \/ s.asset # reading)
  /\ UNCHANGED <<fulfilled, connected, forced>>

-----------------------------------------------------------------------------
(* AddedMasternodeList, AddedMasternodeWinner, AddedBudgetItem: the item   *)
(* is known to mnodeman and its kind, or not, when map::insert keeps a     *)
(* count that is there.                                                    *)
AddedItem(d) ==
  /\ \/ /\ s.seen[d] < Threshold
        /\ s' = [s EXCEPT !.last[d] = "lately", !.seen[d] = @ + 1]
     \/ s' = [s EXCEPT !.last[d] = "lately", !.seen[d] = IF @ = 0 THEN 1 ELSE @]
  /\ UNCHANGED <<fulfilled, connected, reading, forced, raced>>

(* Another thread asks whether the blockchain is synced.                   *)
Called(recent) ==
  /\ s' = IsBlockchainSynced(s, recent)
  /\ forced' = (forced /\ ~s.slept)
  /\ raced' = (raced /\ ~s.slept)
  /\ UNCHANGED <<fulfilled, connected, reading>>

(* "mnsync reset".                                                         *)
RpcReset ==
  /\ s' = Reset
  /\ forced' = FALSE /\ raced' = FALSE
  /\ UNCHANGED <<fulfilled, connected, reading>>

(* "mnsync next".                                                          *)
RpcNext(clears) ==
  /\ s' = GetNextAsset(s)
  /\ forced' = TRUE
  /\ fulfilled' = IF s.asset \in {"initial", "failed"} THEN ClearFulfilledRequest(clears) ELSE fulfilled
  /\ UNCHANGED <<connected, reading, raced>>

-----------------------------------------------------------------------------
(* Time and the network.                                                   *)
ItemsStop(d) ==
  /\ s.last[d] = "lately"
  /\ s' = [s EXCEPT !.last[d] = "long ago"]
  /\ UNCHANGED <<fulfilled, connected, reading, forced, raced>>

StageTakesLong ==
  /\ s.asset \in Data /\ ~s.overdue
  /\ s' = [s EXCEPT !.overdue = TRUE]
  /\ UNCHANGED <<fulfilled, connected, reading, forced, raced>>

MinutePasses ==
  /\ ~s.retry
  /\ s' = [s EXCEPT !.retry = TRUE]
  /\ UNCHANGED <<fulfilled, connected, reading, forced, raced>>

(* The machine sleeps for more than an hour; the next call resets all.     *)
Sleep ==
  /\ ~s.slept
  /\ s' = [s EXCEPT !.slept = TRUE]
  /\ UNCHANGED <<fulfilled, connected, reading, forced, raced>>

Connect(p) ==
  /\ p \notin connected
  /\ connected' = connected \cup {p}
  /\ fulfilled' = [fulfilled EXCEPT ![p] = {}]
  /\ UNCHANGED <<s, reading, forced, raced>>

Disconnect(p) ==
  /\ p \in connected
  /\ connected' = connected \ {p}
  /\ fulfilled' = [fulfilled EXCEPT ![p] = {}]
  /\ UNCHANGED <<s, reading, forced, raced>>

(* What the rest of the node answers, where Process asks it.               *)
Asks(relevant) == IF relevant THEN BOOLEAN ELSE {TRUE}

SyncInit ==
  /\ s = Reset
  /\ fulfilled = [p \in Peers |-> {}]
  /\ connected = {}
  /\ reading = "none" /\ forced = FALSE /\ raced = FALSE

SyncNext ==
  \/ \E recent, loops \in BOOLEAN, enabled \in Asks(s.asset = "finished") :
       \E clears \in Asks(Clears(enabled)) : Process(recent, clears, loops, enabled)
  \/ \E d \in Data : AddedItem(d) \/ ItemsStop(d)
  \/ \E recent \in Asks(s.slept \/ ~s.chain) : Called(recent)
  \/ \E clears \in Asks(s.asset \in {"initial", "failed"}) : RpcNext(clears)
  \/ GetNextAssetWrites \/ RpcReset
  \/ StageTakesLong \/ MinutePasses \/ Sleep
  \/ \E p \in Peers : Connect(p) \/ Disconnect(p)

SyncSpec == SyncInit /\ [][SyncNext]_syncVars

(* The masternode thread calls Process again and again and gets its locks  *)
(* in the end; minutes pass.                                               *)
ProcessRuns == \E recent, clears \in BOOLEAN : Process(recent, clears, TRUE, TRUE)

(* A failed sync needs this only as long as it is failed.                  *)
SyncFairSpec ==
  /\ SyncSpec
  /\ WF_syncVars(s.asset = "failed" /\ ProcessRuns)
  /\ WF_syncVars(MinutePasses)

(* No stage sees items for ever, and the time of a stage runs out.         *)
TimeoutSpec ==
  /\ SyncSpec
  /\ WF_syncVars(ProcessRuns)
  /\ WF_syncVars(GetNextAssetWrites)
  /\ WF_syncVars(MinutePasses)
  /\ WF_syncVars(StageTakesLong)
  /\ \A d \in Data : WF_syncVars(ItemsStop(d))

-----------------------------------------------------------------------------
(* The members of masternodeSync and what is known of the peers.           *)
SyncTypeOK ==
  /\ s \in Sync /\ s.attempt <= 3 * Threshold + 1
  /\ fulfilled \in [Peers -> SUBSET (Data \cup {"sporks"})]
  /\ connected \subseteq Peers /\ reading \in Data \cup {"none"}
  /\ forced \in BOOLEAN /\ raced \in BOOLEAN

(* A node that enforces payments calls itself synced, and starts to refuse *)
(* blocks for their payees (masternode-payments.cpp:250, 283), only with   *)
(* items of the list and of the winners from this round, unless the        *)
(* operator has pushed it there, or GetNextAsset wrote over a reset.       *)
SyncedHasData ==
  Enforced /\ ~forced /\ ~raced /\ s.asset = "finished" =>
    s.last["list"] # "never" /\ s.last["winners"] # "never"

(* The stages come in their order, each from the one before; the sync only *)
(* fails while it waits for the list or the winners, and otherwise starts  *)
(* over from the beginning, whoever resets it and whenever; only "mnsync   *)
(* next" goes on from a failure.  The one step out of order is a stage     *)
(* that GetNextAsset writes although it read another one.                  *)
StagesInOrder ==
  [][\/ s'.asset \in {s.asset, "initial"}
     \/ \E step \in {<<"initial", "sporks">>, <<"sporks", "list">>, <<"list", "winners">>,
                     <<"winners", "budget">>, <<"budget", "finished">>,
                     <<"list", "failed">>, <<"winners", "failed">>} :
          step = <<s.asset, s'.asset>>
     \/ s.asset = "failed" /\ s'.asset = "sporks" /\ forced'
     \/ reading \notin {"none", s.asset} /\ reading' = "none"]_syncVars

(* "Sync has failed ..., will retry later" (masternode-sync.cpp:335): a    *)
(* failed sync does not stay failed.                                       *)
FailedIsRetried == []<>(s.asset # "failed")

(* "timeout" (masternode-sync.cpp:331): with a synced chain and a peer     *)
(* that can serve it, a stage does not wait for ever for its first item.   *)
Starved(a) ==
  s.asset = a /\ s.chain /\ s.last[a] = "never" /\ connected \cap Capable # {}

StagesEnd == \A a \in {"list", "winners"} : []<>~Starved(a)
=============================================================================
