--------------------------- MODULE BlockDownload ---------------------------
(***************************************************************************)
(* How a node fetches blocks from its peers (main.cpp).  There are two     *)
(* ways.  The old one is "getblocks", answered by "inv", answered by       *)
(* "getdata": a peer announces one batch of its chain and, after the last  *)
(* block of the batch, its tip, which makes the node ask for the next one. *)
(* The other keeps a list of blocks in flight for each peer and fetches    *)
(* blocks that are in the index without their data, with time-outs and the *)
(* detection of a peer that holds up the download window.  Headers are     *)
(* not fetched ahead (HeadersFirstSyncingActive is false), so these are    *)
(* blocks that AcceptBlock refused after it had entered the header.        *)
(*                                                                         *)
(* The node and its peers run the same program: the handlers of the peers  *)
(* that serve blocks are modelled too, with chains that do not change.     *)
(***************************************************************************)
EXTENDS Naturals, Sequences, FiniteSets, Functions

CONSTANTS
  Blocks, Genesis,
  Parent,        \* hashPrevBlock, for every block but the genesis block
  Anc,           \* a block and all its ancestors
  Refusable,     \* AcceptBlock may refuse these without marking them as failed
  Peers,
  Preferred,     \* outbound and other peers with fPreferredDownload
  Worlds,        \* [serves: the tip of each peer, visits: how often each peer
                 \*  may connect, submits: how often submitblock is used]
  Batch,         \* nLimit of "getblocks" (500)
  BLOCK_DOWNLOAD_WINDOW,
  MAX_BLOCKS_IN_TRANSIT_PER_PEER,
  Recent,        \* the first height with a block time in the last six hours
  None

ASSUME ConstantsType ==
  /\ Genesis \in Blocks /\ None \notin Blocks \cup Peers
  /\ Parent \in [Blocks \ {Genesis} -> Blocks]
  /\ Anc \in [Blocks -> SUBSET Blocks] /\ Anc[Genesis] = {Genesis}
  /\ \A b \in Blocks : IsFiniteSet(Anc[b])
  /\ \A b \in Blocks \ {Genesis} :
        Anc[b] = Anc[Parent[b]] \cup {b} /\ b \notin Anc[Parent[b]]
  /\ Refusable \subseteq Blocks \ {Genesis} /\ Preferred \subseteq Peers
  /\ \A w \in Worlds : w.serves \in [Peers -> Blocks] /\ w.visits \in [Peers -> Nat]
                      /\ w.submits \in Nat
  /\ Batch \in Nat \ {0} /\ BLOCK_DOWNLOAD_WINDOW \in Nat \ {0}
  /\ MAX_BLOCKS_IN_TRANSIT_PER_PEER \in Nat \ {0} /\ Recent \in Nat

VARIABLES
  index,     \* mapBlockIndex: "absent", "header" (no BLOCK_HAVE_DATA), "data"
  tip,       \* chainActive.Tip()
  conn,      \* the peers in mapNodeState
  disc,      \* those of them with fDisconnect
  st,        \* CNodeState of each peer, and vBlockRequested of its CNode
  owner,     \* mapBlocksInFlight: the peer a block is in flight from
  nQueuedValidatedHeaders,
  nSyncStarted,
  nPreferredDownload,
  toPeer,    \* messages on their way to each peer
  toNode,    \* and from it
  serving,   \* what the peer's CNode for this node holds
  serves,    \* the tip of the peer's chain
  visits,    \* how often a peer may still connect
  submits    \* how often submitblock may still be used

node  == <<index, tip, owner, nQueuedValidatedHeaders>>
peers == <<conn, disc, nPreferredDownload, visits, submits>>
vars  == <<index, tip, conn, disc, st, owner, nQueuedValidatedHeaders, nSyncStarted,
           nPreferredDownload, toPeer, toNode, serving, serves, visits, submits>>

Height == [b \in Blocks |-> Cardinality(Anc[b]) - 1]

(* CNodeState(): a new connection, and the peer's CNode for it.            *)
NewState == [best |-> None,       \* pindexBestKnownBlock
             unknown |-> None,    \* hashLastUnknownBlock
             common |-> None,     \* pindexLastCommonBlock
             sync |-> FALSE,      \* fSyncStarted
             stalling |-> FALSE,  \* nStallingSince # 0
             flight |-> <<>>,     \* vBlocksInFlight
             requested |-> {}]    \* vBlockRequested
NewServing == [known |-> {},      \* setInventoryKnown
               toSend |-> <<>>,   \* vInventoryToSend
               continue |-> None] \* hashContinue

Init ==
  /\ index = [b \in Blocks |-> IF b = Genesis THEN "data" ELSE "absent"]
  /\ tip = Genesis /\ conn = {} /\ disc = {}
  /\ st = [p \in Peers |-> NewState] /\ owner = [b \in Blocks |-> None]
  /\ nQueuedValidatedHeaders = 0 /\ nSyncStarted = 0 /\ nPreferredDownload = 0
  /\ toPeer = [p \in Peers |-> <<>>] /\ toNode = [p \in Peers |-> <<>>]
  /\ serving = [p \in Peers |-> NewServing]
  /\ \E w \in Worlds : serves = w.serves /\ visits = w.visits /\ submits = w.submits

GetAncestor(b, h) == CHOOSE c \in Anc[b] : Height[c] = h

(* The blocks of the chain of b that are above a, in order of height.      *)
Path == [a \in Blocks |-> [b \in Blocks |->
  [i \in 1 .. Height[b] - Height[a] |-> GetAncestor(b, Height[a] + i)]]]

LastCommonAncestor == [a \in Blocks |-> [b \in Blocks |->
  CHOOSE c \in Anc[a] \cap Anc[b] : \A d \in Anc[a] \cap Anc[b] : Height[d] <= Height[c]]]

First(n, s) == SubSeq(s, 1, IF n < Len(s) THEN n ELSE Len(s))
Last(s) == s[Len(s)]

(* The members of the sequence s that are in S.                            *)
Those(s, S) ==
  LET kept[i \in 0 .. Len(s)] ==
        IF i = 0 THEN <<>>
        ELSE IF s[i] \in S THEN Append(kept[i - 1], s[i]) ELSE kept[i - 1]
  IN  kept[Len(s)]

-----------------------------------------------------------------------------
(* InitializeNode and, with the version message, UpdatePreferredDownload.  *)
Connect(p) ==
  /\ p \notin conn /\ visits[p] > 0
  /\ visits' = [visits EXCEPT ![p] = @ - 1]
  /\ conn' = conn \cup {p}
  /\ nPreferredDownload' = nPreferredDownload + (IF p \in Preferred THEN 1 ELSE 0)
  /\ UNCHANGED <<node, disc, st, nSyncStarted, toPeer, toNode, serving, serves, submits>>

(* The connection breaks; the peer is going to connect again.              *)
Drop(p) ==
  /\ p \in conn \ disc /\ visits[p] > 0 /\ disc' = disc \cup {p}
  /\ UNCHANGED <<node, conn, st, nSyncStarted, nPreferredDownload, toPeer, toNode,
                 serving, serves, visits, submits>>

(* Faulty: the peer keeps its place as the one the node syncs with.        *)
FinalizeNodeKeepsSync(p) ==
  /\ p \in disc /\ conn' = conn \ {p} /\ disc' = disc \ {p}
  /\ owner' = [b \in Blocks |-> IF b \in Range(st[p].flight) THEN None ELSE owner[b]]
  /\ nPreferredDownload' = nPreferredDownload - (IF p \in Preferred THEN 1 ELSE 0)
  /\ st' = [st EXCEPT ![p] = NewState] /\ serving' = [serving EXCEPT ![p] = NewServing]
  /\ toPeer' = [toPeer EXCEPT ![p] = <<>>] /\ toNode' = [toNode EXCEPT ![p] = <<>>]
  /\ UNCHANGED <<index, tip, nQueuedValidatedHeaders, nSyncStarted, serves, visits, submits>>

(* Faulty: its blocks stay in flight.                                      *)
FinalizeNodeKeepsFlight(p) ==
  /\ p \in disc /\ conn' = conn \ {p} /\ disc' = disc \ {p}
  /\ nSyncStarted' = nSyncStarted - (IF st[p].sync THEN 1 ELSE 0)
  /\ nPreferredDownload' = nPreferredDownload - (IF p \in Preferred THEN 1 ELSE 0)
  /\ st' = [st EXCEPT ![p] = NewState] /\ serving' = [serving EXCEPT ![p] = NewServing]
  /\ toPeer' = [toPeer EXCEPT ![p] = <<>>] /\ toNode' = [toNode EXCEPT ![p] = <<>>]
  /\ UNCHANGED <<index, tip, owner, nQueuedValidatedHeaders, serves, visits, submits>>

(* FinalizeNode, called by the socket thread some time later.  It leaves   *)
(* nQueuedValidatedHeaders as it is.                                       *)
FinalizeNode(p) ==
  /\ p \in disc /\ conn' = conn \ {p} /\ disc' = disc \ {p}
  /\ nSyncStarted' = nSyncStarted - (IF st[p].sync THEN 1 ELSE 0)
  /\ owner' = [b \in Blocks |-> IF b \in Range(st[p].flight) THEN None ELSE owner[b]]
  /\ nPreferredDownload' = nPreferredDownload - (IF p \in Preferred THEN 1 ELSE 0)
  /\ st' = [st EXCEPT ![p] = NewState] /\ serving' = [serving EXCEPT ![p] = NewServing]
  /\ toPeer' = [toPeer EXCEPT ![p] = <<>>] /\ toNode' = [toNode EXCEPT ![p] = <<>>]
  /\ UNCHANGED <<index, tip, nQueuedValidatedHeaders, serves, visits, submits>>

-----------------------------------------------------------------------------
(* The peer's side.  "getblocks": from the last block in common, one batch *)
(* of the chain, not including the block hashStop.  PushInventory leaves   *)
(* out what this connection knows; a block queued twice is sent once.      *)
ServeGetBlocks(p) ==
  /\ p \notin disc /\ toPeer[p] # <<>> /\ Head(toPeer[p]).type = "getblocks"
  /\ LET m    == Head(toPeer[p])
         rest == Path[LastCommonAncestor[m.locator][serves[p]]][serves[p]]
         upTo == Those(rest, {b \in Blocks : m.stop \notin Anc[b]})
         sent == First(Batch, upTo)
         new  == Blocks \ (serving[p].known \cup Range(serving[p].toSend))
     IN  serving' = [serving EXCEPT
           ![p].toSend = @ \o Those(sent, new),
           ![p].continue = IF Len(sent) = Batch THEN Last(sent) ELSE @]
  /\ toPeer' = [toPeer EXCEPT ![p] = Tail(@)]
  /\ UNCHANGED <<node, peers, st, nSyncStarted, toNode, serves>>

(* SendMessages of the peer: the inventory it has collected.               *)
ServeInventory(p) ==
  /\ p \notin disc /\ serving[p].toSend # <<>>
  /\ LET new == Those(serving[p].toSend, Blocks \ serving[p].known)
     IN  toNode' = [toNode EXCEPT ![p] =
                      IF new = <<>> THEN @ ELSE Append(@, [type |-> "inv", blocks |-> new])]
  /\ serving' = [serving EXCEPT ![p].known = @ \cup Range(serving[p].toSend), ![p].toSend = <<>>]
  /\ UNCHANGED <<node, peers, st, nSyncStarted, toPeer, serves>>

(* ProcessGetData: each block of the peer's chain, and its tip after the   *)
(* last block of a batch, even if this connection knows it.                *)
Answer(p, a, b) ==
  [sent     |-> a.sent \o <<[type |-> "block", block |-> b]>> \o
                IF b = a.continue THEN <<[type |-> "inv", blocks |-> <<serves[p]>>]>> ELSE <<>>,
   continue |-> IF b = a.continue THEN None ELSE a.continue]

Answers(p, asked) ==
  LET answered[i \in 0 .. Len(asked)] ==
        IF i = 0 THEN [sent |-> toNode[p], continue |-> serving[p].continue]
        ELSE Answer(p, answered[i - 1], asked[i])
  IN  answered[Len(asked)]

ServeGetData(p) ==
  /\ p \notin disc /\ toPeer[p] # <<>> /\ Head(toPeer[p]).type = "getdata"
  /\ \E a \in {Answers(p, Those(Head(toPeer[p]).blocks, Anc[serves[p]]))} :
       /\ toNode' = [toNode EXCEPT ![p] = a.sent]
       /\ serving' = [serving EXCEPT ![p].continue = a.continue]
  /\ toPeer' = [toPeer EXCEPT ![p] = Tail(@)]
  /\ UNCHANGED <<node, peers, st, nSyncStarted, serves>>

-----------------------------------------------------------------------------
(* The node's side.  Known(b): mapBlockIndex.count and AlreadyHave.        *)
Known(b) == b # None /\ index[b] # "absent"

(* The better of two known blocks, in nChainWork; the new one if equal.    *)
Announced(s, b) == IF s.best = None \/ Height[b] >= Height[s.best] THEN b ELSE s.best

ProcessBlockAvailability(s) ==
  IF Known(s.unknown) THEN [s EXCEPT !.best = Announced(s, s.unknown), !.unknown = None] ELSE s

UpdateBlockAvailability(s0, b) ==
  LET s == ProcessBlockAvailability(s0)
  IN  IF Known(b) THEN [s EXCEPT !.best = Announced(s, b)] ELSE [s EXCEPT !.unknown = b]

AllAnnounced(s, blocks) ==
  LET heard[i \in 0 .. Len(blocks)] ==
        IF i = 0 THEN s ELSE UpdateBlockAvailability(heard[i - 1], blocks[i])
  IN  heard[Len(blocks)]

Send(p, m) == toPeer' = [toPeer EXCEPT ![p] = Append(@, m)]
GetBlocks(stop) == [type |-> "getblocks", locator |-> tip, stop |-> stop]
GetData(blocks) == [type |-> "getdata", blocks |-> blocks]

(* The message m is next from p.                                           *)
Receive(p, type) ==
  /\ p \in conn \ disc /\ toNode[p] # <<>> /\ Head(toNode[p]).type = type
  /\ toNode' = [toNode EXCEPT ![p] = Tail(@)]

(* "inv": ask for all blocks that are new.                                 *)
ReceiveInv(p) ==
  /\ Receive(p, "inv")
  /\ LET blocks == Head(toNode[p]).blocks
         fetch  == Those(blocks, {b \in Blocks : ~Known(b) /\ owner[b] = None})
     IN  /\ st' = [st EXCEPT ![p] = AllAnnounced(@, blocks)]
         /\ IF fetch = <<>> THEN UNCHANGED toPeer ELSE Send(p, GetData(fetch))
  /\ UNCHANGED <<node, peers, nSyncStarted, serving, serves>>

(* MarkBlockAsReceived.                                                    *)
Received(b) ==
  LET q == owner[b]
  IN  IF q = None THEN UNCHANGED <<owner, nQueuedValidatedHeaders, st>>
      ELSE /\ owner' = [owner EXCEPT ![b] = None]
           /\ nQueuedValidatedHeaders' = nQueuedValidatedHeaders - 1
           /\ st' = [st EXCEPT ![q].flight = Those(@, Blocks \ {b}),
                               ![q].stalling = FALSE]

(* AcceptBlock enters the header and then may refuse the block, in         *)
(* particular when the data of its parent is not on disk; ActivateBestChain*)
(* moves to a block with more work.  The blocks are proof-of-stake blocks: *)
(* only for these does AcceptBlock read the parent, when the block does not*)
(* extend the tip.  The refusals leave the block unmarked; one for a block *)
(* marked invalid is not modelled.                                         *)
AcceptBlock(b) ==
  \E ok \in IF index[Parent[b]] = "header" THEN {FALSE}
             ELSE IF b \in Refusable THEN BOOLEAN ELSE {TRUE} :
    /\ index' = [index EXCEPT ![b] = IF ok THEN "data" ELSE "header"]
    /\ tip' = IF ok /\ Height[b] > Height[tip] THEN b ELSE tip

(* "block".  When the parent is missing, the block is dropped and the node *)
(* asks for the blocks before it or, the second time, before its parent.   *)
(* A block whose header is in the index is dropped, too.                   *)
ReceiveBlock(p) ==
  /\ Receive(p, "block")
  /\ LET b    == Head(toNode[p]).block
         stop == IF b \in st[p].requested THEN Parent[b] ELSE b
     IN  IF b # Genesis /\ ~Known(Parent[b])
         THEN /\ Send(p, GetBlocks(stop))
              /\ st' = [st EXCEPT ![p].requested = @ \cup {stop}]
              /\ UNCHANGED node
         ELSE /\ UNCHANGED toPeer
              /\ IF Known(b) THEN UNCHANGED <<node, st>> ELSE AcceptBlock(b) /\ Received(b)
  /\ UNCHANGED <<peers, nSyncStarted, serving, serves>>

(* The RPC command submitblock: ProcessNewBlock without a peer.            *)
SubmitBlock(b) ==
  /\ submits > 0 /\ submits' = submits - 1
  /\ index[b] = "header" /\ AcceptBlock(b) /\ Received(b)
  /\ UNCHANGED <<conn, disc, nPreferredDownload, visits, nSyncStarted, toPeer, toNode, serving, serves>>

-----------------------------------------------------------------------------
(* FindNextBlocksToDownload.  This peer has nothing interesting: ...       *)
Interesting(s) == s.best # None /\ Height[s.best] >= Height[tip]

(* ... otherwise the last common block is guessed at first, and corrected  *)
(* if the peer is on another branch now.                                   *)
CommonBlock(s) ==
  LET lower == IF Height[s.best] < Height[tip] THEN Height[s.best] ELSE Height[tip]
      guess == IF s.common # None THEN s.common ELSE GetAncestor(tip, lower)
  IN  IF Interesting(s) THEN LastCommonAncestor[guess][s.best] ELSE None

(* From there the window and one block more, towards the best block of the *)
(* peer.                                                                   *)
Walk(s, common) ==
  IF common = None THEN <<>> ELSE First(BLOCK_DOWNLOAD_WINDOW + 1, Path[common][s.best])

(* Faulty: so do blocks in flight.                                         *)
MovedToAny(common, walk) == IF walk = <<>> THEN common ELSE Last(walk)

(* The stored blocks of the walk move the last common block (a stored      *)
(* block's ancestors are stored, see AcceptBlock, so its nChainTx is set), *)
(* ...                                                                     *)
MovedTo(common, walk) ==
  LET stored == Those(walk, {b \in Blocks : index[b] = "data"})
  IN  IF stored = <<>> THEN common ELSE Last(stored)

(* ... up to count of those in the window that are nowhere in flight are   *)
(* fetched, ...                                                            *)
Lacks(walk) == Those(walk, {b \in Blocks : index[b] # "data" /\ owner[b] = None})
Fetch(common, walk, count) ==
  First(count, Those(Lacks(walk),
                     {b \in Blocks : Height[b] <= Height[common] + BLOCK_DOWNLOAD_WINDOW}))

(* ... and when there is only one after the window, the peer of the first  *)
(* block in flight holds up the download.                                  *)
Staller(p, walk) ==
  LET busy == Those(walk, {b \in Blocks : index[b] # "data" /\ owner[b] # None})
  IN  IF busy = <<>> \/ Lacks(walk) = <<>> \/ owner[Head(busy)] = p THEN None
      ELSE owner[Head(busy)]

(* A time-out is noticed only when the peer has nothing more to say.       *)
Quiet(p) == toPeer[p] = <<>> /\ toNode[p] = <<>> /\ serving[p].toSend = <<>>

BestHeaderRecent == \E b \in Blocks : Known(b) /\ Height[b] >= Recent

(* SendMessages: start to sync with this peer, ...                         *)
fFetch(p) == p \in Preferred \/ nPreferredDownload = 0

(* Faulty: one peer must do.                                               *)
StartSyncOnce(p) == ~st[p].sync /\ fFetch(p) /\ nSyncStarted = 0

(* Another peer is asked when there is none or the chain is recent.        *)
StartSync(p) == ~st[p].sync /\ fFetch(p) /\ (nSyncStarted = 0 \/ BestHeaderRecent)

(* ... give up a peer that stalls or lets a request time out, ...          *)
GiveUp(p) ==
  /\ st[p].stalling \/ st[p].flight # <<>>
  /\ Quiet(p)
  /\ disc' = disc \cup {p}
  /\ st' = [st EXCEPT ![p].sync = @ \/ StartSync(p)]
  /\ IF StartSync(p) THEN Send(p, GetBlocks(None)) ELSE UNCHANGED toPeer
  /\ UNCHANGED <<owner, nQueuedValidatedHeaders>>

(* MarkBlockAsInFlight, for blocks that are not in flight.                 *)
MarkBlocksAsInFlight(p, fetch) ==
  /\ owner' = [b \in Blocks |-> IF b \in Range(fetch) THEN p ELSE owner[b]]
  /\ nQueuedValidatedHeaders' = nQueuedValidatedHeaders + Len(fetch)

(* ... ask it for the next blocks.                                         *)
Room(p) == IF fFetch(p) THEN MAX_BLOCKS_IN_TRANSIT_PER_PEER - Len(st[p].flight) ELSE 0
Download(p) ==
  \E s \in {IF Room(p) > 0 THEN ProcessBlockAvailability(st[p]) ELSE st[p]} :
  \E common \in {IF Room(p) > 0 THEN CommonBlock(s) ELSE None} :
  \E walk \in {Walk(s, common)} :
  \E fetch \in {Fetch(common, walk, Room(p))} :
    /\ toPeer' = [toPeer EXCEPT ![p] = @ \o (IF StartSync(p) THEN <<GetBlocks(None)>> ELSE <<>>)
                                        \o (IF fetch = <<>> THEN <<>> ELSE <<GetData(fetch)>>)]
    /\ MarkBlocksAsInFlight(p, fetch)
    /\ st' = [q \in Peers |->
         IF q = p THEN [s EXCEPT !.sync = @ \/ StartSync(p), !.flight = @ \o fetch,
                                 !.common = IF common = None THEN @ ELSE MovedTo(common, walk)]
         ELSE IF s.flight = <<>> /\ fetch = <<>> /\ q = Staller(p, walk)
         THEN [st[q] EXCEPT !.stalling = TRUE] ELSE st[q]]
    /\ UNCHANGED disc

SendMessages(p) ==
  /\ p \in conn \ disc
  /\ GiveUp(p) \/ Download(p)
  /\ nSyncStarted' = nSyncStarted + (IF StartSync(p) THEN 1 ELSE 0)
  /\ UNCHANGED <<index, tip, conn, nPreferredDownload, toNode, serving, serves, visits, submits>>

-----------------------------------------------------------------------------
Next ==
  \/ \E p \in Peers :
       \/ Connect(p) \/ Drop(p) \/ FinalizeNode(p)
       \/ ServeGetBlocks(p) \/ ServeInventory(p) \/ ServeGetData(p)
       \/ ReceiveInv(p) \/ ReceiveBlock(p) \/ SendMessages(p)
  \/ \E b \in Refusable : SubmitBlock(b)

(* The threads of the node and of its peers go on, and peers that are      *)
(* going to connect again do so.                                           *)
Fairness ==
  \A p \in Peers :
    /\ WF_vars(Connect(p)) /\ WF_vars(FinalizeNode(p))
    /\ WF_vars(ServeGetBlocks(p)) /\ WF_vars(ServeInventory(p)) /\ WF_vars(ServeGetData(p))
    /\ WF_vars(ReceiveInv(p)) /\ WF_vars(ReceiveBlock(p)) /\ WF_vars(SendMessages(p))

Spec == Init /\ [][Next]_vars /\ Fairness

-----------------------------------------------------------------------------
(* mapBlocksInFlight and the peers' lists tell the same: a block is in the *)
(* list of one connected peer and no more often than once, and a list is   *)
(* no longer than the limit.  SendMessages relies on it when it follows    *)
(* the entry of a block to the state of the peer that holds up the window. *)
FlightAgrees ==
  /\ \A b \in Blocks : owner[b] # None => owner[b] \in conn /\ index[b] # "absent"
  /\ \A p \in Peers :
       /\ {b \in Blocks : owner[b] = p} = Range(st[p].flight)
       /\ IsInjective(st[p].flight) /\ Len(st[p].flight) <= MAX_BLOCKS_IN_TRANSIT_PER_PEER

(* nSyncStarted counts the connected peers the node syncs with: were it    *)
(* too large, the node would not look for another after the last of them   *)
(* has gone (SendMessages, FinalizeNode).                                  *)
SyncCounted == nSyncStarted = Cardinality({p \in conn : st[p].sync})

(* The last block in common is stored with all its ancestors, as           *)
(* FindNextBlocksToDownload does not look at these again.                  *)
CommonStored ==
  \A p \in Peers : st[p].common # None => \A b \in Anc[st[p].common] : index[b] = "data"

(* The node ends up with a chain as long as the longest valid one that its *)
(* peers have, though peers leave and come back, one of them is on a chain *)
(* that the node refuses, and no peer announces the end of a long chain    *)
(* that it has sent in batches: the other peers do when the node has come  *)
(* close to it.                                                            *)
SyncCompletes ==
  <>[](\A p \in Peers : Anc[serves[p]] \cap Refusable = {} => Height[tip] >= Height[serves[p]])

(* nQueuedValidatedHeaders is the "number of blocks in flight with         *)
(* validated headers" (main.cpp).                                          *)
ValidatedHeadersCounted ==
  nQueuedValidatedHeaders = Cardinality({b \in Blocks : owner[b] # None})

(* A block that the node has asked to sync to is fetched in the end, if    *)
(* the peer stays.                                                         *)
SyncsToRequested ==
  \A p \in Peers, b \in Blocks :
    b \in st[p].requested ~> Known(b) \/ p \notin conn
=============================================================================
