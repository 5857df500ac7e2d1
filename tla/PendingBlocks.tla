---------------------------- MODULE PendingBlocks ----------------------------
(***************************************************************************)
(* The queue of blocks whose parent or slot has not come yet               *)
(* (beacon-chain/sync: pending_blocks_queue.go, validate_beacon_blocks.go, *)
(* subscriber_beacon_blocks.go, rpc_beacon_blocks_by_root.go).             *)
(*                                                                         *)
(* Gossip puts blocks into the queue or accepts them for import; a         *)
(* periodic routine walks through the queue, imports what has its parent   *)
(* and requests the missing parents from peers; entries of the queue, one  *)
(* per slot, expire.  slotToPendingBlocks and seenPendingBlocks are kept   *)
(* side by side under one lock.  The chain service is reduced to what it   *)
(* answers here: the blocks in the database, those in fork choice, and     *)
(* whether ReceiveBlock succeeds.  Peers are connected throughout.         *)
(***************************************************************************)
EXTENDS Integers, Sequences, FiniteSets, SequencesExt

CONSTANTS
    Blocks, Genesis,
    Parent,             \* [Blocks -> Blocks \cup {Genesis}]
    Slot,               \* [Blocks -> slots], greater than the parent's
    Proposer,           \* [Blocks -> proposer indices]
    Invalid,            \* blocks the state transition or the engine rejects
    MaxSlot,            \* bound on the clock
    SlotsPerEpoch,
    MaxBlocksPerSlot,   \* maxBlocksPerSlot
    EarlySlots,         \* how far ahead of the clock a block is kept
    MaxLosses           \* bound on resyncs and expiries, which take blocks out of the queue

Slots == 1 .. MaxSlot
Roots == Blocks \cup {Genesis}
ToEpoch(slot) == slot \div SlotsPerEpoch

ASSUME PendingAssumption ==
    /\ Genesis \notin Blocks
    /\ Parent \in [Blocks -> Roots]
    /\ Slot \in [Blocks -> Slots]
    /\ \A b \in Blocks : Parent[b] \in Blocks => Slot[Parent[b]] < Slot[b]
    /\ Invalid \subseteq Blocks
    /\ SlotsPerEpoch \in Nat \ {0} /\ MaxBlocksPerSlot \in Nat \ {0}
    /\ {MaxSlot, EarlySlots, MaxLosses} \subseteq Nat

VARIABLES
    slotToPendingBlocks,   \* [Slots -> blocks of the entry]
    expired,               \* slots whose entry has expired and is still stored
    seenPendingBlocks,     \* roots
    seenBlock,             \* seenBlockCache: <<slot, proposer>>
    badBlock,              \* badBlockCache
    db, tree,              \* blocks in the database, and in fork choice
    finalized,             \* root of the finalized checkpoint
    clock,
    queueing,              \* the block gossip has decided to queue
    accepted,              \* blocks gossip has accepted and not yet imported
    stage,                 \* where processPendingBlocks is
    todo,                  \* slots it has still to visit
    batch,                 \* blocks of the present slot it has still to visit
    current,               \* the block it imports or removes
    wanted,                \* parent roots to request
    losses

queue == <<slotToPendingBlocks, expired, seenPendingBlocks>>
chain == <<db, tree, finalized>>
gossip == <<queueing, accepted>>
routine == <<stage, todo, batch, current, wanted>>
vars == <<queue, chain, gossip, routine, seenBlock, badBlock, clock, losses>>

TypeOK ==
    /\ slotToPendingBlocks \in [Slots -> SUBSET Blocks]
    /\ \A sl \in Slots : \A b \in slotToPendingBlocks[sl] : Slot[b] = sl
    /\ \A sl \in Slots : Cardinality(slotToPendingBlocks[sl]) <= MaxBlocksPerSlot
    /\ expired \subseteq {sl \in Slots : slotToPendingBlocks[sl] # {}}
    /\ seenPendingBlocks \subseteq Blocks
    /\ badBlock \subseteq Blocks
    /\ tree \subseteq db /\ db \subseteq Roots /\ finalized \in tree
    /\ clock \in 0 .. MaxSlot
    /\ queueing \subseteq Blocks /\ Cardinality(queueing) <= 1
    /\ accepted \subseteq Blocks
    /\ stage \in {"idle", "validate", "sort", "slots", "import", "remove", "request"}
    /\ todo \subseteq Slots /\ batch \subseteq Blocks
    /\ current \in Roots /\ wanted \subseteq Blocks
    /\ losses \in 0 .. MaxLosses

\* Epoch of the finalized checkpoint, taken to be that of its block.
finalizedEpoch == IF finalized = Genesis THEN 0 ELSE ToEpoch(Slot[finalized])

-----------------------------------------------------------------------------
(* The two maps of the queue.                                              *)

\* What the cache returns for a slot: nothing once the entry has expired.
pendingBlocksInCache(slot) ==
    IF slot \in expired THEN {} ELSE slotToPendingBlocks[slot]

liveSlots == {sl \in Slots : pendingBlocksInCache(sl) # {}}

\* insertBlockToPendingQueue and addPendingBlockToCache: a slot takes MaxBlocksPerSlot blocks, an
\* entry that has expired is replaced, and the root is recorded in every case.
insertBlockToPendingQueue_unseen(b) ==
    LET slot == Slot[b]
        blks == pendingBlocksInCache(slot)
        adds == Cardinality(blks) < MaxBlocksPerSlot
    IN  /\ UNCHANGED seenPendingBlocks
        /\ slotToPendingBlocks' = IF adds
                                  THEN [slotToPendingBlocks EXCEPT ![slot] = blks \cup {b}]
                                  ELSE slotToPendingBlocks
        /\ expired' = IF adds THEN expired \ {slot} ELSE expired
insertBlockToPendingQueue_unlimited(b) ==
    LET slot == Slot[b]
        blks == pendingBlocksInCache(slot)
        adds == b \notin seenPendingBlocks /\ Cardinality(blks) <= MaxBlocksPerSlot
    IN  /\ seenPendingBlocks' = seenPendingBlocks \cup {b}
        /\ slotToPendingBlocks' = IF adds
                                  THEN [slotToPendingBlocks EXCEPT ![slot] = blks \cup {b}]
                                  ELSE slotToPendingBlocks
        /\ expired' = IF adds THEN expired \ {slot} ELSE expired
insertBlockToPendingQueue(b) ==
    LET slot == Slot[b]
        blks == pendingBlocksInCache(slot)
        adds == b \notin seenPendingBlocks /\ Cardinality(blks) < MaxBlocksPerSlot
    IN  /\ seenPendingBlocks' = seenPendingBlocks \cup {b}
        /\ slotToPendingBlocks' = IF adds
                                  THEN [slotToPendingBlocks EXCEPT ![slot] = blks \cup {b}]
                                  ELSE slotToPendingBlocks
        /\ expired' = IF adds THEN expired \ {slot} ELSE expired

\* deleteBlockFromPendingQueue for several blocks: those of an expired entry stay.
deleteBlocksFromPendingQueue(blks) ==
    LET gone == {b \in blks : pendingBlocksInCache(Slot[b]) # {}} IN
    /\ slotToPendingBlocks' = [sl \in Slots |-> slotToPendingBlocks[sl] \ gone]
    /\ seenPendingBlocks' = seenPendingBlocks \ gone
    /\ UNCHANGED expired

-----------------------------------------------------------------------------
(* Gossip: validateBeaconBlockPubSub, under validateBlockLock, and the     *)
(* subscriber.                                                             *)

\* The block is neither known nor hopeless; otherwise it is ignored or rejected without a trace.
plausible(b) ==
    /\ <<Slot[b], Proposer[b]>> \notin seenBlock
    /\ b \notin db
    /\ Parent[b] \notin badBlock
    /\ b \notin seenPendingBlocks
    /\ Slot[b] <= clock + EarlySlots
    /\ Slot[b] > finalizedEpoch * SlotsPerEpoch

\* A child of a bad block is bad.
GossipBadParent(b) ==
    /\ queueing = {}
    /\ <<Slot[b], Proposer[b]>> \notin seenBlock
    /\ b \notin db
    /\ Parent[b] \in badBlock
    /\ badBlock' = badBlock \cup {b}
    /\ UNCHANGED <<queue, chain, gossip, routine, seenBlock, clock, losses>>

\* An early block, or one whose parent is unknown, is to be queued.
GossipQueues(b) ==
    /\ queueing = {}
    /\ plausible(b)
    /\ Slot[b] > clock \/ Parent[b] \notin db
    /\ queueing' = {b}
    /\ UNCHANGED <<queue, chain, accepted, routine, seenBlock, badBlock, clock, losses>>

QueueBlock ==
    \E b \in queueing :
        /\ insertBlockToPendingQueue(b)
        /\ queueing' = {}
        /\ UNCHANGED <<chain, accepted, routine, seenBlock, badBlock, clock, losses>>

\* validateBeaconBlock: the parent must be in fork choice.
GossipAccepts(b) ==
    /\ queueing = {}
    /\ plausible(b)
    /\ Slot[b] <= clock /\ Parent[b] \in db
    /\ IF Parent[b] \in tree
       THEN accepted' = accepted \cup {b} /\ UNCHANGED badBlock
       ELSE badBlock' = badBlock \cup {b} /\ UNCHANGED accepted
    /\ UNCHANGED <<queue, chain, queueing, routine, seenBlock, clock, losses>>

\* ReceiveBlock succeeds; a block that is known returns early.
Import(b) ==
    /\ b \notin Invalid
    /\ Parent[b] \in tree \/ b \in db
    /\ db' = db \cup {b}
    /\ tree' = IF Parent[b] \in tree THEN tree \cup {b} ELSE tree
    /\ UNCHANGED finalized

\* beaconBlockSubscriber: the proposal counts as seen whatever becomes of the import.
SubscriberReceives(b) ==
    /\ b \in accepted
    /\ accepted' = accepted \ {b}
    /\ seenBlock' = seenBlock \cup {<<Slot[b], Proposer[b]>>}
    /\ \/ Import(b) /\ UNCHANGED badBlock
       \/ b \in Invalid /\ badBlock' = badBlock \cup {b} /\ UNCHANGED chain
       \/ UNCHANGED <<chain, badBlock>>
    /\ UNCHANGED <<queue, queueing, routine, clock, losses>>

-----------------------------------------------------------------------------
(* processPendingBlocks, one run at a time.                                *)

DeleteExpiredBlocks ==
    /\ stage = "idle"
    /\ seenPendingBlocks' = seenPendingBlocks \ UNION {slotToPendingBlocks[sl] : sl \in expired}
    /\ slotToPendingBlocks' = [sl \in Slots |-> IF sl \in expired THEN {}
                                                ELSE slotToPendingBlocks[sl]]
    /\ expired' = {}
    /\ stage' = "validate"
    /\ UNCHANGED <<chain, gossip, todo, batch, current, wanted, seenBlock, badBlock, clock, losses>>

\* The blocks validatePendingSlots finds old when it visits the slots in this order.
oldBlocks(order) ==
    LET visit(old, slot) ==
            old \cup {b \in pendingBlocksInCache(slot) :
                         \/ Parent[b] \in old
                         \/ finalizedEpoch > 0 /\ ToEpoch(slot) <= finalizedEpoch}
    IN  FoldLeft(visit, {}, order)

\* The slots are the keys of a map, visited in any order.
validatePendingSlots ==
    /\ stage = "validate"
    /\ \E order \in SetToSeqs(liveSlots) : deleteBlocksFromPendingQueue(oldBlocks(order))
    /\ stage' = "sort"
    /\ UNCHANGED <<chain, gossip, todo, batch, current, wanted, seenBlock, badBlock, clock, losses>>

sortedPendingSlots ==
    /\ stage = "sort"
    /\ todo' = {sl \in liveSlots : sl <= clock}
    /\ stage' = "slots"
    /\ UNCHANGED <<queue, chain, gossip, batch, current, wanted, seenBlock, badBlock, clock, losses>>

\* getBlocksInQueue for the lowest slot left; its blocks are visited in any order.
NextSlot ==
    /\ stage = "slots" /\ batch = {} /\ todo # {}
    /\ \E slot \in todo :
          /\ \A other \in todo : slot <= other
          /\ batch' = pendingBlocksInCache(slot)
          /\ todo' = todo \ {slot}
    /\ UNCHANGED <<queue, chain, gossip, stage, current, wanted, seenBlock, badBlock, clock, losses>>

\* BlockBeingSynced: the subscriber is importing the block.
SkipBlock(b) ==
    /\ stage = "slots" /\ b \in batch
    /\ b \in accepted
    /\ batch' = batch \ {b}
    /\ UNCHANGED <<queue, chain, gossip, stage, todo, current, wanted, seenBlock, badBlock, clock, losses>>

\* What is decided about a block before it is imported.
missingParent_itself(b) ==
    Parent[b] \notin db /\ b \notin seenPendingBlocks
missingParent(b) ==
    Parent[b] \notin db /\ Parent[b] \notin seenPendingBlocks

CheckBlock(b) ==
    /\ stage = "slots" /\ b \in batch
    /\ batch' = batch \ {b}
    /\ LET inDB == b \in db
           bad == ~ inDB /\ (Parent[b] \in badBlock \/ b \in badBlock)
       IN
       /\ stage' = IF inDB \/ bad THEN "remove"
                   ELSE IF Parent[b] \in db THEN "import" ELSE "slots"
       /\ badBlock' = IF bad /\ Parent[b] \in badBlock THEN badBlock \cup {b} ELSE badBlock
       /\ wanted' = IF ~ inDB /\ ~ bad /\ missingParent(b) THEN wanted \cup {Parent[b]} ELSE wanted
       /\ current' = IF stage' = "slots" THEN current ELSE b
    /\ UNCHANGED <<queue, chain, gossip, todo, seenBlock, clock, losses>>

\* processAndBroadcastBlock succeeds.
ProcessSucceeds ==
    /\ stage = "import"
    /\ Parent[current] \in tree
    /\ Import(current)
    /\ seenBlock' = seenBlock \cup {<<Slot[current], Proposer[current]>>}
    /\ stage' = "remove"
    /\ UNCHANGED <<queue, gossip, todo, batch, current, wanted, badBlock, clock, losses>>

\* It fails: the parent is not in fork choice, the block is invalid, or for a passing reason
\* (peers without the blobs, the engine, the deadline).  The block stays in the queue.
ProcessFails_bad ==
    /\ stage = "import"
    /\ badBlock' = badBlock \cup {current}
    /\ stage' = "slots"
    /\ UNCHANGED <<queue, chain, gossip, todo, batch, current, wanted, seenBlock, clock, losses>>
ProcessFails ==
    /\ stage = "import"
    /\ \/ /\ current \in Invalid \/ Parent[current] \notin tree
          /\ badBlock' = badBlock \cup {current}
       \/ Parent[current] \in tree /\ UNCHANGED badBlock
    /\ stage' = "slots"
    /\ UNCHANGED <<queue, chain, gossip, todo, batch, current, wanted, seenBlock, clock, losses>>

removeBlockFromQueue ==
    /\ stage = "remove"
    /\ deleteBlocksFromPendingQueue({current})
    /\ stage' = "slots"
    /\ UNCHANGED <<chain, gossip, todo, batch, current, wanted, seenBlock, badBlock, clock, losses>>

\* sendBatchRootRequest: roots that have come or are being imported meanwhile are left out.
sendBatchRootRequest ==
    /\ stage = "slots" /\ batch = {} /\ todo = {}
    /\ \E syncing \in SUBSET accepted : wanted' = wanted \ (seenPendingBlocks \cup syncing)
    /\ stage' = "request"
    /\ UNCHANGED <<queue, chain, gossip, todo, batch, current, seenBlock, badBlock, clock, losses>>

\* A peer returns a block, which goes to the queue unverified.
PeerReturns(b) ==
    /\ stage = "request" /\ b \in wanted
    /\ insertBlockToPendingQueue(b)
    /\ wanted' = wanted \ {b}
    /\ UNCHANGED <<chain, gossip, stage, todo, batch, current, seenBlock, badBlock, clock, losses>>

\* All roots were returned, or the tries are used up.
RequestEnds ==
    /\ stage = "request"
    /\ wanted' = {}
    /\ stage' = "idle"
    /\ UNCHANGED <<queue, chain, gossip, todo, batch, current, seenBlock, badBlock, clock, losses>>

-----------------------------------------------------------------------------
(* Time, finality and resync.                                              *)

Tick ==
    /\ clock < MaxSlot
    /\ clock' = clock + 1
    /\ UNCHANGED <<queue, chain, gossip, routine, seenBlock, badBlock, losses>>

loss == losses < MaxLosses /\ losses' = losses + 1

Expire(slot) ==
    /\ loss
    /\ slot \in liveSlots
    /\ expired' = expired \cup {slot}
    /\ UNCHANGED <<slotToPendingBlocks, seenPendingBlocks, chain, gossip, routine, seenBlock,
                   badBlock, clock>>

\* ancestors[b]: b and the blocks below it, the least set that holds b and the parent of every
\* block it holds.
ancestors ==
    [b \in Roots |->
        {x \in Roots : \A S \in SUBSET Roots :
            (b \in S /\ \A y \in S \cap Blocks : Parent[y] \in S) => x \in S}]

\* The chain service finalizes a block and prunes fork choice.  Finality comes two epochs after
\* the import at the earliest, so not while the routine validates the block or an ancestor.
Finalize(b) ==
    /\ b \in tree \ {Genesis} /\ ToEpoch(Slot[b]) > finalizedEpoch
    /\ ~ (stage = "import" /\ current \in ancestors[b])
    /\ finalized' = b
    /\ tree' = {other \in tree \ {Genesis} : b \in ancestors[other]}
    /\ UNCHANGED <<queue, db, gossip, routine, seenBlock, badBlock, clock, losses>>

\* resyncIfBehind: the node has fallen behind its peers.
clearPendingSlots ==
    /\ loss
    /\ slotToPendingBlocks' = [sl \in Slots |-> {}]
    /\ expired' = {}
    /\ seenPendingBlocks' = {}
    /\ UNCHANGED <<chain, gossip, routine, seenBlock, badBlock, clock>>

-----------------------------------------------------------------------------
Init ==
    /\ slotToPendingBlocks = [sl \in Slots |-> {}]
    /\ expired = {} /\ seenPendingBlocks = {}
    /\ seenBlock = {} /\ badBlock = {}
    /\ db = {Genesis} /\ tree = {Genesis} /\ finalized = Genesis
    /\ clock = 0
    /\ queueing = {} /\ accepted = {}
    /\ stage = "idle" /\ todo = {} /\ batch = {} /\ current = Genesis /\ wanted = {}
    /\ losses = 0

Gossip(b) ==
    GossipBadParent(b) \/ GossipQueues(b) \/ GossipAccepts(b) \/ SubscriberReceives(b)

Routine ==
    \/ DeleteExpiredBlocks \/ validatePendingSlots \/ sortedPendingSlots \/ NextSlot
    \/ \E b \in Blocks : SkipBlock(b) \/ CheckBlock(b) \/ PeerReturns(b)
    \/ ProcessSucceeds \/ ProcessFails \/ removeBlockFromQueue
    \/ sendBatchRootRequest \/ RequestEnds

Next ==
    \/ \E b \in Blocks : Gossip(b)
    \/ QueueBlock
    \/ Routine
    \/ Tick
    \/ \E slot \in Slots : Expire(slot)
    \/ \E b \in Blocks : Finalize(b)
    \/ clearPendingSlots

Spec == Init /\ [][Next]_vars

\* The routine runs again and again; the peer asked for a block returns it one time or another,
\* and the import of a block that can succeed succeeds one time or another.
FairSpec ==
    /\ Spec
    /\ WF_vars(Tick)
    /\ WF_vars(QueueBlock)
    /\ \A b \in Blocks : WF_vars(SubscriberReceives(b)) /\ SF_vars(PeerReturns(b))
    /\ WF_vars(Routine)
    /\ SF_vars(ProcessSucceeds)

-----------------------------------------------------------------------------
(* Properties.                                                             *)

\* A block in the queue is in seenPendingBlocks: otherwise gossip and peers would insert it
\* again, and the parent it waits for would be requested although it is there.
QueuedIsSeen ==
    \A sl \in Slots : slotToPendingBlocks[sl] \subseteq seenPendingBlocks

\* A block that continues the finalized block through valid blocks is never marked bad, whatever
\* the order in which gossip, peers, failures of the import and finality come.
BadIsDeserved ==
    \A b \in badBlock :
        \/ finalized \notin ancestors[b]
        \/ ancestors[b] \cap Invalid # {}

\* A queued block whose chain is valid is imported, the missing ancestors having been requested
\* and imported first, unless it expires or becomes old or a resync clears the queue before.
QueuedIsImported ==
    \A b \in {x \in Blocks : ancestors[x] \cap Invalid = {}} :
        b \in slotToPendingBlocks[Slot[b]]
            ~> b \in db \/ b \notin slotToPendingBlocks[Slot[b]]
=============================================================================
