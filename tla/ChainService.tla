---------------------------- MODULE ChainService ----------------------------
(***************************************************************************)
(* The chain service around the fork choice store                          *)
(* (beacon-chain/blockchain): import of gossip blocks and of batches, the  *)
(* attestation routine, the calls to the execution engine, the saved head, *)
(* what is on disk, and restarts.                                          *)
(*                                                                         *)
(* ForkChoice supplies the store; here its methods are called in the order *)
(* the service calls them.  A goroutine that holds the write lock of the   *)
(* store is described by work; each method it calls, and each answer of    *)
(* the engine it waits for, is a step, so that the process can stop        *)
(* between two of them.  Everything but the disk is lost in a restart.     *)
(***************************************************************************)
EXTENDS ForkChoice

CONSTANTS
    Votes,           \* the votes that may reach the attestation pool
    BlockVotes,      \* [Roots -> the votes inside the block]
    Batches,         \* the chains initial sync may import, as sets of roots
    InvalidPayloads, \* the blocks whose payload the execution engine rejects
    CacheSize,       \* initialSyncBlockCacheSize
    CallIds,         \* bound of the model: calls of ReceiveBlock that may overlap
    MaxRestarts      \* bound of the model

Vote == [indices : SUBSET Validators, root : Roots, slot : Nat]

oldest(S) == CHOOSE r \in S : \A z \in S : Slot[r] <= Slot[z]
newest(S) == CHOOSE r \in S : \A z \in S : Slot[z] <= Slot[r]

ASSUME ServiceAssumption ==
    /\ Votes \subseteq Vote
    /\ BlockVotes \in [Roots -> SUBSET Vote]
    /\ InvalidPayloads \subseteq Roots
    /\ CacheSize \in Nat /\ MaxRestarts \in Nat
    /\ ~StartOptimistic     \* the block of the first start is validated
    \* "assuming the block batch is linear"
    /\ \A S \in Batches :
          /\ S # {} /\ S \subseteq Roots
          /\ \A r, z \in S : Slot[r] = Slot[z] => r = z
          /\ \A r \in S : r # oldest(S) => ParentRoot[r] = newest({z \in S : Slot[z] < Slot[r]})

\* Epoch processing, at the end of an epoch: it justifies this epoch or an earlier one, and
\* finalizes an earlier one.  The block of a checkpoint is not later than its epoch's first slot.
ASSUME EpochAssumption ==
    /\ SlotsPerEpoch >= 2
    /\ \A r \in Roots :
          /\ JC[r].epoch > StartFinalized.epoch =>
                /\ JC[r].root \in Roots
                /\ Slot[JC[r].root] <= EpochStart(JC[r].epoch)
                /\ EpochStart(JC[r].epoch + 1) <= Slot[r]
          /\ FC[r].epoch > StartFinalized.epoch => EpochStart(FC[r].epoch + 2) <= Slot[r]

VARIABLES
    work,           \* what the holder of the write lock does, and where it is
    head,           \* s.head: root, slot and optimistic status
    calls,          \* calls of ReceiveBlock that wait for the lock, with the epochs they read
    pool,           \* AttPool.ForkchoiceAttestations
    initSyncBlocks, \* blocks of batches, in memory
    blocksOnDisk,
    summaries,      \* roots with a state summary on disk
    dbJustified,
    dbFinalized,
    lastValidated,
    restarts

dbCheckpoints == <<dbJustified, dbFinalized, lastValidated>>
disk == <<blocksOnDisk, summaries, dbCheckpoints, restarts>>
service == <<work, head, calls, pool, initSyncBlocks, disk>>
serviceVars == <<vars, service>>

\* The fields are those of postBlockProcessConfig and fcuConfig: root is the block that
\* is imported, fcuRoot the head the engine is told about; epochs are the epochs
\* read before the lock; votes and inserts are what is left of a loop; valid is
\* isValidPayload, failed an INVALID head that was removed.
Idle == [task |-> "none", step |-> "none", root |-> NoNode, fcuRoot |-> NoNode,
         epochs |-> [justified |-> 0, finalized |-> 0], votes |-> {}, batch |-> {},
         inserts |-> {}, valid |-> FALSE, failed |-> FALSE]

ensureRootNotZeros(r) == IF r = NoNode THEN StartRoot ELSE r

hasBlockInInitSyncOrDB(r) == r \in initSyncBlocks \cup blocksOnDisk

\* ForkChoice.IsOptimistic: also for a block without node.
IsOptimisticNode(r) == r \in nodeByRoot => optimistic[r]

ServiceTypeOK ==
    /\ work.task \in {"none", "import", "updateHead", "batch"}
    /\ work.root \in Nodes /\ work.fcuRoot \in Nodes
    /\ work.step \in {"fcu", "save"} => work.fcuRoot \in Roots
    /\ work.votes \subseteq Vote /\ work.inserts \subseteq Roots
    /\ head \in [root : Roots, slot : Nat, optimistic : BOOLEAN]
    /\ calls \subseteq [id : CallIds, root : Roots, justified : Nat, finalized : Nat]
    /\ pool \subseteq Vote
    /\ initSyncBlocks \subseteq Roots
    /\ blocksOnDisk \subseteq Roots /\ summaries \subseteq Roots
    /\ dbJustified \in Checkpoints /\ dbFinalized \in Checkpoints /\ lastValidated \in Checkpoints
    /\ restarts \in 0 .. MaxRestarts

\* Bounds of the model: that of ForkChoice on blocks that are imported again, and the count of
\* the new node stays below MaxAttCount, so that no vote waits for the bound.
importable(r) ==
    \/ r \in nodeByRoot
    \/ /\ unaliased(r)
       /\ r \in DOMAIN cacheAttCount => cacheAttCount[r] + Cardinality(Validators) <= MaxAttCount

\* The engine says VALID only of a chain without rejected payload and INVALID only of one with;
\* SYNCING it may say of any.
invalid(r) == BlockAncestors(r) \cap InvalidPayloads # {}

\* A checkpoint of the chain of r: its block is the latest up to the first slot of its epoch.
IsCheckpointOf(cp, r) ==
    /\ cp.root \in BlockChain[r] /\ Slot[cp.root] <= EpochStart(cp.epoch)
    /\ \A z \in BlockChain[r] : Slot[z] <= EpochStart(cp.epoch) => Slot[z] <= Slot[cp.root]

\* The checkpoints that blocks finalize, and the justified ones of the blocks before a batch.
finalCheckpoints == {FC[r] : r \in {z \in Roots : FC[z].epoch > StartFinalized.epoch}}
batchCheckpoints ==
    LET before == {ParentRoot[oldest(S)] : S \in Batches}
    IN  {JC[p] : p \in {z \in before \cap Roots : JC[z].epoch > StartFinalized.epoch}}

\* The accountable safety of the protocol: a checkpoint that is justified, at the epoch of a
\* finalized one or later, has the finalized one on its chain.
ASSUME CheckpointAssumption ==
    /\ Slot[StartRoot] <= EpochStart(StartFinalized.epoch)
    /\ \A r \in Roots :
          /\ FC[r].epoch > StartFinalized.epoch => IsCheckpointOf(FC[r], r)
          /\ JC[r].epoch > StartFinalized.epoch => IsCheckpointOf(JC[r], r)
    /\ \A cp \in finalCheckpoints, cq \in finalCheckpoints \cup batchCheckpoints :
          cq.epoch >= cp.epoch => IsCheckpointOf(cp, cq.root)

\* The engine accepts the payloads up to these checkpoints, and the blocks it takes back with a
\* rejected one do not reach down to them.
ASSUME EngineAssumption ==
    \A cp \in finalCheckpoints \cup batchCheckpoints :
        /\ ~invalid(cp.root)
        /\ \A r \in {z \in Roots : invalid(z)} : \A n \in BlockChain[r] :
              ParentRoot[n] \in Roots /\ PayloadHash[ParentRoot[n]] \in LastValidHashes
                 => n \notin BlockChain[cp.root]

-----------------------------------------------------------------------------
(* Deletion of invalid blocks.                                             *)

\* DeleteState refuses these.
protected == {ensureRootNotZeros(dbJustified.root), ensureRootNotZeros(dbFinalized.root), StartRoot}

\* removeInvalidBlockAndState goes through the removed blocks from the leaves up, siblings in
\* any order, and stops with an error at a protected one: what it has deleted by then.
deletions(gone) ==
    LET stop == gone \cap protected
        below == UNION {Subtree(children, r) \ {r} : r \in stop}
        above == UNION {Ancestors(parent, r) : r \in stop}
    IN  IF stop = {} THEN {gone} ELSE {S \in SUBSET (gone \ above) : below \subseteq S}

removeInvalidBlockAndState(gone) ==
    /\ \E S \in deletions(gone) : blocksOnDisk' = blocksOnDisk \ S /\ summaries' = summaries \ S
    /\ UNCHANGED <<dbCheckpoints, restarts>>

-----------------------------------------------------------------------------
(* Import of a gossip block.                                               *)

\* verifyBlkPreState: the blocks in memory go to disk when the state of p is not at hand;
\* reading the state (StateByRoot) restores a missing summary.
verifyBlkPreState_cleared(p) ==
    /\ p \in summaries \cup blocksOnDisk
    /\ summaries' = summaries \cup {p}
    /\ initSyncBlocks' = {}
    /\ UNCHANGED blocksOnDisk
verifyBlkPreState(p) ==
    /\ p \in summaries \cup blocksOnDisk
    /\ summaries' = summaries \cup {p}
    /\ \/ UNCHANGED <<blocksOnDisk, initSyncBlocks>>
       \/ /\ initSyncBlocks # {}
          /\ blocksOnDisk' = blocksOnDisk \cup initSyncBlocks
          /\ initSyncBlocks' = {}

\* ReceiveBlock up to the lock; the epochs of the store are read here and used after the
\* insertion.  Calls for one block may overlap.
ReceiveCall(id, r) ==
    /\ work = Idle          \* InForkchoice and FinalizedCheckpt take the lock for reading
    /\ \A call \in calls : call.id # id
    /\ r \notin nodeByRoot
    /\ verifyBlkPreState(ParentRoot[r])
    /\ getBlockPreState(r)
    /\ validateStateTransition(r)
    /\ calls' = calls \cup {[id |-> id, root |-> r, justified |-> justifiedCheckpoint.epoch,
                             finalized |-> finalizedCheckpoint.epoch]}
    /\ UNCHANGED <<vars, work, head, pool, dbCheckpoints, restarts>>

\* The engine answers INVALID for the new payload: pruneInvalidBlock takes the lock and
\* removes blocks, and the import fails.  The head is not computed again.
pruneInvalidBlock(call, lastValidHash) ==
    /\ work = Idle
    /\ invalid(call.root)
    /\ SetOptimisticToInvalid(call.root, lastValidHash)
    /\ removeInvalidBlockAndState(nodeByRoot \ nodeByRoot')
    /\ calls' = calls \ {call}
    /\ UNCHANGED <<work, head, pool, initSyncBlocks>>

\* Another check of the import fails.
ImportRefused(call) ==
    /\ calls' = calls \ {call}
    /\ UNCHANGED <<vars, work, head, pool, initSyncBlocks, disk>>

\* Lock, then savePostStateInfo: block and state are saved before fork choice has seen
\* the block.
savePostStateInfo(call) ==
    /\ work = Idle
    /\ importable(call.root)
    /\ calls' = calls \ {call}
    /\ blocksOnDisk' = blocksOnDisk \cup {call.root}
    /\ work' = [Idle EXCEPT !.task = "import", !.step = "state", !.root = call.root,
                            !.epochs = [justified |-> call.justified, finalized |-> call.finalized]]
    /\ UNCHANGED <<vars, head, pool, initSyncBlocks, summaries, dbCheckpoints, restarts>>

SaveState ==
    /\ work.step = "state"
    /\ summaries' = summaries \cup {work.root}
    /\ work' = [work EXCEPT !.step = "insert"]
    /\ UNCHANGED <<vars, head, calls, pool, initSyncBlocks, blocksOnDisk, dbCheckpoints, restarts>>

\* InsertNode, or one round of InsertChain.  It fails for a block without parent, and when the
\* new finalized block has no node; what it changed by then stays.
InsertSucceeds(r, jc, fc) ==
    /\ InsertKnown(r, jc, fc) \/ InsertLinked(r, jc, fc)
    /\ finalityStands(fc) \/ fc.root \in nodeByRoot \cup {r}

InsertFails(r, jc, fc) ==
    \/ InsertOrphan(r, jc)
    \/ /\ ~finalityStands(fc) /\ fc.root \notin nodeByRoot \cup {r}
       /\ InsertKnown(r, jc, fc) \/ InsertLinked(r, jc, fc)

\* The first call of postBlockProcess.  An error ends the import: the block stays on disk
\* and in the store.
ImportInsert ==
    /\ work.task = "import" /\ work.step = "insert"
    /\ LET r == work.root
       IN  \/ /\ InsertSucceeds(r, JC[r], FC[r])
              /\ work' = [work EXCEPT !.step = "votes", !.votes = BlockVotes[r]]
           \/ /\ InsertFails(r, JC[r], FC[r])
              /\ work' = Idle
    /\ UNCHANGED <<head, calls, pool, initSyncBlocks, disk>>

\* handleBlockAttestations: a vote for an unknown block goes to the pool.
ImportVote(v) ==
    /\ work.step = "votes"
    /\ v \in work.votes
    /\ work' = [work EXCEPT !.votes = @ \ {v}]
    /\ \/ ProcessAttestation(v.indices, v.root, v.slot) /\ UNCHANGED pool
       \/ /\ v.root \notin nodeByRoot
          /\ pool' = pool \cup {v}
          /\ UNCHANGED vars
    /\ UNCHANGED <<head, calls, initSyncBlocks, disk>>

\* The payload was VALID, or the engine is syncing.
ImportVerdict ==
    /\ work.step = "votes" /\ work.votes = {}
    /\ (~invalid(work.root) /\ SetOptimisticToValid(work.root)) \/ UNCHANGED vars
    /\ work' = [work EXCEPT !.step = "head"]
    /\ UNCHANGED <<head, calls, pool, initSyncBlocks, disk>>

isNewHead(r) == r # head.root

\* The engine is told only when the block itself is the new head (an error of Head counts
\* as another head).
ImportHead ==
    /\ work.task = "import" /\ work.step = "head"
    /\ Head
    /\ work' = IF headNode' = work.root /\ isNewHead(work.root)
               THEN [work EXCEPT !.step = "fcu", !.fcuRoot = work.root]
               ELSE [work EXCEPT !.step = "finality"]
    /\ UNCHANGED <<head, calls, pool, initSyncBlocks, disk>>

\* updateFinalized: not older than the one on disk; blocks in memory are saved first.
updateFinalized(cp) == cp.epoch > dbFinalized.epoch

\* With the blocks in memory given, which are saved and cleared before the checkpoint is
\* written.
saveFinalized_unsaved(cp, cached) ==
    /\ initSyncBlocks' = cached
    /\ dbFinalized' = cp
    /\ lastValidated' = IF IsOptimisticNode(cp.root) THEN lastValidated ELSE cp
    /\ UNCHANGED blocksOnDisk
saveFinalized(cp, cached) ==
    /\ blocksOnDisk' = blocksOnDisk \cup cached
    /\ initSyncBlocks' = {}
    /\ dbFinalized' = cp
    /\ lastValidated' = IF IsOptimisticNode(cp.root) THEN lastValidated ELSE cp

\* The store moved past the epoch read before the lock, or the block itself raised it.
raised(stored, read, before, after) == stored > read \/ (stored = after /\ stored > before)

\* updateJustificationOnBlock, updateFinalizationOnBlock: the checkpoints of the store go to
\* disk.
ImportFinality ==
    LET pre == ParentRoot[work.root]
    IN  /\ work.step = "finality"
        /\ dbJustified' = IF raised(justifiedCheckpoint.epoch, work.epochs.justified,
                                    JC[pre].epoch, JC[work.root].epoch)
                          THEN justifiedCheckpoint ELSE dbJustified
        /\ IF /\ raised(finalizedCheckpoint.epoch, work.epochs.finalized,
                        FC[pre].epoch, FC[work.root].epoch)
              /\ updateFinalized(finalizedCheckpoint)
           THEN saveFinalized(finalizedCheckpoint, initSyncBlocks)
           ELSE UNCHANGED <<blocksOnDisk, initSyncBlocks, dbFinalized, lastValidated>>
        /\ work' = Idle
        /\ UNCHANGED <<vars, head, calls, pool, summaries, restarts>>

-----------------------------------------------------------------------------
(* notifyForkchoiceUpdate and saveHead.                                    *)

\* saveHead: the status is read from fork choice.
saveHead_validated(r) ==
    head' = IF isNewHead(r) /\ r \in summaries
            THEN [root |-> r, slot |-> Slot[r], optimistic |-> FALSE]
            ELSE head
saveHead_extend(r) ==
    head' = IF ParentRoot[r] = head.root
            THEN [root |-> r, slot |-> Slot[r], optimistic |-> IsOptimisticNode(r)]
            ELSE head
saveHead(r) ==
    head' = IF isNewHead(r) /\ r \in summaries
            THEN [root |-> r, slot |-> Slot[r], optimistic |-> IsOptimisticNode(r)]
            ELSE head

\* VALID, or SYNCING and unknown errors.
FCUAccepted ==
    /\ work.step = "fcu"
    /\ (~invalid(work.fcuRoot) /\ SetOptimisticToValid(work.fcuRoot)) \/ UNCHANGED vars
    /\ work' = [work EXCEPT !.step = "save"]
    /\ UNCHANGED <<head, calls, pool, initSyncBlocks, disk>>

\* setOptimisticToInvalid returns an error: a validated node, or a first invalid node that has
\* no parent.
invalidationRefused(r, lastValidHash) ==
    /\ parent[r] # NoNode
    /\ \E n \in firstInvalid(r, lastValidHash) : ~removable(IF parent[n] = NoNode THEN r ELSE n)

\* INVALID: the blocks go, and Head picks another one, unless the blocks cannot be removed.
FCUInvalid(lastValidHash) ==
    /\ work.step = "fcu" /\ invalid(work.fcuRoot)
    /\ \/ /\ SetOptimisticToInvalid(work.fcuRoot, lastValidHash)
          /\ LET gone == nodeByRoot \ nodeByRoot'
             IN  /\ removeInvalidBlockAndState(gone)
                 /\ work' = IF gone \cap protected = {}
                            THEN [work EXCEPT !.step = "refetch", !.failed = TRUE]
                            ELSE [work EXCEPT !.step = "save"]
       \/ /\ invalidationRefused(work.fcuRoot, lastValidHash)
          /\ work' = [work EXCEPT !.step = "save"]
          /\ UNCHANGED <<vars, disk>>
    /\ UNCHANGED <<head, calls, pool, initSyncBlocks>>

\* The recursive call for the head that is left.
FCUHead ==
    /\ work.step = "refetch"
    /\ Head
    /\ IF headNode' = NoNode
       THEN work' = Idle /\ UNCHANGED summaries
       ELSE /\ work' = [work EXCEPT !.step = "fcu", !.fcuRoot = headNode']
            /\ summaries' = summaries \cup {headNode'}
    /\ UNCHANGED <<head, calls, pool, initSyncBlocks, blocksOnDisk, dbCheckpoints, restarts>>

\* saveHead, then on to the rest of the caller; after INVALID the caller gets an error.
FCUSave ==
    /\ work.step = "save"
    /\ work.task # "batch" \/ work.failed
    /\ saveHead(work.fcuRoot)
    /\ work' = IF work.task = "import" /\ ~work.failed THEN [work EXCEPT !.step = "finality"] ELSE Idle
    /\ UNCHANGED <<vars, calls, pool, initSyncBlocks, disk>>

-----------------------------------------------------------------------------
(* The attestation routine.                                                *)

\* A vote that passed the gossip checks reaches the pool.
VoteArrives(v) ==
    /\ v \notin pool
    /\ Slot[v.root] <= v.slot /\ v.slot <= currentSlot
    /\ hasBlockInInitSyncOrDB(v.root)
    /\ pool' = pool \cup {v}
    /\ UNCHANGED <<vars, work, head, calls, initSyncBlocks, disk>>

\* The slot ticker, first half.
RoutineNewSlot ==
    /\ work = Idle
    /\ NewSlot
    /\ UNCHANGED service

\* UpdateHead, with the votes that are in the pool when the lock is taken.
UpdateHead ==
    /\ work = Idle
    /\ work' = [Idle EXCEPT !.task = "updateHead", !.step = "attestations", !.votes = pool]
    /\ UNCHANGED <<vars, head, calls, pool, initSyncBlocks, disk>>

\* processAttestations deletes a vote from the pool before it is handed to fork choice, which
\* ignores it when the block has no node.
processAttestations(v) ==
    LET known == v.root \in summaries /\ (v.root \in nodeByRoot \/ v.root \in blocksOnDisk)
    IN  /\ work.step = "attestations"
        /\ v \in work.votes
        /\ work' = [work EXCEPT !.votes = @ \ {v}]
        /\ pool' = IF known THEN pool \ {v} ELSE pool
        /\ \/ known /\ OnAttestation(v.indices, v.root, v.slot)
           \/ ~(known /\ v.root \in nodeByRoot) /\ UNCHANGED vars
        /\ UNCHANGED <<head, calls, initSyncBlocks, disk>>

\* The head UpdateHead goes on with: not after an error of Head, only a new one, and only when
\* its block is there.
goesOn_unchecked(h) == isNewHead(h)
goesOn_cached(h) == h # NoNode /\ h # headNode /\ hasBlockInInitSyncOrDB(h)
goesOn(h) == h # NoNode /\ isNewHead(h) /\ hasBlockInInitSyncOrDB(h)

\* Reading the state of the new head restores a missing summary.
UpdateHeadHead ==
    /\ work.step = "attestations" /\ work.votes = {}
    /\ Head
    /\ IF goesOn(headNode')
       THEN /\ work' = [work EXCEPT !.step = "fcu", !.fcuRoot = headNode']
            /\ summaries' = summaries \cup {headNode'}
       ELSE work' = Idle /\ UNCHANGED summaries
    /\ UNCHANGED <<head, calls, pool, initSyncBlocks, blocksOnDisk, dbCheckpoints, restarts>>

-----------------------------------------------------------------------------
(* Import of a batch by initial sync; the whole of it holds the lock.      *)

\* What processBatchedBlocks of initial sync asks first: the parent of the batch is there, and
\* its first block is not processed yet.
isProcessedBlock(r) ==
    \/ Slot[r] <= EpochStart(finalizedCheckpoint.epoch)
    \/ Slot[head.root] >= Slot[r] /\ hasBlockInInitSyncOrDB(r)

\* fillInForkChoiceMissingBlocks: the ancestors of the batch that are on disk, later than the
\* finalized epoch and not in fork choice, up to the first block that is not of this kind.
missing(r, saved) == r \in saved \ nodeByRoot /\ Slot[r] > EpochStart(finalizedCheckpoint.epoch)
missingAncestors(p, saved) ==
    LET up == [z \in Roots |-> IF missing(z, saved) THEN Up(ParentRoot)[z] ELSE {}]
    IN  {z \in Closure(NotAfter(p), up, p) : missing(z, saved)}

linked(S) ==
    LET stop == ParentRoot[oldest(S)]
    IN  stop = ensureRootNotZeros(finalizedCheckpoint.root) \/ stop \in nodeByRoot

\* verifyBlkPreState comes first: what it takes from memory to disk counts as on disk.  Missing
\* blocks that do not lead to the store end the import (ErrNotDescendantOfFinalized).
StartBatch(S) ==
    LET p == ParentRoot[oldest(S)]
        fill == missingAncestors(p, blocksOnDisk')
    IN  /\ work = Idle
        /\ Slot[newest(S)] <= currentSlot
        /\ ~isProcessedBlock(oldest(S)) /\ hasBlockInInitSyncOrDB(p)
        /\ verifyBlkPreState(p)
        /\ \A r \in S \cup fill : importable(r)
        /\ work' = IF fill = {} \/ linked(fill)
                   THEN [Idle EXCEPT !.task = "batch", !.step = "fill", !.root = oldest(S),
                                     !.batch = S, !.inserts = fill]
                   ELSE Idle
        /\ UNCHANGED <<vars, head, calls, pool, dbCheckpoints, restarts>>

\* The caller passes the justified and the finalized checkpoint of the pre-state where the
\* finalized and the justified one are expected.
fillCheckpoints(p) == [justified |-> FC[p], finalized |-> JC[p]]

\* One round of InsertChain for the missing blocks.
BatchFill ==
    /\ work.step = "fill"
    /\ LET r == oldest(work.inserts)
           cp == fillCheckpoints(ParentRoot[oldest(work.batch)])
       IN  \/ /\ work.inserts = {}
              /\ work' = [work EXCEPT !.step = "payload"]
              /\ UNCHANGED vars
           \/ /\ work.inserts # {}
              /\ InsertSucceeds(r, cp.justified, cp.finalized)
              /\ work' = [work EXCEPT !.inserts = @ \ {r}]
           \/ /\ work.inserts # {}
              /\ InsertFails(r, cp.justified, cp.finalized)
              /\ work' = Idle
    /\ UNCHANGED <<head, calls, pool, initSyncBlocks, disk>>

\* The checkpoints of a block of the batch go to disk when they rise over those of the block
\* before it; nothing is compared for the first block.
risesInBatch(cps) ==
    work.root # oldest(work.batch) /\ cps[work.root].epoch > cps[ParentRoot[work.root]].epoch

nextInBatch == IF work.root = newest(work.batch)
               THEN [work EXCEPT !.step = "insert", !.inserts = work.batch]
               ELSE [work EXCEPT !.root = CHOOSE z \in work.batch : ParentRoot[z] = work.root]

\* A payload of the batch is VALID, or the engine is syncing: saveInitSyncBlock, the summary,
\* the checkpoints.  All of this is before the block is in fork choice.
BatchPayload(verdict) ==
    LET cached == initSyncBlocks \cup {work.root}
        finalized == risesInBatch(FC) /\ updateFinalized(FC[work.root])
    IN  /\ work.step = "payload"
        /\ verdict = "VALID" => ~invalid(work.root)
        /\ summaries' = summaries \cup {work.root}
        /\ dbJustified' = IF risesInBatch(JC) THEN JC[work.root] ELSE dbJustified
        /\ IF finalized
           THEN saveFinalized(FC[work.root], cached)
           ELSE /\ UNCHANGED <<dbFinalized, lastValidated>>
                /\ IF Cardinality(cached) > CacheSize
                   THEN blocksOnDisk' = blocksOnDisk \cup cached /\ initSyncBlocks' = {}
                   ELSE initSyncBlocks' = cached /\ UNCHANGED blocksOnDisk
        /\ work' = [nextInBatch EXCEPT !.valid = (verdict = "VALID")]
        /\ UNCHANGED <<vars, head, calls, pool, restarts>>

\* The data of a block is not available, or another error.
BatchError ==
    /\ work.step = "payload"
    /\ work' = Idle
    /\ UNCHANGED <<vars, head, calls, pool, initSyncBlocks, disk>>

\* INVALID: pruneInvalidBlock takes the lock of the store, which this goroutine holds.
BatchInvalid ==
    /\ work.step = "payload" /\ invalid(work.root)
    /\ work' = [work EXCEPT !.step = "locked"]
    /\ UNCHANGED <<vars, head, calls, pool, initSyncBlocks, disk>>

\* InsertChain and InsertNode, then the verdict of the last block.
BatchInsert ==
    /\ work.task = "batch" /\ work.step = "insert"
    /\ LET r == oldest(work.inserts)
       IN  \/ /\ InsertSucceeds(r, JC[r], FC[r])
              /\ work' = [work EXCEPT !.inserts = @ \ {r},
                                      !.step = IF r = newest(work.batch) THEN "verdict" ELSE "insert"]
           \/ /\ InsertFails(r, JC[r], FC[r])
              /\ work' = Idle
    /\ UNCHANGED <<head, calls, pool, initSyncBlocks, disk>>

BatchVerdict ==
    /\ work.step = "verdict"
    /\ IF work.valid THEN SetOptimisticToValid(work.root) ELSE UNCHANGED vars
    /\ work' = [work EXCEPT !.step = "fcu", !.fcuRoot = work.root]
    /\ UNCHANGED <<head, calls, pool, initSyncBlocks, disk>>

\* setHeadInitialSync leaves the slot of the head at zero.
saveHeadNoDB(r, notValid) == [root |-> r, slot |-> 0, optimistic |-> notValid]

\* The last block becomes the head, whatever fork choice says; the blocks in memory are saved
\* and stay in memory.
BatchSave ==
    /\ work.task = "batch" /\ work.step = "save" /\ ~work.failed
    /\ head' = IF isNewHead(work.root) THEN saveHeadNoDB(work.root, ~work.valid) ELSE head
    /\ blocksOnDisk' = blocksOnDisk \cup initSyncBlocks
    /\ work' = Idle
    /\ UNCHANGED <<vars, calls, pool, initSyncBlocks, summaries, dbCheckpoints, restarts>>

-----------------------------------------------------------------------------
(* Restart.                                                                *)

\* The store StartFromSavedState builds: one node, no votes.
freshStore(r, jc, fc, validated) ==
    /\ nodeByRoot' = {r}
    /\ treeRootNode' = r
    /\ headNode' = r
    /\ justifiedCheckpoint' = IF JC[r].epoch > jc.epoch THEN JC[r] ELSE jc
    /\ prevJustifiedCheckpoint' = IF JC[r].epoch > jc.epoch THEN jc ELSE [epoch |-> 0, root |-> NoNode]
    /\ finalizedCheckpoint' = fc
    /\ cacheSlot' = 0
    /\ cacheAttCount' = [z \in {} |-> 0]
    /\ receivedBlocksLastEpoch' =
          [i \in 0 .. SlotsPerEpoch - 1 |->
              IF i = Slot[r] % SlotsPerEpoch /\ Slot[r] + SlotsPerEpoch > currentSlot
              THEN Slot[r] ELSE 0]
    /\ parent' = [z \in Roots |-> NoNode]
    /\ children' = [z \in Roots |-> {}]
    /\ target' = [z \in Roots |-> IF z = r /\ IsEpochStart(Slot[z]) THEN z ELSE NoNode]
    /\ justifiedEpoch' = [z \in Roots |-> IF z = r THEN JC[z].epoch ELSE 0]
    /\ optimistic' = [z \in Roots |-> z = r => ~validated]
    /\ stabled' = [z \in Roots |-> z = r]
    /\ validatorIndices' = [z \in Roots |-> {}]
    /\ checked' = {} /\ dropped' = {}
    /\ UNCHANGED currentSlot

\* The process stops between any two steps and starts again: StartFromSavedState and
\* initializeHeadFromDB, which takes the finalized block as a validated head.
Restart ==
    LET fRoot == ensureRootNotZeros(dbFinalized.root)
    IN  /\ restarts < MaxRestarts
        /\ fRoot \in blocksOnDisk
        /\ freshStore(fRoot, dbJustified, dbFinalized, dbFinalized.root = lastValidated.root)
        /\ head' = [root |-> fRoot, slot |-> Slot[fRoot], optimistic |-> FALSE]
        /\ work' = Idle /\ calls' = {} /\ pool' = {} /\ initSyncBlocks' = {}
        /\ restarts' = restarts + 1
        /\ UNCHANGED <<blocksOnDisk, summaries, dbCheckpoints>>

-----------------------------------------------------------------------------
ServiceInit ==
    /\ Init
    /\ work = Idle
    /\ head = [root |-> StartRoot, slot |-> Slot[StartRoot], optimistic |-> FALSE]
    /\ calls = {} /\ pool = {} /\ initSyncBlocks = {}
    /\ blocksOnDisk = {StartRoot} /\ summaries = {StartRoot}
    /\ dbJustified = StartJustified /\ dbFinalized = StartFinalized
    /\ lastValidated = StartFinalized
    /\ restarts = 0

\* The steps of the goroutine that holds the lock.
LockHolder ==
    \/ SaveState \/ ImportInsert \/ ImportVerdict \/ ImportHead \/ ImportFinality
    \/ \E v \in work.votes : ImportVote(v) \/ processAttestations(v)
    \/ UpdateHeadHead
    \/ FCUAccepted \/ FCUHead \/ FCUSave
    \/ \E lastValidHash \in LastValidHashes : FCUInvalid(lastValidHash)
    \/ BatchFill \/ BatchError \/ BatchInvalid \/ BatchInsert \/ BatchVerdict \/ BatchSave
    \/ \E verdict \in {"VALID", "SYNCING"} : BatchPayload(verdict)

ServiceNext ==
    \/ LockHolder
    \/ \E id \in CallIds, r \in Roots \ {StartRoot} : ReceiveCall(id, r)
    \/ \E call \in calls :
          \/ savePostStateInfo(call) \/ ImportRefused(call)
          \/ \E lastValidHash \in LastValidHashes : pruneInvalidBlock(call, lastValidHash)
    \/ \E v \in Votes : VoteArrives(v)
    \/ RoutineNewSlot \/ UpdateHead
    \/ \E S \in Batches : StartBatch(S)
    \/ Tick /\ UNCHANGED service
    \/ Restart

ServiceSpec == ServiceInit /\ [][ServiceNext]_serviceVars

\* The holder of the lock goes on, and the engine answers it.  The attestation routine gets
\* the lock again and again: the slot ticker does not stop, and a Go mutex does not starve a
\* goroutine that waits.
ServiceFairSpec == ServiceSpec /\ WF_serviceVars(LockHolder) /\ SF_serviceVars(UpdateHead)

-----------------------------------------------------------------------------
(* Properties.                                                             *)

\* Every node of fork choice has its block within reach of getBlock, whatever was imported,
\* filled in, removed or interrupted: the head fork choice picks can be loaded.
NodesSaved == \A n \in nodeByRoot : hasBlockInInitSyncOrDB(n)

\* At every moment the process may stop, the block the next start needs is on disk:
\* updateFinalized writes the blocks in memory before the checkpoint that names one of them,
\* and DeleteBlock refuses the finalized block.
RestartPossible == ensureRootNotZeros(dbFinalized.root) \in blocksOnDisk

\* What IsOptimistic answers about the head.
reportedOptimistic ==
    IF head.slot + 2 >= currentSlot THEN head.optimistic ELSE IsOptimisticNode(head.root)

\* A head that is in fork choice and not validated is never reported as validated, although a
\* recent head is trusted without asking fork choice.  A head that was dropped and imported
\* again is outside: its new node is not validated, and the saved status is the old one's.
OptimisticHeadReported ==
    head.root \in nodeByRoot \ dropped /\ optimistic[head.root] => reportedOptimistic

\* The saved head is the only candidate of fork choice, if there is only one.
headIsBest ==
    LET best == BestDescendants(nodeByRoot, parent, children, justifiedEpoch, stabled,
                                justifiedCheckpoint.epoch)
    IN  best \in {{r} : r \in Roots} => head.root \in best

\* Fork choice and the saved head do not stay apart: the routine finds a head that no import
\* told the engine about, also after a removal or a restart.
HeadFollows == []<>headIsBest

\* A saved head that an INVALID verdict took out of fork choice is replaced.
HeadRecovers == head.root \notin nodeByRoot ~> head.root \in nodeByRoot

-----------------------------------------------------------------------------
(* What comments of the code say; the Claim runs refute it.                *)

\* The finalized checkpoint of the store is one that a block's post-state finalized.
FinalizedIsFinal ==
    finalizedCheckpoint \in {StartFinalized} \cup {FC[r] : r \in Roots}

\* ReceiveBlockBatch gives the lock back.
LockReleased == work.task = "batch" ~> work = Idle
=============================================================================
