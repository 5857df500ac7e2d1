--------------------------- MODULE ServiceProofs ---------------------------
(***************************************************************************)
(* Proofs about ChainService for every set of blocks, batches, votes and   *)
(* engine verdicts: the store stays in order however the service calls it, *)
(* every node of it has its block in memory or on disk, the status of the  *)
(* saved head is right, and the block the next start needs is on disk.     *)
(***************************************************************************)
EXTENDS ChainService, FinalityProofs

-----------------------------------------------------------------------------
(* The inductive invariant.                                                *)

Tasks == {"none", "import", "updateHead", "batch"}
Steps == {"none", "state", "insert", "votes", "head", "fcu", "save", "refetch", "finality",
          "attestations", "fill", "payload", "locked", "verdict"}
Works ==
    [task : Tasks, step : Steps, root : Nodes, fcuRoot : Nodes,
     epochs : [justified : Nat, finalized : Nat], votes : SUBSET Vote,
     batch : SUBSET Roots, inserts : SUBSET Roots, valid : BOOLEAN, failed : BOOLEAN]

\* ServiceTypeOK without what it says of work.
DataOK ==
    /\ head \in [root : Roots, slot : Nat, optimistic : BOOLEAN]
    /\ calls \subseteq [id : CallIds, root : Roots, justified : Nat, finalized : Nat]
    /\ pool \subseteq Vote
    /\ initSyncBlocks \subseteq Roots
    /\ blocksOnDisk \subseteq Roots /\ summaries \subseteq Roots
    /\ dbJustified \in Checkpoints /\ dbFinalized \in Checkpoints /\ lastValidated \in Checkpoints
    /\ restarts \in 0 .. MaxRestarts

\* None of these blocks is a tree root without node: each may get a node.
Fresh(S) == treeRootNode \in S => treeRootNode \in nodeByRoot

\* Which steps belong to which task, and where the engine's head is known.
StepOK ==
    /\ work.step = "state" => work.task = "import"
    /\ work.step \in {"fill", "payload", "verdict"} => work.task = "batch"
    /\ work.step \in {"fcu", "save"} => work.fcuRoot \in Roots

\* The block of an import is saved before it is inserted.
ImportOK ==
    work.task = "import" =>
        /\ work.root \in Roots
        /\ work.step \in {"state", "insert"} => work.root \in blocksOnDisk /\ Fresh({work.root})

\* The missing ancestors of a batch are on disk; the loop over the payloads has saved the
\* blocks before the current one; the whole batch is saved when its insertion begins.
BatchOK ==
    work.task = "batch" =>
        /\ work.batch \in Batches /\ work.root \in work.batch
        /\ work.step \in {"fill", "payload", "insert"} => Fresh(work.batch \cup work.inserts)
        /\ work.step = "fill" => /\ work.root = oldest(work.batch)
                                 /\ ParentRoot[work.root] \in Roots
                                 /\ work.inserts \subseteq blocksOnDisk
        /\ work.step = "payload" =>
              \A z \in work.batch : Slot[z] < Slot[work.root] => hasBlockInInitSyncOrDB(z)
        /\ work.step = "insert" => /\ \A z \in work.batch : hasBlockInInitSyncOrDB(z)
                                   /\ work.inserts \subseteq work.batch
                                   /\ newest(work.batch) \in work.inserts

WorkOK == work \in Works /\ StepOK /\ ImportOK /\ BatchOK

SInv == IInv /\ DataOK /\ WorkOK /\ NodesSaved

\* The invariant holds the type invariant of the service.
LEMMA SInvTyped == SInv => ServiceTypeOK
BY Zenon DEF SInv, DataOK, WorkOK, Works, StepOK, ServiceTypeOK, Tasks

-----------------------------------------------------------------------------
(* The oldest and the newest block of a set.                               *)

\* A set of blocks that is not empty has an oldest block.
LEMMA OldestIsLeast ==
    ASSUME NEW S \in SUBSET Roots, S # {}
    PROVE  oldest(S) \in S /\ \A z \in S : Slot[oldest(S)] <= Slot[z]
<1> DEFINE T == {Slot[x] : x \in S}
<1>1. T \in SUBSET Nat /\ T # {}
  BY BlocksAssumption
<1>2. PICK k \in T : \A y \in T : k <= y
  <2> HIDE DEF T
  <2> QED BY <1>1, LeastNumber, Zenon
<1>3. \E x \in S : \A z \in S : Slot[x] <= Slot[z]
  BY <1>2
<1> QED
  BY <1>3, Zenon DEF oldest

\* The blocks that are later than a later block are fewer.
LEMMA LaterFewer ==
    ASSUME NEW S \in SUBSET Roots, NEW x \in S, NEW z \in S, Slot[x] < Slot[z]
    PROVE  Cardinality({y \in S : Slot[y] > Slot[z]}) < Cardinality({y \in S : Slot[y] > Slot[x]})
<1> DEFINE A == {y \in S : Slot[y] > Slot[z]}
           B == {y \in S : Slot[y] > Slot[x]}
<1>1. \A y \in S : Slot[y] \in Nat
  BY BlocksAssumption
<1>2. A \in SUBSET B /\ A # B
  BY <1>1
<1>3. IsFiniteSet(B)
  BY ConstantsAssumption, FS_Subset
<1> HIDE DEF A, B
<1>4. Cardinality(A) <= Cardinality(B) /\ Cardinality(A) # Cardinality(B)
  BY <1>2, <1>3, FS_Subset
<1>5. Cardinality(A) \in Nat /\ Cardinality(B) \in Nat
  BY <1>2, <1>3, FS_Subset, FS_CardinalityType
<1>6. Cardinality(A) < Cardinality(B)
  BY <1>4, <1>5
<1> QED
  BY <1>6 DEF A, B

\* It has a newest block too: the one with the fewest later blocks.
LEMMA NewestIsGreatest ==
    ASSUME NEW S \in SUBSET Roots, S # {}
    PROVE  newest(S) \in S /\ \A z \in S : Slot[z] <= Slot[newest(S)]
<1> DEFINE later(x) == {y \in S : Slot[y] > Slot[x]}
           T == {Cardinality(later(x)) : x \in S}
<1>1. \A x \in S : Cardinality(later(x)) \in Nat
  BY ConstantsAssumption, FS_Subset, FS_CardinalityType
<1> HIDE DEF later
<1>2. T \in SUBSET Nat /\ T # {}
  BY <1>1
<1>3. PICK k \in T : \A y \in T : k <= y
  <2> HIDE DEF T
  <2> QED BY <1>2, LeastNumber, Zenon
<1>4. PICK x \in S : k = Cardinality(later(x))
  BY <1>3
<1>5. ASSUME NEW z \in S PROVE Slot[z] <= Slot[x]
  <2>1. Slot[x] \in Nat /\ Slot[z] \in Nat
    BY BlocksAssumption
  <2>2. ASSUME Slot[x] < Slot[z] PROVE FALSE
    <3>1. Cardinality(later(z)) < Cardinality(later(x))
      BY <2>2, LaterFewer DEF later
    <3>2. Cardinality(later(x)) <= Cardinality(later(z))
      BY <1>3, <1>4
    <3> QED
      BY <3>1, <3>2, <1>1
  <2> QED
    BY <2>1, <2>2
<1> QED
  BY <1>5, Zenon DEF newest

\* A batch, as ServiceAssumption has it.
LEMMA BatchFacts ==
    ASSUME NEW S \in Batches
    PROVE  /\ S \in SUBSET Roots /\ S # {}
           /\ \A r, z \in S : Slot[r] = Slot[z] => r = z
           /\ \A r \in S : r # oldest(S) => ParentRoot[r] = newest({z \in S : Slot[z] < Slot[r]})
BY ServiceAssumption, Zenon

\* The walk over a batch from parent to child takes every block: the block after r is there,
\* and no block of the batch lies between the two.
LEMMA NextOfBatch ==
    ASSUME NEW S \in Batches, NEW r \in S, r # newest(S),
           NEW z, z = CHOOSE x \in S : ParentRoot[x] = r
    PROVE  /\ z \in S
           /\ \A y \in S : Slot[y] < Slot[z] => y = r \/ Slot[y] < Slot[r]
<1>1. /\ S \in SUBSET Roots /\ S # {}
      /\ \A x, y \in S : Slot[x] = Slot[y] => x = y
      /\ \A x \in S : x # oldest(S) => ParentRoot[x] = newest({y \in S : Slot[y] < Slot[x]})
  BY BatchFacts, Zenon
<1>2. \A x \in S : Slot[x] \in Nat /\ x # NoNode
  BY <1>1, BlocksAssumption, ConstantsAssumption
<1> DEFINE Later == {y \in S : Slot[y] > Slot[r]}
           next == oldest(Later)
           before(x) == {y \in S : Slot[y] < Slot[x]}
<1>3. newest(S) \in S /\ Slot[r] <= Slot[newest(S)]
  BY <1>1, NewestIsGreatest
<1>4. newest(S) \in Later
  BY <1>1, <1>2, <1>3
<1>5. next \in Later /\ \A y \in Later : Slot[next] <= Slot[y]
  BY <1>1, <1>4, OldestIsLeast
<1>6. oldest(S) \in S /\ \A y \in S : Slot[oldest(S)] <= Slot[y]
  BY <1>1, OldestIsLeast
<1>7. ASSUME NEW x \in S, Slot[r] < Slot[x]
      PROVE  /\ ParentRoot[x] = newest(before(x))
             /\ newest(before(x)) \in before(x)
             /\ \A y \in before(x) : Slot[y] <= Slot[newest(before(x))]
  <2>1. x # oldest(S)
    BY <1>2, <1>6, <1>7
  <2>2. before(x) \in SUBSET Roots /\ before(x) # {}
    BY <1>1, <1>7
  <2>3. /\ newest(before(x)) \in before(x)
        /\ \A y \in before(x) : Slot[y] <= Slot[newest(before(x))]
    <3> HIDE DEF before
    <3> QED BY <2>2, NewestIsGreatest
  <2> QED
    BY <2>1, <2>3, <1>1
<1> HIDE DEF next
<1>8. ParentRoot[next] = r
  <2> DEFINE m == newest(before(next))
  <2>1. /\ ParentRoot[next] = m /\ m \in before(next)
        /\ \A y \in before(next) : Slot[y] <= Slot[m]
    BY <1>5, <1>7
  <2> HIDE DEF m
  <2>2. Slot[r] <= Slot[m]
    BY <2>1, <1>5
  <2>3. ~(Slot[m] > Slot[r])
    BY <2>1, <1>2, <1>5
  <2>4. m = r
    BY <2>1, <2>2, <2>3, <1>1, <1>2
  <2> QED
    BY <2>1, <2>4
<1>9. z \in S /\ ParentRoot[z] = r
  BY <1>5, <1>8, Zenon
<1>10. Slot[r] < Slot[z]
  BY <1>1, <1>2, <1>9, BlocksAssumption
<1>11. \A y \in S : Slot[y] < Slot[z] => Slot[y] <= Slot[r]
  BY <1>7, <1>9, <1>10
<1> QED
  BY <1>1, <1>2, <1>9, <1>11

-----------------------------------------------------------------------------
(* What the calls of the service do to the store.                          *)

\* The tree root is in the map, or it is the old one and nothing left the map: a block that
\* could get a node still can.
RootKept ==
    \/ treeRootNode' \in nodeByRoot'
    \/ treeRootNode' = treeRootNode /\ nodeByRoot \subseteq nodeByRoot'

\* So what Fresh says of the blocks to insert survives a call.
LEMMA RootKeptFresh ==
    ASSUME NEW S, Fresh(S), RootKept
    PROVE  treeRootNode' \in S => treeRootNode' \in nodeByRoot'
BY DEF Fresh, RootKept

\* A call that leaves the store alone.
LEMMA SameStore ==
    ASSUME IInv, UNCHANGED vars
    PROVE  IInv' /\ RootKept /\ nodeByRoot' \subseteq nodeByRoot
BY DEF vars, IInv, TypeOK, tree, checkpoints, cache, environment, RootKept

\* InsertNode, or one round of InsertChain, whether it succeeds or fails.
LEMMA InsertStep ==
    ASSUME IInv, NEW r \in Roots, NEW jc \in Checkpoints, NEW fc \in Checkpoints,
           Fresh({r}), InsertSucceeds(r, jc, fc) \/ InsertFails(r, jc, fc)
    PROVE  IInv' /\ RootKept /\ nodeByRoot' \subseteq nodeByRoot \cup {r}
<1>1. r \notin nodeByRoot => r # treeRootNode
  BY DEF Fresh
<1>2. CASE InsertKnown(r, jc, fc)
  <2>1. IInv'
    BY <1>2, InsertKnownInv, Zenon
  <2>2. Shrunk(nodeByRoot, parent, fc, optimistic)
    BY <1>2, UpdateCheckpointsShrinks, Zenon DEF InsertKnown, IInv
  <2> QED
    BY <2>1, <2>2 DEF Shrunk, RootKept
<1>3. CASE InsertOrphan(r, jc)
  <2>1. IInv'
    BY <1>1, <1>3, InsertOrphanInv, Zenon DEF InsertOrphan
  <2>2. nodeByRoot' = nodeByRoot \cup {r} /\ treeRootNode' = treeRootNode
    BY <1>3 DEF InsertOrphan
  <2> QED
    BY <2>1, <2>2 DEF RootKept
<1>4. CASE InsertLinked(r, jc, fc)
  <2> DEFINE p == ParentRoot[r]
             nodes == nodeByRoot \cup {r}
             par == [parent EXCEPT ![r] = p]
             ch == [children EXCEPT ![r] = {}, ![p] = children[p] \cup {r}]
             tgt == [target EXCEPT ![r] = targetOf(r, p)]
             opt == [optimistic EXCEPT ![r] = TRUE]
  <2>1. /\ r \notin nodeByRoot /\ p \in nodeByRoot
        /\ updateCheckpoints(jc, fc, nodes, par, ch, tgt)
    BY <1>4, Zenon DEF InsertLinked
  <2>2. r # treeRootNode
    BY <1>1, <2>1
  <2>3. IInv'
    BY <1>4, <2>2, InsertLinkedInv, Zenon
  <2>4. tgt \in [Roots -> Nodes]
    <3>1. p \in Roots /\ target \in [Roots -> Nodes]
      BY <2>1 DEF IInv, TypeOK
    <3> QED
      BY <3>1 DEF targetOf, Nodes
  <2>5. TreeOK(nodes, par, ch, tgt, treeRootNode, opt)
    <3> HIDE DEF tgt
    <3> QED BY <2>1, <2>2, <2>4, LinkOK
  <2> HIDE DEF par, ch, tgt, opt, nodes
  <2>6. Shrunk(nodes, par, fc, opt)
    BY <2>1, <2>5, UpdateCheckpointsShrinks, Zenon DEF IInv
  <2> QED
    BY <2>3, <2>6 DEF Shrunk, RootKept, nodes
<1> QED
  BY <1>2, <1>3, <1>4, Zenon DEF InsertSucceeds, InsertFails

\* A VALID verdict.
LEMMA ValidStep ==
    ASSUME IInv, NEW r, SetOptimisticToValid(r)
    PROVE  IInv' /\ RootKept /\ nodeByRoot' \subseteq nodeByRoot
<1>1. r \in Roots
  BY DEF SetOptimisticToValid, IInv, TypeOK
<1>2. IInv'
  BY <1>1, SetOptimisticToValidInv
<1> QED
  BY <1>2 DEF SetOptimisticToValid, tree, RootKept

\* A Head call finds a block or none.
LEMMA HeadStep ==
    ASSUME IInv, Head
    PROVE  /\ IInv' /\ RootKept /\ nodeByRoot' \subseteq nodeByRoot
           /\ headNode' # NoNode => headNode' \in Roots
<1>1. IInv'
  BY HeadInv
<1>2. headNode' \in Roots \cup {NoNode}
  BY <1>1 DEF IInv, TypeOK, Nodes
<1> QED
  BY <1>1, <1>2 DEF Head, tree, RootKept

\* A vote.
LEMMA VoteStep ==
    ASSUME IInv, NEW v \in Vote, ProcessAttestation(v.indices, v.root, v.slot)
    PROVE  IInv' /\ RootKept /\ nodeByRoot' \subseteq nodeByRoot
<1>1. v.indices \in SUBSET Validators /\ v.root \in Roots /\ v.slot \in Nat
  BY DEF Vote
<1>2. IInv'
  BY <1>1, ProcessAttestationInv
<1> QED
  BY <1>2 DEF ProcessAttestation, tree, RootKept

\* An INVALID verdict only takes nodes out, and removeInvalidBlockAndState deletes blocks of
\* these nodes at most.
LEMMA InvalidStep ==
    ASSUME IInv, NEW r \in Roots, NEW lastValidHash, SetOptimisticToInvalid(r, lastValidHash),
           DataOK, NodesSaved, removeInvalidBlockAndState(nodeByRoot \ nodeByRoot'),
           initSyncBlocks' = initSyncBlocks
    PROVE  /\ IInv' /\ NodesSaved'
           /\ blocksOnDisk' \subseteq Roots /\ summaries' \subseteq Roots
           /\ UNCHANGED <<dbJustified, dbFinalized, lastValidated, restarts>>
<1> DEFINE gone == nodeByRoot \ nodeByRoot'
<1>1. IInv'
  BY SetOptimisticToInvalidInv
<1>2. \A S \in deletions(gone) : S \subseteq gone
  BY Zenon DEF deletions
<1>3. PICK m \in nodeByRoot : removeNode(m)
  BY InvalidRemovesSubtree, Zenon
<1>4. nodeByRoot' \subseteq nodeByRoot
  BY <1>3, Zenon DEF removeNode
<1>5. /\ \E S \in deletions(gone) : blocksOnDisk' = blocksOnDisk \ S /\ summaries' = summaries \ S
      /\ UNCHANGED <<dbJustified, dbFinalized, lastValidated, restarts>>
  BY Zenon DEF removeInvalidBlockAndState, dbCheckpoints
<1>6. PICK S \in deletions(gone) : blocksOnDisk' = blocksOnDisk \ S /\ summaries' = summaries \ S
  BY <1>5
<1>7. S \subseteq gone
  BY <1>2, <1>6
<1>8. NodesSaved'
  BY <1>4, <1>6, <1>7 DEF NodesSaved, hasBlockInInitSyncOrDB
<1> QED
  BY <1>1, <1>5, <1>6, <1>8 DEF DataOK

-----------------------------------------------------------------------------
(* The bookkeeping of work.                                                *)

\* Nothing is relied on when the lock is free.
LEMMA IdleOK ==
    ASSUME work' = Idle
    PROVE  WorkOK'
<1>1. Idle \in Works /\ Idle.task = "none" /\ Idle.step = "none"
  BY DEF Idle, Works, Tasks, Steps, Nodes
<1> QED
  BY <1>1 DEF WorkOK, StepOK, ImportOK, BatchOK

\* A change of the step alone.
LEMMA StepChanged ==
    ASSUME work \in Works, NEW st \in Steps, work' = [work EXCEPT !.step = st]
    PROVE  /\ work' \in Works /\ work'.step = st
           /\ work'.task = work.task /\ work'.root = work.root /\ work'.fcuRoot = work.fcuRoot
           /\ work'.batch = work.batch /\ work'.inserts = work.inserts
BY DEF Works

-----------------------------------------------------------------------------
\* After the insertions the steps of a task rely on the task, its block and its batch only.
LEMMA LateOK ==
    ASSUME WorkOK, work' \in Works,
           work'.task = work.task, work'.root = work.root, work'.batch = work.batch,
           \/ work'.step \in {"votes", "head", "refetch", "finality", "locked", "attestations"}
           \/ work'.step = "verdict" /\ work.task = "batch"
           \/ work'.step \in {"fcu", "save"} /\ work'.fcuRoot \in Roots
    PROVE  WorkOK'
<1>1. StepOK'
  BY DEF StepOK
<1>2. ImportOK'
  BY DEF WorkOK, ImportOK
<1>3. BatchOK'
  BY DEF WorkOK, BatchOK
<1> QED
  BY <1>1, <1>2, <1>3 DEF WorkOK

\* A step of another goroutine while the lock is held.
LEMMA QuietOK ==
    ASSUME WorkOK, UNCHANGED <<work, nodeByRoot, treeRootNode, initSyncBlocks, blocksOnDisk>>
    PROVE  WorkOK'
BY DEF WorkOK, StepOK, ImportOK, BatchOK, Fresh, hasBlockInInitSyncOrDB

-----------------------------------------------------------------------------
(* Every step keeps the invariant: one lemma for each action.              *)

\* The blocks in memory are saved before they are forgotten.
LEMMA PreStateSaved ==
    ASSUME DataOK, NEW p, verifyBlkPreState(p)
    PROVE  /\ initSyncBlocks' \subseteq Roots /\ blocksOnDisk' \subseteq Roots
           /\ summaries' \subseteq Roots
           /\ initSyncBlocks \cup blocksOnDisk \subseteq initSyncBlocks' \cup blocksOnDisk'
           /\ blocksOnDisk \subseteq blocksOnDisk'
BY DEF DataOK, verifyBlkPreState

LEMMA ReceiveCallInv ==
    ASSUME SInv, NEW id \in CallIds, NEW r \in Roots, ReceiveCall(id, r)
    PROVE  SInv'
<1>1. /\ work = Idle /\ verifyBlkPreState(ParentRoot[r])
      /\ calls' = calls \cup {[id |-> id, root |-> r, justified |-> justifiedCheckpoint.epoch,
                               finalized |-> finalizedCheckpoint.epoch]}
      /\ UNCHANGED vars
      /\ UNCHANGED <<work, head, pool, dbJustified, dbFinalized, lastValidated, restarts>>
  BY Zenon DEF ReceiveCall, dbCheckpoints
<1>2. IInv' /\ nodeByRoot' \subseteq nodeByRoot
  BY <1>1, SameStore DEF SInv
<1>3. /\ initSyncBlocks' \subseteq Roots /\ blocksOnDisk' \subseteq Roots
      /\ summaries' \subseteq Roots
      /\ initSyncBlocks \cup blocksOnDisk \subseteq initSyncBlocks' \cup blocksOnDisk'
  BY <1>1, PreStateSaved DEF SInv
<1>4. justifiedCheckpoint.epoch \in Nat /\ finalizedCheckpoint.epoch \in Nat
  BY DEF SInv, IInv, TypeOK, Checkpoints
<1>5. DataOK'
  BY <1>1, <1>3, <1>4 DEF SInv, DataOK
<1>6. NodesSaved'
  BY <1>2, <1>3 DEF SInv, NodesSaved, hasBlockInInitSyncOrDB
<1> QED
  BY <1>1, <1>2, <1>5, <1>6, IdleOK DEF SInv

LEMMA pruneInvalidBlockInv ==
    ASSUME SInv, NEW call \in calls, NEW lastValidHash, pruneInvalidBlock(call, lastValidHash)
    PROVE  SInv'
<1>1. /\ work = Idle /\ SetOptimisticToInvalid(call.root, lastValidHash)
      /\ removeInvalidBlockAndState(nodeByRoot \ nodeByRoot')
      /\ calls' = calls \ {call}
      /\ UNCHANGED <<work, head, pool, initSyncBlocks>>
  BY DEF pruneInvalidBlock
<1>2. call.root \in Roots
  BY DEF SInv, DataOK
<1>3. /\ IInv' /\ NodesSaved'
      /\ blocksOnDisk' \subseteq Roots /\ summaries' \subseteq Roots
      /\ UNCHANGED <<dbJustified, dbFinalized, lastValidated, restarts>>
  BY <1>1, <1>2, InvalidStep, Zenon DEF SInv
<1>4. DataOK'
  BY <1>1, <1>3 DEF SInv, DataOK
<1> QED
  BY <1>1, <1>3, <1>4, IdleOK DEF SInv

LEMMA ImportRefusedInv ==
    ASSUME SInv, NEW call \in calls, ImportRefused(call)
    PROVE  SInv'
<1>1. /\ calls' = calls \ {call} /\ UNCHANGED vars
      /\ UNCHANGED <<work, head, pool, initSyncBlocks, blocksOnDisk, summaries, dbJustified,
                     dbFinalized, lastValidated, restarts>>
  BY DEF ImportRefused, disk, dbCheckpoints
<1>2. IInv'
  BY <1>1, SameStore DEF SInv
<1>3. DataOK'
  BY <1>1 DEF SInv, DataOK
<1>4. UNCHANGED <<nodeByRoot, treeRootNode>>
  BY <1>1 DEF vars, tree
<1>5. WorkOK'
  BY <1>1, <1>4, QuietOK DEF SInv
<1>6. NodesSaved'
  BY <1>1, <1>4 DEF SInv, NodesSaved, hasBlockInInitSyncOrDB
<1> QED
  BY <1>2, <1>3, <1>5, <1>6 DEF SInv

LEMMA savePostStateInfoInv ==
    ASSUME SInv, NEW call \in calls, savePostStateInfo(call)
    PROVE  SInv'
<1>1. /\ importable(call.root)
      /\ calls' = calls \ {call}
      /\ blocksOnDisk' = blocksOnDisk \cup {call.root}
      /\ work' = [Idle EXCEPT !.task = "import", !.step = "state", !.root = call.root,
                              !.epochs = [justified |-> call.justified, finalized |-> call.finalized]]
      /\ UNCHANGED vars
      /\ UNCHANGED <<head, pool, initSyncBlocks, summaries, dbJustified, dbFinalized,
                     lastValidated, restarts>>
  BY Zenon DEF savePostStateInfo, dbCheckpoints
<1>2. call.root \in Roots /\ call.justified \in Nat /\ call.finalized \in Nat
  BY DEF SInv, DataOK
<1>3. IInv' /\ UNCHANGED <<nodeByRoot, treeRootNode>>
  BY <1>1, SameStore DEF SInv, vars, tree
<1>4. /\ work' \in Works /\ work'.task = "import" /\ work'.step = "state"
      /\ work'.root = call.root
  BY <1>1, <1>2 DEF Idle, Works, Tasks, Steps, Nodes
<1>5. Fresh({call.root})
  BY <1>1 DEF importable, unaliased, Fresh
<1>6. WorkOK'
  BY <1>1, <1>2, <1>3, <1>4, <1>5 DEF WorkOK, StepOK, ImportOK, BatchOK, Fresh
<1>7. DataOK'
  BY <1>1, <1>2 DEF SInv, DataOK
<1>8. NodesSaved'
  BY <1>1, <1>3 DEF SInv, NodesSaved, hasBlockInInitSyncOrDB
<1> QED
  BY <1>3, <1>6, <1>7, <1>8 DEF SInv

LEMMA SaveStateInv ==
    ASSUME SInv, SaveState
    PROVE  SInv'
<1>1. /\ work.step = "state" /\ summaries' = summaries \cup {work.root}
      /\ work' = [work EXCEPT !.step = "insert"]
      /\ UNCHANGED vars
      /\ UNCHANGED <<head, calls, pool, initSyncBlocks, blocksOnDisk, dbJustified, dbFinalized,
                     lastValidated, restarts>>
  BY DEF SaveState, dbCheckpoints
<1>2. IInv' /\ UNCHANGED <<nodeByRoot, treeRootNode>>
  BY <1>1, SameStore DEF SInv, vars, tree
<1>3. work.task = "import" /\ work.root \in Roots /\ work.root \in blocksOnDisk /\ Fresh({work.root})
  BY <1>1 DEF SInv, WorkOK, StepOK, ImportOK
<1>4. /\ work' \in Works /\ work'.step = "insert" /\ work'.task = "import"
      /\ work'.root = work.root
  BY <1>1, <1>3 DEF SInv, WorkOK, Works, Steps
<1>5. WorkOK'
  BY <1>1, <1>2, <1>3, <1>4 DEF WorkOK, StepOK, ImportOK, BatchOK, Fresh
<1>6. DataOK'
  BY <1>1, <1>3 DEF SInv, DataOK
<1>7. NodesSaved'
  BY <1>1, <1>2 DEF SInv, NodesSaved, hasBlockInInitSyncOrDB
<1> QED
  BY <1>2, <1>5, <1>6, <1>7 DEF SInv

\* A step leaves everything but the store, work and the pool alone.
Kept == UNCHANGED <<head, calls, initSyncBlocks, disk>> /\ pool' \subseteq Vote

\* It keeps DataOK and NodesSaved when the new nodes have their blocks.
LEMMA SameData ==
    ASSUME SInv, Kept, \A n \in nodeByRoot' : n \in nodeByRoot \/ hasBlockInInitSyncOrDB(n)
    PROVE  DataOK' /\ NodesSaved'
BY DEF Kept, SInv, DataOK, NodesSaved, hasBlockInInitSyncOrDB, disk, dbCheckpoints

LEMMA ImportInsertInv ==
    ASSUME SInv, ImportInsert
    PROVE  SInv'
<1> DEFINE r == work.root
<1>1. /\ work.task = "import" /\ work.step = "insert"
      /\ InsertSucceeds(r, JC[r], FC[r]) \/ InsertFails(r, JC[r], FC[r])
      /\ \/ work' = [work EXCEPT !.step = "votes", !.votes = BlockVotes[r]]
         \/ work' = Idle
      /\ UNCHANGED <<head, calls, pool, initSyncBlocks, disk>>
  BY Zenon DEF ImportInsert
<1>2. r \in Roots /\ r \in blocksOnDisk /\ Fresh({r})
  BY <1>1 DEF SInv, WorkOK, ImportOK
<1>3. IInv' /\ nodeByRoot' \subseteq nodeByRoot \cup {r}
  BY <1>1, <1>2, BlockCheckpoints, InsertStep, Zenon DEF SInv
<1>4. DataOK' /\ NodesSaved'
  <2>1. \A n \in nodeByRoot' : n \in nodeByRoot \/ hasBlockInInitSyncOrDB(n)
    BY <1>2, <1>3 DEF hasBlockInInitSyncOrDB
  <2>2. Kept
    BY <1>1 DEF SInv, DataOK, Kept
  <2> QED
    BY <2>1, <2>2, SameData
<1>5. CASE work' = [work EXCEPT !.step = "votes", !.votes = BlockVotes[r]]
  <2>1. BlockVotes[r] \in SUBSET Vote
    BY <1>2, ServiceAssumption
  <2>2. /\ work' \in Works /\ work'.step = "votes" /\ work'.task = work.task
        /\ work'.root = work.root /\ work'.batch = work.batch
    BY <1>5, <2>1 DEF SInv, WorkOK, Works, Steps
  <2>3. WorkOK'
    BY <2>2, LateOK DEF SInv
  <2> QED
    BY <1>3, <1>4, <2>3 DEF SInv
<1>6. CASE work' = Idle
  BY <1>3, <1>4, <1>6, IdleOK DEF SInv
<1> QED
  BY <1>1, <1>5, <1>6

\* A step of the lock holder that adds no node and keeps the rest.
LEMMA KeptInv ==
    ASSUME SInv, IInv', WorkOK', Kept, nodeByRoot' \subseteq nodeByRoot
    PROVE  SInv'
<1>1. \A n \in nodeByRoot' : n \in nodeByRoot \/ hasBlockInInitSyncOrDB(n)
  OBVIOUS
<1>2. DataOK' /\ NodesSaved'
  BY <1>1, SameData
<1> QED
  BY <1>2 DEF SInv

LEMMA ImportVoteInv ==
    ASSUME SInv, NEW v \in work.votes, ImportVote(v)
    PROVE  SInv'
<1>1. /\ work.step = "votes"
      /\ work' = [work EXCEPT !.votes = @ \ {v}]
      /\ \/ ProcessAttestation(v.indices, v.root, v.slot) /\ UNCHANGED pool
         \/ pool' = pool \cup {v} /\ UNCHANGED vars
      /\ UNCHANGED <<head, calls, initSyncBlocks, disk>>
  BY Zenon DEF ImportVote
<1>2. v \in Vote
  BY DEF SInv, WorkOK, Works
<1>3. IInv' /\ nodeByRoot' \subseteq nodeByRoot
  BY <1>1, <1>2, VoteStep, SameStore DEF SInv
<1>4. /\ work' \in Works /\ work'.step = work.step /\ work'.task = work.task
      /\ work'.root = work.root /\ work'.batch = work.batch
  BY <1>1 DEF SInv, WorkOK, Works
<1>5. WorkOK'
  BY <1>1, <1>4, LateOK DEF SInv
<1>6. Kept
  BY <1>1, <1>2 DEF SInv, DataOK, Kept
<1> QED
  BY <1>3, <1>5, <1>6, KeptInv

LEMMA ImportVerdictInv ==
    ASSUME SInv, ImportVerdict
    PROVE  SInv'
<1>1. /\ SetOptimisticToValid(work.root) \/ UNCHANGED vars
      /\ work' = [work EXCEPT !.step = "head"]
      /\ UNCHANGED <<head, calls, pool, initSyncBlocks, disk>>
  BY DEF ImportVerdict
<1>2. IInv' /\ nodeByRoot' \subseteq nodeByRoot
  BY <1>1, ValidStep, SameStore DEF SInv
<1>3. WorkOK'
  BY <1>1, StepChanged, LateOK DEF SInv, WorkOK, Steps
<1>4. Kept
  BY <1>1 DEF SInv, DataOK, Kept
<1> QED
  BY <1>2, <1>3, <1>4, KeptInv

LEMMA ImportHeadInv ==
    ASSUME SInv, ImportHead
    PROVE  SInv'
<1>1. /\ work.task = "import" /\ Head
      /\ \/ work' = [work EXCEPT !.step = "fcu", !.fcuRoot = work.root]
         \/ work' = [work EXCEPT !.step = "finality"]
      /\ UNCHANGED <<head, calls, pool, initSyncBlocks, disk>>
  BY DEF ImportHead
<1>2. IInv' /\ nodeByRoot' \subseteq nodeByRoot
  BY <1>1, HeadStep DEF SInv
<1>3. work.root \in Roots /\ work \in Works
  BY <1>1 DEF SInv, WorkOK, ImportOK
<1>4. /\ work' \in Works /\ work'.task = work.task
      /\ work'.root = work.root /\ work'.batch = work.batch
      /\ \/ work'.step = "fcu" /\ work'.fcuRoot \in Roots
         \/ work'.step = "finality"
  BY <1>1, <1>3 DEF Works, Steps, Nodes
<1>5. WorkOK'
  BY <1>4, LateOK DEF SInv
<1>6. Kept
  BY <1>1 DEF SInv, DataOK, Kept
<1> QED
  BY <1>2, <1>5, <1>6, KeptInv

\* updateFinalized saves the blocks in memory before it forgets them.
LEMMA SaveFinalizedSaves ==
    ASSUME DataOK, NEW cp \in Checkpoints, NEW cached \in SUBSET Roots, saveFinalized(cp, cached)
    PROVE  /\ blocksOnDisk' = blocksOnDisk \cup cached /\ initSyncBlocks' = {}
           /\ dbFinalized' \in Checkpoints /\ lastValidated' \in Checkpoints
BY DEF DataOK, saveFinalized

LEMMA ImportFinalityInv ==
    ASSUME SInv, ImportFinality
    PROVE  SInv'
<1>1. /\ dbJustified' = justifiedCheckpoint \/ dbJustified' = dbJustified
      /\ \/ saveFinalized(finalizedCheckpoint, initSyncBlocks)
         \/ UNCHANGED <<blocksOnDisk, initSyncBlocks, dbFinalized, lastValidated>>
      /\ work' = Idle /\ UNCHANGED vars
      /\ UNCHANGED <<head, calls, pool, summaries, restarts>>
  BY DEF ImportFinality
<1>2. IInv' /\ nodeByRoot' \subseteq nodeByRoot
  BY <1>1, SameStore DEF SInv
<1>3. /\ justifiedCheckpoint \in Checkpoints /\ finalizedCheckpoint \in Checkpoints
      /\ initSyncBlocks \in SUBSET Roots /\ DataOK
  BY DEF SInv, IInv, TypeOK, DataOK
<1>4. /\ initSyncBlocks' \subseteq Roots /\ blocksOnDisk' \subseteq Roots
      /\ dbFinalized' \in Checkpoints /\ lastValidated' \in Checkpoints
      /\ initSyncBlocks \cup blocksOnDisk \subseteq initSyncBlocks' \cup blocksOnDisk'
  <2>1. CASE saveFinalized(finalizedCheckpoint, initSyncBlocks)
    <3>1. /\ blocksOnDisk' = blocksOnDisk \cup initSyncBlocks /\ initSyncBlocks' = {}
          /\ dbFinalized' \in Checkpoints /\ lastValidated' \in Checkpoints
      BY <2>1, <1>3, SaveFinalizedSaves, Zenon
    <3> QED
      BY <3>1, <1>3 DEF DataOK
  <2>2. CASE UNCHANGED <<blocksOnDisk, initSyncBlocks, dbFinalized, lastValidated>>
    BY <2>2, <1>3 DEF DataOK
  <2> QED
    BY <1>1, <2>1, <2>2
<1>5. DataOK'
  BY <1>1, <1>3, <1>4 DEF DataOK
<1>6. NodesSaved'
  BY <1>2, <1>4 DEF SInv, NodesSaved, hasBlockInInitSyncOrDB
<1> QED
  BY <1>1, <1>2, <1>5, <1>6, IdleOK DEF SInv

LEMMA FCUAcceptedInv ==
    ASSUME SInv, FCUAccepted
    PROVE  SInv'
<1>1. /\ work.step = "fcu"
      /\ SetOptimisticToValid(work.fcuRoot) \/ UNCHANGED vars
      /\ work' = [work EXCEPT !.step = "save"]
      /\ UNCHANGED <<head, calls, pool, initSyncBlocks, disk>>
  BY DEF FCUAccepted
<1>2. IInv' /\ nodeByRoot' \subseteq nodeByRoot
  BY <1>1, ValidStep, SameStore DEF SInv
<1>3. work.fcuRoot \in Roots
  BY <1>1 DEF SInv, WorkOK, StepOK
<1>4. WorkOK'
  BY <1>1, <1>3, StepChanged, LateOK DEF SInv, WorkOK, Steps
<1>5. Kept
  BY <1>1 DEF SInv, DataOK, Kept
<1> QED
  BY <1>2, <1>4, <1>5, KeptInv

LEMMA FCUInvalidInv ==
    ASSUME SInv, NEW lastValidHash, FCUInvalid(lastValidHash)
    PROVE  SInv'
<1> DEFINE removed == /\ SetOptimisticToInvalid(work.fcuRoot, lastValidHash)
                      /\ removeInvalidBlockAndState(nodeByRoot \ nodeByRoot')
<1>1. /\ work.step = "fcu"
      /\ \/ removed
         \/ UNCHANGED <<vars, disk>>
      /\ \/ work' = [work EXCEPT !.step = "refetch", !.failed = TRUE]
         \/ work' = [work EXCEPT !.step = "save"]
      /\ UNCHANGED <<head, calls, pool, initSyncBlocks>>
  BY Zenon DEF FCUInvalid
<1>2. work.fcuRoot \in Roots /\ work \in Works
  BY <1>1 DEF SInv, WorkOK, StepOK
<1>3. /\ work' \in Works /\ work'.task = work.task
      /\ work'.root = work.root /\ work'.batch = work.batch
      /\ \/ work'.step = "refetch"
         \/ work'.step = "save" /\ work'.fcuRoot \in Roots
  BY <1>1, <1>2 DEF Works, Steps
<1>4. WorkOK'
  BY <1>3, LateOK DEF SInv
<1>5. CASE removed
  <2>1. /\ IInv' /\ NodesSaved'
        /\ blocksOnDisk' \subseteq Roots /\ summaries' \subseteq Roots
        /\ UNCHANGED <<dbJustified, dbFinalized, lastValidated, restarts>>
    <3>1. initSyncBlocks' = initSyncBlocks
      BY <1>1
    <3> QED
      BY <1>2, <1>5, <3>1, InvalidStep, Zenon DEF SInv
  <2>2. DataOK'
    BY <1>1, <2>1 DEF SInv, DataOK
  <2> QED
    BY <1>4, <2>1, <2>2 DEF SInv
<1>6. CASE UNCHANGED <<vars, disk>>
  <2>1. IInv' /\ nodeByRoot' \subseteq nodeByRoot
    BY <1>6, SameStore DEF SInv
  <2>2. Kept
    BY <1>1, <1>6 DEF SInv, DataOK, Kept
  <2> QED
    BY <1>4, <2>1, <2>2, KeptInv
<1> QED
  BY <1>1, <1>5, <1>6

\* The lock holder goes on with the head Head found: FCUHead and UpdateHeadHead.
LEMMA HeadFoundInv ==
    ASSUME SInv, Head,
           \/ work' = Idle /\ UNCHANGED summaries
           \/ /\ headNode' # NoNode
              /\ work' = [work EXCEPT !.step = "fcu", !.fcuRoot = headNode']
              /\ summaries' = summaries \cup {headNode'},
           UNCHANGED <<head, calls, pool, initSyncBlocks, blocksOnDisk, dbCheckpoints, restarts>>
    PROVE  SInv'
<1>1. /\ IInv' /\ nodeByRoot' \subseteq nodeByRoot
      /\ headNode' # NoNode => headNode' \in Roots
  BY HeadStep DEF SInv
<1>2. DataOK'
  BY <1>1 DEF SInv, DataOK, dbCheckpoints
<1>3. NodesSaved'
  BY <1>1 DEF SInv, NodesSaved, hasBlockInInitSyncOrDB
<1>4. CASE work' = Idle
  BY <1>1, <1>2, <1>3, <1>4, IdleOK DEF SInv
<1>5. CASE headNode' # NoNode /\ work' = [work EXCEPT !.step = "fcu", !.fcuRoot = headNode']
  <2>1. /\ work' \in Works /\ work'.task = work.task
        /\ work'.root = work.root /\ work'.batch = work.batch
        /\ work'.step = "fcu" /\ work'.fcuRoot \in Roots
    BY <1>1, <1>5 DEF SInv, WorkOK, Works, Steps, Nodes
  <2>2. WorkOK'
    BY <2>1, LateOK DEF SInv
  <2> QED
    BY <1>1, <1>2, <1>3, <2>2 DEF SInv
<1> QED
  BY <1>4, <1>5

\* The head that is saved is a block.
LEMMA FCUSaveInv ==
    ASSUME SInv, FCUSave
    PROVE  SInv'
<1>1. /\ work.step = "save" /\ saveHead(work.fcuRoot)
      /\ work' = Idle \/ work' = [work EXCEPT !.step = "finality"]
      /\ UNCHANGED vars
      /\ UNCHANGED <<calls, pool, initSyncBlocks, blocksOnDisk, summaries, dbJustified, dbFinalized,
                     lastValidated, restarts>>
  BY DEF FCUSave, disk, dbCheckpoints
<1>2. work.fcuRoot \in Roots /\ Slot[work.fcuRoot] \in Nat
  BY <1>1, BlocksAssumption DEF SInv, WorkOK, StepOK
<1>3. IsOptimisticNode(work.fcuRoot) \in BOOLEAN
  BY Zenon DEF IsOptimisticNode
<1>4. head' \in [root : Roots, slot : Nat, optimistic : BOOLEAN]
  BY <1>1, <1>2, <1>3 DEF saveHead, SInv, DataOK
<1>5. IInv' /\ nodeByRoot' \subseteq nodeByRoot
  BY <1>1, SameStore DEF SInv
<1>6. DataOK'
  BY <1>1, <1>4 DEF SInv, DataOK
<1>7. NodesSaved'
  BY <1>1, <1>5 DEF SInv, NodesSaved, hasBlockInInitSyncOrDB
<1>8. WorkOK'
  BY <1>1, IdleOK, StepChanged, LateOK DEF SInv, WorkOK, Steps
<1> QED
  BY <1>5, <1>6, <1>7, <1>8 DEF SInv

LEMMA VoteArrivesInv ==
    ASSUME SInv, NEW v \in Votes, VoteArrives(v)
    PROVE  SInv'
<1>1. /\ pool' = pool \cup {v} /\ UNCHANGED vars /\ work' = work
      /\ UNCHANGED <<head, calls, initSyncBlocks, disk>>
  BY DEF VoteArrives
<1>2. IInv' /\ nodeByRoot' \subseteq nodeByRoot
  BY <1>1, SameStore DEF SInv
<1>3. UNCHANGED <<work, nodeByRoot, treeRootNode, initSyncBlocks, blocksOnDisk>>
  BY <1>1 DEF vars, tree, disk
<1>4. WorkOK'
  BY <1>3, QuietOK DEF SInv
<1>5. Kept
  BY <1>1, ServiceAssumption DEF SInv, DataOK, Kept
<1> QED
  BY <1>2, <1>4, <1>5, KeptInv

LEMMA RoutineNewSlotInv ==
    ASSUME SInv, RoutineNewSlot
    PROVE  SInv'
<1>1. /\ work' = Idle /\ NewSlot
      /\ UNCHANGED <<head, calls, pool, initSyncBlocks, disk>>
  BY DEF RoutineNewSlot, service
<1>2. IInv'
  BY <1>1, NewSlotInv DEF SInv
<1>3. nodeByRoot' \subseteq nodeByRoot
  <2>1. prune(finalizedCheckpoint, nodeByRoot, parent, children, target)
    BY <1>1 DEF NewSlot
  <2>2. Shrunk(nodeByRoot, parent, finalizedCheckpoint, optimistic)
    BY <2>1, PruneShrinks, Zenon DEF SInv, IInv, TypeOK
  <2> QED
    BY <2>2 DEF Shrunk
<1>4. Kept
  BY <1>1 DEF SInv, DataOK, Kept
<1> QED
  BY <1>1, <1>2, <1>3, <1>4, IdleOK, KeptInv

LEMMA UpdateHeadInv ==
    ASSUME SInv, UpdateHead
    PROVE  SInv'
<1>1. /\ work = Idle /\ UNCHANGED vars
      /\ work' = [Idle EXCEPT !.task = "updateHead", !.step = "attestations", !.votes = pool]
      /\ UNCHANGED <<head, calls, pool, initSyncBlocks, disk>>
  BY DEF UpdateHead
<1>2. IInv' /\ nodeByRoot' \subseteq nodeByRoot
  BY <1>1, SameStore DEF SInv
<1>3. /\ work' \in Works /\ work'.task = "updateHead" /\ work'.step = "attestations"
  BY <1>1 DEF SInv, DataOK, Idle, Works, Tasks, Steps, Nodes
<1>4. WorkOK'
  BY <1>3 DEF WorkOK, StepOK, ImportOK, BatchOK
<1>5. Kept
  BY <1>1 DEF SInv, DataOK, Kept
<1> QED
  BY <1>2, <1>4, <1>5, KeptInv

LEMMA processAttestationsInv ==
    ASSUME SInv, NEW v \in work.votes, processAttestations(v)
    PROVE  SInv'
<1>1. /\ work.step = "attestations"
      /\ work' = [work EXCEPT !.votes = @ \ {v}]
      /\ pool' \subseteq pool
      /\ ProcessAttestation(v.indices, v.root, v.slot) \/ UNCHANGED vars
      /\ UNCHANGED <<head, calls, initSyncBlocks, disk>>
  BY DEF processAttestations, OnAttestation
<1>2. v \in Vote
  BY DEF SInv, WorkOK, Works
<1>3. IInv' /\ nodeByRoot' \subseteq nodeByRoot
  BY <1>1, <1>2, VoteStep, SameStore DEF SInv
<1>4. /\ work' \in Works /\ work'.step = work.step /\ work'.task = work.task
      /\ work'.root = work.root /\ work'.batch = work.batch
  BY <1>1 DEF SInv, WorkOK, Works
<1>5. WorkOK'
  BY <1>1, <1>4, LateOK DEF SInv
<1>6. Kept
  BY <1>1 DEF SInv, DataOK, Kept
<1> QED
  BY <1>3, <1>5, <1>6, KeptInv

\* The blocks fillInForkChoiceMissingBlocks collects are on disk.
LEMMA MissingOnDisk ==
    ASSUME NEW p, NEW saved
    PROVE  missingAncestors(p, saved) \subseteq saved
BY Zenon DEF missingAncestors, missing

LEMMA StartBatchInv ==
    ASSUME SInv, NEW S \in Batches, StartBatch(S)
    PROVE  SInv'
<1> DEFINE p == ParentRoot[oldest(S)]
           fill == missingAncestors(p, blocksOnDisk')
           started == [Idle EXCEPT !.task = "batch", !.step = "fill", !.root = oldest(S),
                                   !.batch = S, !.inserts = fill]
<1>1. /\ hasBlockInInitSyncOrDB(p)
      /\ \A r \in S \cup fill : importable(r)
      /\ verifyBlkPreState(p)
      /\ work' = started \/ work' = Idle
      /\ UNCHANGED vars
      /\ UNCHANGED <<head, calls, pool, dbJustified, dbFinalized, lastValidated, restarts>>
  BY Zenon DEF StartBatch, dbCheckpoints
<1>2. fill \subseteq blocksOnDisk'
  BY MissingOnDisk
<1> HIDE DEF fill, started
<1>3. /\ IInv' /\ nodeByRoot' \subseteq nodeByRoot
      /\ UNCHANGED <<nodeByRoot, treeRootNode>>
  BY <1>1, SameStore DEF SInv, vars, tree
<1>4. /\ initSyncBlocks' \subseteq Roots /\ blocksOnDisk' \subseteq Roots
      /\ summaries' \subseteq Roots
      /\ initSyncBlocks \cup blocksOnDisk \subseteq initSyncBlocks' \cup blocksOnDisk'
      /\ blocksOnDisk \subseteq blocksOnDisk'
  BY <1>1, PreStateSaved DEF SInv
<1>5. /\ p \in Roots /\ fill \subseteq Roots
  BY <1>1, <1>2, <1>4 DEF SInv, DataOK, hasBlockInInitSyncOrDB
<1>6. S \in SUBSET Roots /\ S # {} /\ oldest(S) \in S
  BY BatchFacts, OldestIsLeast, Zenon
<1>7. Fresh(S \cup fill)
  BY <1>1 DEF importable, unaliased, Fresh
<1>8. ASSUME work' = started
      PROVE  /\ work' \in Works /\ work'.task = "batch" /\ work'.step = "fill"
             /\ work'.root = oldest(S) /\ work'.batch = S /\ work'.inserts = fill
  <2> DEFINE o == oldest(S)
  <2>1. o \in Roots
    BY <1>6
  <2> HIDE DEF o
  <2>2. work' = [Idle EXCEPT !.task = "batch", !.step = "fill", !.root = o,
                             !.batch = S, !.inserts = fill]
    BY <1>8 DEF o, started
  <2>3. /\ work' \in Works /\ work'.task = "batch" /\ work'.step = "fill"
        /\ work'.root = o /\ work'.batch = S /\ work'.inserts = fill
    BY <2>1, <2>2, <1>5, <1>6 DEF Idle, Works, Tasks, Steps, Nodes
  <2> QED
    BY <2>3 DEF o
<1>9. ASSUME work' = started PROVE WorkOK'
  <2>1. BatchOK'
    BY <1>2, <1>3, <1>4, <1>5, <1>6, <1>7, <1>8, <1>9 DEF BatchOK, Fresh
  <2> QED
    BY <1>8, <1>9, <2>1 DEF WorkOK, StepOK, ImportOK
<1>10. WorkOK'
  BY <1>1, <1>9, IdleOK
<1>11. DataOK'
  BY <1>1, <1>4 DEF SInv, DataOK
<1>12. NodesSaved'
  BY <1>3, <1>4 DEF SInv, NodesSaved, hasBlockInInitSyncOrDB
<1> QED
  BY <1>3, <1>10, <1>11, <1>12 DEF SInv

\* The missing ancestors are inserted with the checkpoints fillCheckpoints says.
LEMMA BatchFillInv ==
    ASSUME SInv, BatchFill
    PROVE  SInv'
<1> DEFINE r == oldest(work.inserts)
           cp == fillCheckpoints(ParentRoot[oldest(work.batch)])
<1>1. /\ work.step = "fill"
      /\ \/ /\ work' = [work EXCEPT !.step = "payload"] /\ UNCHANGED vars
         \/ /\ work.inserts # {}
            /\ \/ InsertSucceeds(r, cp.justified, cp.finalized)
               \/ InsertFails(r, cp.justified, cp.finalized)
            /\ work' = [work EXCEPT !.inserts = @ \ {r}] \/ work' = Idle
      /\ UNCHANGED <<head, calls, pool, initSyncBlocks, disk>>
  BY Zenon DEF BatchFill
<1>2. /\ work \in Works /\ work.task = "batch"
      /\ work.batch \in Batches /\ work.root \in work.batch
      /\ Fresh(work.batch \cup work.inserts)
      /\ work.root = oldest(work.batch) /\ ParentRoot[work.root] \in Roots
      /\ work.inserts \subseteq blocksOnDisk
  BY <1>1 DEF SInv, WorkOK, StepOK, BatchOK
<1>3. Kept
  BY <1>1 DEF SInv, DataOK, Kept
<1>4. CASE work' = [work EXCEPT !.step = "payload"] /\ UNCHANGED vars
  <2>1. IInv' /\ nodeByRoot' \subseteq nodeByRoot /\ UNCHANGED <<nodeByRoot, treeRootNode>>
    BY <1>4, SameStore DEF SInv, vars, tree
  <2>2. /\ work' \in Works /\ work'.step = "payload"
        /\ work'.task = work.task /\ work'.root = work.root
        /\ work'.batch = work.batch /\ work'.inserts = work.inserts
    BY <1>2, <1>4, StepChanged DEF Steps
  <2>3. \A z \in work.batch : ~(Slot[z] < Slot[work.root])
    <3>1. work.batch \in SUBSET Roots /\ work.batch # {}
      BY <1>2, BatchFacts, Zenon
    <3>2. \A z \in work.batch : Slot[work.root] <= Slot[z]
      BY <1>2, <3>1, OldestIsLeast
    <3> QED
      BY <1>2, <3>1, <3>2, BlocksAssumption
  <2>4. BatchOK'
    BY <1>2, <2>1, <2>2, <2>3 DEF BatchOK, Fresh
  <2>5. WorkOK'
    BY <1>2, <2>2, <2>4 DEF WorkOK, StepOK, ImportOK
  <2> QED
    BY <2>1, <2>5, <1>3, KeptInv
<1>5. ASSUME work.inserts # {},
             \/ InsertSucceeds(r, cp.justified, cp.finalized)
             \/ InsertFails(r, cp.justified, cp.finalized),
             work' = [work EXCEPT !.inserts = @ \ {r}] \/ work' = Idle
      PROVE  SInv'
  <2>1. r \in work.inserts /\ r \in Roots
    <3>1. work.inserts \in SUBSET Roots
      BY <1>2 DEF Works
    <3> QED
      BY <3>1, <1>5, OldestIsLeast
  <2>2. cp.justified \in Checkpoints /\ cp.finalized \in Checkpoints
    BY <1>2, BlockCheckpoints DEF fillCheckpoints
  <2>3. Fresh({r})
    BY <1>2, <2>1 DEF Fresh
  <2> HIDE DEF r, cp
  <2>4. IInv' /\ RootKept /\ nodeByRoot' \subseteq nodeByRoot \cup {r}
    BY <1>5, <2>1, <2>2, <2>3, InsertStep, Zenon DEF SInv
  <2>5. DataOK' /\ NodesSaved'
    <3>1. \A n \in nodeByRoot' : n \in nodeByRoot \/ hasBlockInInitSyncOrDB(n)
      BY <1>2, <2>1, <2>4 DEF hasBlockInInitSyncOrDB
    <3> QED
      BY <3>1, <1>3, SameData
  <2>6. WorkOK'
    <3>1. CASE work' = [work EXCEPT !.inserts = @ \ {r}]
      <4>1. /\ work' \in Works /\ work'.step = "fill"
            /\ work'.task = work.task /\ work'.root = work.root
            /\ work'.batch = work.batch /\ work'.inserts = work.inserts \ {r}
        BY <1>1, <1>2, <3>1 DEF Works
      <4>2. treeRootNode' \in work.batch \cup work.inserts => treeRootNode' \in nodeByRoot'
        BY <1>2, <2>4, RootKeptFresh
      <4>3. blocksOnDisk' = blocksOnDisk
        BY <1>3 DEF Kept, disk
      <4>4. BatchOK'
        BY <1>2, <4>1, <4>2, <4>3 DEF BatchOK, Fresh
      <4> QED
        BY <1>2, <4>1, <4>4 DEF WorkOK, StepOK, ImportOK
    <3>2. CASE work' = Idle
      BY <3>2, IdleOK
    <3> QED
      BY <1>5, <3>1, <3>2
  <2> QED
    BY <2>4, <2>5, <2>6 DEF SInv
<1> QED
  BY <1>1, <1>4, <1>5

\* One round of the loop over the payloads: the block is saved, and the next one follows it.
LEMMA BatchPayloadInv ==
    ASSUME SInv, NEW verdict, BatchPayload(verdict)
    PROVE  SInv'
<1> DEFINE cached == initSyncBlocks \cup {work.root}
           next == CHOOSE z \in work.batch : ParentRoot[z] = work.root
<1>1. /\ work.step = "payload"
      /\ summaries' = summaries \cup {work.root}
      /\ dbJustified' = JC[work.root] \/ dbJustified' = dbJustified
      /\ \/ saveFinalized(FC[work.root], cached)
         \/ /\ UNCHANGED <<dbFinalized, lastValidated>>
            /\ \/ blocksOnDisk' = blocksOnDisk \cup cached /\ initSyncBlocks' = {}
               \/ initSyncBlocks' = cached /\ UNCHANGED blocksOnDisk
      /\ work' = [nextInBatch EXCEPT !.valid = (verdict = "VALID")]
      /\ UNCHANGED vars /\ UNCHANGED <<head, calls, pool, restarts>>
  BY DEF BatchPayload
<1>2. /\ work \in Works /\ work.task = "batch"
      /\ work.batch \in Batches /\ work.root \in work.batch
      /\ Fresh(work.batch \cup work.inserts)
      /\ \A z \in work.batch : Slot[z] < Slot[work.root] => hasBlockInInitSyncOrDB(z)
  BY <1>1 DEF SInv, WorkOK, StepOK, BatchOK
<1>3. /\ work.batch \in SUBSET Roots /\ work.batch # {} /\ work.root \in Roots
      /\ \A x, z \in work.batch : Slot[x] = Slot[z] => x = z
  <2>1. /\ work.batch \in SUBSET Roots /\ work.batch # {}
        /\ \A x, z \in work.batch : Slot[x] = Slot[z] => x = z
    BY <1>2, BatchFacts, Zenon
  <2> QED
    BY <2>1, <1>2
<1>4. IInv' /\ nodeByRoot' \subseteq nodeByRoot /\ UNCHANGED <<nodeByRoot, treeRootNode>>
  BY <1>1, SameStore DEF SInv, vars, tree
<1>5. /\ initSyncBlocks' \subseteq Roots /\ blocksOnDisk' \subseteq Roots
      /\ dbFinalized' \in Checkpoints /\ lastValidated' \in Checkpoints
      /\ cached \cup blocksOnDisk \subseteq initSyncBlocks' \cup blocksOnDisk'
  <2>1. cached \in SUBSET Roots /\ FC[work.root] \in Checkpoints
    BY <1>3, BlockCheckpoints DEF SInv, DataOK
  <2> HIDE DEF cached
  <2>2. CASE saveFinalized(FC[work.root], cached)
    <3>1. /\ blocksOnDisk' = blocksOnDisk \cup cached /\ initSyncBlocks' = {}
          /\ dbFinalized' \in Checkpoints /\ lastValidated' \in Checkpoints
      BY <2>1, <2>2, SaveFinalizedSaves, Zenon DEF SInv
    <3> QED
      BY <3>1, <2>1 DEF SInv, DataOK
  <2>3. CASE /\ UNCHANGED <<dbFinalized, lastValidated>>
             /\ \/ blocksOnDisk' = blocksOnDisk \cup cached /\ initSyncBlocks' = {}
                \/ initSyncBlocks' = cached /\ UNCHANGED blocksOnDisk
    BY <2>3, <2>1 DEF SInv, DataOK
  <2> QED
    BY <1>1, <2>2, <2>3
<1>6. DataOK'
  BY <1>1, <1>3, <1>5, BlockCheckpoints DEF SInv, DataOK
<1>7. NodesSaved'
  BY <1>4, <1>5 DEF SInv, NodesSaved, hasBlockInInitSyncOrDB
<1>8. \A z \in work.batch :
         Slot[z] < Slot[work.root] \/ z = work.root => z \in initSyncBlocks' \cup blocksOnDisk'
  BY <1>2, <1>5 DEF hasBlockInInitSyncOrDB
<1>9. (verdict = "VALID") \in BOOLEAN
  OBVIOUS
<1>10. CASE work.root = newest(work.batch)
  <2>1. work' = [[work EXCEPT !.step = "insert", !.inserts = work.batch]
                     EXCEPT !.valid = (verdict = "VALID")]
    BY <1>1, <1>10, Zenon DEF nextInBatch
  <2>2. /\ work' \in Works /\ work'.step = "insert" /\ work'.task = work.task
        /\ work'.root = work.root /\ work'.batch = work.batch /\ work'.inserts = work.batch
    BY <2>1, <1>2, <1>3 DEF Works, Steps
  <2>3. \A z \in work.batch : z \in initSyncBlocks' \cup blocksOnDisk'
    <3>1. \A z \in work.batch : Slot[z] <= Slot[work.root]
      BY <1>3, <1>10, NewestIsGreatest
    <3>2. \A z \in work.batch : Slot[z] \in Nat
      BY <1>3, BlocksAssumption
    <3> QED
      BY <1>2, <1>3, <1>8, <3>1, <3>2
  <2>4. BatchOK'
    BY <1>2, <1>4, <1>10, <2>2, <2>3 DEF BatchOK, Fresh, hasBlockInInitSyncOrDB
  <2>5. WorkOK'
    BY <1>2, <2>2, <2>4 DEF WorkOK, StepOK, ImportOK
  <2> QED
    BY <1>4, <1>6, <1>7, <2>5 DEF SInv
<1>11. CASE work.root # newest(work.batch)
  <2>1. work' = [[work EXCEPT !.root = next] EXCEPT !.valid = (verdict = "VALID")]
    BY <1>1, <1>11, Zenon DEF nextInBatch
  <2>2. /\ next \in work.batch
        /\ \A y \in work.batch : Slot[y] < Slot[next] => y = work.root \/ Slot[y] < Slot[work.root]
    BY <1>2, <1>11, NextOfBatch, Zenon
  <2> HIDE DEF next
  <2>3. /\ work' \in Works /\ work'.step = "payload" /\ work'.task = work.task
        /\ work'.root = next /\ work'.batch = work.batch /\ work'.inserts = work.inserts
    BY <1>1, <2>1, <2>2, <1>2, <1>3 DEF Works, Steps, Nodes
  <2>4. \A z \in work.batch : Slot[z] < Slot[next] => z \in initSyncBlocks' \cup blocksOnDisk'
    BY <1>8, <2>2
  <2>5. BatchOK'
    BY <1>2, <1>4, <2>2, <2>3, <2>4 DEF BatchOK, Fresh, hasBlockInInitSyncOrDB
  <2>6. WorkOK'
    BY <1>2, <2>3, <2>5 DEF WorkOK, StepOK, ImportOK
  <2> QED
    BY <1>4, <1>6, <1>7, <2>6 DEF SInv
<1> QED
  BY <1>10, <1>11

LEMMA BatchStopInv ==
    ASSUME SInv, BatchError \/ BatchInvalid
    PROVE  SInv'
<1>1. /\ work.step = "payload" /\ UNCHANGED vars
      /\ work' = Idle \/ work' = [work EXCEPT !.step = "locked"]
      /\ UNCHANGED <<head, calls, pool, initSyncBlocks, disk>>
  BY DEF BatchError, BatchInvalid
<1>2. IInv' /\ nodeByRoot' \subseteq nodeByRoot
  BY <1>1, SameStore DEF SInv
<1>3. WorkOK'
  BY <1>1, IdleOK, StepChanged, LateOK DEF SInv, WorkOK, Steps
<1>4. Kept
  BY <1>1 DEF SInv, DataOK, Kept
<1> QED
  BY <1>2, <1>3, <1>4, KeptInv

LEMMA BatchInsertInv ==
    ASSUME SInv, BatchInsert
    PROVE  SInv'
<1> DEFINE r == oldest(work.inserts)
           st == IF r = newest(work.batch) THEN "verdict" ELSE "insert"
<1>1. /\ work.task = "batch" /\ work.step = "insert"
      /\ InsertSucceeds(r, JC[r], FC[r]) \/ InsertFails(r, JC[r], FC[r])
      /\ work' = [work EXCEPT !.inserts = @ \ {r}, !.step = st] \/ work' = Idle
      /\ UNCHANGED <<head, calls, pool, initSyncBlocks, disk>>
  BY Zenon DEF BatchInsert
<1>2. /\ work \in Works
      /\ work.batch \in Batches /\ work.root \in work.batch
      /\ Fresh(work.batch \cup work.inserts)
      /\ \A z \in work.batch : hasBlockInInitSyncOrDB(z)
      /\ work.inserts \subseteq work.batch
      /\ newest(work.batch) \in work.inserts
  BY <1>1 DEF SInv, WorkOK, BatchOK
<1>3. r \in work.inserts /\ r \in Roots
  <2>1. work.inserts \in SUBSET Roots /\ work.inserts # {}
    BY <1>2 DEF Works
  <2> QED
    BY <2>1, OldestIsLeast
<1>4. Fresh({r})
  BY <1>2, <1>3 DEF Fresh
<1>5. JC[r] \in Checkpoints /\ FC[r] \in Checkpoints
  BY <1>3, BlockCheckpoints
<1> HIDE DEF r
<1>6. IInv' /\ RootKept /\ nodeByRoot' \subseteq nodeByRoot \cup {r}
  BY <1>1, <1>3, <1>4, <1>5, InsertStep, Zenon DEF SInv
<1>7. Kept
  BY <1>1 DEF SInv, DataOK, Kept
<1>8. DataOK' /\ NodesSaved'
  <2>1. \A n \in nodeByRoot' : n \in nodeByRoot \/ hasBlockInInitSyncOrDB(n)
    BY <1>2, <1>3, <1>6
  <2> QED
    BY <2>1, <1>7, SameData
<1>9. CASE work' = [work EXCEPT !.inserts = @ \ {r}, !.step = st]
  <2>1. /\ work' \in Works /\ work'.step = st
        /\ work'.task = work.task /\ work'.root = work.root
        /\ work'.batch = work.batch /\ work'.inserts = work.inserts \ {r}
    BY <1>2, <1>9 DEF Works, Steps
  <2>2. treeRootNode' \in work.batch \cup work.inserts => treeRootNode' \in nodeByRoot'
    BY <1>2, <1>6, RootKeptFresh
  <2>3. UNCHANGED <<initSyncBlocks, blocksOnDisk>>
    BY <1>7 DEF Kept, disk
  <2>4. WorkOK'
    <3>1. CASE r = newest(work.batch)
      BY <1>1, <2>1, <3>1, LateOK DEF SInv
    <3>2. CASE r # newest(work.batch)
      <4>1. BatchOK'
        BY <1>1, <1>2, <2>1, <2>2, <2>3, <3>2 DEF BatchOK, Fresh, hasBlockInInitSyncOrDB
      <4> QED
        BY <1>1, <2>1, <3>2, <4>1 DEF WorkOK, StepOK, ImportOK
    <3> QED
      BY <3>1, <3>2
  <2> QED
    BY <1>6, <1>8, <2>4 DEF SInv
<1>10. CASE work' = Idle
  BY <1>6, <1>8, <1>10, IdleOK DEF SInv
<1> QED
  BY <1>1, <1>9, <1>10

LEMMA BatchVerdictInv ==
    ASSUME SInv, BatchVerdict
    PROVE  SInv'
<1>1. /\ work.step = "verdict"
      /\ SetOptimisticToValid(work.root) \/ UNCHANGED vars
      /\ work' = [work EXCEPT !.step = "fcu", !.fcuRoot = work.root]
      /\ UNCHANGED <<head, calls, pool, initSyncBlocks, disk>>
  BY DEF BatchVerdict
<1>2. IInv' /\ nodeByRoot' \subseteq nodeByRoot
  BY <1>1, ValidStep, SameStore DEF SInv
<1>3. work \in Works /\ work.root \in Roots
  BY <1>1, BatchFacts DEF SInv, WorkOK, StepOK, BatchOK
<1>4. /\ work' \in Works /\ work'.task = work.task
      /\ work'.root = work.root /\ work'.batch = work.batch
      /\ work'.step = "fcu" /\ work'.fcuRoot \in Roots
  BY <1>1, <1>3 DEF Works, Steps, Nodes
<1>5. WorkOK'
  BY <1>4, LateOK DEF SInv
<1>6. Kept
  BY <1>1 DEF SInv, DataOK, Kept
<1> QED
  BY <1>2, <1>5, <1>6, KeptInv

LEMMA BatchSaveInv ==
    ASSUME SInv, BatchSave
    PROVE  SInv'
<1>1. /\ work.task = "batch"
      /\ head' = IF isNewHead(work.root) THEN saveHeadNoDB(work.root, ~work.valid) ELSE head
      /\ blocksOnDisk' = blocksOnDisk \cup initSyncBlocks
      /\ work' = Idle /\ UNCHANGED vars
      /\ UNCHANGED <<calls, pool, initSyncBlocks, summaries, dbJustified, dbFinalized,
                     lastValidated, restarts>>
  BY DEF BatchSave, dbCheckpoints
<1>2. work.root \in Roots
  BY <1>1, BatchFacts DEF SInv, WorkOK, BatchOK
<1>3. (~work.valid) \in BOOLEAN
  BY Zenon
<1>4. head' \in [root : Roots, slot : Nat, optimistic : BOOLEAN]
  BY <1>1, <1>2, <1>3 DEF saveHeadNoDB, SInv, DataOK
<1>5. IInv' /\ nodeByRoot' \subseteq nodeByRoot
  BY <1>1, SameStore DEF SInv
<1>6. DataOK'
  BY <1>1, <1>4 DEF SInv, DataOK
<1>7. NodesSaved'
  BY <1>1, <1>5 DEF SInv, NodesSaved, hasBlockInInitSyncOrDB
<1> QED
  BY <1>1, <1>5, <1>6, <1>7, IdleOK DEF SInv

\* The store of a restart is in order whatever checkpoints are on disk.
LEMMA FreshStoreInv ==
    ASSUME IInv, NEW r \in Roots, NEW jc \in Checkpoints, NEW fc \in Checkpoints,
           NEW validated \in BOOLEAN, freshStore(r, jc, fc, validated)
    PROVE  IInv'
<1> USE DEF freshStore
<1>1. Slot[r] \in Nat /\ JC[r].epoch \in Nat /\ JC[r] \in Checkpoints
  BY BlocksAssumption, BlockCheckpoints
<1>2. currentSlot \in Nat
  BY DEF IInv, TypeOK
<1>3. TypeOK'
  <2>1. cacheAttCount' \in [{} -> Nat]
    OBVIOUS
  <2>2. /\ justifiedCheckpoint' \in Checkpoints /\ finalizedCheckpoint' \in Checkpoints
        /\ prevJustifiedCheckpoint' \in Checkpoints
    BY <1>1 DEF Checkpoints
  <2>3. receivedBlocksLastEpoch' \in [0 .. SlotsPerEpoch - 1 -> Nat]
    BY <1>1
  <2>4. justifiedEpoch' \in [Roots -> Nat]
    BY <1>1
  <2>5. optimistic' \in [Roots -> BOOLEAN]
    OBVIOUS
  <2>6. stabled' \in [Roots -> BOOLEAN]
    OBVIOUS
  <2> QED
    BY <2>1, <2>2, <2>3, <2>4, <2>5, <2>6, <1>2 DEF TypeOK, Nodes
<1>4. TreeOK(nodeByRoot', parent', children', target', treeRootNode', optimistic')
  BY <1>3, ConstantsAssumption DEF TreeOK, Pointers, Linked, Validated, TypeOK
<1>5. VotesOK(nodeByRoot', dropped', parent', treeRootNode', headNode', cacheAttCount',
              stabled', validatorIndices')
  BY ConstantsAssumption DEF VotesOK
<1> QED
  BY <1>3, <1>4, <1>5 DEF IInv

LEMMA RestartInv ==
    ASSUME SInv, Restart
    PROVE  SInv'
<1> DEFINE f == ensureRootNotZeros(dbFinalized.root)
<1>1. /\ restarts < MaxRestarts /\ f \in blocksOnDisk
      /\ freshStore(f, dbJustified, dbFinalized, dbFinalized.root = lastValidated.root)
      /\ head' = [root |-> f, slot |-> Slot[f], optimistic |-> FALSE]
      /\ work' = Idle /\ calls' = {} /\ pool' = {} /\ initSyncBlocks' = {}
      /\ restarts' = restarts + 1
      /\ UNCHANGED <<blocksOnDisk, summaries, dbJustified, dbFinalized, lastValidated>>
  BY DEF Restart, dbCheckpoints
<1> HIDE DEF f
<1>2. f \in Roots /\ Slot[f] \in Nat
  BY <1>1, BlocksAssumption DEF SInv, DataOK
<1>3. (dbFinalized.root = lastValidated.root) \in BOOLEAN
  OBVIOUS
<1>4. IInv'
  BY <1>1, <1>2, <1>3, FreshStoreInv, Zenon DEF SInv, DataOK
<1>5. DataOK'
  BY <1>1, <1>2, ServiceAssumption DEF SInv, DataOK
<1>6. NodesSaved'
  BY <1>1 DEF freshStore, NodesSaved, hasBlockInInitSyncOrDB
<1> QED
  BY <1>1, <1>4, <1>5, <1>6, IdleOK DEF SInv

LEMMA ClockInv ==
    ASSUME SInv, Tick, UNCHANGED service
    PROVE  SInv'
<1>1. IInv' /\ UNCHANGED <<nodeByRoot, treeRootNode>>
  BY DEF SInv, Tick, IInv, TypeOK, tree, checkpoints, cache
<1>2. WorkOK'
  BY <1>1, QuietOK DEF SInv, service, disk
<1>3. Kept
  BY DEF SInv, DataOK, Kept, service
<1> QED
  BY <1>1, <1>2, <1>3, KeptInv

LEMMA ServiceInitInv == ServiceInit => SInv
<1> SUFFICES ASSUME ServiceInit PROVE SInv
  OBVIOUS
<1>1. IInv /\ nodeByRoot = {StartRoot}
  BY InitInv DEF ServiceInit, Init
<1>2. Slot[StartRoot] \in Nat
  BY ConstantsAssumption, BlocksAssumption
<1>3. DataOK
  BY <1>2, ConstantsAssumption, ServiceAssumption DEF ServiceInit, DataOK
<1>4. NodesSaved
  BY <1>1 DEF ServiceInit, NodesSaved, hasBlockInInitSyncOrDB
<1>5. WorkOK
  <2>1. work \in Works /\ work.task = "none" /\ work.step = "none"
    BY DEF ServiceInit, Idle, Works, Tasks, Steps, Nodes
  <2> QED
    BY <2>1 DEF WorkOK, StepOK, ImportOK, BatchOK
<1> QED
  BY <1>1, <1>3, <1>4, <1>5 DEF SInv

\* Every step of the service keeps the invariant.
LEMMA ServiceStepInv == SInv /\ [ServiceNext]_serviceVars => SInv'
<1> SUFFICES ASSUME SInv, [ServiceNext]_serviceVars PROVE SInv'
  OBVIOUS
<1>1. CASE LockHolder
  <2>1. CASE SaveState
    BY <2>1, SaveStateInv
  <2>2. CASE ImportInsert
    BY <2>2, ImportInsertInv
  <2>3. CASE ImportVerdict
    BY <2>3, ImportVerdictInv
  <2>4. CASE ImportHead
    BY <2>4, ImportHeadInv
  <2>5. CASE ImportFinality
    BY <2>5, ImportFinalityInv
  <2>6. ASSUME NEW v \in work.votes, ImportVote(v) \/ processAttestations(v) PROVE SInv'
    BY <2>6, ImportVoteInv, processAttestationsInv
  <2>7. CASE UpdateHeadHead
    BY <2>7, HeadFoundInv DEF UpdateHeadHead, goesOn
  <2>8. CASE FCUAccepted
    BY <2>8, FCUAcceptedInv
  <2>9. CASE FCUHead
    BY <2>9, HeadFoundInv DEF FCUHead
  <2>10. CASE FCUSave
    BY <2>10, FCUSaveInv
  <2>11. ASSUME NEW lastValidHash \in LastValidHashes, FCUInvalid(lastValidHash) PROVE SInv'
    BY <2>11, FCUInvalidInv
  <2>12. CASE BatchFill
    BY <2>12, BatchFillInv
  <2>13. CASE BatchError \/ BatchInvalid
    BY <2>13, BatchStopInv
  <2>14. CASE BatchInsert
    BY <2>14, BatchInsertInv
  <2>15. CASE BatchVerdict
    BY <2>15, BatchVerdictInv
  <2>16. CASE BatchSave
    BY <2>16, BatchSaveInv
  <2>17. ASSUME NEW verdict \in {"VALID", "SYNCING"}, BatchPayload(verdict) PROVE SInv'
    BY <2>17, BatchPayloadInv
  <2> QED
    BY <1>1, <2>1, <2>2, <2>3, <2>4, <2>5, <2>6, <2>7, <2>8, <2>9, <2>10, <2>11, <2>12, <2>13,
       <2>14, <2>15, <2>16, <2>17, Zenon DEF LockHolder
<1>2. ASSUME NEW id \in CallIds, NEW r \in Roots \ {StartRoot}, ReceiveCall(id, r) PROVE SInv'
  BY <1>2, ReceiveCallInv
<1>3. ASSUME NEW call \in calls, savePostStateInfo(call) \/ ImportRefused(call) PROVE SInv'
  BY <1>3, savePostStateInfoInv, ImportRefusedInv
<1>4. ASSUME NEW call \in calls, NEW lastValidHash \in LastValidHashes,
             pruneInvalidBlock(call, lastValidHash)
      PROVE  SInv'
  BY <1>4, pruneInvalidBlockInv
<1>5. ASSUME NEW v \in Votes, VoteArrives(v) PROVE SInv'
  BY <1>5, VoteArrivesInv
<1>6. CASE RoutineNewSlot
  BY <1>6, RoutineNewSlotInv
<1>7. CASE UpdateHead
  BY <1>7, UpdateHeadInv
<1>8. ASSUME NEW S \in Batches, StartBatch(S) PROVE SInv'
  BY <1>8, StartBatchInv
<1>9. CASE Tick /\ UNCHANGED service
  BY <1>9, ClockInv
<1>10. CASE Restart
  BY <1>10, RestartInv
<1>11. CASE UNCHANGED serviceVars
  <2>1. UNCHANGED vars /\ work' = work /\ pool' = pool
        /\ UNCHANGED <<head, calls, initSyncBlocks, disk>>
    BY <1>11 DEF serviceVars, service
  <2>2. IInv' /\ nodeByRoot' \subseteq nodeByRoot
    BY <2>1, SameStore DEF SInv
  <2>3. UNCHANGED <<work, nodeByRoot, treeRootNode, initSyncBlocks, blocksOnDisk>>
    BY <2>1 DEF vars, tree, disk
  <2>4. WorkOK' /\ Kept
    BY <2>1, <2>3, QuietOK DEF SInv, DataOK, Kept
  <2> QED
    BY <2>2, <2>4, KeptInv
<1>12. CASE ServiceNext
  BY <1>1, <1>2, <1>3, <1>4, <1>5, <1>6, <1>7, <1>8, <1>9, <1>10, <1>12, Zenon DEF ServiceNext
<1> QED
  BY <1>11, <1>12

-----------------------------------------------------------------------------
(* The theorems.                                                           *)

\* The invariant holds in every reachable state of the service, for every set of blocks,
\* batches, votes, verdicts and interrupted imports.
THEOREM ServiceInvariance == ServiceSpec => []SInv
BY ServiceInitInv, ServiceStepInv, PTL DEF ServiceSpec

\* The fields of the service, the disk and the task of the lock holder keep their types; the
\* head the engine is told about is a block.
THEOREM ServiceTypeCorrect == ServiceSpec => []ServiceTypeOK
BY ServiceInvariance, SInvTyped, PTL

\* Every node of fork choice has its block in memory or on disk, whatever was imported, filled
\* in, removed, interrupted or restarted: savePostStateInfo and saveInitSyncBlock come before
\* the insertion, and removeInvalidBlockAndState deletes removed nodes only.
THEOREM NodesStaySaved == ServiceSpec => []NodesSaved
<1>1. SInv => NodesSaved
  BY DEF SInv
<1> QED
  BY <1>1, ServiceInvariance, PTL

\* The tree of the store stays linked under the service: overlapping imports, batches, the
\* fill-in with the checkpoints of another block, verdicts and restarts.
THEOREM ServiceTreeLinked == ServiceSpec => []TreeLinked
<1>1. SInv => TreeLinked
  BY DEF SInv, IInv, TreeOK, Linked, TreeLinked
<1> QED
  BY <1>1, ServiceInvariance, PTL

\* The promises of the store hold under the service as well, after restarts too: validated
\* chains, votes counted once, the available-attestation quorum and the stabled head.
StorePromises == ValidAncestors /\ VotesCountedOnce /\ StableHasQuorum /\ HeadStable

\* ServiceSpec keeps them although the service calls the methods in orders of its own.
THEOREM ServiceStorePromises == ServiceSpec => []StorePromises
<1>1. SInv => StorePromises
  <2> SUFFICES ASSUME SInv PROVE StorePromises
    OBVIOUS
  <2>1. ValidAncestors
    BY DEF SInv, IInv, TreeOK, Validated, ValidAncestors
  <2>2. VotesCountedOnce /\ HeadStable
    BY DEF SInv, IInv, VotesOK, VotesCountedOnce, HeadStable
  <2>3. StableHasQuorum
    BY DEF SInv, IInv, VotesOK, StableHasQuorum
  <2> QED
    BY <2>1, <2>2, <2>3 DEF StorePromises
<1> QED
  BY <1>1, ServiceInvariance, PTL
-----------------------------------------------------------------------------
(* The reported status of the head.                                        *)

\* The roots that have a node or had one since the last start.
Known == nodeByRoot \cup dropped

\* A checkpoint that is newer than the one of the first start is so far behind the clock that
\* its block does not count as a recent head.
Distant(cp) ==
    cp.epoch > StartFinalized.epoch => Slot[ensureRootNotZeros(cp.root)] + 2 < currentSlot

\* A head that is saved as validated and recent is validated in fork choice.
HeadOK ==
    /\ head.root \in Known
    /\ head.root \in nodeByRoot \ dropped /\ optimistic[head.root] =>
          head.optimistic \/ head.slot + 2 < currentSlot

\* No block is imported before its slot.  The head the engine is told about has a node or had
\* one, and so has the block of a task after its insertion; the last block of a batch, when its
\* payload is valid, is validated before it becomes the head.
TaskOK ==
    /\ \A call \in calls : Slot[call.root] <= currentSlot
    /\ work.step \in {"fcu", "save"} => work.fcuRoot \in Known
    /\ work.step = "attestations" => work.task = "updateHead"
    /\ work.task = "import" =>
          /\ Slot[work.root] <= currentSlot
          /\ work.step \notin {"state", "insert"} => work.root \in Known
    /\ work.task = "batch" =>
          /\ \A z \in work.batch : Slot[z] <= currentSlot
          /\ work.step \in {"insert", "verdict"} => work.root = newest(work.batch)
          /\ work.step = "refetch" => work.failed
          /\ work.step = "verdict" => work.root \in Known
          /\ work.step \in {"fcu", "save"} /\ ~work.failed => work.root \in Known
          /\ work.step \in {"fcu", "save"} /\ ~work.failed /\ work.valid
                /\ work.root \in nodeByRoot \ dropped => ~optimistic[work.root]

\* The finalized checkpoint on disk is validated or distant.
FinalOK ==
    /\ Distant(finalizedCheckpoint) /\ Distant(dbFinalized)
    /\ \/ dbFinalized.epoch > StartFinalized.epoch
       \/ dbFinalized = StartFinalized /\ lastValidated.root = StartFinalized.root

HInv == SInv /\ HeadOK /\ TaskOK /\ FinalOK

\* The invariant holds the property.
LEMMA HInvReported == HInv => OptimisticHeadReported
<1> SUFFICES ASSUME HInv, head.root \in nodeByRoot \ dropped, optimistic[head.root]
             PROVE  reportedOptimistic
  BY DEF OptimisticHeadReported
<1>1. head.slot \in Nat /\ currentSlot \in Nat
  BY DEF HInv, SInv, DataOK, IInv, TypeOK
<1>2. head.optimistic \/ head.slot + 2 < currentSlot
  BY DEF HInv, HeadOK
<1>3. IsOptimisticNode(head.root)
  BY Zenon DEF IsOptimisticNode
<1>4. CASE head.slot + 2 >= currentSlot
  <2>1. head.optimistic
    BY <1>1, <1>2, <1>4
  <2> QED
    BY <1>4, <2>1, Zenon DEF reportedOptimistic
<1>5. CASE ~(head.slot + 2 >= currentSlot)
  BY <1>3, <1>5, Zenon DEF reportedOptimistic
<1> QED
  BY <1>4, <1>5

\* What every call does to the nodes: a root stays known, a known root that has the node it had
\* before is not less validated, and the clock does not go back.
Aged ==
    /\ dropped \subseteq dropped' /\ Known \subseteq Known'
    /\ \A n \in Known : n \in nodeByRoot' \ dropped' =>
          n \in nodeByRoot \ dropped /\ (optimistic'[n] => optimistic[n])
    /\ currentSlot <= currentSlot'

\* The calls that insert nothing.
LEMMA QuietAged ==
    ASSUME IInv,
           \/ UNCHANGED vars
           \/ Head
           \/ NewSlot
           \/ Tick
           \/ \E indices, r, s : ProcessAttestation(indices, r, s)
           \/ \E r : SetOptimisticToValid(r)
           \/ \E r, lastValidHash : SetOptimisticToInvalid(r, lastValidHash)
    PROVE  Aged /\ finalizedCheckpoint' = finalizedCheckpoint
<1>1. currentSlot \in Nat /\ nodeByRoot \in SUBSET Roots
  BY DEF IInv, TypeOK
<1>2. CASE UNCHANGED vars
  BY <1>1, <1>2 DEF vars, tree, checkpoints, environment, Aged, Known
<1>3. CASE Head
  BY <1>1, <1>3 DEF Head, tree, checkpoints, environment, Aged, Known
<1>4. CASE NewSlot
  <2>1. /\ prune(finalizedCheckpoint, nodeByRoot, parent, children, target)
        /\ UNCHANGED <<checkpoints, optimistic, environment>>
    BY <1>4 DEF NewSlot
  <2>2. \/ nodeByRoot' = nodeByRoot /\ dropped' = dropped
        \/ \E gone : nodeByRoot' = nodeByRoot \ gone /\ dropped' = dropped \cup gone
    BY <2>1, Zenon DEF prune
  <2> QED
    BY <1>1, <2>1, <2>2 DEF checkpoints, environment, Aged, Known
<1>5. CASE Tick
  BY <1>1, <1>5 DEF Tick, tree, checkpoints, environment, Aged, Known
<1>6. ASSUME NEW indices, NEW r, NEW s, ProcessAttestation(indices, r, s)
      PROVE  Aged /\ finalizedCheckpoint' = finalizedCheckpoint
  BY <1>1, <1>6 DEF ProcessAttestation, tree, checkpoints, environment, Aged, Known
<1>7. ASSUME NEW r, SetOptimisticToValid(r)
      PROVE  Aged /\ finalizedCheckpoint' = finalizedCheckpoint
  <2>1. /\ UNCHANGED <<nodeByRoot, dropped, currentSlot, finalizedCheckpoint>>
        /\ optimistic' = [x \in Roots |-> optimistic[x] /\ x \notin UpToValid(r)]
    BY <1>7 DEF SetOptimisticToValid, tree, checkpoints, environment
  <2>2. \A n \in nodeByRoot : optimistic'[n] => optimistic[n]
    BY <1>1, <2>1
  <2> QED
    BY <1>1, <2>1, <2>2 DEF Aged, Known
<1>8. ASSUME NEW r, NEW lastValidHash, SetOptimisticToInvalid(r, lastValidHash)
      PROVE  Aged /\ finalizedCheckpoint' = finalizedCheckpoint
  <2>1. UNCHANGED <<checkpoints, optimistic, environment>>
    BY <1>8 DEF SetOptimisticToInvalid
  <2>2. \E n : removeNode(n)
    BY <1>8, Zenon DEF SetOptimisticToInvalid, invalidateKnown, invalidateUnknown
  <2>3. \E gone : nodeByRoot' = nodeByRoot \ gone /\ dropped' = dropped \cup gone
    BY <2>2, Zenon DEF removeNode
  <2> QED
    BY <1>1, <2>1, <2>3 DEF checkpoints, environment, Aged, Known
<1> QED
  BY <1>2, <1>3, <1>4, <1>5, <1>6, <1>7, <1>8

\* An insertion: the root is known afterwards, and the checkpoint of the insertion may become
\* the finalized one.
LEMMA InsertAged ==
    ASSUME IInv, NEW r \in Roots, NEW jc, NEW fc,
           InsertSucceeds(r, jc, fc) \/ InsertFails(r, jc, fc)
    PROVE  /\ Aged /\ r \in Known' /\ currentSlot' = currentSlot
           /\ finalizedCheckpoint' = finalizedCheckpoint \/ finalizedCheckpoint' = fc
<1>1. currentSlot \in Nat /\ nodeByRoot \in SUBSET Roots /\ optimistic \in [Roots -> BOOLEAN]
  BY DEF IInv, TypeOK
<1>2. ASSUME NEW nodes, NEW par, NEW ch, NEW tgt, updateCheckpoints(jc, fc, nodes, par, ch, tgt)
      PROVE  /\ finalizedCheckpoint' = finalizedCheckpoint \/ finalizedCheckpoint' = fc
             /\ \/ nodeByRoot' = nodes /\ dropped' = dropped
                \/ \E gone : nodeByRoot' = nodes \ gone /\ dropped' = dropped \cup gone
  <2>1. \/ nodeByRoot' = nodes /\ dropped' = dropped /\ finalizedCheckpoint' = finalizedCheckpoint
        \/ finalizedCheckpoint' = fc /\ prune(fc, nodes, par, ch, tgt)
    BY <1>2 DEF updateCheckpoints
  <2>2. CASE prune(fc, nodes, par, ch, tgt)
    <3>1. \/ nodeByRoot' = nodes /\ dropped' = dropped
          \/ \E gone : nodeByRoot' = nodes \ gone /\ dropped' = dropped \cup gone
      BY <2>2, Zenon DEF prune
    <3> QED
      BY <2>1, <3>1
  <2> QED
    BY <2>1, <2>2
<1>3. CASE InsertKnown(r, jc, fc)
  <2>1. /\ r \in nodeByRoot /\ updateCheckpoints(jc, fc, nodeByRoot, parent, children, target)
        /\ UNCHANGED <<optimistic, currentSlot>>
    BY <1>3 DEF InsertKnown, environment
  <2>2. /\ finalizedCheckpoint' = finalizedCheckpoint \/ finalizedCheckpoint' = fc
        /\ \/ nodeByRoot' = nodeByRoot /\ dropped' = dropped
           \/ \E gone : nodeByRoot' = nodeByRoot \ gone /\ dropped' = dropped \cup gone
    BY <1>2, <2>1
  <2> QED
    BY <1>1, <2>1, <2>2 DEF Aged, Known
<1>4. CASE InsertOrphan(r, jc)
  <2>1. /\ r \notin nodeByRoot /\ nodeByRoot' = nodeByRoot \cup {r}
        /\ optimistic' = [optimistic EXCEPT ![r] = TRUE]
        /\ UNCHANGED <<dropped, finalizedCheckpoint, currentSlot>>
    BY <1>4 DEF InsertOrphan, newNode, checkpoints, environment
  <2>2. \A n \in nodeByRoot : n # r /\ optimistic'[n] = optimistic[n]
    BY <1>1, <2>1
  <2> QED
    BY <1>1, <2>1, <2>2 DEF Aged, Known
<1>5. CASE InsertLinked(r, jc, fc)
  <2> DEFINE nodes == nodeByRoot \cup {r}
  <2>1. /\ r \notin nodeByRoot
        /\ \E par, ch, tgt : updateCheckpoints(jc, fc, nodes, par, ch, tgt)
        /\ optimistic' = [optimistic EXCEPT ![r] = TRUE]
        /\ UNCHANGED <<cache, environment>>
    BY <1>5, Zenon DEF InsertLinked, newNode
  <2>2. currentSlot' = currentSlot
    BY <2>1 DEF environment
  <2>3. /\ finalizedCheckpoint' = finalizedCheckpoint \/ finalizedCheckpoint' = fc
        /\ \/ nodeByRoot' = nodes /\ dropped' = dropped
           \/ \E gone : nodeByRoot' = nodes \ gone /\ dropped' = dropped \cup gone
    <3> HIDE DEF nodes
    <3> QED BY <1>2, <2>1
  <2>4. \A n \in nodeByRoot : n # r /\ optimistic'[n] = optimistic[n]
    BY <1>1, <2>1
  <2> QED
    BY <1>1, <2>1, <2>2, <2>3, <2>4 DEF Aged, Known
<1> QED
  BY <1>3, <1>4, <1>5, Zenon DEF InsertSucceeds, InsertFails

\* A VALID verdict validates the block itself.
LEMMA ValidIsValid ==
    ASSUME IInv, NEW r, SetOptimisticToValid(r)
    PROVE  r \in Roots /\ ~optimistic'[r]
<1>1. r \in Roots /\ optimistic' = [x \in Roots |-> optimistic[x] /\ x \notin UpToValid(r)]
  BY DEF SetOptimisticToValid, IInv, TypeOK
<1>2. r \in NotAfter(r)
  BY <1>1, BlocksAssumption DEF NotAfter
<1>3. r \in UpToValid(r)
  BY <1>2, Zenon DEF UpToValid, Closure
<1> QED
  BY <1>1, <1>3

\* The clock only adds to the distance.
LEMMA DistantKept ==
    ASSUME NEW cp \in Checkpoints, Distant(cp), currentSlot \in Nat, currentSlot' \in Nat,
           currentSlot <= currentSlot'
    PROVE  cp.epoch > StartFinalized.epoch => Slot[ensureRootNotZeros(cp.root)] + 2 < currentSlot'
<1>1. ensureRootNotZeros(cp.root) \in Roots
  BY ConstantsAssumption DEF Checkpoints, ensureRootNotZeros
<1>2. Slot[ensureRootNotZeros(cp.root)] \in Nat
  BY <1>1, BlocksAssumption
<1> QED
  BY <1>2 DEF Distant

\* A block that is not from the future names checkpoints that are behind the clock.
LEMMA NamedDistant ==
    ASSUME currentSlot \in Nat, NEW r \in Roots
    PROVE  /\ Slot[r] <= currentSlot => Distant(FC[r])
           /\ Slot[r] < currentSlot => Distant(JC[r])
<1>1. /\ FC[r].epoch \in Nat /\ JC[r].epoch \in Nat /\ Slot[r] \in Nat
      /\ StartFinalized.epoch \in Nat
      /\ SlotsPerEpoch \in Nat /\ SlotsPerEpoch >= 2
  BY BlocksAssumption, BlockCheckpoints, ConstantsAssumption, EpochAssumption DEF Checkpoints
<1>2. ASSUME FC[r].epoch > StartFinalized.epoch, Slot[r] <= currentSlot
      PROVE  Slot[ensureRootNotZeros(FC[r].root)] + 2 < currentSlot
  <2> DEFINE f == FC[r].root
             n == FC[r].epoch
  <2>1. f \in Roots /\ Slot[f] <= EpochStart(n) /\ EpochStart(n + 2) <= Slot[r]
    BY <1>2, FinalityAssumption, EpochAssumption
  <2>2. ensureRootNotZeros(f) = f /\ Slot[f] \in Nat
    BY <2>1, ConstantsAssumption, BlocksAssumption DEF ensureRootNotZeros
  <2>3. n \in Nat
    BY <1>1
  <2> HIDE DEF n, f
  <2>4. EpochStart(n + 2) = EpochStart(n) + 2 * SlotsPerEpoch /\ EpochStart(n) \in Nat
    BY <1>1, <2>3 DEF EpochStart
  <2>5. Slot[f] + 2 < currentSlot
    BY <1>1, <1>2, <2>1, <2>2, <2>4
  <2> QED
    BY <2>2, <2>5 DEF f
<1>3. ASSUME JC[r].epoch > StartFinalized.epoch, Slot[r] < currentSlot
      PROVE  Slot[ensureRootNotZeros(JC[r].root)] + 2 < currentSlot
  <2> DEFINE f == JC[r].root
             n == JC[r].epoch
  <2>1. f \in Roots /\ Slot[f] <= EpochStart(n) /\ EpochStart(n + 1) <= Slot[r]
    BY <1>3, EpochAssumption
  <2>2. ensureRootNotZeros(f) = f /\ Slot[f] \in Nat
    BY <2>1, ConstantsAssumption, BlocksAssumption DEF ensureRootNotZeros
  <2>3. n \in Nat
    BY <1>1
  <2> HIDE DEF n, f
  <2>4. EpochStart(n + 1) = EpochStart(n) + SlotsPerEpoch /\ EpochStart(n) \in Nat
    BY <1>1, <2>3 DEF EpochStart
  <2>5. Slot[f] + 2 < currentSlot
    BY <1>1, <1>3, <2>1, <2>2, <2>4
  <2> QED
    BY <2>2, <2>5 DEF f
<1> QED
  BY <1>2, <1>3 DEF Distant

\* Types of both states.
LEMMA HTyped ==
    ASSUME SInv
    PROVE  /\ currentSlot \in Nat /\ finalizedCheckpoint \in Checkpoints
           /\ dbFinalized \in Checkpoints /\ lastValidated \in Checkpoints
           /\ head.slot \in Nat /\ work \in Works /\ \A call \in calls : call.root \in Roots
           /\ nodeByRoot \in SUBSET Roots /\ dropped \in SUBSET Roots
BY DEF SInv, IInv, TypeOK, DataOK, WorkOK

\* The head stays as it is.
LEMMA HeadKept ==
    ASSUME HInv, SInv', Aged, head' = head
    PROVE  HeadOK'
<1>1. currentSlot \in Nat /\ currentSlot' \in Nat /\ head.slot \in Nat
  BY HTyped DEF HInv, SInv, IInv, TypeOK
<1> QED
  BY <1>1 DEF HInv, HeadOK, Aged, Known

\* What is on disk stays as it is.
LEMMA FinalKept ==
    ASSUME HInv, SInv', Aged, UNCHANGED <<dbFinalized, lastValidated>>,
           \/ finalizedCheckpoint' = finalizedCheckpoint
           \/ \E fc \in Checkpoints : finalizedCheckpoint' = fc /\ Distant(fc)
    PROVE  FinalOK'
<1>1. /\ currentSlot \in Nat /\ currentSlot' \in Nat
      /\ finalizedCheckpoint \in Checkpoints /\ dbFinalized \in Checkpoints
  BY HTyped DEF HInv, SInv, IInv, TypeOK
<1>2. currentSlot <= currentSlot'
  BY DEF Aged
<1>3. \A cp \in Checkpoints : Distant(cp) =>
         (cp.epoch > StartFinalized.epoch =>
             Slot[ensureRootNotZeros(cp.root)] + 2 < currentSlot')
  BY <1>1, <1>2, DistantKept, Zenon
<1>4. Distant(finalizedCheckpoint)'
  BY <1>1, <1>3 DEF HInv, FinalOK, Distant, ensureRootNotZeros
<1>5. Distant(dbFinalized)'
  BY <1>1, <1>3 DEF HInv, FinalOK, Distant, ensureRootNotZeros
<1> QED
  BY <1>4, <1>5 DEF HInv, FinalOK

\* The calls that wait are the old ones or fewer.
LEMMA CallsKept ==
    ASSUME HInv, SInv', Aged, \A call \in calls' : call \in calls
    PROVE  \A call \in calls' : Slot[call.root] <= currentSlot'
<1>1. currentSlot \in Nat /\ currentSlot' \in Nat /\ \A call \in calls : call.root \in Roots
  BY HTyped DEF HInv, SInv, IInv, TypeOK
<1>2. \A call \in calls : Slot[call.root] <= currentSlot /\ Slot[call.root] \in Nat
  BY <1>1, BlocksAssumption DEF HInv, TaskOK
<1> QED
  BY <1>1, <1>2 DEF Aged

\* The lock is free.
LEMMA TaskIdle ==
    ASSUME work' = Idle, \A call \in calls' : Slot[call.root] <= currentSlot'
    PROVE  TaskOK'
BY DEF TaskOK, Idle

\* The task goes on with the same block and batch.
LEMMA TaskLater ==
    ASSUME HInv, SInv', Aged, \A call \in calls' : call \in calls,
           work'.task = work.task, work'.root = work.root, work'.batch = work.batch,
           work'.valid = work.valid, work'.failed = work.failed,
           work'.step \in {"fcu", "save"} => work'.fcuRoot \in Known',
           work'.step = "attestations" => work.task = "updateHead",
           work.task = "import" /\ work'.step \notin {"state", "insert"} => work.root \in Known',
           work.task = "batch" =>
               \/ work'.step = work.step
               \/ work.step = "fcu" /\ work'.step = "save"
               \/ work.failed /\ work'.step \in {"refetch", "fcu", "save"}
               \/ work'.step \in {"payload", "locked", "head", "finality"}
    PROVE  TaskOK'
<1>1. \A call \in calls' : Slot[call.root] <= currentSlot'
  BY CallsKept
<1>2. currentSlot \in Nat /\ currentSlot' \in Nat /\ currentSlot <= currentSlot'
  BY HTyped DEF HInv, SInv, IInv, TypeOK, Aged
<1>3. work.task = "import" => Slot[work.root] \in Nat /\ Slot[work.root] <= currentSlot
  BY BlocksAssumption DEF HInv, SInv, WorkOK, ImportOK, TaskOK
<1>4. work.task = "batch" => \A z \in work.batch : Slot[z] \in Nat /\ Slot[z] <= currentSlot
  BY BlocksAssumption, BatchFacts DEF HInv, SInv, WorkOK, BatchOK, TaskOK
<1>5. work.task = "import" => Slot[work.root] <= currentSlot'
  BY <1>2, <1>3
<1>6. work.task = "batch" => \A z \in work.batch : Slot[z] <= currentSlot'
  BY <1>2, <1>4
<1> QED
  BY <1>1, <1>5, <1>6 DEF HInv, TaskOK, Aged, Known

\* A step that keeps the saved head and what is on disk about finality, and inserts nothing.
Calm ==
    /\ Aged /\ finalizedCheckpoint' = finalizedCheckpoint
    /\ UNCHANGED <<head, dbFinalized, lastValidated>>
    /\ \A call \in calls' : call \in calls

LEMMA CalmKeeps ==
    ASSUME HInv, SInv', Calm
    PROVE  HeadOK' /\ FinalOK' /\ (work' = Idle => TaskOK')
<1>1. /\ Aged /\ head' = head /\ finalizedCheckpoint' = finalizedCheckpoint
      /\ UNCHANGED <<dbFinalized, lastValidated>>
      /\ \A call \in calls' : call \in calls
  BY DEF Calm
<1>2. HeadOK'
  BY <1>1, HeadKept
<1>3. FinalOK'
  BY <1>1, FinalKept
<1>4. \A call \in calls' : Slot[call.root] <= currentSlot'
  BY <1>1, CallsKept
<1> QED
  BY <1>2, <1>3, <1>4, TaskIdle

\* A new call: its block is not from the future.
LEMMA ReceiveCallHead ==
    ASSUME HInv, SInv', NEW id, NEW r \in Roots, ReceiveCall(id, r)
    PROVE  HeadOK' /\ TaskOK' /\ FinalOK'
<1>1. /\ work' = Idle /\ UNCHANGED vars /\ Slot[r] <= currentSlot
      /\ UNCHANGED <<head, dbFinalized, lastValidated>>
      /\ calls' = calls \cup {[id |-> id, root |-> r, justified |-> justifiedCheckpoint.epoch,
                               finalized |-> finalizedCheckpoint.epoch]}
  BY DEF ReceiveCall, getBlockPreState, dbCheckpoints
<1>2. Aged /\ finalizedCheckpoint' = finalizedCheckpoint
  BY <1>1, QuietAged DEF HInv, SInv
<1>3. currentSlot' = currentSlot
  BY <1>1 DEF vars, environment
<1>4. \A call \in calls' : Slot[call.root] <= currentSlot'
  BY <1>1, <1>3 DEF HInv, TaskOK
<1> QED
  BY <1>1, <1>2, <1>4, HeadKept, FinalKept, TaskIdle

\* The steps that leave the lock free, or find it free and leave it so.
LEMMA IdleHead ==
    ASSUME HInv, SInv',
           \/ \E call \in calls : \/ ImportRefused(call)
                                  \/ \E lastValidHash : pruneInvalidBlock(call, lastValidHash)
           \/ RoutineNewSlot
           \/ BatchError
    PROVE  HeadOK' /\ TaskOK' /\ FinalOK'
<1>1. CASE \E call \in calls : ImportRefused(call)
  <2>1. PICK call \in calls : ImportRefused(call)
    BY <1>1
  <2>2. /\ calls' = calls \ {call} /\ UNCHANGED vars /\ work' = work
        /\ UNCHANGED <<head, dbFinalized, lastValidated>>
    BY <2>1 DEF ImportRefused, disk, dbCheckpoints
  <2>3. Aged /\ finalizedCheckpoint' = finalizedCheckpoint
    BY <2>2, QuietAged DEF HInv, SInv
  <2>4. Calm
    BY <2>2, <2>3 DEF Calm
  <2>5. TaskOK'
    <3>1. UNCHANGED <<nodeByRoot, dropped, optimistic, currentSlot>>
      BY <2>2 DEF vars, tree, environment
    <3> QED
      BY <2>2, <3>1 DEF HInv, TaskOK, Known
  <2> QED
    BY <2>4, <2>5, CalmKeeps
<1>2. ASSUME NEW call \in calls, NEW lastValidHash, pruneInvalidBlock(call, lastValidHash)
      PROVE  HeadOK' /\ TaskOK' /\ FinalOK'
  <2>1. /\ SetOptimisticToInvalid(call.root, lastValidHash) /\ work' = Idle
        /\ calls' = calls \ {call} /\ UNCHANGED <<head, dbFinalized, lastValidated>>
    BY <1>2 DEF pruneInvalidBlock, removeInvalidBlockAndState, dbCheckpoints
  <2>2. Aged /\ finalizedCheckpoint' = finalizedCheckpoint
    BY <2>1, QuietAged DEF HInv, SInv
  <2>3. Calm
    BY <2>1, <2>2 DEF Calm
  <2> QED
    BY <2>1, <2>3, CalmKeeps
<1>3. CASE RoutineNewSlot
  <2>1. work' = Idle /\ NewSlot /\ UNCHANGED <<calls, head, dbFinalized, lastValidated>>
    BY <1>3 DEF RoutineNewSlot, service, disk, dbCheckpoints
  <2>2. Aged /\ finalizedCheckpoint' = finalizedCheckpoint
    BY <2>1, QuietAged DEF HInv, SInv
  <2>3. Calm
    BY <2>1, <2>2 DEF Calm
  <2> QED
    BY <2>1, <2>3, CalmKeeps
<1>4. CASE BatchError
  <2>1. work' = Idle /\ UNCHANGED vars /\ UNCHANGED <<calls, head, dbFinalized, lastValidated>>
    BY <1>4 DEF BatchError, disk, dbCheckpoints
  <2>2. Aged /\ finalizedCheckpoint' = finalizedCheckpoint
    BY <2>1, QuietAged DEF HInv, SInv
  <2>3. Calm
    BY <2>1, <2>2 DEF Calm
  <2> QED
    BY <2>1, <2>3, CalmKeeps
<1> QED
  BY <1>1, <1>2, <1>3, <1>4

\* The lock is taken.
LEMMA TakeLockHead ==
    ASSUME HInv, SInv',
           \/ \E call \in calls : savePostStateInfo(call)
           \/ UpdateHead
           \/ \E S \in Batches : StartBatch(S)
    PROVE  HeadOK' /\ TaskOK' /\ FinalOK'
<1>1. UNCHANGED vars /\ UNCHANGED <<head, dbFinalized, lastValidated>> /\ calls' \subseteq calls
  BY DEF savePostStateInfo, UpdateHead, StartBatch, disk, dbCheckpoints
<1>2. Aged /\ finalizedCheckpoint' = finalizedCheckpoint
  BY <1>1, QuietAged DEF HInv, SInv
<1>3. Calm
  BY <1>1, <1>2 DEF Calm
<1>4. \A call \in calls' : Slot[call.root] <= currentSlot'
  BY <1>1, <1>2, CallsKept
<1>5. currentSlot' = currentSlot
  BY <1>1 DEF vars, environment
<1>6. ASSUME NEW call \in calls, savePostStateInfo(call) PROVE TaskOK'
  <2>1. /\ work' = [Idle EXCEPT !.task = "import", !.step = "state", !.root = call.root,
                                !.epochs = [justified |-> call.justified,
                                            finalized |-> call.finalized]]
        /\ Slot[call.root] <= currentSlot
    BY <1>6 DEF savePostStateInfo, HInv, TaskOK
  <2>2. work'.task = "import" /\ work'.step = "state" /\ work'.root = call.root
    BY <2>1 DEF Idle
  <2> QED
    BY <1>4, <1>5, <2>1, <2>2 DEF TaskOK
<1>7. ASSUME UpdateHead PROVE TaskOK'
  <2>1. work'.task = "updateHead" /\ work'.step = "attestations"
    BY <1>7 DEF UpdateHead, Idle
  <2> QED
    BY <1>4, <2>1 DEF TaskOK
<1>8. ASSUME NEW S \in Batches, StartBatch(S) PROVE TaskOK'
  <2> DEFINE o == oldest(S)
  <2>1. /\ Slot[newest(S)] <= currentSlot
        /\ \/ work' = Idle
           \/ \E fill : work' = [Idle EXCEPT !.task = "batch", !.step = "fill", !.root = o,
                                             !.batch = S, !.inserts = fill]
    BY <1>8, Zenon DEF StartBatch
  <2> HIDE DEF o
  <2>2. CASE work' = Idle
    BY <1>4, <2>2, TaskIdle
  <2>3. ASSUME NEW fill, work' = [Idle EXCEPT !.task = "batch", !.step = "fill", !.root = o,
                                              !.batch = S, !.inserts = fill]
        PROVE  TaskOK'
    <3>1. work'.task = "batch" /\ work'.step = "fill" /\ work'.batch = S
      BY <2>3 DEF Idle
    <3>2. S \in SUBSET Roots /\ S # {}
      BY BatchFacts, Zenon
    <3>3. newest(S) \in S /\ \A z \in S : Slot[z] <= Slot[newest(S)]
      BY <3>2, NewestIsGreatest
    <3>4. \A z \in S : Slot[z] \in Nat
      BY <3>2, BlocksAssumption
    <3>5. currentSlot \in Nat
      BY HTyped DEF HInv
    <3>6. Slot[newest(S)] \in Nat /\ Slot[newest(S)] <= currentSlot
      BY <2>1, <3>3, <3>4
    <3>7. \A z \in S : Slot[z] <= currentSlot
      BY <3>3, <3>4, <3>5, <3>6
    <3> QED
      BY <1>4, <1>5, <3>1, <3>7 DEF TaskOK
  <2> QED
    BY <2>1, <2>2, <2>3
<1> QED
  BY <1>3, <1>6, <1>7, <1>8, CalmKeeps

\* The steps of an import or of the routine that neither insert nor save.
LEMMA LateHead ==
    ASSUME HInv, SInv',
           \/ SaveState \/ ImportVerdict \/ ImportHead \/ FCUAccepted \/ BatchInvalid
           \/ \E v \in work.votes : ImportVote(v) \/ processAttestations(v)
    PROVE  HeadOK' /\ TaskOK' /\ FinalOK'
<1>1. /\ UNCHANGED <<head, calls, dbFinalized, lastValidated>>
      /\ \/ UNCHANGED vars
         \/ Head
         \/ \E indices, r, s : ProcessAttestation(indices, r, s)
         \/ \E r : SetOptimisticToValid(r)
  BY DEF SaveState, ImportVerdict, ImportHead, FCUAccepted, BatchInvalid, ImportVote,
         processAttestations, OnAttestation, disk, dbCheckpoints
<1>2. Aged /\ finalizedCheckpoint' = finalizedCheckpoint
  BY <1>1, QuietAged DEF HInv, SInv
<1>3. Calm
  BY <1>1, <1>2 DEF Calm
<1>4. work \in Works
  BY HTyped DEF HInv
<1>5. \/ work.step = "state" /\ work' = [work EXCEPT !.step = "insert"]
      \/ work.step = "votes" /\ work' = [work EXCEPT !.step = "head"]
      \/ work.task = "import" /\ work.step = "head" /\ work' = [work EXCEPT !.step = "finality"]
      \/ /\ work.task = "import" /\ work.step = "head"
         /\ work' = [work EXCEPT !.step = "fcu", !.fcuRoot = work.root]
      \/ work.step = "fcu" /\ work' = [work EXCEPT !.step = "save"]
      \/ work.step = "payload" /\ work' = [work EXCEPT !.step = "locked"]
      \/ /\ work.step \in {"votes", "attestations"}
         /\ \E v : work' = [work EXCEPT !.votes = @ \ {v}]
  BY DEF SaveState, ImportVerdict, ImportHead, FCUAccepted, BatchInvalid, ImportVote,
         processAttestations
<1>6. /\ work'.task = work.task /\ work'.root = work.root /\ work'.batch = work.batch
      /\ work'.valid = work.valid /\ work'.failed = work.failed
      /\ \/ work.step = "state" /\ work'.step = "insert" /\ work'.fcuRoot = work.fcuRoot
         \/ work.step = "votes" /\ work'.step = "head" /\ work'.fcuRoot = work.fcuRoot
         \/ work.task = "import" /\ work.step = "head" /\ work'.step = "finality"
         \/ /\ work.task = "import" /\ work.step = "head"
            /\ work'.step = "fcu" /\ work'.fcuRoot = work.root
         \/ work.step = "fcu" /\ work'.step = "save" /\ work'.fcuRoot = work.fcuRoot
         \/ work.step = "payload" /\ work'.step = "locked"
         \/ work.step \in {"votes", "attestations"} /\ work'.step = work.step
  <2>1. CASE work.step = "state" /\ work' = [work EXCEPT !.step = "insert"]
    BY <1>4, <2>1 DEF Works
  <2>2. CASE work.step = "votes" /\ work' = [work EXCEPT !.step = "head"]
    BY <1>4, <2>2 DEF Works
  <2>3. CASE /\ work.task = "import" /\ work.step = "head"
             /\ \/ work' = [work EXCEPT !.step = "finality"]
                \/ work' = [work EXCEPT !.step = "fcu", !.fcuRoot = work.root]
    BY <1>4, <2>3 DEF Works
  <2>4. CASE work.step = "fcu" /\ work' = [work EXCEPT !.step = "save"]
    BY <1>4, <2>4 DEF Works
  <2>5. CASE work.step = "payload" /\ work' = [work EXCEPT !.step = "locked"]
    BY <1>4, <2>5 DEF Works
  <2>6. ASSUME work.step \in {"votes", "attestations"},
               NEW v, work' = [work EXCEPT !.votes = @ \ {v}]
        PROVE  /\ work'.task = work.task /\ work'.root = work.root /\ work'.batch = work.batch
               /\ work'.valid = work.valid /\ work'.failed = work.failed
               /\ work'.step = work.step
    BY <1>4, <2>6 DEF Works
  <2> QED
    BY <1>5, <2>1, <2>2, <2>3, <2>4, <2>5, <2>6
<1>7. /\ work.step = "state" => work.task = "import"
      /\ work.step = "payload" => work.task = "batch"
  BY DEF HInv, SInv, WorkOK, StepOK
<1>8. Known \subseteq Known'
  BY <1>2 DEF Aged
<1>9. TaskOK
  BY DEF HInv
<1>10. /\ work'.step \in {"fcu", "save"} => work'.fcuRoot \in Known'
       /\ work'.step = "attestations" => work.task = "updateHead"
       /\ work.task = "import" /\ work'.step \notin {"state", "insert"} => work.root \in Known'
       /\ work.task = "batch" =>
             \/ work'.step = work.step
             \/ work.step = "fcu" /\ work'.step = "save"
             \/ work'.step \in {"locked", "head"}
  BY <1>6, <1>7, <1>8, <1>9 DEF TaskOK
<1>11. TaskOK'
  BY <1>1, <1>2, <1>6, <1>10, TaskLater
<1> QED
  BY <1>3, <1>11, CalmKeeps

\* The clock, a vote for the pool, and steps of other parts: the task stays where it is.
LEMMA WaitHead ==
    ASSUME HInv, SInv', Tick \/ UNCHANGED vars,
           UNCHANGED <<work, head, calls, dbFinalized, lastValidated>>
    PROVE  HeadOK' /\ TaskOK' /\ FinalOK'
<1>1. Aged /\ finalizedCheckpoint' = finalizedCheckpoint
  BY QuietAged DEF HInv, SInv
<1>2. Calm
  BY <1>1 DEF Calm
<1>3. Known \subseteq Known' /\ TaskOK
  BY <1>1 DEF Aged, HInv
<1>4. /\ work'.step \in {"fcu", "save"} => work'.fcuRoot \in Known'
      /\ work'.step = "attestations" => work.task = "updateHead"
      /\ work.task = "import" /\ work'.step \notin {"state", "insert"} => work.root \in Known'
  BY <1>3 DEF TaskOK
<1>5. TaskOK'
  BY <1>1, <1>4, TaskLater
<1> QED
  BY <1>2, <1>5, CalmKeeps

\* What an insertion leaves of the invariant, when its finalized checkpoint is distant.
LEMMA InsertHead ==
    ASSUME HInv, SInv', NEW r \in Roots, NEW jc, NEW fc \in Checkpoints, Distant(fc),
           InsertSucceeds(r, jc, fc) \/ InsertFails(r, jc, fc),
           UNCHANGED <<head, calls, dbFinalized, lastValidated>>
    PROVE  Aged /\ r \in Known' /\ HeadOK' /\ FinalOK' /\ (work' = Idle => TaskOK')
<1>1. /\ Aged /\ r \in Known'
      /\ finalizedCheckpoint' = finalizedCheckpoint \/ finalizedCheckpoint' = fc
  BY InsertAged DEF HInv, SInv
<1>2. HeadOK'
  BY <1>1, HeadKept
<1>3. FinalOK'
  BY <1>1, FinalKept
<1>4. \A call \in calls' : Slot[call.root] <= currentSlot'
  BY <1>1, CallsKept
<1> QED
  BY <1>1, <1>2, <1>3, <1>4, TaskIdle

LEMMA ImportInsertHead ==
    ASSUME HInv, SInv', ImportInsert
    PROVE  HeadOK' /\ TaskOK' /\ FinalOK'
<1> DEFINE r == work.root
<1>1. /\ work.task = "import" /\ work.step = "insert"
      /\ UNCHANGED <<head, calls, dbFinalized, lastValidated>>
      /\ InsertSucceeds(r, JC[r], FC[r]) \/ InsertFails(r, JC[r], FC[r])
      /\ work' = [work EXCEPT !.step = "votes", !.votes = BlockVotes[r]] \/ work' = Idle
  BY DEF ImportInsert, disk, dbCheckpoints
<1>2. r \in Roots /\ Slot[r] <= currentSlot /\ work \in Works /\ currentSlot \in Nat
  BY <1>1, HTyped DEF HInv, SInv, WorkOK, ImportOK, TaskOK
<1> HIDE DEF r
<1>3. FC[r] \in Checkpoints /\ Distant(FC[r])
  BY <1>2, BlockCheckpoints, NamedDistant
<1>4. Aged /\ r \in Known' /\ HeadOK' /\ FinalOK' /\ (work' = Idle => TaskOK')
  BY <1>1, <1>2, <1>3, InsertHead
<1>5. ASSUME work' = [work EXCEPT !.step = "votes", !.votes = BlockVotes[r]] PROVE TaskOK'
  <2>1. /\ work'.task = work.task /\ work'.root = work.root /\ work'.batch = work.batch
        /\ work'.valid = work.valid /\ work'.failed = work.failed /\ work'.step = "votes"
    BY <1>2, <1>5 DEF Works
  <2> QED
    BY <1>1, <1>4, <2>1, TaskLater DEF r
<1> QED
  BY <1>1, <1>4, <1>5

\* The facts of a batch import: its blocks are not from the future.
LEMMA BatchPast ==
    ASSUME HInv, work.task = "batch"
    PROVE  /\ work \in Works /\ work.batch \in SUBSET Roots /\ work.batch # {}
           /\ work.batch \in Batches /\ work.root \in work.batch
           /\ currentSlot \in Nat
           /\ \A z \in work.batch : Slot[z] \in Nat /\ Slot[z] <= currentSlot
<1>1. work \in Works /\ work.batch \in Batches /\ work.root \in work.batch
  BY DEF HInv, SInv, WorkOK, BatchOK
<1>2. work.batch \in SUBSET Roots /\ work.batch # {}
  BY <1>1, BatchFacts, Zenon
<1>3. \A z \in work.batch : Slot[z] \in Nat
  BY <1>2, BlocksAssumption
<1>4. currentSlot \in Nat
  BY HTyped DEF HInv
<1>5. \A z \in work.batch : Slot[z] <= currentSlot
  BY DEF HInv, TaskOK
<1> QED
  BY <1>1, <1>2, <1>3, <1>4, <1>5

\* The missing blocks: the checkpoint of the parent is distant, for the batch is later.
LEMMA BatchFillHead ==
    ASSUME HInv, SInv', BatchFill
    PROVE  HeadOK' /\ TaskOK' /\ FinalOK'
<1> DEFINE r == oldest(work.inserts)
           o == oldest(work.batch)
           p == ParentRoot[o]
<1>1. /\ work.step = "fill" /\ UNCHANGED <<head, calls, dbFinalized, lastValidated>>
      /\ \/ UNCHANGED vars /\ work' = [work EXCEPT !.step = "payload"]
         \/ /\ work.inserts # {}
            /\ InsertSucceeds(r, FC[p], JC[p]) \/ InsertFails(r, FC[p], JC[p])
            /\ work' = [work EXCEPT !.inserts = @ \ {r}] \/ work' = Idle
  <2>1. fillCheckpoints(p).justified = FC[p] /\ fillCheckpoints(p).finalized = JC[p]
    BY DEF fillCheckpoints
  <2> QED
    BY <2>1 DEF BatchFill, disk, dbCheckpoints
<1>2. work.task = "batch" /\ work.root = o /\ p \in Roots /\ work.inserts \in SUBSET Roots
  BY <1>1 DEF HInv, SInv, WorkOK, StepOK, BatchOK, Works
<1>3. o \in work.batch /\ o \in Roots
  BY <1>2, BatchPast
<1> HIDE DEF r, o
<1>4. Slot[p] < Slot[o] /\ Slot[p] \in Nat
  BY <1>2, <1>3, BlocksAssumption, ConstantsAssumption
<1>5. Slot[o] \in Nat /\ Slot[o] <= currentSlot /\ currentSlot \in Nat /\ work \in Works
  BY <1>2, <1>3, BatchPast
<1>6. JC[p] \in Checkpoints /\ Distant(JC[p])
  BY <1>2, <1>4, <1>5, BlockCheckpoints, NamedDistant
<1> HIDE DEF p
<1>7. ASSUME UNCHANGED vars, work' = [work EXCEPT !.step = "payload"]
      PROVE  HeadOK' /\ TaskOK' /\ FinalOK'
  <2>1. Aged /\ finalizedCheckpoint' = finalizedCheckpoint
    BY <1>7, QuietAged DEF HInv, SInv
  <2>2. Calm
    BY <1>1, <2>1 DEF Calm
  <2>3. /\ work'.task = work.task /\ work'.root = work.root /\ work'.batch = work.batch
        /\ work'.valid = work.valid /\ work'.failed = work.failed /\ work'.step = "payload"
    BY <1>5, <1>7 DEF Works
  <2>4. TaskOK'
    BY <1>1, <1>2, <2>1, <2>3, TaskLater
  <2> QED
    BY <2>2, <2>4, CalmKeeps
<1>8. ASSUME work.inserts # {}, InsertSucceeds(r, FC[p], JC[p]) \/ InsertFails(r, FC[p], JC[p]),
             work' = [work EXCEPT !.inserts = @ \ {r}] \/ work' = Idle
      PROVE  HeadOK' /\ TaskOK' /\ FinalOK'
  <2>1. r \in Roots
    BY <1>2, <1>8, OldestIsLeast DEF r
  <2>2. Aged /\ HeadOK' /\ FinalOK' /\ (work' = Idle => TaskOK')
    BY <1>1, <1>6, <1>8, <2>1, InsertHead
  <2>3. ASSUME work' = [work EXCEPT !.inserts = @ \ {r}] PROVE TaskOK'
    <3>1. /\ work'.task = work.task /\ work'.root = work.root /\ work'.batch = work.batch
          /\ work'.valid = work.valid /\ work'.failed = work.failed /\ work'.step = "fill"
      BY <1>1, <1>5, <2>3 DEF Works
    <3> QED
      BY <1>1, <1>2, <2>2, <3>1, TaskLater
  <2> QED
    BY <1>8, <2>2, <2>3
<1> QED
  BY <1>1, <1>7, <1>8

\* The blocks of the batch; after the last one its verdict follows.
LEMMA BatchInsertHead ==
    ASSUME HInv, SInv', BatchInsert
    PROVE  HeadOK' /\ TaskOK' /\ FinalOK'
<1> DEFINE r == oldest(work.inserts)
           after == IF r = newest(work.batch) THEN "verdict" ELSE "insert"
<1>1. /\ work.task = "batch" /\ work.step = "insert"
      /\ UNCHANGED <<head, calls, dbFinalized, lastValidated>>
      /\ InsertSucceeds(r, JC[r], FC[r]) \/ InsertFails(r, JC[r], FC[r])
      /\ work' = [work EXCEPT !.inserts = @ \ {r}, !.step = after] \/ work' = Idle
  BY DEF BatchInsert, disk, dbCheckpoints
<1>2. work.inserts \subseteq work.batch /\ newest(work.batch) \in work.inserts
  BY <1>1 DEF HInv, SInv, WorkOK, BatchOK
<1>3. /\ work \in Works /\ work.batch \in SUBSET Roots /\ currentSlot \in Nat
      /\ \A z \in work.batch : Slot[z] \in Nat /\ Slot[z] <= currentSlot
  BY <1>1, BatchPast
<1>4. r \in work.inserts
  BY <1>2, <1>3, OldestIsLeast
<1> HIDE DEF r
<1>5. r \in Roots /\ Slot[r] <= currentSlot
  BY <1>2, <1>3, <1>4
<1>6. FC[r] \in Checkpoints /\ Distant(FC[r])
  BY <1>3, <1>5, BlockCheckpoints, NamedDistant
<1>7. Aged /\ r \in Known' /\ HeadOK' /\ FinalOK' /\ (work' = Idle => TaskOK')
  BY <1>1, <1>5, <1>6, InsertHead
<1>8. ASSUME work' = [work EXCEPT !.inserts = @ \ {r}, !.step = after] PROVE TaskOK'
  <2>1. /\ work'.task = work.task /\ work'.root = work.root /\ work'.batch = work.batch
        /\ work'.valid = work.valid /\ work'.failed = work.failed /\ work'.step = after
    BY <1>3, <1>8 DEF Works
  <2>2. CASE r = newest(work.batch)
    <3>1. work'.step = "verdict" /\ work.root = r
      BY <1>1, <2>1, <2>2 DEF HInv, TaskOK
    <3>2. \A call \in calls' : Slot[call.root] <= currentSlot'
      BY <1>1, <1>7, CallsKept
    <3>3. currentSlot' \in Nat /\ currentSlot <= currentSlot'
      BY <1>7, HTyped DEF SInv, IInv, TypeOK, Aged
    <3>4. \A z \in work.batch : Slot[z] <= currentSlot'
      BY <1>3, <3>3
    <3> QED
      BY <1>1, <1>7, <2>1, <2>2, <3>1, <3>2, <3>4 DEF TaskOK, Known
  <2>3. CASE r # newest(work.batch)
    BY <1>1, <1>7, <2>1, <2>3, TaskLater
  <2> QED
    BY <2>2, <2>3
<1> QED
  BY <1>1, <1>7, <1>8

\* INVALID for the head: the task fails, or goes on with the head it has.
LEMMA FCUInvalidHead ==
    ASSUME HInv, SInv', NEW lastValidHash, FCUInvalid(lastValidHash)
    PROVE  HeadOK' /\ TaskOK' /\ FinalOK'
<1>1. /\ work.step = "fcu" /\ UNCHANGED <<head, calls, dbFinalized, lastValidated>>
      /\ UNCHANGED vars \/ SetOptimisticToInvalid(work.fcuRoot, lastValidHash)
      /\ \/ work' = [work EXCEPT !.step = "refetch", !.failed = TRUE]
         \/ work' = [work EXCEPT !.step = "save"]
  BY DEF FCUInvalid, removeInvalidBlockAndState, disk, dbCheckpoints
<1>2. Aged /\ finalizedCheckpoint' = finalizedCheckpoint
  BY <1>1, QuietAged DEF HInv, SInv
<1>3. Calm
  BY <1>1, <1>2 DEF Calm
<1>4. work \in Works
  BY HTyped DEF HInv
<1>5. Known \subseteq Known' /\ TaskOK
  BY <1>2 DEF Aged, HInv
<1>6. ASSUME work' = [work EXCEPT !.step = "save"] PROVE TaskOK'
  <2>1. /\ work'.task = work.task /\ work'.root = work.root /\ work'.batch = work.batch
        /\ work'.valid = work.valid /\ work'.failed = work.failed /\ work'.step = "save"
        /\ work'.fcuRoot = work.fcuRoot
    BY <1>4, <1>6 DEF Works
  <2>2. /\ work.fcuRoot \in Known'
        /\ work.task = "import" => work.root \in Known'
    BY <1>1, <1>5 DEF TaskOK
  <2> QED
    BY <1>1, <1>2, <2>1, <2>2, TaskLater
<1>7. ASSUME work' = [work EXCEPT !.step = "refetch", !.failed = TRUE] PROVE TaskOK'
  <2>1. /\ work'.task = work.task /\ work'.root = work.root /\ work'.batch = work.batch
        /\ work'.failed = TRUE /\ work'.step = "refetch"
    BY <1>4, <1>7 DEF Works
  <2>2. \A call \in calls' : Slot[call.root] <= currentSlot'
    BY <1>1, <1>2, CallsKept
  <2>3. currentSlot \in Nat /\ currentSlot' \in Nat /\ currentSlot <= currentSlot'
    BY <1>2, HTyped DEF HInv, SInv, IInv, TypeOK, Aged
  <2>4. work.task = "import" => Slot[work.root] <= currentSlot' /\ work.root \in Known'
    <3>1. work.task = "import" =>
             work.root \in Roots /\ Slot[work.root] <= currentSlot /\ work.root \in Known
      BY <1>1, <1>5 DEF HInv, SInv, WorkOK, ImportOK, TaskOK
    <3> QED
      BY <1>5, <2>3, <3>1, BlocksAssumption
  <2>5. work.task = "batch" => \A z \in work.batch : Slot[z] <= currentSlot'
    BY <2>3, BatchPast
  <2> QED
    BY <2>1, <2>2, <2>4, <2>5 DEF TaskOK
<1> QED
  BY <1>1, <1>3, <1>6, <1>7, CalmKeeps

\* Fork choice picks the head: it has a node or had one.
LEMMA HeadFoundHead ==
    ASSUME HInv, SInv', FCUHead \/ UpdateHeadHead
    PROVE  HeadOK' /\ TaskOK' /\ FinalOK'
<1>1. /\ Head /\ UNCHANGED <<head, calls, dbFinalized, lastValidated>>
      /\ work.step = "refetch" \/ work.step = "attestations"
      /\ \/ work' = Idle
         \/ headNode' # NoNode /\ work' = [work EXCEPT !.step = "fcu", !.fcuRoot = headNode']
  BY DEF FCUHead, UpdateHeadHead, goesOn, dbCheckpoints
<1>2. Aged /\ finalizedCheckpoint' = finalizedCheckpoint
  BY <1>1, QuietAged DEF HInv, SInv
<1>3. Calm
  BY <1>1, <1>2 DEF Calm
<1>4. ASSUME headNode' # NoNode, work' = [work EXCEPT !.step = "fcu", !.fcuRoot = headNode']
      PROVE  TaskOK'
  <2>1. work \in Works /\ TaskOK
    BY HTyped DEF HInv
  <2>2. headNode' \in Known'
    BY <1>4 DEF SInv, IInv, VotesOK, Known
  <2>3. /\ work'.task = work.task /\ work'.root = work.root /\ work'.batch = work.batch
        /\ work'.valid = work.valid /\ work'.failed = work.failed /\ work'.step = "fcu"
        /\ work'.fcuRoot = headNode'
    BY <1>4, <2>1 DEF Works
  <2>4. /\ work.task = "import" => work.root \in Known'
        /\ work.task = "batch" => work.failed
    BY <1>1, <1>2, <2>1 DEF TaskOK, Aged
  <2> QED
    BY <1>1, <1>2, <2>2, <2>3, <2>4, TaskLater
<1> QED
  BY <1>1, <1>3, <1>4, CalmKeeps

\* What a step that leaves the store alone keeps.
LEMMA StoreStill ==
    ASSUME HInv, UNCHANGED vars
    PROVE  /\ Aged /\ currentSlot' = currentSlot /\ Known' = Known
           /\ nodeByRoot' = nodeByRoot /\ dropped' = dropped /\ optimistic' = optimistic
           /\ finalizedCheckpoint' = finalizedCheckpoint
<1>1. Aged
  BY QuietAged DEF HInv, SInv
<1> QED
  BY <1>1 DEF vars, tree, checkpoints, environment, Known

\* A head with the status of its node is right, whatever its slot.
LEMMA NewHeadOK ==
    ASSUME HInv, UNCHANGED vars, NEW r \in Known,
           head'.root = r, r \in nodeByRoot \ dropped /\ optimistic[r] => head'.optimistic
    PROVE  HeadOK'
BY StoreStill DEF HeadOK

\* saveHead takes the status from fork choice.
LEMMA FCUSaveHead ==
    ASSUME HInv, SInv', FCUSave
    PROVE  HeadOK' /\ TaskOK' /\ FinalOK'
<1> DEFINE r == work.fcuRoot
<1>1. /\ work.step = "save"
      /\ head' = head \/ head' = [root |-> r, slot |-> Slot[r], optimistic |-> IsOptimisticNode(r)]
      /\ \/ work.task = "import" /\ work' = [work EXCEPT !.step = "finality"]
         \/ work' = Idle
      /\ UNCHANGED vars /\ UNCHANGED <<calls, dbFinalized, lastValidated>>
  BY DEF FCUSave, saveHead, disk, dbCheckpoints
<1>2. Aged /\ finalizedCheckpoint' = finalizedCheckpoint /\ Known' = Known
  BY <1>1, StoreStill
<1>3. r \in Known /\ (work.task = "import" => work.root \in Known) /\ work \in Works
  BY <1>1, HTyped DEF HInv, TaskOK
<1>4. HeadOK'
  <2>1. CASE head' = head
    BY <1>2, <2>1, HeadKept
  <2>2. CASE head' = [root |-> r, slot |-> Slot[r], optimistic |-> IsOptimisticNode(r)]
    <3>1. r \in nodeByRoot \ dropped /\ optimistic[r] => IsOptimisticNode(r)
      BY Zenon DEF IsOptimisticNode
    <3>2. head'.root = r /\ head'.optimistic = IsOptimisticNode(r)
      BY <2>2
    <3> HIDE DEF r
    <3> QED
      BY <1>1, <1>3, <3>1, <3>2, NewHeadOK
  <2> QED
    BY <1>1, <2>1, <2>2
<1>5. FinalOK'
  BY <1>1, <1>2, FinalKept
<1>6. ASSUME work.task = "import", work' = [work EXCEPT !.step = "finality"] PROVE TaskOK'
  <2>1. /\ work'.task = work.task /\ work'.root = work.root /\ work'.batch = work.batch
        /\ work'.valid = work.valid /\ work'.failed = work.failed /\ work'.step = "finality"
    BY <1>3, <1>6 DEF Works
  <2> QED
    BY <1>1, <1>2, <1>3, <1>6, <2>1, TaskLater
<1>7. work' = Idle => TaskOK'
  BY <1>1, <1>2, CallsKept, TaskIdle
<1> QED
  BY <1>1, <1>4, <1>5, <1>6, <1>7

\* A finalized checkpoint that goes to disk is newer than the one there, and distant.
LEMMA FinalSaved ==
    ASSUME HInv, SInv', UNCHANGED vars, NEW cp \in Checkpoints, Distant(cp),
           updateFinalized(cp), dbFinalized' = cp
    PROVE  FinalOK'
<1>1. /\ dbFinalized \in Checkpoints /\ StartFinalized \in Checkpoints
      /\ finalizedCheckpoint \in Checkpoints
  BY HTyped, ConstantsAssumption DEF HInv
<1>2. dbFinalized.epoch >= StartFinalized.epoch
  BY <1>1 DEF HInv, FinalOK, Checkpoints
<1>3. cp.epoch > StartFinalized.epoch
  BY <1>1, <1>2 DEF updateFinalized, Checkpoints
<1>4. currentSlot' = currentSlot /\ finalizedCheckpoint' = finalizedCheckpoint
  BY StoreStill
<1> QED
  BY <1>3, <1>4 DEF HInv, FinalOK, Distant, ensureRootNotZeros

LEMMA ImportFinalityHead ==
    ASSUME HInv, SInv', ImportFinality
    PROVE  HeadOK' /\ TaskOK' /\ FinalOK'
<1>1. /\ work' = Idle /\ UNCHANGED vars /\ UNCHANGED <<head, calls>>
      /\ \/ UNCHANGED <<dbFinalized, lastValidated>>
         \/ updateFinalized(finalizedCheckpoint) /\ dbFinalized' = finalizedCheckpoint
  BY DEF ImportFinality, saveFinalized
<1>2. Aged /\ finalizedCheckpoint' = finalizedCheckpoint
  BY <1>1, StoreStill
<1>3. finalizedCheckpoint \in Checkpoints /\ Distant(finalizedCheckpoint)
  BY HTyped DEF HInv, FinalOK
<1>4. FinalOK'
  <2>1. CASE UNCHANGED <<dbFinalized, lastValidated>>
    BY <1>2, <2>1, FinalKept
  <2>2. CASE updateFinalized(finalizedCheckpoint) /\ dbFinalized' = finalizedCheckpoint
    BY <1>1, <1>3, <2>2, FinalSaved
  <2> QED
    BY <1>1, <2>1, <2>2
<1>5. HeadOK'
  BY <1>1, <1>2, HeadKept
<1>6. TaskOK'
  BY <1>1, <1>2, CallsKept, TaskIdle
<1> QED
  BY <1>4, <1>5, <1>6
\* The loop over the payloads: the finalized checkpoint of a block may go to disk; the last
\* block of the batch is the one the insertion ends with.
LEMMA BatchPayloadHead ==
    ASSUME HInv, SInv', NEW verdict, BatchPayload(verdict)
    PROVE  HeadOK' /\ TaskOK' /\ FinalOK'
<1> DEFINE r == work.root
           next == CHOOSE z \in work.batch : ParentRoot[z] = work.root
<1>1. /\ work.step = "payload" /\ UNCHANGED vars /\ UNCHANGED <<head, calls>>
      /\ \/ UNCHANGED <<dbFinalized, lastValidated>>
         \/ updateFinalized(FC[r]) /\ dbFinalized' = FC[r]
      /\ work' = [nextInBatch EXCEPT !.valid = (verdict = "VALID")]
  BY DEF BatchPayload, saveFinalized
<1>2. work.task = "batch"
  BY <1>1 DEF HInv, SInv, WorkOK, StepOK
<1>3. /\ work \in Works /\ work.batch \in SUBSET Roots /\ r \in work.batch
      /\ currentSlot \in Nat /\ \A z \in work.batch : Slot[z] <= currentSlot
  BY <1>2, BatchPast
<1>4. Aged /\ finalizedCheckpoint' = finalizedCheckpoint /\ currentSlot' = currentSlot
  BY <1>1, StoreStill
<1>5. FC[r] \in Checkpoints /\ Distant(FC[r])
  BY <1>3, BlockCheckpoints, NamedDistant
<1>6. FinalOK'
  <2> HIDE DEF r
  <2>1. CASE UNCHANGED <<dbFinalized, lastValidated>>
    BY <1>4, <2>1, FinalKept
  <2>2. CASE updateFinalized(FC[r]) /\ dbFinalized' = FC[r]
    BY <1>1, <1>5, <2>2, FinalSaved
  <2> QED
    BY <1>1, <2>1, <2>2
<1>7. HeadOK'
  BY <1>1, <1>4, HeadKept
<1>8. \A call \in calls' : Slot[call.root] <= currentSlot'
  BY <1>1, <1>4, CallsKept
<1>9. ASSUME r = newest(work.batch) PROVE TaskOK'
  <2>1. work' = [[work EXCEPT !.step = "insert", !.inserts = work.batch]
                     EXCEPT !.valid = (verdict = "VALID")]
    BY <1>1, <1>9, Zenon DEF nextInBatch
  <2>2. /\ work'.step = "insert" /\ work'.task = "batch" /\ work'.batch = work.batch
        /\ work'.root = r
    BY <1>2, <1>3, <2>1 DEF Works
  <2> QED
    BY <1>3, <1>4, <1>8, <1>9, <2>2 DEF TaskOK
<1>10. ASSUME r # newest(work.batch) PROVE TaskOK'
  <2>1. work' = [[work EXCEPT !.root = next] EXCEPT !.valid = (verdict = "VALID")]
    BY <1>1, <1>10, Zenon DEF nextInBatch
  <2> HIDE DEF next
  <2>2. work'.step = "payload" /\ work'.task = "batch" /\ work'.batch = work.batch
    BY <1>1, <1>2, <1>3, <2>1 DEF Works
  <2> QED
    BY <1>3, <1>4, <1>8, <2>2 DEF TaskOK
<1> QED
  BY <1>6, <1>7, <1>9, <1>10

\* The verdict of the last block: a valid payload is validated in fork choice.
LEMMA BatchVerdictHead ==
    ASSUME HInv, SInv', BatchVerdict
    PROVE  HeadOK' /\ TaskOK' /\ FinalOK'
<1>1. /\ work.step = "verdict" /\ UNCHANGED <<head, calls, dbFinalized, lastValidated>>
      /\ SetOptimisticToValid(work.root) \/ (~work.valid /\ UNCHANGED vars)
      /\ work' = [work EXCEPT !.step = "fcu", !.fcuRoot = work.root]
  BY DEF BatchVerdict, disk, dbCheckpoints
<1>2. work.task = "batch"
  BY <1>1 DEF HInv, SInv, WorkOK, StepOK
<1>3. /\ work \in Works /\ currentSlot \in Nat
      /\ \A z \in work.batch : Slot[z] \in Nat /\ Slot[z] <= currentSlot
  BY <1>2, BatchPast
<1>4. Aged /\ finalizedCheckpoint' = finalizedCheckpoint
  BY <1>1, QuietAged DEF HInv, SInv
<1>5. Calm
  BY <1>1, <1>4 DEF Calm
<1>6. /\ work'.task = "batch" /\ work'.step = "fcu" /\ work'.batch = work.batch
      /\ work'.root = work.root /\ work'.fcuRoot = work.root
      /\ work'.valid = work.valid /\ work'.failed = work.failed
  BY <1>1, <1>2, <1>3 DEF Works
<1>7. work.valid => ~optimistic'[work.root]
  BY <1>1, ValidIsValid DEF HInv, SInv
<1>8. \A call \in calls' : Slot[call.root] <= currentSlot'
  BY <1>1, <1>4, CallsKept
<1>9. currentSlot' \in Nat /\ currentSlot <= currentSlot' /\ Known \subseteq Known'
  BY <1>4, HTyped DEF SInv, IInv, TypeOK, Aged
<1>10. \A z \in work.batch : Slot[z] <= currentSlot'
  BY <1>3, <1>9
<1>11. work.root \in Known'
  <2>1. work.root \in Known
    BY <1>1, <1>2 DEF HInv, TaskOK
  <2> QED
    BY <1>9, <2>1
<1>12. TaskOK'
  BY <1>6, <1>7, <1>8, <1>10, <1>11 DEF TaskOK
<1> QED
  BY <1>5, <1>12, CalmKeeps

\* The last block of a batch becomes the head with the verdict of its payload.
LEMMA BatchSaveHead ==
    ASSUME HInv, SInv', BatchSave
    PROVE  HeadOK' /\ TaskOK' /\ FinalOK'
<1>1. /\ work.task = "batch" /\ work.step = "save" /\ ~work.failed
      /\ head' = head \/ head' = [root |-> work.root, slot |-> 0, optimistic |-> ~work.valid]
      /\ work' = Idle /\ UNCHANGED vars /\ UNCHANGED <<calls, dbFinalized, lastValidated>>
  BY DEF BatchSave, saveHeadNoDB, dbCheckpoints
<1>2. Aged /\ finalizedCheckpoint' = finalizedCheckpoint
  BY <1>1, StoreStill
<1>3. /\ work.root \in Known
      /\ work.valid /\ work.root \in nodeByRoot \ dropped => ~optimistic[work.root]
  BY <1>1 DEF HInv, TaskOK
<1>4. HeadOK'
  <2>1. CASE head' = head
    BY <1>2, <2>1, HeadKept
  <2>2. CASE head' = [root |-> work.root, slot |-> 0, optimistic |-> ~work.valid]
    <3>1. head'.root = work.root /\ (head'.optimistic <=> ~work.valid)
      BY <2>2
    <3> QED
      BY <1>1, <1>3, <3>1, NewHeadOK
  <2> QED
    BY <1>1, <2>1, <2>2
<1>5. FinalOK'
  BY <1>1, <1>2, FinalKept
<1>6. TaskOK'
  BY <1>1, <1>2, CallsKept, TaskIdle
<1> QED
  BY <1>4, <1>5, <1>6

\* The head of a start is taken as validated: it is, or it is too old to be trusted.
LEMMA RestartHead ==
    ASSUME HInv, Restart
    PROVE  HeadOK' /\ TaskOK' /\ FinalOK'
<1> DEFINE f == ensureRootNotZeros(dbFinalized.root)
           ok == dbFinalized.root = lastValidated.root
<1>1. /\ f \in blocksOnDisk /\ freshStore(f, dbJustified, dbFinalized, ok)
      /\ head' = [root |-> f, slot |-> Slot[f], optimistic |-> FALSE]
      /\ work' = Idle /\ calls' = {} /\ UNCHANGED <<dbFinalized, lastValidated>>
  BY DEF Restart, dbCheckpoints
<1>2. ~ok => Slot[f] + 2 < currentSlot
  BY DEF HInv, FinalOK, Distant
<1>3. f \in Roots
  BY <1>1 DEF HInv, SInv, DataOK
<1> HIDE DEF f, ok
<1>4. /\ nodeByRoot' = {f} /\ dropped' = {} /\ currentSlot' = currentSlot
      /\ finalizedCheckpoint' = dbFinalized /\ (optimistic'[f] => ~ok)
  BY <1>1, <1>3 DEF freshStore
<1>5. HeadOK'
  BY <1>1, <1>2, <1>4 DEF HeadOK, Known
<1>6. TaskOK'
  BY <1>1, TaskIdle
<1>7. FinalOK'
  BY <1>1, <1>4 DEF HInv, FinalOK, Distant, ensureRootNotZeros
<1> QED
  BY <1>5, <1>6, <1>7

\* The first start.
LEMMA ServiceInitHead == ServiceInit => HInv
<1> SUFFICES ASSUME ServiceInit PROVE HInv
  OBVIOUS
<1>1. SInv
  BY ServiceInitInv
<1>2. /\ nodeByRoot = {StartRoot} /\ dropped = {} /\ ~optimistic[StartRoot]
      /\ finalizedCheckpoint = StartFinalized
  BY ServiceAssumption, ConstantsAssumption DEF ServiceInit, Init
<1>3. HeadOK
  BY <1>2 DEF ServiceInit, HeadOK, Known
<1>4. TaskOK
  BY DEF ServiceInit, TaskOK, Idle
<1>5. FinalOK
  BY <1>2, ConstantsAssumption DEF ServiceInit, FinalOK, Distant, Checkpoints
<1> QED
  BY <1>1, <1>3, <1>4, <1>5 DEF HInv

\* Every step of the service keeps the status of the head right.
LEMMA ServiceStepHead == HInv /\ [ServiceNext]_serviceVars => HInv'
<1> SUFFICES ASSUME HInv, [ServiceNext]_serviceVars PROVE HInv'
  OBVIOUS
<1> DEFINE Rest == HeadOK /\ TaskOK /\ FinalOK
<1>0. SInv'
  BY ServiceStepInv DEF HInv
<1> SUFFICES Rest'
  BY <1>0 DEF HInv
<1>1. CASE LockHolder
  <2>1. CASE \/ SaveState \/ ImportVerdict \/ ImportHead \/ FCUAccepted \/ BatchInvalid
             \/ \E v \in work.votes : ImportVote(v) \/ processAttestations(v)
    BY <1>0, <2>1, LateHead
  <2>2. CASE ImportInsert
    BY <1>0, <2>2, ImportInsertHead
  <2>3. CASE ImportFinality
    BY <1>0, <2>3, ImportFinalityHead
  <2>4. CASE UpdateHeadHead \/ FCUHead
    BY <1>0, <2>4, HeadFoundHead
  <2>5. CASE FCUSave
    BY <1>0, <2>5, FCUSaveHead
  <2>6. ASSUME NEW lastValidHash \in LastValidHashes, FCUInvalid(lastValidHash) PROVE Rest'
    BY <1>0, <2>6, FCUInvalidHead
  <2>7. CASE BatchFill
    BY <1>0, <2>7, BatchFillHead
  <2>8. CASE BatchError
    BY <1>0, <2>8, IdleHead
  <2>9. CASE BatchInsert
    BY <1>0, <2>9, BatchInsertHead
  <2>10. CASE BatchVerdict
    BY <1>0, <2>10, BatchVerdictHead
  <2>11. CASE BatchSave
    BY <1>0, <2>11, BatchSaveHead
  <2>12. ASSUME NEW verdict \in {"VALID", "SYNCING"}, BatchPayload(verdict) PROVE Rest'
    BY <1>0, <2>12, BatchPayloadHead
  <2> HIDE DEF Rest
  <2> QED
    BY <1>1, <2>1, <2>2, <2>3, <2>4, <2>5, <2>6, <2>7, <2>8, <2>9, <2>10, <2>11, <2>12
       DEF LockHolder
<1>2. ASSUME NEW id \in CallIds, NEW r \in Roots \ {StartRoot}, ReceiveCall(id, r) PROVE Rest'
  BY <1>0, <1>2, ReceiveCallHead
<1>3. ASSUME NEW call \in calls, savePostStateInfo(call) PROVE Rest'
  BY <1>0, <1>3, TakeLockHead
<1>4. ASSUME NEW call \in calls, ImportRefused(call) PROVE Rest'
  BY <1>0, <1>4, IdleHead
<1>5. ASSUME NEW call \in calls, NEW lastValidHash \in LastValidHashes,
             pruneInvalidBlock(call, lastValidHash)
      PROVE  Rest'
  BY <1>0, <1>5, IdleHead
<1>6. ASSUME NEW v \in Votes, VoteArrives(v) PROVE Rest'
  <2>1. UNCHANGED vars /\ UNCHANGED <<work, head, calls, dbFinalized, lastValidated>>
    BY <1>6 DEF VoteArrives, disk, dbCheckpoints
  <2> QED
    BY <1>0, <2>1, WaitHead
<1>7. CASE RoutineNewSlot
  BY <1>0, <1>7, IdleHead
<1>8. CASE UpdateHead
  BY <1>0, <1>8, TakeLockHead
<1>9. ASSUME NEW S \in Batches, StartBatch(S) PROVE Rest'
  BY <1>0, <1>9, TakeLockHead
<1>10. CASE Tick /\ UNCHANGED service
  <2>1. UNCHANGED <<work, head, calls, dbFinalized, lastValidated>>
    BY <1>10 DEF service, disk, dbCheckpoints
  <2> QED
    BY <1>0, <1>10, <2>1, WaitHead
<1>11. CASE Restart
  BY <1>11, RestartHead
<1>12. CASE UNCHANGED serviceVars
  <2>1. UNCHANGED vars /\ UNCHANGED <<work, head, calls, dbFinalized, lastValidated>>
    BY <1>12 DEF serviceVars, service, disk, dbCheckpoints
  <2> QED
    BY <1>0, <2>1, WaitHead
<1> HIDE DEF Rest
<1>13. CASE ServiceNext
  BY <1>1, <1>2, <1>3, <1>4, <1>5, <1>6, <1>7, <1>8, <1>9, <1>10, <1>11, <1>13, Zenon
     DEF ServiceNext
<1> QED
  BY <1>12, <1>13

\* A head that is not validated in fork choice is not reported as validated, for every set of
\* blocks, batches and verdicts, and whenever the process stops.
THEOREM OptimisticHeadRight == ServiceSpec => []OptimisticHeadReported
<1>1. ServiceSpec => []HInv
  BY ServiceInitHead, ServiceStepHead, PTL DEF ServiceSpec
<1> QED
  BY <1>1, HInvReported, PTL
-----------------------------------------------------------------------------
(* The next start.                                                         *)

Saved == initSyncBlocks \cup blocksOnDisk
Named == finalCheckpoints \cup batchCheckpoints

\* The checkpoints that may still be written to disk while their block is not there: the ones
\* blocks finalize, and the justified ones that a fill-in may take for finalized.
Lost ==
    {cp \in Named : /\ cp.root \notin Saved /\ cp.epoch > dbFinalized.epoch
                    /\ cp \in finalCheckpoints \/ cp.epoch > finalizedCheckpoint.epoch}

\* No lost checkpoint is one of the chain of n.
Backed(n, lost) == \A cp \in lost : ~IsCheckpointOf(cp, n)

\* The checkpoints of the store and of the disk.  The one on disk is ahead of the store only
\* when a batch wrote it, and a batch writes what a block finalizes.
CheckpointsOK ==
    /\ finalizedCheckpoint \in {StartFinalized} \cup Named
    /\ dbFinalized \in {StartFinalized} \cup Named
    /\ dbFinalized.epoch >= finalizedCheckpoint.epoch =>
          dbFinalized = finalizedCheckpoint \/ dbFinalized \in finalCheckpoints

\* Nothing up to the finalized checkpoint of the store is lost.
FinalSavedOK ==
    /\ \A cp \in Lost : cp.epoch > finalizedCheckpoint.epoch
    /\ finalizedCheckpoint.epoch > dbFinalized.epoch => finalizedCheckpoint.root \in Saved

\* What later blocks build on is backed: the nodes, the blocks in memory, the parents of the
\* blocks that wait, and what a task is about to insert.
NodesBacked == \A n \in nodeByRoot \cup initSyncBlocks : Backed(n, Lost)
CallsBacked ==
    \A call \in calls : ParentRoot[call.root] \in Roots /\ Backed(ParentRoot[call.root], Lost)
TaskBacked ==
    /\ work.task = "import" /\ work.step \in {"state", "insert"} => Backed(work.root, Lost)
    /\ work.task = "batch" /\ work.step \in {"fill", "payload"} =>
          /\ ParentRoot[oldest(work.batch)] \in Roots
          /\ Backed(ParentRoot[oldest(work.batch)], Lost)
    /\ work.task = "batch" /\ work.step = "fill" => \A z \in work.inserts : Backed(z, Lost)
    /\ work.task = "batch" /\ work.step = "payload" =>
          \A z \in work.batch : Slot[z] < Slot[work.root] => Backed(z, Lost)
    /\ work.task = "batch" /\ work.step = "insert" => \A z \in work.batch : Backed(z, Lost)

ROk == RestartPossible /\ CheckpointsOK /\ FinalSavedOK /\ NodesBacked /\ CallsBacked /\ TaskBacked
RInv == SInv /\ ROk

\* A later epoch starts later.
LEMMA EpochStarts ==
    ASSUME NEW a \in Nat, NEW b \in Nat, a <= b
    PROVE  EpochStart(a) \in Nat /\ EpochStart(b) \in Nat /\ EpochStart(a) <= EpochStart(b)
<1>1. SlotsPerEpoch \in Nat
  BY ConstantsAssumption
<1> DEFINE k == SlotsPerEpoch
           d == b - a
<1>2. k \in Nat /\ d \in Nat /\ b = a + d
  BY <1>1
<1> HIDE DEF k, d
<1>3. (a + d) * k = a * k + d * k /\ a * k \in Nat /\ d * k \in Nat
  BY <1>2
<1>4. a * k <= b * k /\ b * k \in Nat
  BY <1>2, <1>3
<1> QED
  BY <1>3, <1>4 DEF k, EpochStart

\* What the assumptions say of these checkpoints.
LEMMA NamedFacts ==
    ASSUME NEW cp \in Named
    PROVE  /\ cp \in Checkpoints /\ cp.epoch \in Nat /\ cp.epoch > StartFinalized.epoch
           /\ cp.root \in Roots /\ Slot[cp.root] \in Nat /\ EpochStart(cp.epoch) \in Nat
           /\ Slot[cp.root] <= EpochStart(cp.epoch)
<1>1. /\ cp \in Checkpoints /\ cp.epoch > StartFinalized.epoch
      /\ cp.root \in Roots /\ Slot[cp.root] <= EpochStart(cp.epoch)
  <2>1. CASE cp \in finalCheckpoints
    <3>1. PICK r \in Roots : FC[r].epoch > StartFinalized.epoch /\ cp = FC[r]
      BY <2>1, Zenon DEF finalCheckpoints
    <3> QED
      BY <3>1, FinalityAssumption, BlockCheckpoints
  <2>2. CASE cp \in batchCheckpoints
    <3>1. PICK p \in Roots : JC[p].epoch > StartFinalized.epoch /\ cp = JC[p]
      BY <2>2, Zenon DEF batchCheckpoints
    <3> QED
      BY <3>1, EpochAssumption, BlockCheckpoints
  <2> QED
    BY <2>1, <2>2 DEF Named
<1>2. cp.epoch \in Nat
  BY <1>1 DEF Checkpoints
<1> QED
  BY <1>1, <1>2, EpochStarts, BlocksAssumption

\* A chain that ends before the epoch of a checkpoint has its last block there.
LEMMA NewestCheckpoint ==
    ASSUME NEW cp \in Named, NEW n \in Roots, IsCheckpointOf(cp, n), Slot[n] <= EpochStart(cp.epoch)
    PROVE  cp.root = n
<1>1. n \in BlockChain[n] /\ Slot[n] \in Nat
  BY ChainClosed, BlocksAssumption
<1>2. cp.root \in BlockChain[n] /\ Slot[n] <= Slot[cp.root] /\ Slot[cp.root] \in Nat
  BY <1>1, NamedFacts DEF IsCheckpointOf
<1>3. ASSUME cp.root # n PROVE FALSE
  <2>1. Slot[cp.root] < Slot[n]
    BY <1>2, <1>3, ChainEarlier
  <2> QED
    BY <1>1, <1>2, <2>1
<1> QED
  BY <1>3

\* A checkpoint of a chain whose block is not the last one is a checkpoint of the parent's chain.
LEMMA ParentCheckpoint ==
    ASSUME NEW cp \in Named, NEW n \in Roots, IsCheckpointOf(cp, n), cp.root # n
    PROVE  ParentRoot[n] \in Roots /\ IsCheckpointOf(cp, ParentRoot[n])
<1>1. cp.root \in BlockChain[n]
  BY DEF IsCheckpointOf
<1>2. ParentRoot[n] # NoNode
  <2>1. ASSUME ParentRoot[n] = NoNode PROVE FALSE
    <3>1. BlockChain[n] \subseteq {n}
      BY <2>1, ChainLeast
    <3> QED
      BY <1>1, <3>1
  <2> QED
    BY <2>1
<1>3. ParentRoot[n] \in Roots /\ BlockChain[n] = {n} \cup BlockChain[ParentRoot[n]]
  BY <1>2, ChainParent
<1> QED
  BY <1>1, <1>3 DEF IsCheckpointOf

\* A checkpoint of the chain of an earlier checkpoint.
LEMMA CheckpointBelow ==
    ASSUME NEW cp \in Named, NEW cq \in Named, NEW n \in Roots, cp.epoch <= cq.epoch,
           IsCheckpointOf(cp, cq.root), IsCheckpointOf(cq, n)
    PROVE  IsCheckpointOf(cp, n)
<1> DEFINE f == cq.root
<1>1. /\ f \in Roots /\ f \in BlockChain[n] /\ Slot[f] \in Nat /\ Slot[f] <= EpochStart(cq.epoch)
      /\ EpochStart(cp.epoch) \in Nat /\ EpochStart(cq.epoch) \in Nat
      /\ EpochStart(cp.epoch) <= EpochStart(cq.epoch)
  BY NamedFacts, EpochStarts DEF IsCheckpointOf
<1>2. BlockChain[f] \subseteq BlockChain[n] /\ BlockChain[n] \subseteq Roots /\ f \in BlockChain[f]
  BY <1>1, ChainTransitive, ChainClosed
<1>3. ASSUME NEW z \in BlockChain[n], Slot[z] <= EpochStart(cp.epoch)
      PROVE  z \in BlockChain[f]
  <2>1. z \in Roots /\ Slot[z] \in Nat
    BY <1>2, BlocksAssumption
  <2>2. Slot[z] <= Slot[f]
    <3>1. Slot[z] <= EpochStart(cq.epoch)
      BY <1>1, <1>3, <2>1
    <3> QED
      BY <3>1 DEF IsCheckpointOf
  <2>3. CASE f \in BlockChain[z] /\ f # z
    <3>1. Slot[f] < Slot[z]
      BY <2>1, <2>3, ChainEarlier
    <3> QED
      BY <1>1, <2>1, <2>2, <3>1
  <2>4. z \in BlockChain[f] \/ f \in BlockChain[z]
    BY <1>1, ChainTotal
  <2> QED
    BY <1>2, <2>3, <2>4
<1>4. /\ cp.root \in BlockChain[f] /\ Slot[cp.root] <= EpochStart(cp.epoch)
      /\ \A z \in BlockChain[f] : Slot[z] <= EpochStart(cp.epoch) => Slot[z] <= Slot[cp.root]
  BY DEF IsCheckpointOf
<1> HIDE DEF f
<1> QED
  BY <1>2, <1>3, <1>4 DEF IsCheckpointOf

\* A saved block on a backed one is backed.
LEMMA BackedChild ==
    ASSUME NEW lost \in SUBSET Named, NEW n \in Roots, \A cp \in lost : cp.root # n,
           ParentRoot[n] \in Roots => Backed(ParentRoot[n], lost)
    PROVE  Backed(n, lost)
<1>1. ASSUME NEW cp \in lost, IsCheckpointOf(cp, n) PROVE FALSE
  <2>1. cp \in Named /\ cp.root # n
    OBVIOUS
  <2>2. ParentRoot[n] \in Roots /\ IsCheckpointOf(cp, ParentRoot[n])
    BY <1>1, <2>1, ParentCheckpoint
  <2> QED
    BY <2>2 DEF Backed
<1> QED
  BY <1>1 DEF Backed

\* A block that is not later than the finalized epoch is backed when it is saved.
LEMMA BackedOld ==
    ASSUME NEW lost \in SUBSET Named, NEW n \in Roots, \A cp \in lost : cp.root # n,
           NEW fin \in Nat, \A cp \in lost : cp.epoch > fin, Slot[n] <= EpochStart(fin)
    PROVE  Backed(n, lost)
<1>1. ASSUME NEW cp \in lost, IsCheckpointOf(cp, n) PROVE FALSE
  <2>1. cp \in Named /\ cp.root # n /\ cp.epoch > fin /\ cp.epoch \in Nat /\ Slot[n] \in Nat
    BY NamedFacts, BlocksAssumption
  <2>2. EpochStart(fin) \in Nat /\ EpochStart(cp.epoch) \in Nat
        /\ EpochStart(fin) <= EpochStart(cp.epoch)
    BY <2>1, EpochStarts
  <2>3. Slot[n] <= EpochStart(cp.epoch)
    BY <2>1, <2>2
  <2> QED
    BY <1>1, <2>1, <2>3, NewestCheckpoint
<1> QED
  BY <1>1 DEF Backed

LEMMA BackedFewer ==
    ASSUME NEW lost, NEW fewer, \A cp \in fewer : cp \in lost, NEW n, Backed(n, lost)
    PROVE  Backed(n, fewer)
BY DEF Backed

\* Types, and that no checkpoint is older than the one of the first start.
LEMMA RTyped ==
    ASSUME RInv
    PROVE  /\ work \in Works /\ calls \subseteq [id : CallIds, root : Roots, justified : Nat,
                                                 finalized : Nat]
           /\ nodeByRoot \in SUBSET Roots /\ initSyncBlocks \in SUBSET Roots
           /\ blocksOnDisk \in SUBSET Roots /\ Lost \in SUBSET Named
           /\ finalizedCheckpoint \in Checkpoints /\ dbFinalized \in Checkpoints
           /\ finalizedCheckpoint.epoch \in Nat /\ dbFinalized.epoch \in Nat
           /\ StartFinalized.epoch \in Nat
           /\ finalizedCheckpoint.epoch >= StartFinalized.epoch
           /\ dbFinalized.epoch >= StartFinalized.epoch
<1>1. /\ work \in Works /\ calls \subseteq [id : CallIds, root : Roots, justified : Nat,
                                            finalized : Nat]
      /\ nodeByRoot \in SUBSET Roots /\ initSyncBlocks \in SUBSET Roots
      /\ blocksOnDisk \in SUBSET Roots
      /\ finalizedCheckpoint \in Checkpoints /\ dbFinalized \in Checkpoints
  BY DEF RInv, SInv, IInv, TypeOK, DataOK, WorkOK
<1>2. StartFinalized.epoch \in Nat /\ \A cp \in Checkpoints : cp.epoch \in Nat
  BY ConstantsAssumption DEF Checkpoints
<1>3. \A cp \in {StartFinalized} \cup Named : cp.epoch >= StartFinalized.epoch
  <2>1. \A cp \in Named : cp.epoch \in Nat /\ cp.epoch > StartFinalized.epoch
    BY NamedFacts
  <2> QED
    BY <1>2, <2>1
<1>4. Lost \in SUBSET Named
  BY DEF Lost
<1> QED
  BY <1>1, <1>2, <1>3, <1>4 DEF RInv, ROk, CheckpointsOK

\* Checkpoints and blocks that stay keep a checkpoint from being lost.
LEMMA LostFewer ==
    ASSUME RInv, SInv', dbFinalized'.epoch >= dbFinalized.epoch,
           finalizedCheckpoint'.epoch >= finalizedCheckpoint.epoch,
           \A cp \in Named : cp.root \in Saved => cp.root \in Saved'
    PROVE  \A cp \in Lost' : cp \in Lost
<1>1. /\ finalizedCheckpoint.epoch \in Nat /\ dbFinalized.epoch \in Nat
      /\ finalizedCheckpoint'.epoch \in Nat /\ dbFinalized'.epoch \in Nat
  BY RTyped DEF SInv, IInv, TypeOK, DataOK, Checkpoints
<1>2. ASSUME NEW cp \in Named, cp.root \notin Saved', cp.epoch > dbFinalized'.epoch,
             cp \in finalCheckpoints \/ cp.epoch > finalizedCheckpoint'.epoch
      PROVE  cp \in Lost
  <2>1. cp.epoch \in Nat
    BY NamedFacts
  <2> QED
    BY <1>1, <1>2, <2>1 DEF Lost
<1> QED
  BY <1>2 DEF Lost

\* The two finalized checkpoints stay, and the blocks of checkpoints too.
LEMMA Steady ==
    ASSUME RInv, SInv', dbFinalized' = dbFinalized, finalizedCheckpoint' = finalizedCheckpoint,
           \A cp \in Named : cp.root \in Saved => cp.root \in Saved',
           ensureRootNotZeros(dbFinalized.root) \in blocksOnDisk',
           \A n \in nodeByRoot' \cup initSyncBlocks' : n \in nodeByRoot \cup initSyncBlocks
    PROVE  /\ RestartPossible' /\ CheckpointsOK' /\ FinalSavedOK' /\ NodesBacked'
           /\ \A cp \in Lost' : cp \in Lost
<1>1. /\ finalizedCheckpoint.epoch \in Nat /\ dbFinalized.epoch \in Nat
      /\ StartFinalized.epoch \in Nat /\ dbFinalized.epoch >= StartFinalized.epoch
  BY RTyped
<1>2. \A cp \in Lost' : cp \in Lost
  BY <1>1, LostFewer
<1>3. RestartPossible'
  BY DEF RestartPossible, ensureRootNotZeros
<1>4. CheckpointsOK'
  BY DEF RInv, ROk, CheckpointsOK
<1>5. FinalSavedOK'
  <2>1. ASSUME finalizedCheckpoint.epoch > dbFinalized.epoch
        PROVE  finalizedCheckpoint.root \in Saved'
    <3>1. finalizedCheckpoint # StartFinalized
      BY <1>1, <2>1
    <3>2. finalizedCheckpoint \in Named
      BY <3>1 DEF RInv, ROk, CheckpointsOK
    <3> QED
      BY <2>1, <3>2 DEF RInv, ROk, FinalSavedOK
  <2>2. \A cp \in Lost' : cp.epoch > finalizedCheckpoint'.epoch
    BY <1>2 DEF RInv, ROk, FinalSavedOK
  <2> QED
    BY <2>1, <2>2 DEF FinalSavedOK
<1>6. NodesBacked'
  <2>1. \A n \in nodeByRoot' \cup initSyncBlocks' : Backed(n, Lost)
    BY DEF RInv, ROk, NodesBacked
  <2>2. \A n \in nodeByRoot' \cup initSyncBlocks' : Backed(n, Lost')
    BY <1>2, <2>1 DEF Backed
  <2> QED
    BY <2>2 DEF NodesBacked
<1> QED
  BY <1>2, <1>3, <1>4, <1>5, <1>6

LEMMA CallsSteady ==
    ASSUME RInv, \A cp \in Lost' : cp \in Lost, \A call \in calls' : call \in calls
    PROVE  CallsBacked'
<1>1. \A call \in calls' : ParentRoot[call.root] \in Roots /\ Backed(ParentRoot[call.root], Lost)
  BY DEF RInv, ROk, CallsBacked
<1>2. \A call \in calls' : ParentRoot[call.root] \in Roots /\ Backed(ParentRoot[call.root], Lost')
  BY <1>1 DEF Backed
<1> QED
  BY <1>2 DEF CallsBacked

LEMMA TaskSteady ==
    ASSUME RInv, \A cp \in Lost' : cp \in Lost,
           work' = work \/ work'.step \notin {"state", "insert", "fill", "payload"}
    PROVE  TaskBacked'
<1>1. CASE work' = work
  <2>1. TaskBacked
    BY DEF RInv, ROk
  <2>2. \A n : Backed(n, Lost) => Backed(n, Lost')
    BY DEF Backed
  <2> HIDE DEF Backed
  <2> QED
    BY <1>1, <2>1, <2>2, SMT DEF TaskBacked
<1>2. CASE work'.step \notin {"state", "insert", "fill", "payload"}
  BY <1>2 DEF TaskBacked
<1> QED
  BY <1>1, <1>2

\* The calls that insert nothing add no node.
LEMMA QuietNodes ==
    ASSUME IInv,
           \/ UNCHANGED vars
           \/ Head
           \/ NewSlot
           \/ Tick
           \/ \E indices, r, s : ProcessAttestation(indices, r, s)
           \/ \E r : SetOptimisticToValid(r)
           \/ \E r, lastValidHash : SetOptimisticToInvalid(r, lastValidHash)
    PROVE  finalizedCheckpoint' = finalizedCheckpoint /\ nodeByRoot' \subseteq nodeByRoot
<1>1. finalizedCheckpoint' = finalizedCheckpoint
  BY QuietAged
<1>2. CASE UNCHANGED vars \/ Head \/ Tick
  BY <1>1, <1>2 DEF vars, Head, Tick, tree
<1>3. CASE NewSlot
  <2>1. prune(finalizedCheckpoint, nodeByRoot, parent, children, target)
    BY <1>3 DEF NewSlot
  <2>2. \/ nodeByRoot' = nodeByRoot
        \/ \E gone : nodeByRoot' = nodeByRoot \ gone
    BY <2>1, Zenon DEF prune
  <2> QED
    BY <1>1, <2>2
<1>4. ASSUME NEW indices, NEW r, NEW s, ProcessAttestation(indices, r, s)
      PROVE  nodeByRoot' \subseteq nodeByRoot
  BY <1>4 DEF ProcessAttestation, tree
<1>5. ASSUME NEW r, SetOptimisticToValid(r) PROVE nodeByRoot' \subseteq nodeByRoot
  BY <1>5 DEF SetOptimisticToValid, tree
<1>6. ASSUME NEW r, NEW lastValidHash, SetOptimisticToInvalid(r, lastValidHash)
      PROVE  nodeByRoot' \subseteq nodeByRoot
  <2>1. \E n : removeNode(n)
    BY <1>6, Zenon DEF SetOptimisticToInvalid, invalidateKnown, invalidateUnknown
  <2>2. \E gone : nodeByRoot' = nodeByRoot \ gone
    BY <2>1, Zenon DEF removeNode
  <2> QED
    BY <2>2
<1> QED
  BY <1>1, <1>2, <1>3, <1>4, <1>5, <1>6

\* The steps that call the store without an insertion and leave what is saved where it is, or
\* take it from memory to disk.
LEMMA QuietBacked ==
    ASSUME RInv, SInv', dbFinalized' = dbFinalized,
           \A x \in initSyncBlocks' : x \in initSyncBlocks,
           \A x \in blocksOnDisk : x \in blocksOnDisk',
           \A x \in initSyncBlocks : x \in initSyncBlocks' \cup blocksOnDisk',
           \A n \in nodeByRoot' : n \in nodeByRoot,
           finalizedCheckpoint' = finalizedCheckpoint,
           \A call \in calls' : call \in calls
    PROVE  /\ RestartPossible' /\ CheckpointsOK' /\ FinalSavedOK' /\ NodesBacked' /\ CallsBacked'
           /\ \A cp \in Lost' : cp \in Lost
           /\ work' = work \/ work'.step \notin {"state", "insert", "fill", "payload"} => ROk'
<1>1. \A cp \in Named : cp.root \in Saved => cp.root \in Saved'
  BY DEF Saved
<1>2. ensureRootNotZeros(dbFinalized.root) \in blocksOnDisk'
  BY DEF RInv, ROk, RestartPossible
<1>3. \A n \in nodeByRoot' \cup initSyncBlocks' : n \in nodeByRoot \cup initSyncBlocks
  OBVIOUS
<1>4. /\ RestartPossible' /\ CheckpointsOK' /\ FinalSavedOK' /\ NodesBacked'
      /\ \A cp \in Lost' : cp \in Lost
  BY <1>1, <1>2, <1>3, Steady
<1>5. CallsBacked'
  BY <1>4, CallsSteady
<1> QED
  BY <1>4, <1>5, TaskSteady DEF ROk

\* The steps of the lock holder of that kind, and the ones that leave it where it is.
LEMMA PlainRestart ==
    ASSUME RInv, SInv',
           \/ ImportVerdict \/ ImportHead \/ FCUAccepted \/ FCUHead \/ FCUSave
           \/ UpdateHead \/ UpdateHeadHead \/ RoutineNewSlot
           \/ BatchError \/ BatchInvalid \/ BatchVerdict \/ BatchSave
           \/ \E v \in work.votes : ImportVote(v) \/ processAttestations(v)
    PROVE  ROk'
<1>1. /\ work \in Works /\ IInv
  BY RTyped DEF RInv, SInv
<1>2. /\ dbFinalized' = dbFinalized /\ initSyncBlocks' = initSyncBlocks /\ calls' = calls
      /\ blocksOnDisk' = blocksOnDisk \/ blocksOnDisk' = blocksOnDisk \cup initSyncBlocks
  BY DEF ImportVerdict, ImportHead, FCUAccepted, FCUHead, FCUSave, UpdateHead, UpdateHeadHead,
         RoutineNewSlot, BatchError, BatchInvalid, BatchVerdict, BatchSave, ImportVote,
         processAttestations, service, disk, dbCheckpoints
<1>3. \/ UNCHANGED vars
      \/ Head
      \/ NewSlot
      \/ \E indices, r, s : ProcessAttestation(indices, r, s)
      \/ \E r : SetOptimisticToValid(r)
  BY DEF ImportVerdict, ImportHead, FCUAccepted, FCUHead, FCUSave, UpdateHead, UpdateHeadHead,
         RoutineNewSlot, BatchError, BatchInvalid, BatchVerdict, BatchSave, ImportVote,
         processAttestations, OnAttestation
<1>4. finalizedCheckpoint' = finalizedCheckpoint /\ nodeByRoot' \subseteq nodeByRoot
  BY <1>1, <1>3, QuietNodes
<1>5. work' = work \/ work'.step \notin {"state", "insert", "fill", "payload"}
  <2>1. CASE RoutineNewSlot \/ BatchError \/ BatchSave
    BY <2>1 DEF RoutineNewSlot, BatchError, BatchSave, service, Idle
  <2>2. CASE UpdateHead
    <3>1. work'.step = "attestations"
      BY <2>2 DEF UpdateHead, Idle
    <3> QED
      BY <3>1
  <2>3. CASE ImportVerdict \/ ImportHead \/ FCUAccepted
    BY <1>1, <2>3 DEF ImportVerdict, ImportHead, FCUAccepted, Works
  <2>4. CASE FCUHead \/ FCUSave \/ UpdateHeadHead
    <3>1. \/ work' = Idle
          \/ work' = [work EXCEPT !.step = "fcu", !.fcuRoot = headNode']
          \/ work' = [work EXCEPT !.step = "finality"]
      BY <2>4, Zenon DEF FCUHead, FCUSave, UpdateHeadHead
    <3>2. CASE work' = Idle
      BY <3>2 DEF Idle
    <3>3. CASE \/ work' = [work EXCEPT !.step = "fcu", !.fcuRoot = headNode']
               \/ work' = [work EXCEPT !.step = "finality"]
      BY <1>1, <3>3 DEF Works
    <3> QED
      BY <3>1, <3>2, <3>3
  <2>5. CASE BatchInvalid \/ BatchVerdict
    BY <1>1, <2>5 DEF BatchInvalid, BatchVerdict, Works
  <2>6. ASSUME NEW v \in work.votes, ImportVote(v) \/ processAttestations(v)
        PROVE  work'.step \notin {"state", "insert", "fill", "payload"}
    BY <1>1, <2>6 DEF ImportVote, processAttestations, Works
  <2> QED
    BY <2>1, <2>2, <2>3, <2>4, <2>5, <2>6
<1>6. /\ \A x \in initSyncBlocks' : x \in initSyncBlocks
      /\ \A x \in blocksOnDisk : x \in blocksOnDisk'
      /\ \A x \in initSyncBlocks : x \in initSyncBlocks' \cup blocksOnDisk'
      /\ \A n \in nodeByRoot' : n \in nodeByRoot
      /\ \A call \in calls' : call \in calls
  BY <1>2, <1>4
<1> QED
  BY <1>2, <1>4, <1>5, <1>6, QuietBacked

\* The clock, votes for the pool, refused blocks, and steps of other parts.
LEMMA WaitRestart ==
    ASSUME RInv, SInv', Tick \/ UNCHANGED vars, \A call \in calls' : call \in calls,
           UNCHANGED <<work, dbFinalized, initSyncBlocks, blocksOnDisk>>
    PROVE  ROk'
<1>1. finalizedCheckpoint' = finalizedCheckpoint /\ nodeByRoot' \subseteq nodeByRoot
  BY QuietNodes DEF RInv, SInv
<1> QED
  BY <1>1, QuietBacked

\* What verifyBlkPreState does to memory and disk.
LEMMA PreStateKept ==
    ASSUME NEW p, verifyBlkPreState(p)
    PROVE  /\ \A x \in initSyncBlocks' : x \in initSyncBlocks
           /\ \A x \in blocksOnDisk : x \in blocksOnDisk'
           /\ \A x \in initSyncBlocks : x \in initSyncBlocks' \cup blocksOnDisk'
           /\ \A x \in Saved' : x \in Saved
BY DEF verifyBlkPreState, Saved

\* A new call: the parent has a node.
LEMMA ReceiveCallRestart ==
    ASSUME RInv, SInv', NEW id, NEW r \in Roots, ReceiveCall(id, r)
    PROVE  ROk'
<1> DEFINE new == [id |-> id, root |-> r, justified |-> justifiedCheckpoint.epoch,
                   finalized |-> finalizedCheckpoint.epoch]
           p == ParentRoot[r]
<1>1. /\ UNCHANGED vars /\ work' = work /\ dbFinalized' = dbFinalized
      /\ verifyBlkPreState(p) /\ p \in nodeByRoot /\ calls' = calls \cup {new}
  BY DEF ReceiveCall, validateStateTransition, dbCheckpoints
<1>2. /\ \A x \in initSyncBlocks' : x \in initSyncBlocks
      /\ \A x \in blocksOnDisk : x \in blocksOnDisk'
      /\ \A x \in initSyncBlocks : x \in initSyncBlocks' \cup blocksOnDisk'
  BY <1>1, PreStateKept
<1>3. finalizedCheckpoint' = finalizedCheckpoint /\ nodeByRoot' = nodeByRoot
  BY <1>1 DEF vars, tree, checkpoints
<1>4. \A cp \in Named : cp.root \in Saved => cp.root \in Saved'
  BY <1>2 DEF Saved
<1>5. ensureRootNotZeros(dbFinalized.root) \in blocksOnDisk'
  BY <1>2 DEF RInv, ROk, RestartPossible
<1>6. /\ RestartPossible' /\ CheckpointsOK' /\ FinalSavedOK' /\ NodesBacked'
      /\ \A cp \in Lost' : cp \in Lost
  BY <1>1, <1>2, <1>3, <1>4, <1>5, Steady
<1>7. TaskBacked'
  BY <1>1, <1>6, TaskSteady
<1>8. CallsBacked'
  <2>1. p \in Roots /\ Backed(p, Lost') /\ new.root = r
    BY <1>1, <1>3, <1>6, RTyped DEF NodesBacked
  <2>2. \A call \in calls :
           ParentRoot[call.root] \in Roots /\ Backed(ParentRoot[call.root], Lost)
    BY DEF RInv, ROk, CallsBacked
  <2>3. \A call \in calls :
           ParentRoot[call.root] \in Roots /\ Backed(ParentRoot[call.root], Lost')
    BY <1>6, <2>2 DEF Backed
  <2> HIDE DEF new, p
  <2>4. \A call \in calls' :
           ParentRoot[call.root] \in Roots /\ Backed(ParentRoot[call.root], Lost')
    BY <1>1, <2>1, <2>3 DEF p
  <2> QED
    BY <2>4 DEF CallsBacked
<1> QED
  BY <1>6, <1>7, <1>8 DEF ROk

\* The block is on disk before it is inserted.
LEMMA savePostStateInfoRestart ==
    ASSUME RInv, SInv', NEW call \in calls, savePostStateInfo(call)
    PROVE  ROk'
<1> DEFINE r == call.root
<1>1. /\ calls' = calls \ {call} /\ blocksOnDisk' = blocksOnDisk \cup {r}
      /\ UNCHANGED vars /\ UNCHANGED <<initSyncBlocks, dbFinalized>>
      /\ work' = [Idle EXCEPT !.task = "import", !.step = "state", !.root = r,
                              !.epochs = [justified |-> call.justified,
                                          finalized |-> call.finalized]]
  BY DEF savePostStateInfo, dbCheckpoints
<1>2. finalizedCheckpoint' = finalizedCheckpoint /\ nodeByRoot' = nodeByRoot
  BY <1>1 DEF vars, tree, checkpoints
<1>3. /\ RestartPossible' /\ CheckpointsOK' /\ FinalSavedOK' /\ NodesBacked' /\ CallsBacked'
      /\ \A cp \in Lost' : cp \in Lost
  BY <1>1, <1>2, QuietBacked
<1>4. r \in Roots /\ ParentRoot[r] \in Roots /\ Backed(ParentRoot[r], Lost)
  BY RTyped DEF RInv, ROk, CallsBacked
<1>5. work'.task = "import" /\ work'.step = "state" /\ work'.root = r
  BY <1>1 DEF Idle
<1> HIDE DEF r
<1>6. Backed(ParentRoot[r], Lost')
  BY <1>3, <1>4 DEF Backed
<1>7. Lost' \in SUBSET Named /\ \A cp \in Lost' : cp.root # r
  BY <1>1 DEF Lost, Saved
<1>8. Backed(r, Lost')
  BY <1>4, <1>6, <1>7, BackedChild
<1>9. TaskBacked'
  BY <1>5, <1>8 DEF TaskBacked
<1> QED
  BY <1>3, <1>9 DEF ROk

LEMMA SaveStateRestart ==
    ASSUME RInv, SInv', SaveState
    PROVE  ROk'
<1>1. /\ work.step = "state" /\ work' = [work EXCEPT !.step = "insert"]
      /\ UNCHANGED vars /\ UNCHANGED <<calls, initSyncBlocks, blocksOnDisk, dbFinalized>>
  BY DEF SaveState, dbCheckpoints
<1>2. finalizedCheckpoint' = finalizedCheckpoint /\ nodeByRoot' = nodeByRoot
  BY <1>1 DEF vars, tree, checkpoints
<1>3. /\ RestartPossible' /\ CheckpointsOK' /\ FinalSavedOK' /\ NodesBacked' /\ CallsBacked'
      /\ \A cp \in Lost' : cp \in Lost
  BY <1>1, <1>2, QuietBacked
<1>4. work \in Works /\ work.task = "import"
  BY <1>1, RTyped DEF RInv, SInv, WorkOK, StepOK
<1>5. work'.task = "import" /\ work'.step = "insert" /\ work'.root = work.root
  BY <1>1, <1>4 DEF Works
<1>6. Backed(work.root, Lost)
  BY <1>1, <1>4 DEF RInv, ROk, TaskBacked
<1>7. Backed(work.root, Lost')
  BY <1>3, <1>6 DEF Backed
<1>8. TaskBacked'
  BY <1>5, <1>7 DEF TaskBacked
<1> QED
  BY <1>3, <1>8 DEF ROk

\* Pointers lead up the chain the blocks name.
LEMMA AncestorsOnChain ==
    ASSUME IInv, NEW n \in Roots
    PROVE  Ancestors(parent, n) \subseteq BlockChain[n]
<1>1. Pointers(parent, children)
  BY DEF IInv, TreeOK
<1>2. /\ n \in BlockChain[n] /\ BlockChain[n] \subseteq Roots
      /\ \A x \in BlockChain[n] : Slot[x] <= Slot[n]
      /\ \A x \in BlockChain[n] : ParentRoot[x] # NoNode => ParentRoot[x] \in BlockChain[n]
  BY ChainClosed
<1>3. BlockChain[n] \in SUBSET NotAfter(n)
  BY <1>2 DEF NotAfter
<1>4. ASSUME NEW x \in BlockChain[n] PROVE Up(parent)[x] \subseteq BlockChain[n]
  <2>1. x \in Roots /\ (parent[x] # NoNode => parent[x] = ParentRoot[x])
    BY <1>1, <1>2 DEF Pointers
  <2>2. Up(parent)[x] = IF parent[x] = NoNode THEN {} ELSE {parent[x]}
    BY <2>1 DEF Up
  <2> QED
    BY <1>2, <2>1, <2>2
<1>5. Closure(NotAfter(n), Up(parent), n) \subseteq BlockChain[n]
  BY <1>2, <1>3, <1>4, ClosureLeast
<1> QED
  BY <1>5 DEF Ancestors

\* The engine takes no checkpoint back: the block of none leaves the store by a verdict.
LEMMA NamedNotRemoved ==
    ASSUME IInv, NEW r \in Roots, invalid(r), NEW lastValidHash \in LastValidHashes,
           SetOptimisticToInvalid(r, lastValidHash), NEW cp \in Named
    PROVE  cp.root \notin nodeByRoot \ nodeByRoot'
<1>1. /\ Pointers(parent, children) /\ Listing(children) /\ nodeByRoot \in SUBSET Roots
  BY DEF IInv, TypeOK, TreeOK, Pointers, Listing
<1>2. cp.root \in Roots /\ ~invalid(cp.root)
      /\ \A n \in BlockChain[r] :
            ParentRoot[n] \in Roots /\ PayloadHash[ParentRoot[n]] \in LastValidHashes
               => n \notin BlockChain[cp.root]
  <2>1. cp.root \in Roots
    BY NamedFacts
  <2>2. r \in {z \in Roots : invalid(z)}
    OBVIOUS
  <2> QED
    BY <2>1, <2>2, EngineAssumption, Zenon DEF Named
<1>3. ASSUME NEW m \in Roots, removeNode(m), m \notin BlockChain[cp.root]
      PROVE  cp.root \notin nodeByRoot \ nodeByRoot'
  <2>1. nodeByRoot' = nodeByRoot \ Subtree(children, m)
    BY <1>3, Zenon DEF removeNode
  <2>2. cp.root \notin Subtree(children, m)
    BY <1>1, <1>3, SubtreeChain
  <2> QED
    BY <2>1, <2>2
<1>4. r \notin BlockChain[cp.root]
  <2>1. ASSUME r \in BlockChain[cp.root] PROVE FALSE
    <3>1. BlockChain[r] \subseteq BlockChain[cp.root]
      BY <1>2, <2>1, ChainTransitive
    <3> QED
      BY <1>2, <3>1 DEF invalid, BlockAncestors
  <2> QED
    BY <2>1
<1>5. ASSUME NEW n \in Roots, BlockChain[n] \subseteq BlockChain[r],
             NEW first \in firstInvalid(n, lastValidHash), parent[first] # NoNode
      PROVE  first \in Roots /\ first \notin BlockChain[cp.root]
  <2>1. first \in Ancestors(parent, n) /\ PayloadHash[parent[first]] = lastValidHash
    BY <1>5, Zenon DEF firstInvalid
  <2>2. first \in BlockChain[n] /\ BlockChain[n] \subseteq Roots
    BY <2>1, AncestorsOnChain, ChainClosed
  <2>3. parent[first] = ParentRoot[first] /\ parent[first] \in Roots
    BY <1>1, <1>5, <2>2 DEF Pointers, Nodes
  <2> QED
    BY <1>2, <1>5, <2>1, <2>2, <2>3
<1>6. CASE invalidateKnown(r, lastValidHash)
  <2>1. PICK first \in firstInvalid(r, lastValidHash) :
           removeNode(IF parent[first] = NoNode THEN r ELSE first)
    BY <1>6 DEF invalidateKnown
  <2>2. CASE parent[first] = NoNode
    <3>1. removeNode(r)
      BY <2>1, <2>2
    <3> QED
      BY <1>3, <1>4, <3>1
  <2>3. CASE parent[first] # NoNode
    <3>1. removeNode(first)
      BY <2>1, <2>3
    <3>2. first \in Roots /\ first \notin BlockChain[cp.root]
      BY <1>5, <2>3
    <3> QED
      BY <1>3, <3>1, <3>2
  <2> QED
    BY <2>2, <2>3
<1>7. CASE invalidateUnknown(r, lastValidHash)
  <2> DEFINE p == ParentRoot[r]
  <2>1. PICK first \in firstInvalid(p, lastValidHash) : removeNode(first)
    BY <1>7 DEF invalidateUnknown
  <2>2. p \in Roots /\ p # NoNode
    BY <1>1, <1>7, ConstantsAssumption DEF invalidateUnknown
  <2>3. BlockChain[p] \subseteq BlockChain[r]
    BY <2>2, ChainParent
  <2>4. parent[first] # NoNode
    BY <2>1, Zenon DEF removeNode, removable
  <2> HIDE DEF p
  <2>5. first \in Roots /\ first \notin BlockChain[cp.root]
    BY <1>5, <2>2, <2>3, <2>4
  <2> QED
    BY <1>3, <2>1, <2>5
<1> QED
  BY <1>6, <1>7 DEF SetOptimisticToInvalid

\* DeleteState refuses the protected blocks.
LEMMA ProtectedKept ==
    ASSUME NEW gone \in SUBSET Roots, NEW S \in deletions(gone)
    PROVE  S \subseteq gone /\ S \cap protected = {}
<1> DEFINE stop == gone \cap protected
           above == UNION {Ancestors(parent, r) : r \in stop}
<1>1. CASE stop = {}
  <2>1. S = gone
    BY <1>1, Zenon DEF deletions
  <2> QED
    BY <1>1, <2>1
<1>2. CASE stop # {}
  <2>1. S \in SUBSET (gone \ above)
    BY <1>2, Zenon DEF deletions
  <2>2. ASSUME NEW r \in stop PROVE r \in Ancestors(parent, r)
    <3>1. r \in NotAfter(r)
      BY BlocksAssumption DEF NotAfter
    <3> QED
      BY <3>1, Zenon DEF Ancestors, Closure
  <2>3. \A r \in stop : r \in above
    BY <2>2
  <2> QED
    BY <2>1, <2>3
<1> QED
  BY <1>1, <1>2

\* An INVALID verdict: blocks leave the store and the disk, but no checkpoint's.
LEMMA InvalidBacked ==
    ASSUME RInv, SInv', NEW r \in Roots, invalid(r), NEW lastValidHash \in LastValidHashes,
           SetOptimisticToInvalid(r, lastValidHash),
           removeInvalidBlockAndState(nodeByRoot \ nodeByRoot'),
           initSyncBlocks' = initSyncBlocks, \A call \in calls' : call \in calls,
           work'.step \notin {"state", "insert", "fill", "payload"}
    PROVE  ROk'
<1> DEFINE gone == nodeByRoot \ nodeByRoot'
<1>1. finalizedCheckpoint' = finalizedCheckpoint /\ nodeByRoot' \subseteq nodeByRoot
  BY QuietNodes DEF RInv, SInv
<1>2. gone \in SUBSET Roots
  BY RTyped
<1>3. /\ \E S \in deletions(gone) : blocksOnDisk' = blocksOnDisk \ S
      /\ dbFinalized' = dbFinalized
  BY Zenon DEF removeInvalidBlockAndState, dbCheckpoints
<1>4. \A cp \in Named : cp.root \notin gone
  BY NamedNotRemoved DEF RInv, SInv
<1> HIDE DEF gone
<1>5. PICK S \in deletions(gone) : blocksOnDisk' = blocksOnDisk \ S
  BY <1>3
<1>6. S \subseteq gone /\ S \cap protected = {}
  BY <1>2, <1>5, ProtectedKept
<1>7. \A cp \in Named : cp.root \in Saved => cp.root \in Saved'
  BY <1>4, <1>5, <1>6 DEF Saved
<1>8. ensureRootNotZeros(dbFinalized.root) \in blocksOnDisk'
  BY <1>5, <1>6 DEF RInv, ROk, RestartPossible, protected
<1>9. \A n \in nodeByRoot' \cup initSyncBlocks' : n \in nodeByRoot \cup initSyncBlocks
  BY <1>1
<1>10. /\ RestartPossible' /\ CheckpointsOK' /\ FinalSavedOK' /\ NodesBacked'
       /\ \A cp \in Lost' : cp \in Lost
  BY <1>1, <1>3, <1>7, <1>8, <1>9, Steady
<1> QED
  BY <1>10, CallsSteady, TaskSteady DEF ROk

LEMMA InvalidRestart ==
    ASSUME RInv, SInv', NEW lastValidHash \in LastValidHashes,
           FCUInvalid(lastValidHash) \/ \E call \in calls : pruneInvalidBlock(call, lastValidHash)
    PROVE  ROk'
<1>1. CASE FCUInvalid(lastValidHash)
  <2>1. /\ work.step = "fcu" /\ invalid(work.fcuRoot) /\ calls' = calls
        /\ initSyncBlocks' = initSyncBlocks
        /\ \/ /\ SetOptimisticToInvalid(work.fcuRoot, lastValidHash)
              /\ removeInvalidBlockAndState(nodeByRoot \ nodeByRoot')
           \/ UNCHANGED <<vars, disk>>
        /\ \/ work' = [work EXCEPT !.step = "refetch", !.failed = TRUE]
           \/ work' = [work EXCEPT !.step = "save"]
    BY <1>1 DEF FCUInvalid
  <2>2. work \in Works /\ work.fcuRoot \in Roots
    BY <2>1, RTyped DEF RInv, SInv, WorkOK, StepOK
  <2>3. work'.step \notin {"state", "insert", "fill", "payload"}
    BY <2>1, <2>2 DEF Works
  <2>4. CASE UNCHANGED <<vars, disk>>
    <3>1. /\ finalizedCheckpoint' = finalizedCheckpoint /\ nodeByRoot' = nodeByRoot
          /\ UNCHANGED <<blocksOnDisk, dbFinalized>>
      BY <2>4 DEF vars, tree, checkpoints, disk, dbCheckpoints
    <3> QED
      BY <2>1, <2>3, <3>1, QuietBacked
  <2>5. CASE /\ SetOptimisticToInvalid(work.fcuRoot, lastValidHash)
             /\ removeInvalidBlockAndState(nodeByRoot \ nodeByRoot')
    BY <2>1, <2>2, <2>3, <2>5, InvalidBacked
  <2> QED
    BY <2>1, <2>4, <2>5
<1>2. ASSUME NEW call \in calls, pruneInvalidBlock(call, lastValidHash) PROVE ROk'
  <2>1. /\ invalid(call.root) /\ SetOptimisticToInvalid(call.root, lastValidHash)
        /\ removeInvalidBlockAndState(nodeByRoot \ nodeByRoot')
        /\ calls' = calls \ {call} /\ work = Idle /\ UNCHANGED <<work, initSyncBlocks>>
    BY <1>2 DEF pruneInvalidBlock
  <2>2. call.root \in Roots /\ work'.step \notin {"state", "insert", "fill", "payload"}
    BY <2>1, RTyped DEF Idle
  <2> QED
    BY <2>1, <2>2, InvalidBacked
<1> QED
  BY <1>1, <1>2

\* An insertion raises the finalized checkpoint of the store or leaves it.
LEMMA InsertRaises ==
    ASSUME IInv, NEW r \in Roots, NEW jc, NEW fc,
           InsertSucceeds(r, jc, fc) \/ InsertFails(r, jc, fc)
    PROVE  \/ finalizedCheckpoint' = finalizedCheckpoint
           \/ finalizedCheckpoint' = fc /\ ~(fc.epoch <= finalizedCheckpoint.epoch)
<1>1. ASSUME NEW nodes, NEW par, NEW ch, NEW tgt, updateCheckpoints(jc, fc, nodes, par, ch, tgt)
      PROVE  \/ finalizedCheckpoint' = finalizedCheckpoint
             \/ finalizedCheckpoint' = fc /\ ~(fc.epoch <= finalizedCheckpoint.epoch)
  BY <1>1 DEF updateCheckpoints, finalityStands
<1>2. CASE InsertKnown(r, jc, fc)
  BY <1>1, <1>2 DEF InsertKnown
<1>3. CASE InsertOrphan(r, jc)
  BY <1>3 DEF InsertOrphan, checkpoints
<1>4. CASE InsertLinked(r, jc, fc)
  <2>1. \E nodes, par, ch, tgt : updateCheckpoints(jc, fc, nodes, par, ch, tgt)
    BY <1>4, Zenon DEF InsertLinked
  <2> QED
    BY <1>1, <2>1
<1> QED
  BY <1>2, <1>3, <1>4, Zenon DEF InsertSucceeds, InsertFails

\* The finalized checkpoint of the store rises to one of a backed chain: nothing up to it is
\* lost, for an earlier finalized one is on the same chain.
LEMMA FinalRaised ==
    ASSUME RInv, SInv', NEW n \in Roots, Backed(n, Lost), NEW fc \in Named, IsCheckpointOf(fc, n),
           finalizedCheckpoint' = fc, fc.epoch > finalizedCheckpoint.epoch,
           UNCHANGED <<dbFinalized, initSyncBlocks, blocksOnDisk>>
    PROVE  CheckpointsOK' /\ FinalSavedOK' /\ \A cp \in Lost' : cp \in Lost
<1>1. /\ fc.epoch \in Nat /\ finalizedCheckpoint.epoch \in Nat /\ dbFinalized.epoch \in Nat
      /\ Lost \in SUBSET Named
  BY RTyped, NamedFacts
<1>2. Saved' = Saved
  BY DEF Saved
<1>3. \A cp \in Lost' : cp \in Lost
  BY <1>1, <1>2, LostFewer
<1>4. CheckpointsOK'
  BY <1>1 DEF RInv, ROk, CheckpointsOK
<1>5. ASSUME NEW cp \in Lost' PROVE cp.epoch > fc.epoch
  <2>1. cp \in Lost /\ cp \in Named /\ cp.epoch \in Nat
    BY <1>1, <1>3, NamedFacts
  <2>2. ASSUME cp.epoch <= fc.epoch PROVE FALSE
    <3>1. cp \in finalCheckpoints
      BY <1>1, <2>1, <2>2 DEF Lost
    <3>2. fc.epoch >= cp.epoch
      BY <1>1, <2>1, <2>2
    <3>3. IsCheckpointOf(cp, fc.root)
      BY <3>1, <3>2, CheckpointAssumption DEF Named
    <3>4. IsCheckpointOf(cp, n)
      BY <2>1, <2>2, <3>3, CheckpointBelow
    <3> QED
      BY <2>1, <3>4 DEF Backed
  <2> QED
    BY <1>1, <2>1, <2>2
<1>6. ASSUME fc.epoch > dbFinalized.epoch PROVE fc.root \in Saved
  <2>1. fc \in Lost => FALSE
    BY DEF Backed
  <2> QED
    BY <1>6, <2>1 DEF Lost
<1>7. FinalSavedOK'
  BY <1>2, <1>5, <1>6 DEF FinalSavedOK
<1> QED
  BY <1>3, <1>4, <1>7

\* An insertion of a backed block with a checkpoint of a backed chain.
LEMMA InsertBacked ==
    ASSUME RInv, SInv', NEW r \in Roots, Backed(r, Lost), Fresh({r}),
           NEW jc \in Checkpoints, NEW fc \in Checkpoints, NEW n \in Roots, Backed(n, Lost),
           fc.epoch > StartFinalized.epoch => fc \in Named /\ IsCheckpointOf(fc, n),
           InsertSucceeds(r, jc, fc) \/ InsertFails(r, jc, fc),
           UNCHANGED <<dbFinalized, initSyncBlocks, blocksOnDisk, calls>>
    PROVE  /\ RestartPossible' /\ CheckpointsOK' /\ FinalSavedOK' /\ NodesBacked' /\ CallsBacked'
           /\ \A cp \in Lost' : cp \in Lost
           /\ work'.step \notin {"state", "insert", "fill", "payload"} => ROk'
<1>1. /\ \/ finalizedCheckpoint' = finalizedCheckpoint
         \/ finalizedCheckpoint' = fc /\ ~(fc.epoch <= finalizedCheckpoint.epoch)
      /\ nodeByRoot' \subseteq nodeByRoot \cup {r}
  BY InsertRaises, InsertStep, Zenon DEF RInv, SInv
<1>2. /\ finalizedCheckpoint.epoch \in Nat /\ StartFinalized.epoch \in Nat
      /\ finalizedCheckpoint.epoch >= StartFinalized.epoch /\ dbFinalized.epoch \in Nat
  BY RTyped
<1>3. CheckpointsOK' /\ FinalSavedOK' /\ \A cp \in Lost' : cp \in Lost
  <2>1. CASE finalizedCheckpoint' = finalizedCheckpoint
    <3>1. Lost' = Lost /\ Saved' = Saved
      BY <2>1 DEF Lost, Saved
    <3> QED
      BY <2>1, <3>1 DEF RInv, ROk, CheckpointsOK, FinalSavedOK
  <2>2. CASE finalizedCheckpoint' = fc /\ ~(fc.epoch <= finalizedCheckpoint.epoch)
    <3>1. fc.epoch > finalizedCheckpoint.epoch /\ fc.epoch > StartFinalized.epoch
      BY <1>2, <2>2 DEF Checkpoints
    <3> QED
      BY <2>2, <3>1, FinalRaised
  <2> QED
    BY <1>1, <2>1, <2>2
<1>4. RestartPossible'
  BY DEF RInv, ROk, RestartPossible, ensureRootNotZeros
<1>5. NodesBacked'
  <2>1. \A x \in nodeByRoot' \cup initSyncBlocks' : Backed(x, Lost)
    BY <1>1 DEF RInv, ROk, NodesBacked
  <2>2. \A x \in nodeByRoot' \cup initSyncBlocks' : Backed(x, Lost')
    BY <1>3, <2>1 DEF Backed
  <2> QED
    BY <2>2 DEF NodesBacked
<1>6. CallsBacked'
  BY <1>3, CallsSteady
<1> QED
  BY <1>3, <1>4, <1>5, <1>6, TaskSteady DEF ROk

\* What a block finalizes is a checkpoint of its own chain.
LEMMA OwnFinal ==
    ASSUME NEW r \in Roots
    PROVE  /\ FC[r] \in Checkpoints /\ JC[r] \in Checkpoints
           /\ FC[r].epoch > StartFinalized.epoch =>
                 FC[r] \in finalCheckpoints /\ FC[r] \in Named /\ IsCheckpointOf(FC[r], r)
BY BlockCheckpoints, CheckpointAssumption DEF finalCheckpoints, Named

LEMMA ImportInsertRestart ==
    ASSUME RInv, SInv', ImportInsert
    PROVE  ROk'
<1> DEFINE r == work.root
<1>1. /\ work.task = "import" /\ work.step = "insert"
      /\ InsertSucceeds(r, JC[r], FC[r]) \/ InsertFails(r, JC[r], FC[r])
      /\ work' = [work EXCEPT !.step = "votes", !.votes = BlockVotes[r]] \/ work' = Idle
      /\ UNCHANGED <<calls, initSyncBlocks, blocksOnDisk, dbFinalized>>
  BY DEF ImportInsert, disk, dbCheckpoints
<1>2. r \in Roots /\ Fresh({r}) /\ Backed(r, Lost)
  BY <1>1 DEF RInv, SInv, WorkOK, ImportOK, ROk, TaskBacked
<1>3. work'.step \notin {"state", "insert", "fill", "payload"}
  <2>1. CASE work' = Idle
    BY <2>1 DEF Idle
  <2>2. CASE work' = [work EXCEPT !.step = "votes", !.votes = BlockVotes[r]]
    <3>1. work \in Works
      BY RTyped
    <3> QED
      BY <2>2, <3>1 DEF Works
  <2> QED
    BY <1>1, <2>1, <2>2
<1> HIDE DEF r
<1>4. /\ FC[r] \in Checkpoints /\ JC[r] \in Checkpoints
      /\ FC[r].epoch > StartFinalized.epoch => FC[r] \in Named /\ IsCheckpointOf(FC[r], r)
  BY <1>2, OwnFinal
<1> QED
  BY <1>1, <1>2, <1>3, <1>4, InsertBacked

LEMMA BatchInsertRestart ==
    ASSUME RInv, SInv', BatchInsert
    PROVE  ROk'
<1> DEFINE r == oldest(work.inserts)
           after == IF r = newest(work.batch) THEN "verdict" ELSE "insert"
<1>1. /\ work.task = "batch" /\ work.step = "insert"
      /\ InsertSucceeds(r, JC[r], FC[r]) \/ InsertFails(r, JC[r], FC[r])
      /\ work' = [work EXCEPT !.inserts = @ \ {r}, !.step = after] \/ work' = Idle
      /\ UNCHANGED <<calls, initSyncBlocks, blocksOnDisk, dbFinalized>>
  BY DEF BatchInsert, disk, dbCheckpoints
<1>2. /\ work \in Works /\ work.inserts \in SUBSET Roots /\ work.inserts \subseteq work.batch
      /\ work.inserts # {} /\ Fresh(work.batch \cup work.inserts)
      /\ \A z \in work.batch : Backed(z, Lost)
  BY <1>1 DEF RInv, SInv, WorkOK, BatchOK, ROk, TaskBacked, Works
<1>3. r \in work.inserts
  BY <1>2, OldestIsLeast
<1> HIDE DEF r
<1>4. r \in Roots /\ Backed(r, Lost) /\ Fresh({r})
  BY <1>2, <1>3 DEF Fresh
<1>5. /\ FC[r] \in Checkpoints /\ JC[r] \in Checkpoints
      /\ FC[r].epoch > StartFinalized.epoch => FC[r] \in Named /\ IsCheckpointOf(FC[r], r)
  BY <1>4, OwnFinal
<1>6. /\ RestartPossible' /\ CheckpointsOK' /\ FinalSavedOK' /\ NodesBacked' /\ CallsBacked'
      /\ \A cp \in Lost' : cp \in Lost
      /\ work'.step \notin {"state", "insert", "fill", "payload"} => ROk'
  BY <1>1, <1>4, <1>5, InsertBacked
<1>7. CASE work' = Idle
  BY <1>6, <1>7 DEF Idle
<1>8. CASE work' = [work EXCEPT !.inserts = @ \ {r}, !.step = after]
  <2>1. /\ work'.task = "batch" /\ work'.batch = work.batch
        /\ work'.step \in {"verdict", "insert"}
    BY <1>1, <1>2, <1>8 DEF Works
  <2>2. \A z \in work.batch : Backed(z, Lost')
    BY <1>2, <1>6 DEF Backed
  <2>3. TaskBacked'
    BY <2>1, <2>2 DEF TaskBacked
  <2> QED
    BY <1>6, <2>3 DEF ROk
<1> QED
  BY <1>1, <1>7, <1>8

\* The missing blocks, with the justified checkpoint of the batch's parent as the finalized one.
LEMMA BatchFillRestart ==
    ASSUME RInv, SInv', BatchFill
    PROVE  ROk'
<1> DEFINE r == oldest(work.inserts)
           o == oldest(work.batch)
           p == ParentRoot[o]
<1>1. /\ work.step = "fill" /\ UNCHANGED <<calls, initSyncBlocks, blocksOnDisk, dbFinalized>>
      /\ \/ UNCHANGED vars /\ work' = [work EXCEPT !.step = "payload"]
         \/ /\ work.inserts # {}
            /\ InsertSucceeds(r, FC[p], JC[p]) \/ InsertFails(r, FC[p], JC[p])
            /\ work' = [work EXCEPT !.inserts = @ \ {r}] \/ work' = Idle
  <2>1. fillCheckpoints(p).justified = FC[p] /\ fillCheckpoints(p).finalized = JC[p]
    BY DEF fillCheckpoints
  <2> QED
    BY <2>1 DEF BatchFill, disk, dbCheckpoints
<1>2. /\ work.task = "batch" /\ work.root = o /\ p \in Roots /\ Backed(p, Lost)
      /\ work \in Works /\ work.inserts \in SUBSET Roots /\ work.batch \in Batches
      /\ \A z \in work.inserts : Backed(z, Lost)
      /\ Fresh(work.batch \cup work.inserts)
  BY <1>1 DEF RInv, SInv, WorkOK, StepOK, BatchOK, Works, ROk, TaskBacked
<1>3. \A z \in work.batch : ~(Slot[z] < Slot[work.root])
  <2>1. work.batch \in SUBSET Roots /\ work.batch # {}
    BY <1>2, BatchFacts, Zenon
  <2>2. o \in work.batch /\ \A z \in work.batch : Slot[o] <= Slot[z]
    BY <2>1, OldestIsLeast
  <2> QED
    BY <1>2, <2>1, <2>2, BlocksAssumption
<1>4. JC[p].epoch > StartFinalized.epoch => JC[p] \in Named /\ IsCheckpointOf(JC[p], p)
  <2>1. p \in {ParentRoot[oldest(S)] : S \in Batches}
    BY <1>2
  <2> HIDE DEF p
  <2>2. JC[p].epoch > StartFinalized.epoch => JC[p] \in batchCheckpoints
    BY <1>2, <2>1 DEF batchCheckpoints
  <2> QED
    BY <1>2, <2>2, CheckpointAssumption DEF Named
<1>5. JC[p] \in Checkpoints /\ FC[p] \in Checkpoints
  BY <1>2, BlockCheckpoints
<1> DEFINE Task == /\ Backed(p, Lost')
                   /\ \A z \in work.inserts : Backed(z, Lost')
<1>6. ASSUME \A cp \in Lost' : cp \in Lost PROVE Task
  BY <1>2, <1>6 DEF Backed
<1> HIDE DEF r, Task
<1>7. ASSUME UNCHANGED vars, work' = [work EXCEPT !.step = "payload"] PROVE ROk'
  <2>1. finalizedCheckpoint' = finalizedCheckpoint /\ nodeByRoot' = nodeByRoot
    BY <1>7 DEF vars, tree, checkpoints
  <2>2. /\ RestartPossible' /\ CheckpointsOK' /\ FinalSavedOK' /\ NodesBacked' /\ CallsBacked'
        /\ \A cp \in Lost' : cp \in Lost
    BY <1>1, <2>1, QuietBacked
  <2>3. /\ work'.task = "batch" /\ work'.step = "payload" /\ work'.batch = work.batch
        /\ work'.root = work.root
    BY <1>2, <1>7 DEF Works
  <2>4. TaskBacked'
    BY <1>2, <1>3, <1>6, <2>2, <2>3 DEF TaskBacked, Task
  <2> QED
    BY <2>2, <2>4 DEF ROk
<1>8. ASSUME work.inserts # {}, InsertSucceeds(r, FC[p], JC[p]) \/ InsertFails(r, FC[p], JC[p]),
             work' = [work EXCEPT !.inserts = @ \ {r}] \/ work' = Idle
      PROVE  ROk'
  <2>1. r \in work.inserts
    BY <1>2, <1>8, OldestIsLeast DEF r
  <2>2. r \in Roots /\ Backed(r, Lost) /\ Fresh({r})
    BY <1>2, <2>1 DEF Fresh
  <2> HIDE DEF p
  <2>3. /\ RestartPossible' /\ CheckpointsOK' /\ FinalSavedOK' /\ NodesBacked' /\ CallsBacked'
        /\ \A cp \in Lost' : cp \in Lost
        /\ work'.step \notin {"state", "insert", "fill", "payload"} => ROk'
    BY <1>1, <1>2, <1>4, <1>5, <1>8, <2>2, InsertBacked
  <2>4. CASE work' = Idle
    BY <2>3, <2>4 DEF Idle
  <2>5. CASE work' = [work EXCEPT !.inserts = @ \ {r}]
    <3>1. /\ work'.task = "batch" /\ work'.step = "fill" /\ work'.batch = work.batch
          /\ work'.inserts \subseteq work.inserts
      BY <1>1, <1>2, <2>5 DEF Works
    <3>2. TaskBacked'
      BY <1>2, <1>6, <2>3, <3>1 DEF TaskBacked, Task, p
    <3> QED
      BY <2>3, <3>2 DEF ROk
  <2> QED
    BY <1>8, <2>4, <2>5
<1> QED
  BY <1>1, <1>7, <1>8

\* A later checkpoint goes to disk, after its block and the blocks in memory.
LEMMA FinalWritten ==
    ASSUME RInv, SInv', NEW cp \in Named, cp = finalizedCheckpoint \/ cp \in finalCheckpoints,
           cp.epoch > dbFinalized.epoch, dbFinalized' = cp, cp.root \in blocksOnDisk',
           \A x \in initSyncBlocks \cup blocksOnDisk : x \in blocksOnDisk',
           initSyncBlocks' = {}, UNCHANGED vars, calls' = calls
    PROVE  /\ RestartPossible' /\ CheckpointsOK' /\ FinalSavedOK' /\ NodesBacked' /\ CallsBacked'
           /\ \A cq \in Lost' : cq \in Lost
           /\ work'.step \notin {"state", "insert", "fill", "payload"} => ROk'
<1>1. finalizedCheckpoint' = finalizedCheckpoint /\ nodeByRoot' = nodeByRoot
  BY DEF vars, tree, checkpoints
<1>2. /\ cp.epoch \in Nat /\ finalizedCheckpoint.epoch \in Nat /\ dbFinalized.epoch \in Nat
      /\ cp.root \in Roots
  BY RTyped, NamedFacts
<1>3. \A x \in Saved : x \in Saved'
  BY DEF Saved
<1>4. \A cq \in Lost' : cq \in Lost
  BY <1>1, <1>2, <1>3, LostFewer
<1>5. RestartPossible'
  BY <1>2, ConstantsAssumption DEF RestartPossible, ensureRootNotZeros
<1>6. CheckpointsOK'
  BY <1>1 DEF RInv, ROk, CheckpointsOK
<1>7. FinalSavedOK'
  <2>1. \A cq \in Lost' : cq.epoch > finalizedCheckpoint'.epoch
    BY <1>1, <1>4 DEF RInv, ROk, FinalSavedOK
  <2>2. finalizedCheckpoint.epoch > cp.epoch => finalizedCheckpoint.root \in Saved'
    BY <1>2, <1>3 DEF RInv, ROk, FinalSavedOK
  <2> QED
    BY <1>1, <2>1, <2>2 DEF FinalSavedOK
<1>8. NodesBacked'
  <2>1. \A x \in nodeByRoot' \cup initSyncBlocks' : Backed(x, Lost)
    BY <1>1 DEF RInv, ROk, NodesBacked
  <2>2. \A x \in nodeByRoot' \cup initSyncBlocks' : Backed(x, Lost')
    BY <1>4, <2>1 DEF Backed
  <2> QED
    BY <2>2 DEF NodesBacked
<1>9. CallsBacked'
  BY <1>4, CallsSteady
<1> QED
  BY <1>4, <1>5, <1>6, <1>7, <1>8, <1>9, TaskSteady DEF ROk

LEMMA ImportFinalityRestart ==
    ASSUME RInv, SInv', ImportFinality
    PROVE  ROk'
<1>1. /\ work' = Idle /\ UNCHANGED vars /\ calls' = calls
      /\ \/ /\ updateFinalized(finalizedCheckpoint)
            /\ saveFinalized(finalizedCheckpoint, initSyncBlocks)
         \/ UNCHANGED <<blocksOnDisk, initSyncBlocks, dbFinalized>>
  BY DEF ImportFinality
<1>2. work'.step \notin {"state", "insert", "fill", "payload"}
  BY <1>1 DEF Idle
<1>3. CASE UNCHANGED <<blocksOnDisk, initSyncBlocks, dbFinalized>>
  <2>1. finalizedCheckpoint' = finalizedCheckpoint /\ nodeByRoot' = nodeByRoot
    BY <1>1 DEF vars, tree, checkpoints
  <2> QED
    BY <1>1, <1>2, <1>3, <2>1, QuietBacked
<1>4. ASSUME updateFinalized(finalizedCheckpoint),
             saveFinalized(finalizedCheckpoint, initSyncBlocks)
      PROVE  ROk'
  <2> DEFINE cp == finalizedCheckpoint
  <2>1. /\ cp.epoch > dbFinalized.epoch /\ dbFinalized' = cp
        /\ blocksOnDisk' = blocksOnDisk \cup initSyncBlocks /\ initSyncBlocks' = {}
    BY <1>4 DEF updateFinalized, saveFinalized
  <2>2. cp # StartFinalized
    BY <2>1, RTyped
  <2>3. cp \in Named /\ cp.root \in Saved
    BY <2>1, <2>2 DEF RInv, ROk, CheckpointsOK, FinalSavedOK
  <2>4. cp.root \in blocksOnDisk' /\ \A x \in initSyncBlocks \cup blocksOnDisk : x \in blocksOnDisk'
    BY <2>1, <2>3 DEF Saved
  <2> QED
    BY <1>1, <1>2, <2>1, <2>3, <2>4, FinalWritten
<1> QED
  BY <1>1, <1>3, <1>4

\* The block before one of a batch is backed: the parent of the batch, or a block the loop over
\* the payloads has passed.
LEMMA BatchParentBacked ==
    ASSUME RInv, work.task = "batch", work.step = "payload"
    PROVE  ParentRoot[work.root] \in Roots /\ Backed(ParentRoot[work.root], Lost)
<1> DEFINE r == work.root
           S == work.batch
           before == {z \in S : Slot[z] < Slot[r]}
<1>1. /\ S \in Batches /\ r \in S /\ ParentRoot[oldest(S)] \in Roots
      /\ Backed(ParentRoot[oldest(S)], Lost)
      /\ \A z \in S : Slot[z] < Slot[r] => Backed(z, Lost)
  BY DEF RInv, SInv, WorkOK, BatchOK, ROk, TaskBacked
<1> HIDE DEF r, S
<1>2. /\ S \in SUBSET Roots /\ S # {}
      /\ \A x, z \in S : Slot[x] = Slot[z] => x = z
      /\ r # oldest(S) => ParentRoot[r] = newest(before)
  BY <1>1, BatchFacts, Zenon
<1>3. CASE r = oldest(S)
  BY <1>1, <1>3 DEF r
<1>4. CASE r # oldest(S)
  <2>1. oldest(S) \in S /\ Slot[oldest(S)] <= Slot[r]
    BY <1>1, <1>2, OldestIsLeast
  <2>2. oldest(S) \in before
    BY <1>1, <1>2, <1>4, <2>1, BlocksAssumption
  <2>3. before \in SUBSET Roots /\ before # {}
    BY <1>2, <2>2
  <2>4. newest(before) \in before
    <3> HIDE DEF before
    <3> QED
      BY <2>3, NewestIsGreatest
  <2>5. ParentRoot[r] \in Roots /\ Backed(ParentRoot[r], Lost)
    BY <1>1, <1>2, <1>4, <2>4
  <2> QED
    BY <2>5 DEF r
<1> QED
  BY <1>3, <1>4

\* One round of the loop over the payloads: the block is saved, and then the checkpoint it
\* finalizes is not lost.
LEMMA BatchPayloadRestart ==
    ASSUME RInv, SInv', NEW verdict, BatchPayload(verdict)
    PROVE  ROk'
<1> DEFINE r == work.root
           cached == initSyncBlocks \cup {r}
           next == CHOOSE z \in work.batch : ParentRoot[z] = r
           left == {cp \in Lost : cp.root # r}
<1>1. /\ work.step = "payload" /\ calls' = calls /\ UNCHANGED vars
      /\ \/ updateFinalized(FC[r]) /\ saveFinalized(FC[r], cached)
         \/ /\ dbFinalized' = dbFinalized
            /\ \/ blocksOnDisk' = blocksOnDisk \cup cached /\ initSyncBlocks' = {}
               \/ initSyncBlocks' = cached /\ blocksOnDisk' = blocksOnDisk
      /\ work' = [nextInBatch EXCEPT !.valid = (verdict = "VALID")]
  BY DEF BatchPayload
<1>2. /\ work \in Works /\ work.task = "batch"
      /\ work.batch \in Batches /\ r \in work.batch
      /\ ParentRoot[oldest(work.batch)] \in Roots /\ Backed(ParentRoot[oldest(work.batch)], Lost)
      /\ \A z \in work.batch : Slot[z] < Slot[r] => Backed(z, Lost)
  BY <1>1 DEF RInv, SInv, WorkOK, StepOK, BatchOK, ROk, TaskBacked
<1>3. /\ work.batch \in SUBSET Roots /\ work.batch # {} /\ r \in Roots
      /\ \A x, z \in work.batch : Slot[x] = Slot[z] => x = z
  <2>1. /\ work.batch \in SUBSET Roots /\ work.batch # {}
        /\ \A x, z \in work.batch : Slot[x] = Slot[z] => x = z
    BY <1>2, BatchFacts, Zenon
  <2> QED
    BY <2>1, <1>2
<1>4. ParentRoot[r] \in Roots /\ Backed(ParentRoot[r], Lost)
  BY <1>1, <1>2, BatchParentBacked
<1> HIDE DEF r, next
<1>5. Backed(r, left)
  <2>1. left \in SUBSET Named /\ \A cp \in left : cp.root # r
    BY RTyped
  <2>2. Backed(ParentRoot[r], left)
    BY <1>4 DEF Backed
  <2> HIDE DEF left
  <2> QED
    BY <1>3, <2>1, <2>2, BackedChild
<1>6. finalizedCheckpoint' = finalizedCheckpoint /\ nodeByRoot' = nodeByRoot
  BY <1>1 DEF vars, tree, checkpoints
<1>7. /\ RestartPossible' /\ CheckpointsOK' /\ FinalSavedOK' /\ NodesBacked' /\ CallsBacked'
      /\ \A cp \in Lost' : cp \in left
  <2>1. ASSUME updateFinalized(FC[r]), saveFinalized(FC[r], cached)
        PROVE  /\ RestartPossible' /\ CheckpointsOK' /\ FinalSavedOK' /\ NodesBacked'
               /\ CallsBacked' /\ \A cp \in Lost' : cp \in left
    <3> DEFINE fc == FC[r]
    <3>1. /\ fc.epoch > dbFinalized.epoch /\ dbFinalized' = fc
          /\ blocksOnDisk' = blocksOnDisk \cup initSyncBlocks \cup {r} /\ initSyncBlocks' = {}
      BY <2>1 DEF updateFinalized, saveFinalized
    <3>2. fc.epoch > StartFinalized.epoch
      BY <1>3, <3>1, RTyped, OwnFinal DEF Checkpoints
    <3>3. fc \in finalCheckpoints /\ fc \in Named /\ IsCheckpointOf(fc, r)
      BY <1>3, <3>2, OwnFinal
    <3>4. fc.root \in Saved \cup {r}
      <4>1. fc \notin left
        BY <1>5, <3>3 DEF Backed
      <4> QED
        BY <3>1, <3>3, <4>1 DEF Lost
    <3>5. fc.root \in blocksOnDisk' /\ \A x \in initSyncBlocks \cup blocksOnDisk : x \in blocksOnDisk'
      BY <3>1, <3>4 DEF Saved
    <3> HIDE DEF fc
    <3>6. /\ RestartPossible' /\ CheckpointsOK' /\ FinalSavedOK' /\ NodesBacked' /\ CallsBacked'
          /\ \A cp \in Lost' : cp \in Lost
      BY <1>1, <3>1, <3>3, <3>5, FinalWritten
    <3>7. \A cp \in Lost' : cp.root # r
      BY <3>1 DEF Lost, Saved
    <3> QED
      BY <3>6, <3>7
  <2>2. ASSUME dbFinalized' = dbFinalized,
               \/ blocksOnDisk' = blocksOnDisk \cup cached /\ initSyncBlocks' = {}
               \/ initSyncBlocks' = cached /\ blocksOnDisk' = blocksOnDisk
        PROVE  /\ RestartPossible' /\ CheckpointsOK' /\ FinalSavedOK' /\ NodesBacked'
               /\ CallsBacked' /\ \A cp \in Lost' : cp \in left
    <3>1. /\ r \in Saved' /\ \A x \in Saved : x \in Saved'
          /\ \A x \in blocksOnDisk : x \in blocksOnDisk'
          /\ \A x \in initSyncBlocks' : x \in initSyncBlocks \/ x = r
      BY <2>2 DEF Saved
    <3>2. \A cp \in Lost' : cp \in Lost
      BY <1>6, <2>2, <3>1 DEF Lost
    <3>3. \A cp \in Lost' : cp \in left
      BY <3>1, <3>2 DEF Lost
    <3>4. RestartPossible' /\ CheckpointsOK'
      BY <1>6, <2>2, <3>1 DEF RInv, ROk, RestartPossible, ensureRootNotZeros, CheckpointsOK
    <3>5. FinalSavedOK'
      BY <1>6, <2>2, <3>1, <3>2 DEF RInv, ROk, FinalSavedOK
    <3>6. \A x \in nodeByRoot \cup initSyncBlocks : Backed(x, Lost)
      BY DEF RInv, ROk, NodesBacked
    <3>7. \A x \in nodeByRoot \cup initSyncBlocks \cup {r} : Backed(x, Lost')
      BY <1>5, <3>2, <3>3, <3>6 DEF Backed
    <3>8. NodesBacked'
      BY <1>6, <3>1, <3>7 DEF NodesBacked
    <3>9. CallsBacked'
      BY <1>1, <3>2, CallsSteady
    <3> QED
      BY <3>3, <3>4, <3>5, <3>8, <3>9
  <2> QED
    BY <1>1, <2>1, <2>2
<1>8. /\ Backed(ParentRoot[oldest(work.batch)], Lost')
      /\ \A z \in work.batch : z = r \/ Slot[z] < Slot[r] => Backed(z, Lost')
  <2>1. \A cp \in Lost' : cp \in Lost
    BY <1>7
  <2>2. Backed(r, Lost')
    BY <1>5, <1>7, BackedFewer
  <2>3. \A n : Backed(n, Lost) => Backed(n, Lost')
    BY <2>1 DEF Backed
  <2> QED
    BY <1>2, <2>2, <2>3
<1>9. TaskBacked'
  <2>1. CASE r = newest(work.batch)
    <3>1. work' = [[work EXCEPT !.step = "insert", !.inserts = work.batch]
                       EXCEPT !.valid = (verdict = "VALID")]
      BY <1>1, <2>1, Zenon DEF nextInBatch, r
    <3>2. work'.task = "batch" /\ work'.step = "insert" /\ work'.batch = work.batch
      BY <1>2, <3>1 DEF Works
    <3>3. \A z \in work.batch : Slot[z] <= Slot[r] /\ Slot[z] \in Nat
      BY <1>3, <2>1, NewestIsGreatest, BlocksAssumption
    <3>4. \A z \in work.batch : z = r \/ Slot[z] < Slot[r]
      BY <1>2, <1>3, <3>3
    <3>5. \A z \in work.batch : Backed(z, Lost')
      BY <1>8, <3>4
    <3> QED
      BY <3>2, <3>5 DEF TaskBacked
  <2>2. CASE r # newest(work.batch)
    <3>1. work' = [[work EXCEPT !.root = next] EXCEPT !.valid = (verdict = "VALID")]
      BY <1>1, <2>2, Zenon DEF nextInBatch, r, next
    <3>2. \A y \in work.batch : Slot[y] < Slot[next] => y = r \/ Slot[y] < Slot[r]
      BY <1>2, <2>2, NextOfBatch, Zenon DEF next
    <3>3. /\ work'.task = "batch" /\ work'.step = "payload" /\ work'.batch = work.batch
          /\ work'.root = next
      BY <1>1, <1>2, <3>1 DEF Works
    <3>4. \A z \in work.batch : Slot[z] < Slot[next] => Backed(z, Lost')
      BY <1>8, <3>2
    <3> QED
      BY <1>2, <1>8, <3>3, <3>4 DEF TaskBacked
  <2> QED
    BY <2>1, <2>2
<1> QED
  BY <1>7, <1>9 DEF ROk

\* The block of a checkpoint of the store or of the disk.
LEMMA CheckpointRoot ==
    ASSUME NEW cp \in {StartFinalized} \cup Named
    PROVE  /\ ensureRootNotZeros(cp.root) \in Roots /\ Slot[ensureRootNotZeros(cp.root)] \in Nat
           /\ Slot[ensureRootNotZeros(cp.root)] <= EpochStart(cp.epoch)
           /\ cp \in Named => ensureRootNotZeros(cp.root) = cp.root
<1>1. CASE cp \in Named
  BY <1>1, NamedFacts, ConstantsAssumption DEF ensureRootNotZeros
<1>2. CASE cp \notin Named
  <2>1. cp = StartFinalized /\ ensureRootNotZeros(cp.root) = StartRoot
    BY <1>2, FinalityAssumption DEF ensureRootNotZeros
  <2> QED
    BY <1>2, <2>1, CheckpointAssumption, ConstantsAssumption, BlocksAssumption
<1> QED
  BY <1>1, <1>2

\* The block of the finalized checkpoint of the store is backed, also when a batch has written
\* a later checkpoint and this one is not saved.
LEMMA FinalBacked ==
    ASSUME RInv
    PROVE  /\ ensureRootNotZeros(finalizedCheckpoint.root) \in Roots
           /\ Backed(ensureRootNotZeros(finalizedCheckpoint.root), Lost)
<1> DEFINE fin == finalizedCheckpoint
           f == ensureRootNotZeros(fin.root)
           db == dbFinalized
<1>1. /\ fin \in {StartFinalized} \cup Named /\ db \in {StartFinalized} \cup Named
      /\ db.epoch >= fin.epoch => db = fin \/ db \in finalCheckpoints
      /\ \A cp \in Lost : cp.epoch > fin.epoch
      /\ fin.epoch > db.epoch => fin.root \in Saved
      /\ ensureRootNotZeros(db.root) \in Saved
  BY DEF RInv, ROk, CheckpointsOK, FinalSavedOK, RestartPossible, Saved
<1>2. /\ fin.epoch \in Nat /\ db.epoch \in Nat /\ StartFinalized.epoch \in Nat
      /\ db.epoch >= StartFinalized.epoch /\ Lost \in SUBSET Named
  BY RTyped
<1>3. /\ f \in Roots /\ Slot[f] \in Nat /\ Slot[f] <= EpochStart(fin.epoch)
      /\ fin \in Named => f = fin.root
  BY <1>1, CheckpointRoot
<1> HIDE DEF fin, f, db
<1>4. ASSUME NEW e \in Nat, e >= fin.epoch PROVE Slot[f] <= EpochStart(e)
  <2>1. /\ EpochStart(fin.epoch) \in Nat /\ EpochStart(e) \in Nat
        /\ EpochStart(fin.epoch) <= EpochStart(e)
    BY <1>2, <1>4, EpochStarts
  <2> QED
    BY <1>3, <2>1
<1>5. ASSUME NEW cp \in Lost, IsCheckpointOf(cp, f) PROVE FALSE
  <2>1. /\ cp \in Named /\ cp.epoch \in Nat /\ cp.epoch > fin.epoch
        /\ cp.root \notin Saved /\ cp.epoch > db.epoch
    BY <1>1, <1>2, NamedFacts DEF Lost, db
  <2>2. cp.root = f
    <3>1. Slot[f] <= EpochStart(cp.epoch)
      BY <1>2, <1>4, <2>1
    <3> QED
      BY <1>3, <1>5, <2>1, <3>1, NewestCheckpoint
  <2>3. CASE fin.epoch > db.epoch
    <3>1. fin \in Named
      BY <1>1, <1>2, <2>3
    <3> QED
      BY <1>1, <1>3, <2>1, <2>2, <2>3, <3>1
  <2>4. CASE db = fin
    BY <1>1, <2>1, <2>2, <2>4 DEF f
  <2>5. CASE db.epoch >= fin.epoch /\ db \in finalCheckpoints
    <3>1. cp.epoch >= db.epoch
      BY <1>2, <2>1
    <3>2. IsCheckpointOf(db, f)
      BY <2>1, <2>2, <2>5, <3>1, CheckpointAssumption DEF Named
    <3>3. db \in Named /\ Slot[f] <= EpochStart(db.epoch)
      BY <1>2, <1>4, <2>5 DEF Named
    <3>4. db.root = f /\ ensureRootNotZeros(db.root) = db.root
      BY <1>3, <3>2, <3>3, NewestCheckpoint, CheckpointRoot
    <3> QED
      BY <1>1, <2>1, <2>2, <3>4
  <2> QED
    BY <1>1, <1>2, <2>3, <2>4, <2>5
<1>6. Backed(f, Lost)
  BY <1>5 DEF Backed
<1> QED
  BY <1>3, <1>6 DEF f, fin

\* The walk of fillInForkChoiceMissingBlocks: a missing block's parent is missing too, or the
\* block is the oldest missing one; and it starts with p.
LEMMA MissingChain ==
    ASSUME NEW p \in Roots, NEW saved \in SUBSET Roots, NEW fill,
           fill = missingAncestors(p, saved)
    PROVE  /\ missing(p, saved) => p \in fill
           /\ \A z \in fill : z \in Roots /\ z \in saved
           /\ \A z \in fill : \/ ParentRoot[z] \in fill \/ ParentRoot[z] = NoNode
                              \/ z = oldest(fill)
<1> DEFINE range == NotAfter(p)
           up == [z \in Roots |-> IF missing(z, saved) THEN Up(ParentRoot)[z] ELSE {}]
           C == Closure(range, up, p)
<1>1. fill = {z \in C : missing(z, saved)}
  BY Zenon DEF missingAncestors
<1>2. \A x \in Roots : up[x] = IF missing(x, saved) /\ ParentRoot[x] # NoNode
                               THEN {ParentRoot[x]} ELSE {}
  BY DEF Up
<1>3. range \in SUBSET Roots /\ p \in range
  BY BlocksAssumption DEF NotAfter
<1>4. \A x \in range : ParentRoot[x] # NoNode => ParentRoot[x] \in range
  <2>1. ASSUME NEW x \in range, ParentRoot[x] # NoNode PROVE ParentRoot[x] \in range
    <3>1. x \in Roots /\ Slot[x] \in Nat /\ Slot[p] \in Nat /\ Slot[x] <= Slot[p]
      BY BlocksAssumption DEF NotAfter
    <3>2. ParentRoot[x] \in Roots /\ Slot[ParentRoot[x]] < Slot[x]
      BY <2>1, <3>1, ChainParent
    <3> QED
      BY <3>1, <3>2, BlocksAssumption DEF NotAfter
  <2> QED
    BY <2>1
<1> HIDE DEF range, up
<1>5. \A x \in range : up[x] \subseteq range
  BY <1>2, <1>3, <1>4
<1>6. p \in C /\ C \subseteq range /\ \A x \in C : up[x] \subseteq C
  BY <1>3, <1>5, ClosureClosed
<1>7. ASSUME NEW T \in SUBSET range, p \in T, \A x \in T : up[x] \subseteq T PROVE C \subseteq T
  BY <1>7, ClosureLeast
<1> HIDE DEF C
<1>8. C \subseteq BlockChain[p]
  <2>1. /\ p \in BlockChain[p] /\ BlockChain[p] \subseteq Roots
        /\ \A x \in BlockChain[p] : Slot[x] <= Slot[p]
        /\ \A x \in BlockChain[p] : ParentRoot[x] # NoNode => ParentRoot[x] \in BlockChain[p]
    BY ChainClosed
  <2>2. BlockChain[p] \in SUBSET range /\ \A x \in BlockChain[p] : up[x] \subseteq BlockChain[p]
    BY <1>2, <2>1 DEF range, NotAfter
  <2> QED
    BY <1>7, <2>1, <2>2
<1>9. \A z \in fill : z \in Roots /\ z \in saved /\ missing(z, saved)
  BY <1>1, <1>3, <1>6 DEF missing
<1>10. ASSUME NEW z \in fill, ParentRoot[z] \notin fill, ParentRoot[z] # NoNode
       PROVE  z = oldest(fill)
  <2> DEFINE q == ParentRoot[z]
             T == {x \in range : z \in BlockChain[x] \/ x = q}
  <2>1. z \in Roots /\ z \in C /\ missing(z, saved) /\ z \in BlockChain[p]
    BY <1>1, <1>8, <1>9
  <2>2. q \in C /\ q \in range
    BY <1>2, <1>6, <1>10, <2>1
  <2>3. ~missing(q, saved)
    BY <1>1, <1>10, <2>2
  <2>4. ASSUME NEW x \in T PROVE up[x] \subseteq T
    <3>1. x \in Roots /\ x \in range
      BY <1>3
    <3>2. CASE x = q
      BY <1>2, <2>3, <3>1, <3>2
    <3>3. CASE x = z
      <4>1. up[x] \subseteq {q}
        BY <1>2, <3>1, <3>3
      <4>2. q \in T
        BY <2>2
      <4> QED
        BY <4>1, <4>2
    <3>4. CASE z \in BlockChain[x] /\ x # z /\ ParentRoot[x] # NoNode
      <4>1. BlockChain[x] = {x} \cup BlockChain[ParentRoot[x]]
        BY <3>1, <3>4, ChainParent
      <4>2. ParentRoot[x] \in T
        BY <1>4, <3>1, <3>4, <4>1
      <4> HIDE DEF T
      <4> QED
        BY <1>2, <3>1, <4>2
    <3>5. CASE ParentRoot[x] = NoNode
      BY <1>2, <3>1, <3>5
    <3> QED
      BY <3>2, <3>3, <3>4, <3>5
  <2>5. C \subseteq T
    <3>1. T \in SUBSET range /\ p \in T
      BY <1>3, <2>1
    <3> HIDE DEF T
    <3> QED
      BY <1>7, <2>4, <3>1
  <2>6. \A y \in fill : z \in BlockChain[y]
    BY <1>1, <2>3, <2>5
  <2>7. fill \in SUBSET Roots /\ fill # {}
    BY <1>9, <1>10
  <2> DEFINE o == oldest(fill)
  <2>8. o \in fill /\ o \in Roots /\ Slot[o] <= Slot[z] /\ Slot[o] \in Nat /\ Slot[z] \in Nat
    BY <2>7, OldestIsLeast, BlocksAssumption
  <2> HIDE DEF o
  <2>9. z # o => Slot[z] < Slot[o]
    BY <2>6, <2>8, ChainEarlier
  <2> QED
    BY <2>8, <2>9 DEF o
<1> QED
  BY <1>1, <1>6, <1>9, <1>10

\* A batch starts: its parent is backed, and so are the missing blocks, which lead down to the
\* store or to its finalized block.
LEMMA StartBatchRestart ==
    ASSUME RInv, SInv', NEW S \in Batches, StartBatch(S)
    PROVE  ROk'
<1> DEFINE p == ParentRoot[oldest(S)]
           fill == missingAncestors(p, blocksOnDisk')
           f == ensureRootNotZeros(finalizedCheckpoint.root)
           started == [Idle EXCEPT !.task = "batch", !.step = "fill", !.root = oldest(S),
                                   !.batch = S, !.inserts = fill]
<1>1. /\ hasBlockInInitSyncOrDB(p) /\ verifyBlkPreState(p)
      /\ \/ work' = started /\ (fill = {} \/ linked(fill))
         \/ work' = Idle
      /\ UNCHANGED vars /\ calls' = calls /\ dbFinalized' = dbFinalized
  BY Zenon DEF StartBatch, dbCheckpoints
<1>2. /\ \A x \in initSyncBlocks' : x \in initSyncBlocks
      /\ \A x \in blocksOnDisk : x \in blocksOnDisk'
      /\ \A x \in initSyncBlocks : x \in initSyncBlocks' \cup blocksOnDisk'
      /\ \A x \in Saved' : x \in Saved
  BY <1>1, PreStateKept
<1>3. finalizedCheckpoint' = finalizedCheckpoint /\ nodeByRoot' = nodeByRoot
  BY <1>1 DEF vars, tree, checkpoints
<1> HIDE DEF fill, started, p
<1>4. /\ RestartPossible' /\ CheckpointsOK' /\ FinalSavedOK' /\ NodesBacked' /\ CallsBacked'
      /\ \A cp \in Lost' : cp \in Lost
      /\ work' = work \/ work'.step \notin {"state", "insert", "fill", "payload"} => ROk'
  BY <1>1, <1>2, <1>3, QuietBacked
<1>5. /\ blocksOnDisk' \in SUBSET Roots /\ Lost \in SUBSET Named /\ p \in Saved /\ p \in Roots
      /\ finalizedCheckpoint.epoch \in Nat
  BY <1>1, RTyped DEF SInv, DataOK, Saved, hasBlockInInitSyncOrDB
<1>6. /\ missing(p, blocksOnDisk') => p \in fill
      /\ \A z \in fill : z \in Roots /\ z \in blocksOnDisk'
      /\ \A z \in fill : \/ ParentRoot[z] \in fill \/ ParentRoot[z] = NoNode
                         \/ z = oldest(fill)
  BY <1>5, MissingChain DEF fill
<1>7. /\ \A cp \in Lost : cp.root \notin Saved /\ cp.epoch > finalizedCheckpoint.epoch
      /\ \A n \in nodeByRoot \cup initSyncBlocks : Backed(n, Lost)
  BY DEF Lost, RInv, ROk, FinalSavedOK, NodesBacked
<1>8. \/ p \in fill
      \/ Backed(p, Lost)
  <2>1. CASE p \in nodeByRoot \cup initSyncBlocks
    BY <1>7, <2>1
  <2>2. CASE Slot[p] <= EpochStart(finalizedCheckpoint.epoch)
    BY <1>5, <1>7, <2>2, BackedOld
  <2>3. CASE p \notin nodeByRoot \cup initSyncBlocks
             /\ ~(Slot[p] <= EpochStart(finalizedCheckpoint.epoch))
    <3>1. EpochStart(finalizedCheckpoint.epoch) \in Nat /\ Slot[p] \in Nat
      BY <1>5, EpochStarts, BlocksAssumption
    <3>2. missing(p, blocksOnDisk')
      BY <1>2, <1>5, <2>3, <3>1 DEF missing, Saved
    <3> QED
      BY <1>6, <3>2
  <2> QED
    BY <2>1, <2>2, <2>3
<1>9. ASSUME fill = {} \/ linked(fill) PROVE \A z \in fill : Backed(z, Lost)
  <2> DEFINE bad == {z \in fill : ~Backed(z, Lost)}
             z == oldest(bad)
  <2> SUFFICES ASSUME bad # {} PROVE FALSE
    OBVIOUS
  <2>1. z \in bad /\ \A x \in bad : Slot[z] <= Slot[x]
    <3>1. bad \in SUBSET Roots
      BY <1>6
    <3> HIDE DEF bad
    <3> QED
      BY <3>1, OldestIsLeast
  <2> HIDE DEF z
  <2>2. z \in fill /\ z \in Roots /\ ~Backed(z, Lost) /\ \A cp \in Lost : cp.root # z
    BY <1>2, <1>6, <1>7, <2>1 DEF Saved
  <2>3. ParentRoot[z] \in Roots /\ ~Backed(ParentRoot[z], Lost)
    BY <1>5, <2>2, BackedChild
  <2>4. CASE ParentRoot[z] \in fill
    <3>1. Slot[z] <= Slot[ParentRoot[z]]
      BY <2>1, <2>3, <2>4
    <3>2. ParentRoot[z] # NoNode
      BY <2>3, ConstantsAssumption
    <3>3. Slot[ParentRoot[z]] < Slot[z] /\ Slot[ParentRoot[z]] \in Nat /\ Slot[z] \in Nat
      BY <2>2, <2>3, <3>2, BlocksAssumption
    <3> QED
      BY <3>1, <3>3
  <2>5. CASE z = oldest(fill)
    <3>1. ParentRoot[z] = f \/ ParentRoot[z] \in nodeByRoot
      BY <1>9, <2>2, <2>5 DEF linked
    <3>2. Backed(f, Lost)
      BY FinalBacked
    <3> QED
      BY <1>7, <2>3, <3>1, <3>2
  <2> QED
    BY <1>6, <2>2, <2>3, <2>4, <2>5, ConstantsAssumption
<1>10. ASSUME work' = started, fill = {} \/ linked(fill) PROVE TaskBacked'
  <2> DEFINE o == oldest(S)
  <2>1. work' = [Idle EXCEPT !.task = "batch", !.step = "fill", !.root = o,
                             !.batch = S, !.inserts = fill]
    BY <1>10 DEF started
  <2> HIDE DEF o
  <2>2. /\ work'.task = "batch" /\ work'.step = "fill" /\ work'.batch = S
        /\ work'.inserts = fill
    BY <2>1 DEF Idle
  <2>3. Backed(p, Lost) /\ \A z \in fill : Backed(z, Lost)
    BY <1>8, <1>9, <1>10
  <2>4. Backed(p, Lost') /\ \A z \in fill : Backed(z, Lost')
    BY <1>4, <2>3 DEF Backed
  <2> QED
    BY <1>5, <2>2, <2>4 DEF TaskBacked, p
<1>11. CASE work' = Idle
  BY <1>4, <1>11 DEF Idle
<1> QED
  BY <1>1, <1>4, <1>10, <1>11 DEF ROk

\* The state right after a start with this finalized checkpoint on disk.
LEMMA StartBacked ==
    ASSUME NEW cp \in {StartFinalized} \cup Named, NEW lost \in SUBSET Named,
           \A cq \in lost : cq.epoch > cp.epoch /\ cq.root # ensureRootNotZeros(cp.root)
    PROVE  Backed(ensureRootNotZeros(cp.root), lost)
<1>1. cp.epoch \in Nat
  BY NamedFacts, ConstantsAssumption DEF Checkpoints
<1>2. ensureRootNotZeros(cp.root) \in Roots
      /\ Slot[ensureRootNotZeros(cp.root)] <= EpochStart(cp.epoch)
  BY CheckpointRoot
<1> QED
  BY <1>1, <1>2, BackedOld

LEMMA RestartRestart ==
    ASSUME RInv, Restart
    PROVE  ROk'
<1> DEFINE f == ensureRootNotZeros(dbFinalized.root)
<1>1. /\ f \in blocksOnDisk /\ nodeByRoot' = {f} /\ finalizedCheckpoint' = dbFinalized
      /\ work' = Idle /\ calls' = {} /\ initSyncBlocks' = {}
      /\ UNCHANGED <<blocksOnDisk, dbFinalized>>
  BY DEF Restart, freshStore, dbCheckpoints
<1>2. dbFinalized \in {StartFinalized} \cup Named /\ dbFinalized.epoch \in Nat
  BY RTyped DEF RInv, ROk, CheckpointsOK
<1>3. RestartPossible' /\ CheckpointsOK'
  BY <1>1, <1>2 DEF RestartPossible, ensureRootNotZeros, CheckpointsOK
<1>4. /\ Lost' \in SUBSET Named
      /\ \A cp \in Lost' : cp.epoch > dbFinalized.epoch /\ cp.root # f
  BY <1>1 DEF Lost, Saved
<1>5. FinalSavedOK'
  BY <1>1, <1>2, <1>4 DEF FinalSavedOK
<1>6. Backed(f, Lost')
  BY <1>2, <1>4, StartBacked
<1> HIDE DEF f
<1>7. NodesBacked' /\ CallsBacked'
  BY <1>1, <1>6 DEF NodesBacked, CallsBacked
<1>8. TaskBacked'
  BY <1>1 DEF TaskBacked, Idle
<1> QED
  BY <1>3, <1>5, <1>7, <1>8 DEF ROk

LEMMA ServiceInitRestart == ServiceInit => RInv
<1> SUFFICES ASSUME ServiceInit PROVE RInv
  OBVIOUS
<1> DEFINE f == ensureRootNotZeros(StartFinalized.root)
<1>1. SInv
  BY ServiceInitInv
<1>2. /\ nodeByRoot = {StartRoot} /\ initSyncBlocks = {} /\ calls = {} /\ work = Idle
      /\ blocksOnDisk = {StartRoot} /\ finalizedCheckpoint = StartFinalized
      /\ dbFinalized = StartFinalized
  BY DEF ServiceInit, Init
<1>3. f = StartRoot /\ StartFinalized.epoch \in Nat
  BY FinalityAssumption, ConstantsAssumption DEF ensureRootNotZeros, Checkpoints
<1>4. RestartPossible /\ CheckpointsOK
  BY <1>2, <1>3 DEF RestartPossible, CheckpointsOK
<1>5. /\ Lost \in SUBSET Named
      /\ \A cp \in Lost : cp.epoch > StartFinalized.epoch /\ cp.root # f
  BY <1>2, <1>3 DEF Lost, Saved
<1>6. FinalSavedOK
  BY <1>2, <1>3, <1>5 DEF FinalSavedOK
<1>7. Backed(f, Lost)
  BY <1>5, StartBacked
<1>8. NodesBacked /\ CallsBacked
  BY <1>2, <1>3, <1>7 DEF NodesBacked, CallsBacked
<1>9. TaskBacked
  BY <1>2 DEF TaskBacked, Idle
<1> QED
  BY <1>1, <1>4, <1>6, <1>8, <1>9 DEF RInv, ROk

\* Every step of the service leaves the next start possible.
LEMMA ServiceStepRestart == RInv /\ [ServiceNext]_serviceVars => RInv'
<1> SUFFICES ASSUME RInv, [ServiceNext]_serviceVars PROVE RInv'
  OBVIOUS
<1>0. SInv'
  BY ServiceStepInv DEF RInv
<1> SUFFICES ROk'
  BY <1>0 DEF RInv
<1>1. CASE LockHolder
  <2>1. CASE \/ ImportVerdict \/ ImportHead \/ FCUAccepted \/ FCUHead \/ FCUSave
             \/ UpdateHeadHead \/ BatchError \/ BatchInvalid \/ BatchVerdict \/ BatchSave
             \/ \E v \in work.votes : ImportVote(v) \/ processAttestations(v)
    BY <1>0, <2>1, PlainRestart
  <2>2. CASE SaveState
    BY <1>0, <2>2, SaveStateRestart
  <2>3. CASE ImportInsert
    BY <1>0, <2>3, ImportInsertRestart
  <2>4. CASE ImportFinality
    BY <1>0, <2>4, ImportFinalityRestart
  <2>5. ASSUME NEW lastValidHash \in LastValidHashes, FCUInvalid(lastValidHash) PROVE ROk'
    BY <1>0, <2>5, InvalidRestart
  <2>6. CASE BatchFill
    BY <1>0, <2>6, BatchFillRestart
  <2>7. CASE BatchInsert
    BY <1>0, <2>7, BatchInsertRestart
  <2>8. ASSUME NEW verdict \in {"VALID", "SYNCING"}, BatchPayload(verdict) PROVE ROk'
    BY <1>0, <2>8, BatchPayloadRestart
  <2> QED
    BY <1>1, <2>1, <2>2, <2>3, <2>4, <2>5, <2>6, <2>7, <2>8 DEF LockHolder
<1>2. ASSUME NEW id \in CallIds, NEW r \in Roots \ {StartRoot}, ReceiveCall(id, r) PROVE ROk'
  BY <1>0, <1>2, ReceiveCallRestart
<1>3. ASSUME NEW call \in calls, savePostStateInfo(call) PROVE ROk'
  BY <1>0, <1>3, savePostStateInfoRestart
<1>4. ASSUME NEW call \in calls, ImportRefused(call) PROVE ROk'
  <2>1. /\ UNCHANGED vars /\ calls' = calls \ {call}
        /\ UNCHANGED <<work, dbFinalized, initSyncBlocks, blocksOnDisk>>
    BY <1>4 DEF ImportRefused, disk, dbCheckpoints
  <2> QED
    BY <1>0, <2>1, WaitRestart
<1>5. ASSUME NEW call \in calls, NEW lastValidHash \in LastValidHashes,
             pruneInvalidBlock(call, lastValidHash)
      PROVE  ROk'
  BY <1>0, <1>5, InvalidRestart
<1>6. ASSUME NEW v \in Votes, VoteArrives(v) PROVE ROk'
  <2>1. /\ UNCHANGED vars /\ calls' = calls
        /\ UNCHANGED <<work, dbFinalized, initSyncBlocks, blocksOnDisk>>
    BY <1>6 DEF VoteArrives, disk, dbCheckpoints
  <2> QED
    BY <1>0, <2>1, WaitRestart
<1>7. CASE RoutineNewSlot \/ UpdateHead
  BY <1>0, <1>7, PlainRestart
<1>8. ASSUME NEW S \in Batches, StartBatch(S) PROVE ROk'
  BY <1>0, <1>8, StartBatchRestart
<1>9. CASE Tick /\ UNCHANGED service
  <2>1. calls' = calls /\ UNCHANGED <<work, dbFinalized, initSyncBlocks, blocksOnDisk>>
    BY <1>9 DEF service, disk, dbCheckpoints
  <2> QED
    BY <1>0, <1>9, <2>1, WaitRestart
<1>10. CASE Restart
  BY <1>10, RestartRestart
<1>11. CASE UNCHANGED serviceVars
  <2>1. /\ UNCHANGED vars /\ calls' = calls
        /\ UNCHANGED <<work, dbFinalized, initSyncBlocks, blocksOnDisk>>
    BY <1>11 DEF serviceVars, service, disk, dbCheckpoints
  <2> QED
    BY <1>0, <2>1, WaitRestart
<1>12. CASE ServiceNext
  BY <1>1, <1>2, <1>3, <1>4, <1>5, <1>6, <1>7, <1>8, <1>9, <1>10, <1>12, Zenon DEF ServiceNext
<1> QED
  BY <1>11, <1>12

\* Whenever the process stops, the finalized checkpoint on disk names a block on disk: for every
\* set of blocks, batches and verdicts, and also when a fill-in takes a justified checkpoint for
\* the finalized one or a batch writes a checkpoint before the store has its blocks.
THEOREM RestartStaysPossible == ServiceSpec => []RestartPossible
<1>1. ServiceSpec => []RInv
  BY ServiceInitRestart, ServiceStepRestart, PTL DEF ServiceSpec
<1>2. RInv => RestartPossible
  BY DEF RInv, ROk
<1> QED
  BY <1>1, <1>2, PTL
=============================================================================
