----------------------------- MODULE ForkChoice -----------------------------
(***************************************************************************)
(* The fork choice store of the modified beacon node                       *)
(* (modified_prysm/beacon-chain/forkchoice/doubly-linked-tree).            *)
(*                                                                         *)
(* The store keeps a tree of block nodes linked both ways, a cache that    *)
(* counts the attestations seen for each block in the latest voted slot,   *)
(* and the justified and finalized checkpoints.  A block is "stabled" on   *)
(* insertion when its parent gathered at least half a slot's committee in  *)
(* the cache (the available-attestation rule); the head is the deepest     *)
(* stabled leaf.                                                           *)
(*                                                                         *)
(* Every exported method runs under the ForkChoice RWMutex, so a method is *)
(* one atomic action.  A node object is identified by its block root: the  *)
(* fields parent, children, ... are functions of the root that keep their  *)
(* last value after the node has left nodeByRoot, because headNode and     *)
(* child lists may still refer to it.  What a block says (slot, parent,    *)
(* payload, checkpoints of its post-state) is fixed by its root.           *)
(***************************************************************************)
EXTENDS Integers, FiniteSets

CONSTANTS
    Roots,             \* the block roots that may reach the node
    Validators,        \* validator indices
    NoNode,            \* the nil node, and the zero root of a genesis checkpoint
    StartRoot,         \* the block the store is started from (genesis or the finalized block)
    StartSlot,         \* the wall-clock slot at start-up
    StartOptimistic,   \* whether that block is still unvalidated at start-up
    StartJustified,    \* the justified checkpoint the store is started with
    StartFinalized,    \* the finalized checkpoint the store is started with
    Slot,              \* [Roots -> slot of the block]
    ParentRoot,        \* [Roots -> parent root of the block]
    PayloadHash,       \* [Roots -> execution payload hash of the block]
    LastValidHashes,   \* the hashes the execution client may name as last valid
    JC, FC,            \* [Roots -> justified / finalized checkpoint of the post-state]
    Committee,         \* [slot -> indices assigned to attest in it]
    SlotsPerEpoch,
    ValidatorPerSlot,  \* TotalValidatorCount / 32 in the code
    MaxSlot,           \* bound of the model: the clock stops here
    MaxAttCount        \* bound of the model: no count of the cache exceeds this

Checkpoints == [epoch : Nat, root : Roots \cup {NoNode}]

ASSUME ConstantsAssumption ==
    /\ NoNode \notin Roots
    /\ IsFiniteSet(Roots) /\ IsFiniteSet(Validators)
    /\ StartRoot \in Roots
    /\ StartSlot \in Nat
    /\ StartOptimistic \in BOOLEAN
    /\ StartJustified \in Checkpoints /\ StartFinalized \in Checkpoints
    /\ SlotsPerEpoch \in Nat \ {0}
    /\ ValidatorPerSlot \in Nat
    /\ MaxSlot \in Nat /\ MaxAttCount \in Nat
    /\ Committee \in [0 .. MaxSlot -> SUBSET Validators]

ASSUME BlocksAssumption ==
    /\ Slot \in [Roots -> Nat]
    /\ ParentRoot \in [Roots -> Roots \cup {NoNode}]
    /\ JC \in [Roots -> Checkpoints] /\ FC \in [Roots -> Checkpoints]
    \* the state transition refuses a block that is not later than its parent
    /\ \A r \in Roots : ParentRoot[r] # NoNode => Slot[ParentRoot[r]] < Slot[r]

VARIABLES
    \* Store
    nodeByRoot,              \* set of roots that have a node in the map
    treeRootNode,
    headNode,
    justifiedCheckpoint,
    prevJustifiedCheckpoint,
    finalizedCheckpoint,
    cacheSlot,
    cacheAttCount,           \* partial function: root |-> votes counted
    receivedBlocksLastEpoch,
    \* Node, by root
    parent,
    children,
    target,
    justifiedEpoch,
    optimistic,
    stabled,
    validatorIndices,
    \* the environment
    currentSlot,             \* slots.CurrentSlot(genesisTime)
    checked,                 \* blocks whose ReceiveBlock call passed its checks
    dropped                  \* history: roots that were ever deleted from nodeByRoot

checkpoints == <<justifiedCheckpoint, prevJustifiedCheckpoint, finalizedCheckpoint>>
cache == <<cacheSlot, cacheAttCount>>
tree == <<nodeByRoot, treeRootNode, parent, children, target, dropped>>
environment == <<currentSlot, checked>>
vars == <<tree, headNode, checkpoints, cache, receivedBlocksLastEpoch,
          justifiedEpoch, optimistic, stabled, validatorIndices, environment>>

Nodes == Roots \cup {NoNode}

TypeOK ==
    /\ nodeByRoot \in SUBSET Roots
    /\ treeRootNode \in Roots
    /\ headNode \in Nodes
    /\ justifiedCheckpoint \in Checkpoints
    /\ prevJustifiedCheckpoint \in Checkpoints
    /\ finalizedCheckpoint \in Checkpoints
    /\ cacheSlot \in Nat
    /\ \E S \in SUBSET Roots : cacheAttCount \in [S -> Nat]
    /\ receivedBlocksLastEpoch \in [0 .. SlotsPerEpoch - 1 -> Nat]
    /\ parent \in [Roots -> Nodes]
    /\ children \in [Roots -> SUBSET Roots]
    /\ target \in [Roots -> Nodes]
    /\ justifiedEpoch \in [Roots -> Nat]
    /\ optimistic \in [Roots -> BOOLEAN]
    /\ stabled \in [Roots -> BOOLEAN]
    /\ validatorIndices \in [Roots -> SUBSET Validators]
    /\ currentSlot \in Nat
    /\ checked \in SUBSET Roots
    /\ dropped \in SUBSET Roots

-----------------------------------------------------------------------------
(* Walks over the pointers.                                                *)

ToEpoch(s) == s \div SlotsPerEpoch
EpochStart(e) == e * SlotsPerEpoch
IsEpochStart(s) == s % SlotsPerEpoch = 0

\* The least set of nodes of the range that holds n and is closed under the pointers
\* succ: what a walk from n along them visits.
Closure(range, succ, n) ==
    LET closed == {S \in SUBSET range : n \in S /\ \A x \in S : succ[x] \subseteq S}
    IN  {x \in range : \A S \in closed : x \in S}

\* Pointers follow the order of the slots: a walk up or down from n stays within these.
NotAfter(n) == {x \in Roots : Slot[x] <= Slot[n]}
NotBefore(n) == {x \in Roots : Slot[x] >= Slot[n]}

Up(par) == [x \in Roots |-> IF par[x] = NoNode THEN {} ELSE {par[x]}]

\* n and the nodes above it, n and the nodes below it.
Ancestors(par, n) == Closure(NotAfter(n), Up(par), n)
Subtree(ch, n) == Closure(NotBefore(n), ch, n)

\* The chain of a block, by what the blocks say.
BlockChain == [r \in Roots |-> Closure(NotAfter(r), Up(ParentRoot), r)]
BlockAncestors(r) == BlockChain[r]

\* The safety of finality, which the protocol has as long as less than a third of the stake
\* breaks the slashing rules: the checkpoints that the blocks' post-states finalize lie on one
\* chain from the start block on.  The block of a checkpoint is not later than the first slot
\* of its epoch.  The node is started from its finalized block, or from genesis.
ASSUME FinalityAssumption ==
    /\ StartFinalized.root \in {NoNode, StartRoot}
    /\ StartFinalized.root # NoNode => Slot[StartRoot] <= EpochStart(StartFinalized.epoch)
    /\ \A r \in Roots : FC[r].epoch > StartFinalized.epoch =>
          /\ FC[r].root \in Roots
          /\ Slot[FC[r].root] <= EpochStart(FC[r].epoch)
          /\ StartRoot \in BlockChain[FC[r].root]
          /\ \A z \in Roots : FC[z].epoch > FC[r].epoch => FC[r].root \in BlockChain[FC[z].root]

\* node.depth(): the number of nodes above n.
depth(par, n) == Cardinality(Ancestors(par, n)) - 1

viableForHead(je, jEpoch, n) == jEpoch = je[n] \/ jEpoch = 0

tips(nodes, ch) == {n \in nodes : ch[n] = {}}

\* The filter of updateBestDescendant.
eligible_unstable(je, stab, jEpoch, n) == viableForHead(je, jEpoch, n)
eligible(je, stab, jEpoch, n) == viableForHead(je, jEpoch, n) /\ stab[n]

\* store.updateBestDescendant: the values headNode may get.  The filtered leaves
\* come out of a Go map in any order and only a strictly better one replaces the
\* current choice, so among equals any may win.
BestDescendants(nodes, par, ch, je, stab, jEpoch) ==
    LET filters == {n \in tips(nodes, ch) : eligible(je, stab, jEpoch, n)}
        height == [n \in filters |-> depth(par, n)]
        deepest == {n \in filters : \A m \in filters : height[m] <= height[n]}
        best == {n \in deepest : \A m \in deepest : Slot[m] <= Slot[n]}
    IN  IF ch[treeRootNode] = {} \/ filters = {} THEN {NoNode} ELSE best

-----------------------------------------------------------------------------
(* Pruning.                                                                *)

\* The nodes prune takes out of the maps: everything a walk down from the tree root
\* meets before the finalized node, and, when that node is older than the
\* checkpoint's first slot, its children that are not later than this slot.
competing_unlinked(f, ch) == nodeByRoot \ Subtree(ch, f)
competing(f, ch) == Subtree([ch EXCEPT ![f] = {}], treeRootNode) \ {f}
incompatible(fc, ch) ==
    IF Slot[fc.root] = EpochStart(fc.epoch) THEN {}
    ELSE UNION {Subtree(ch, c) : c \in {x \in ch[fc.root] : Slot[x] <= EpochStart(fc.epoch)}}

\* The finalized node loses a target that is about to be deleted.
prunedTarget_kept(f, ch, tgt) == tgt
prunedTarget(f, ch, tgt) ==
    IF f \in Subtree(ch, treeRootNode) /\ tgt[f] # f THEN [tgt EXCEPT ![f] = NoNode] ELSE tgt

\* store.prune on the tree (nodes, par, ch, tgt) with the finalized checkpoint fc.
prune(fc, nodes, par, ch, tgt) ==
    LET f == fc.root
        gone == competing(f, ch) \cup incompatible(fc, ch)
    IN  IF f \notin nodes \/ par[f] = NoNode  \* errUnknownFinalizedRoot, or no change
        THEN /\ nodeByRoot' = nodes /\ parent' = par /\ children' = ch /\ target' = tgt
             /\ UNCHANGED <<treeRootNode, dropped>>
        ELSE /\ nodeByRoot' = nodes \ gone
             /\ parent' = [par EXCEPT ![f] = NoNode]
             /\ children' = [x \in Roots |-> IF x \in gone THEN {} ELSE ch[x]]
             /\ target' = prunedTarget(f, ch, tgt)
             /\ treeRootNode' = f
             /\ dropped' = dropped \cup gone

\* Only a later epoch replaces the finalized checkpoint.
finalityStands_unchecked(fc) == fc = finalizedCheckpoint
finalityStands(fc) == fc.epoch <= finalizedCheckpoint.epoch

\* ForkChoice.updateCheckpoints on the same tree.
updateCheckpoints(jc, fc, nodes, par, ch, tgt) ==
    /\ IF jc.epoch > justifiedCheckpoint.epoch
       THEN /\ prevJustifiedCheckpoint' = justifiedCheckpoint
            /\ justifiedCheckpoint' = jc
       ELSE UNCHANGED <<prevJustifiedCheckpoint, justifiedCheckpoint>>
    /\ IF finalityStands(fc)
       THEN /\ nodeByRoot' = nodes /\ parent' = par /\ children' = ch /\ target' = tgt
            /\ UNCHANGED <<treeRootNode, dropped, finalizedCheckpoint>>
       ELSE /\ finalizedCheckpoint' = fc
            /\ prune(fc, nodes, par, ch, tgt)

-----------------------------------------------------------------------------
(* Insertion of a block.                                                   *)

\* The available-attestation rule of store.insert for a child of p.
StableOn_default(p) ==
    p \in DOMAIN cacheAttCount => cacheAttCount[p] >= ValidatorPerSlot \div 2
StableOn(p) ==
    IF p \in DOMAIN cacheAttCount
    THEN cacheAttCount[p] >= ValidatorPerSlot \div 2
    ELSE Slot[p] = 0

targetOf(r, p) ==
    IF IsEpochStart(Slot[r]) THEN r
    ELSE IF p = NoNode THEN NoNode
    ELSE IF ToEpoch(Slot[r]) = ToEpoch(Slot[p]) THEN target[p] ELSE p

\* Only a block of the last epoch is recorded as received.
recordReceived_underflow(r) ==
    receivedBlocksLastEpoch' =
        [receivedBlocksLastEpoch EXCEPT ![Slot[r] % SlotsPerEpoch] = Slot[r] - SlotsPerEpoch]
recordReceived(r) ==
    receivedBlocksLastEpoch' =
        IF Slot[r] + SlotsPerEpoch > currentSlot
        THEN [receivedBlocksLastEpoch EXCEPT ![Slot[r] % SlotsPerEpoch] = Slot[r]]
        ELSE receivedBlocksLastEpoch

\* The fields of the fresh Node object.
newNode_voted(r, je, stable) ==
    /\ justifiedEpoch' = [justifiedEpoch EXCEPT ![r] = je]
    /\ optimistic' = [optimistic EXCEPT ![r] = TRUE]
    /\ stabled' = [stabled EXCEPT ![r] = stable]
    /\ UNCHANGED validatorIndices
newNode(r, je, stable) ==
    /\ justifiedEpoch' = [justifiedEpoch EXCEPT ![r] = je]
    /\ optimistic' = [optimistic EXCEPT ![r] = TRUE]
    /\ stabled' = [stabled EXCEPT ![r] = stable]
    /\ validatorIndices' = [validatorIndices EXCEPT ![r] = {}]

\* insert finds the block in the store and returns it; the checkpoints of its
\* post-state are still applied.
InsertKnown(r, jc, fc) ==
    /\ r \in nodeByRoot
    /\ updateCheckpoints(jc, fc, nodeByRoot, parent, children, target)
    /\ UNCHANGED <<headNode, cache, receivedBlocksLastEpoch, justifiedEpoch,
                   optimistic, stabled, validatorIndices, environment>>

\* An orphan's parent pointer.
orphanParent_dangling(r) == ParentRoot[r]
orphanParent(r) == NoNode

\* The parent is gone by the time the lock is held: errInvalidParentRoot, but the
\* node is already in the maps and stays there.
InsertOrphan(r, jc) ==
    /\ r \notin nodeByRoot
    /\ ParentRoot[r] \notin nodeByRoot
    /\ nodeByRoot' = nodeByRoot \cup {r}
    /\ parent' = [parent EXCEPT ![r] = orphanParent(r)]
    /\ children' = [children EXCEPT ![r] = {}]
    /\ target' = [target EXCEPT ![r] = targetOf(r, NoNode)]
    /\ newNode(r, jc.epoch, FALSE)
    /\ UNCHANGED <<treeRootNode, dropped, headNode, checkpoints, cache,
                   receivedBlocksLastEpoch, environment>>

\* The regular case: link, decide stability, pick the head, then apply the
\* checkpoints (and prune) without picking the head again.
InsertLinked(r, jc, fc) ==
    LET p == ParentRoot[r]
        nodes == nodeByRoot \cup {r}
        par == [parent EXCEPT ![r] = p]
        ch == [children EXCEPT ![r] = {}, ![p] = children[p] \cup {r}]
        tgt == [target EXCEPT ![r] = targetOf(r, p)]
        je == [justifiedEpoch EXCEPT ![r] = jc.epoch]
        stab == [stabled EXCEPT ![r] = StableOn(p)]
    IN  /\ r \notin nodeByRoot
        /\ p \in nodeByRoot
        /\ newNode(r, jc.epoch, StableOn(p))
        /\ headNode' \in BestDescendants(nodes, par, ch, je, stab, justifiedCheckpoint.epoch)
        /\ recordReceived(r)
        /\ updateCheckpoints(jc, fc, nodes, par, ch, tgt)
        /\ UNCHANGED <<cache, environment>>

\* The checks of a block import: later than the finalized epoch's first slot, not from
\* the future, and with its parent in fork choice.
verifyBlkFinalizedSlot(r) == Slot[r] > EpochStart(finalizedCheckpoint.epoch)
getBlockPreState(r) == Slot[r] <= currentSlot /\ verifyBlkFinalizedSlot(r)
validateStateTransition(r) == ParentRoot[r] \in nodeByRoot

\* ReceiveBlock up to the lock.  Nothing of this is checked again under the lock, and
\* calls for one block may overlap, so a checked block may be inserted at any later
\* time, and more than once.
ReceiveBlock(r) ==
    /\ r \notin nodeByRoot
    /\ r \notin checked
    /\ getBlockPreState(r)
    /\ validateStateTransition(r)
    /\ checked' = checked \cup {r}
    /\ UNCHANGED <<tree, headNode, checkpoints, cache, receivedBlocksLastEpoch, justifiedEpoch,
                   optimistic, stabled, validatorIndices, currentSlot>>

\* Bound of the model: a deleted block is not imported again while the tree root or a
\* child list still refers to its old node, since one root stands for one node.
unaliased(r) == r # treeRootNode /\ \A n \in nodeByRoot : r \notin children[n]

InsertNode(r) ==
    /\ r \in checked
    /\ r \in nodeByRoot \/ unaliased(r)
    /\ \/ InsertKnown(r, JC[r], FC[r])
       \/ InsertOrphan(r, JC[r])
       \/ InsertLinked(r, JC[r], FC[r])

-----------------------------------------------------------------------------
(* Attestations, head, time.                                               *)

\* Store.UpdateVoted: a vote of a later slot empties the cache; a vote of an earlier
\* slot is added to the counts of the cached slot.
UpdateVoted(s, r, count) ==
    LET old == IF s > cacheSlot THEN [x \in {} |-> 0] ELSE cacheAttCount
        before == IF r \in DOMAIN old THEN old[r] ELSE 0
    IN  /\ cacheSlot' = IF s > cacheSlot THEN s ELSE cacheSlot
        /\ cacheAttCount' = [x \in DOMAIN old \cup {r} |->
                                IF x = r THEN before + count ELSE old[x]]

\* The indices that have not voted for the block yet.
newIndex_all(indices, r) == indices
newIndex(indices, r) == indices \ validatorIndices[r]

ProcessAttestation(indices, r, s) ==
    /\ r \in nodeByRoot
    /\ validatorIndices' = [validatorIndices EXCEPT ![r] = @ \cup indices]
    /\ UpdateVoted(s, r, Cardinality(newIndex(indices, r)))
    /\ cacheAttCount'[r] <= MaxAttCount
    /\ UNCHANGED <<tree, headNode, checkpoints, receivedBlocksLastEpoch, justifiedEpoch,
                   optimistic, stabled, environment>>

\* A vote from the attestation pool: not for a block later than its slot, and not before
\* the end of its slot (VerifyTime of the next slot less the clock disparity, so the
\* current slot is accepted near its end).
OnAttestation(indices, r, s) ==
    /\ Slot[r] <= s
    /\ s <= currentSlot
    /\ ProcessAttestation(indices, r, s)

\* A vote inside an imported block, of an earlier slot and for a known block.
handleBlockAttestations(blk, indices, r, s) ==
    /\ blk \in nodeByRoot \ {r}
    /\ s < Slot[blk]
    /\ ProcessAttestation(indices, r, s)

\* Head: pick the best descendant; with none, fall back to the tree root while
\* the justified epoch is the genesis epoch, and fail otherwise.
Head ==
    /\ \E h \in BestDescendants(nodeByRoot, parent, children, justifiedEpoch, stabled,
                                justifiedCheckpoint.epoch) :
          headNode' = IF h = NoNode /\ justifiedCheckpoint.epoch = 0 THEN treeRootNode ELSE h
    /\ UNCHANGED <<tree, checkpoints, cache, receivedBlocksLastEpoch, justifiedEpoch,
                   optimistic, stabled, validatorIndices, environment>>

\* NewSlot of the current slot: prunes at the start of an epoch.
NewSlot ==
    /\ IsEpochStart(currentSlot)
    /\ prune(finalizedCheckpoint, nodeByRoot, parent, children, target)
    /\ UNCHANGED <<headNode, checkpoints, cache, receivedBlocksLastEpoch, justifiedEpoch,
                   optimistic, stabled, validatorIndices, environment>>

Tick ==
    /\ currentSlot < MaxSlot
    /\ currentSlot' = currentSlot + 1
    /\ UNCHANGED <<tree, headNode, checkpoints, cache, receivedBlocksLastEpoch,
                   justifiedEpoch, optimistic, stabled, validatorIndices, checked>>

-----------------------------------------------------------------------------
(* Verdicts of the execution client.                                       *)

\* setNodeAndParentValidated stops at the first validated node.
UpToValid_single(n) == {n}
UpToValid(n) ==
    Closure(NotAfter(n), [x \in Roots |-> IF optimistic[x] THEN Up(parent)[x] ELSE {}], n)

SetOptimisticToValid(r) ==
    /\ r \in nodeByRoot
    /\ optimistic' = [x \in Roots |-> optimistic[x] /\ x \notin UpToValid(r)]
    /\ UNCHANGED <<tree, headNode, checkpoints, cache, receivedBlocksLastEpoch,
                   justifiedEpoch, stabled, validatorIndices, environment>>

\* The first node on the way up from n whose parent is nil or carries the last
\* valid payload, as a set with one member.
firstInvalid(n, lastValidHash) ==
    LET stops == {x \in Ancestors(parent, n) :
                    parent[x] = NoNode \/ PayloadHash[parent[x]] = lastValidHash}
    IN  {x \in stops : \A y \in stops : Slot[y] <= Slot[x]}

\* store.removeNode: a validated node and a node without parent are refused.
removable_any(n) == parent[n] # NoNode
removable(n) == optimistic[n] /\ parent[n] # NoNode

unlink_forgotten(n) == children' = children
unlink(n) == children' = [children EXCEPT ![parent[n]] = @ \ {n}]

removeNode(n) ==
    /\ removable(n)
    /\ LET gone == Subtree(children, n)
       IN  /\ nodeByRoot' = nodeByRoot \ gone
           /\ dropped' = dropped \cup gone
    /\ unlink(n)
    /\ UNCHANGED <<treeRootNode, parent, target>>

\* The invalid block is in the store.  When the last valid payload is not among its
\* ancestors only the block itself is taken out.
invalidateKnown(r, lastValidHash) ==
    /\ r \in nodeByRoot
    /\ parent[r] # NoNode       \* the code dereferences node.parent
    /\ \E first \in firstInvalid(r, lastValidHash) :
          removeNode(IF parent[first] = NoNode THEN r ELSE first)

\* The invalid block was never imported: its ancestors after the last valid one go.
invalidateUnknown(r, lastValidHash) ==
    /\ r \notin nodeByRoot
    /\ ParentRoot[r] \in nodeByRoot
    /\ PayloadHash[ParentRoot[r]] # lastValidHash
    /\ \E first \in firstInvalid(ParentRoot[r], lastValidHash) : removeNode(first)

SetOptimisticToInvalid(r, lastValidHash) ==
    /\ invalidateKnown(r, lastValidHash) \/ invalidateUnknown(r, lastValidHash)
    /\ UNCHANGED <<headNode, checkpoints, cache, receivedBlocksLastEpoch, justifiedEpoch,
                   optimistic, stabled, validatorIndices, environment>>

-----------------------------------------------------------------------------
Init ==
    /\ nodeByRoot = {StartRoot}
    /\ treeRootNode = StartRoot
    /\ headNode = StartRoot
    /\ justifiedCheckpoint = StartJustified
    /\ prevJustifiedCheckpoint = [epoch |-> 0, root |-> NoNode]
    /\ finalizedCheckpoint = StartFinalized
    /\ cacheSlot = 0
    /\ cacheAttCount = [x \in {} |-> 0]
    /\ receivedBlocksLastEpoch =
          [i \in 0 .. SlotsPerEpoch - 1 |->
              IF i = Slot[StartRoot] % SlotsPerEpoch /\ Slot[StartRoot] + SlotsPerEpoch > StartSlot
              THEN Slot[StartRoot] ELSE 0]
    /\ parent = [x \in Roots |-> NoNode]
    /\ children = [x \in Roots |-> {}]
    /\ target = [x \in Roots |-> IF x = StartRoot /\ IsEpochStart(Slot[x]) THEN x ELSE NoNode]
    /\ justifiedEpoch = [x \in Roots |-> IF x = StartRoot THEN JC[x].epoch ELSE 0]
    /\ optimistic = [x \in Roots |-> IF x = StartRoot THEN StartOptimistic ELSE TRUE]
    /\ stabled = [x \in Roots |-> x = StartRoot]
    /\ validatorIndices = [x \in Roots |-> {}]
    /\ currentSlot = StartSlot
    /\ checked = {}
    /\ dropped = {}

Next ==
    \/ \E r \in Roots : ReceiveBlock(r) \/ InsertNode(r)
    \/ \E s \in 0 .. MaxSlot : \E indices \in SUBSET Committee[s] \ {{}}, r \in Roots :
          \/ OnAttestation(indices, r, s)
          \/ \E blk \in Roots : handleBlockAttestations(blk, indices, r, s)
    \/ Head
    \/ NewSlot
    \/ Tick
    \/ \E r \in Roots : SetOptimisticToValid(r)
    \/ \E r \in Roots, lastValidHash \in LastValidHashes : SetOptimisticToInvalid(r, lastValidHash)

Spec == Init /\ [][Next]_vars

-----------------------------------------------------------------------------
(* Properties.                                                             *)

\* The map and the pointers agree, whatever was inserted, pruned or invalidated: the
\* tree root has no parent; a node that has a parent has it in nodeByRoot and is in
\* its list of children; and a listed child points back, is the tree root, or is a
\* deleted node with nothing below it (store.insert, store.prune, removeNode).
TreeLinked ==
    /\ parent[treeRootNode] = NoNode
    /\ \A n \in nodeByRoot :
          parent[n] # NoNode => parent[n] \in nodeByRoot /\ n \in children[parent[n]]
    /\ \A n \in nodeByRoot : \A c \in children[n] :
          IF c \in nodeByRoot THEN parent[c] = n \/ c = treeRootNode ELSE children[c] = {}

\* A node the execution client validated has no unvalidated parent:
\* setNodeAndParentValidated may stop at the first validated node.
ValidAncestors ==
    \A n \in nodeByRoot :
        ~optimistic[n] /\ parent[n] # NoNode => ~optimistic[parent[n]]

\* The target of a node, which TargetRootForEpoch looks up by root again, never
\* refers to a block that pruning took out of the store.
TargetLive ==
    \A n \in nodeByRoot : target[n] # NoNode => target[n] \in nodeByRoot

\* The cache never counts more votes for a block than validators voted for it: a
\* repeated index is filtered by node.validatorIndices before UpdateVoted counts.
\* A block that was dropped and imported again is outside: its node starts
\* with no indices while the cache keeps the old count.
VotesCountedOnce ==
    \A r \in (nodeByRoot \cap DOMAIN cacheAttCount) \ dropped :
        cacheAttCount[r] <= Cardinality(validatorIndices[r])

\* The available-attestation guarantee: a stabled block extends genesis, or a block
\* that half a slot's committee of different validators voted for, even after the
\* cache moved on to another slot.
StableHasQuorum ==
    \A n \in nodeByRoot :
        LET p == parent[n]
        IN  stabled[n] /\ p # NoNode /\ p \notin dropped /\ Slot[p] # 0
              => Cardinality(validatorIndices[p]) >= ValidatorPerSlot \div 2

\* The cached head that CachedHeadRoot and GetProposerHead hand out is the tree root
\* or a stabled block for as long as it is in the store.
HeadStable ==
    headNode \in nodeByRoot \ dropped => stabled[headNode] \/ headNode = treeRootNode

\* A validated block leaves the store only together with the tree root.  So as long as
\* the tree root stays, an INVALID verdict removes unvalidated blocks only, whichever
\* block and last valid hash the execution client names (removeNode checks the status
\* of the subtree's top only).
ValidatedKept ==
    [][\A r \in nodeByRoot \ nodeByRoot' : ~optimistic[r] => treeRootNode \notin nodeByRoot']_vars

\* The block of r's chain at an epoch's checkpoint.
CheckpointBlock(r, epoch) ==
    LET candidates == {x \in BlockAncestors(r) : Slot[x] <= EpochStart(epoch)}
    IN  CHOOSE x \in candidates : \A z \in candidates : Slot[z] <= Slot[x]

\* Finality does not go back: the finalized epoch never decreases and the tree root
\* only moves to a block whose chain holds the old one (updateCheckpoints, prune).
FinalityAdvances ==
    [][/\ finalizedCheckpoint'.epoch >= finalizedCheckpoint.epoch
       /\ treeRootNode \in BlockAncestors(treeRootNode')]_vars

\* A prune that moves the tree root keeps every block whose chain goes through the
\* finalized checkpoint, also when the block hangs below an orphan or below a
\* checkpoint block older than the epoch's first slot.
FinalizedChainKept ==
    [][treeRootNode' # treeRootNode =>
          \A r \in nodeByRoot :
             CheckpointBlock(r, finalizedCheckpoint'.epoch) = finalizedCheckpoint'.root
                => r \in nodeByRoot']_vars
=============================================================================
