-------------------------- MODULE ForkChoiceQueries --------------------------
(***************************************************************************)
(* The read-only methods of the fork choice store that walk the tree.  The *)
(* chain service, the attestation verification and the validator RPC rely  *)
(* on their answers between any two changes of the store, so they are      *)
(* compared, in every reachable state of ForkChoice, with what the block   *)
(* chains themselves say.  NoNode stands for an error or the zero root.    *)
(***************************************************************************)
EXTENDS ForkChoice

Latest(blocks) == CHOOSE x \in blocks : \A z \in blocks : Slot[z] <= Slot[x]

\* The blocks a walk down from the tree root meets and the map still holds, as long as it
\* holds the tree root.
Connected ==
    IF treeRootNode \in nodeByRoot THEN Subtree(children, treeRootNode) \cap nodeByRoot ELSE {}

Epochs == 0 .. ToEpoch(MaxSlot) + 1

-----------------------------------------------------------------------------
\* AncestorRoot: up from r to the first node not later than slot s.
AncestorRoot_strict(r, s) ==
    LET met == {x \in Ancestors(parent, r) : Slot[x] < s}
    IN  IF r \notin nodeByRoot \/ met = {} THEN NoNode ELSE Latest(met)
AncestorRoot(r, s) ==
    LET met == {x \in Ancestors(parent, r) : Slot[x] <= s}
    IN  IF r \notin nodeByRoot \/ met = {} THEN NoNode ELSE Latest(met)

\* CommonAncestor: the later of the two nodes steps to its parent (the second one
\* on a tie) until both meet or one walk leaves the tree.
meet[pair \in Roots \X Roots] ==
    LET n1 == pair[1]
        n2 == pair[2]
        m1 == IF Slot[n1] > Slot[n2] THEN parent[n1] ELSE n1
        m2 == IF Slot[n1] > Slot[n2] THEN n2 ELSE parent[n2]
    IN  IF m1 = NoNode \/ m2 = NoNode THEN NoNode
        ELSE IF m1 = m2 THEN m1 ELSE meet[<<m1, m2>>]

CommonAncestor_parent(r1, r2) ==
    IF r1 \notin nodeByRoot \/ r2 \notin nodeByRoot \/ parent[r1] = NoNode THEN NoNode
    ELSE IF r1 = r2 THEN r1 ELSE meet[<<parent[r1], r2>>]
CommonAncestor(r1, r2) ==
    IF r1 \notin nodeByRoot THEN NoNode
    ELSE IF r1 = r2 THEN r1
    ELSE IF r2 \notin nodeByRoot THEN NoNode
    ELSE meet[<<r1, r2>>]

\* TargetRootForEpoch: the target pointer of the node's own epoch, and further back
\* through the target of an earlier block, until a node of the epoch or before it is met,
\* or a pointer leads nowhere.
beforeTarget_always(n, t) == parent[t]
beforeTarget(n, t) == IF ToEpoch(Slot[n]) = ToEpoch(Slot[t]) THEN parent[t] ELSE t

targetAnswers(n, epoch) ==
    \/ epoch >= ToEpoch(Slot[n])
    \/ target[n] \notin nodeByRoot
    \/ beforeTarget(n, target[n]) \notin nodeByRoot

TargetRootForEpoch(r, epoch) ==
    LET back == [n \in Roots |-> IF targetAnswers(n, epoch) THEN {}
                                 ELSE {beforeTarget(n, target[n])}]
        last == CHOOSE n \in Closure(NotAfter(r), back, r) : targetAnswers(n, epoch)
    IN  IF r \notin nodeByRoot THEN NoNode
        ELSE IF epoch > ToEpoch(Slot[last]) THEN last
        ELSE IF epoch = ToEpoch(Slot[last]) THEN target[last]
        ELSE NoNode

\* IsViableForCheckpoint.
IsViableForCheckpoint_anyChild(cp) ==
    cp.root \in nodeByRoot /\ Slot[cp.root] <= EpochStart(cp.epoch)
IsViableForCheckpoint(cp) ==
    LET n == cp.root
    IN  /\ n \in nodeByRoot
        /\ Slot[n] <= EpochStart(cp.epoch)
        /\ \/ children[n] = {}
           \/ Slot[n] = EpochStart(cp.epoch)
           \/ /\ ToEpoch(Slot[n]) < cp.epoch
              /\ \E c \in children[n] : Slot[c] > EpochStart(cp.epoch)

\* IsCanonical: on the way up from the cached head, while not older than the block.
IsCanonical_below(r) ==
    /\ r \in nodeByRoot
    /\ headNode # NoNode
    /\ r \in Ancestors(parent, headNode) \ {headNode}
IsCanonical(r) ==
    /\ r \in nodeByRoot
    /\ headNode # NoNode
    /\ r \in Ancestors(parent, headNode)

-----------------------------------------------------------------------------
(* Properties.                                                             *)

\* AncestorRoot gives the block of r's chain at slot s, for every slot from the tree
\* root's on: pruning, invalidation and re-import never leave a gap in a walk.
AncestorRootExact ==
    \A r \in Connected, s \in Slot[treeRootNode] .. MaxSlot :
        AncestorRoot(r, s) = Latest({x \in BlockAncestors(r) : Slot[x] <= s})

\* CommonAncestor gives the last block the two chains share.
CommonAncestorExact ==
    \A r1, r2 \in Connected :
        CommonAncestor(r1, r2) = Latest(BlockAncestors(r1) \cap BlockAncestors(r2))

\* b is the block of r's chain at the start of the epoch.
StartsEpoch(b, r, epoch) ==
    /\ b \in BlockAncestors(r)
    /\ Slot[b] <= EpochStart(epoch)
    /\ \A z \in BlockAncestors(r) : Slot[z] <= EpochStart(epoch) => Slot[z] <= Slot[b]

\* TargetRootForEpoch, which decides the target an attester signs and the checkpoint
\* a received attestation must carry, gives the block of r's chain at the start of
\* the epoch whenever that block is still in the store.
TargetRootExact ==
    LET live == Connected IN
    \A r, b \in live, epoch \in Epochs :
        StartsEpoch(b, r, epoch) => TargetRootForEpoch(r, epoch) = b

\* A list of children that says which chains there are: no deleted block is in it, or a block
\* later than the finalized epoch's first slot is there beside the deleted ones.
telling(r) ==
    \/ children[r] \subseteq nodeByRoot
    \/ \E c \in children[r] \cap nodeByRoot : Slot[c] > EpochStart(finalizedCheckpoint.epoch)

\* A checkpoint is accepted as the target of an attestation exactly when some chain of
\* the store, up to its leaf, has the block at the start of the epoch; children that a
\* prune left in a list do not count as chains.  Only when INVALID verdicts have taken the
\* finalized chain itself are they all the list has, and the answer may be wrong.
ViableCheckpointExact ==
    LET live == Connected
        leaves == tips(nodeByRoot, children) \cap live
    IN
    \A r \in live, epoch \in Epochs :
        telling(r) =>
            (IsViableForCheckpoint([epoch |-> epoch, root |-> r]) <=>
                 \E n \in leaves : StartsEpoch(r, n, epoch))

\* While the cached head is in the tree, exactly the blocks of its chain are canonical.
CanonicalIsHeadChain ==
    headNode \in Connected =>
        {r \in nodeByRoot : IsCanonical(r)} = BlockAncestors(headNode) \cap Connected

=============================================================================
