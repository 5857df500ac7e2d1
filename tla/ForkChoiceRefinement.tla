------------------------ MODULE ForkChoiceRefinement ------------------------
(***************************************************************************)
(* The fork choice store implements AvailableAttestation.                  *)
(***************************************************************************)
EXTENDS ForkChoice

Abstract == INSTANCE AvailableAttestation WITH
    None <- NoNode,
    Start <- StartRoot,
    Parent <- ParentRoot,
    Chain <- BlockChain,
    Genesis <- {r \in Roots : Slot[r] = 0},
    Quorum <- ValidatorPerSlot \div 2,
    blocks <- nodeByRoot,
    root <- treeRootNode,
    stable <- {r \in Roots : stabled[r]},
    voters <- validatorIndices,
    removed <- dropped,
    head <- headNode

\* Every method of the store is a step of the abstract tree, or changes nothing of it: whatever
\* the order of blocks, votes, verdicts and finality, the count in the cache, which mixes
\* slots and is thrown away with every later one, gives no block a stability that its
\* parent's voters do not support.
ImplementsAvailableAttestation == Abstract!Spec
=============================================================================
