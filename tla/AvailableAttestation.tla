------------------------ MODULE AvailableAttestation ------------------------
(***************************************************************************)
(* What the fork choice store promises, without pointers, cache and        *)
(* checkpoints: a tree of blocks that gather votes, in which a block is    *)
(* accepted as stable when it is imported, and only on top of a block that *)
(* a quorum of different validators had voted for by then.  Votes are not  *)
(* taken back, stability is neither given nor taken later, and the head    *)
(* that is picked is stable.                                               *)
(*                                                                         *)
(* A block that was removed and is imported again starts without voters.   *)
(* The store still counts the old votes for it, so for the blocks on       *)
(* top of such a block nothing is promised.                                *)
(***************************************************************************)
EXTENDS Integers, FiniteSets

CONSTANTS
    Roots,
    Validators,
    None,        \* no head
    Start,       \* the block the store is started from
    Parent,      \* [Roots -> parent root]
    Chain,       \* [Roots -> the roots of the chain that ends in the block]
    Genesis,     \* the blocks of slot 0, which need no votes
    Quorum

VARIABLES
    blocks,      \* the blocks of the store
    root,        \* the root of the tree
    stable,      \* blocks that were accepted as stable
    voters,      \* [Roots -> the validators that voted for the block]
    removed,     \* blocks that were in the store and left it
    head

vars == <<blocks, root, stable, voters, removed, head>>

\* A child of p may be accepted as stable.
Available(p) ==
    \/ p \in Genesis
    \/ Cardinality(voters[p]) >= Quorum
    \/ p \in removed

\* Finality and INVALID verdicts take blocks out; the root only moves down its chain.
Keep(all) ==
    /\ blocks' \subseteq all
    /\ removed' = removed \cup (all \ blocks')
    /\ root' \in Roots /\ root \in Chain[root']

Import(r) ==
    /\ r \notin blocks
    /\ \/ stable' = stable \ {r}
       \/ Parent[r] \in blocks /\ Available(Parent[r]) /\ stable' = stable \cup {r}
    /\ voters' = [voters EXCEPT ![r] = {}]
    /\ Keep(blocks \cup {r})
    /\ head' \in {head, None} \cup (stable' \cap (blocks \cup {r}))

Vote(r, indices) ==
    /\ r \in blocks
    /\ voters' = [voters EXCEPT ![r] = @ \cup indices]
    /\ UNCHANGED <<blocks, root, stable, removed, head>>

Drop ==
    /\ Keep(blocks)
    /\ UNCHANGED <<stable, voters, head>>

PickHead ==
    /\ head' \in {None, root} \cup (stable \cap blocks)
    /\ UNCHANGED <<blocks, root, stable, voters, removed>>

Init ==
    /\ blocks = {Start} /\ root = Start /\ stable = {Start}
    /\ voters = [r \in Roots |-> {}]
    /\ removed = {}
    /\ head = Start

Next ==
    \/ \E r \in Roots : Import(r) \/ \E indices \in SUBSET Validators : Vote(r, indices)
    \/ Drop
    \/ PickHead

Spec == Init /\ [][Next]_vars
=============================================================================
