------------------------- MODULE ProposerProtection -------------------------
(***************************************************************************)
(* Local slashing protection of the validator client for block proposals   *)
(* (validator/client/propose.go, propose_protect.go and                    *)
(* validator/db/kv/proposer_protection.go).                                *)
(*                                                                         *)
(* ProposeBlock runs under a lock that includes the proposer role, so one  *)
(* call runs at a time; the buckets are per public key and one key is      *)
(* modelled.  The check, the write transaction with its pruning, and the   *)
(* submission are steps, with crashes between them.  A signing root is     *)
(* represented by a name for the block.                                    *)
(***************************************************************************)
EXTENDS Integers

CONSTANTS
    MaxSlot,                  \* bound on the slots
    Blocks,                   \* blocks the beacon node may build for a slot
    SlotsPerEpoch,
    WeakSubjectivityPeriod,   \* in epochs
    NoSigningRoot             \* an empty signing root: imported histories may have one

NoSlot == MaxSlot + 1

ASSUME ProposalAssumption ==
    /\ {MaxSlot, WeakSubjectivityPeriod} \subseteq Nat
    /\ SlotsPerEpoch \in Nat \ {0}
    /\ Blocks # {} /\ NoSigningRoot \notin Blocks

VARIABLES
    proposals,   \* historic proposals bucket: [slots with an entry -> signing root]
    lowest,      \* lowest signed proposal, or NoSlot
    highest,     \* highest signed proposal, or NoSlot
    call,        \* where ProposeBlock is
    slot, block, \* the proposal it makes
    submitted    \* <<slot, block>> handed to ProposeBeaconBlock

vars == <<proposals, lowest, highest, call, slot, block, submitted>>

TypeOK ==
    /\ DOMAIN proposals \subseteq 0 .. MaxSlot
    /\ \A sl \in DOMAIN proposals : proposals[sl] \in Blocks \cup {NoSigningRoot}
    /\ lowest \in 0 .. NoSlot
    /\ highest \in 0 .. NoSlot
    /\ lowest = NoSlot <=> highest = NoSlot
    /\ call \in {"idle", "check", "save", "submit"}
    /\ slot \in 0 .. MaxSlot
    /\ block \in Blocks
    /\ submitted \subseteq (1 .. MaxSlot) \X Blocks

-----------------------------------------------------------------------------
ToEpoch(sl) == sl \div SlotsPerEpoch

\* The genesis slot is skipped.
ProposeBlock(sl, blk) ==
    /\ call = "idle"
    /\ sl # 0
    /\ slot' = sl /\ block' = blk
    /\ call' = "check"
    /\ UNCHANGED <<proposals, lowest, highest, submitted>>

\* The history has this very proposal.
repeats_rootless ==
    slot \in DOMAIN proposals /\ proposals[slot] \in {block, NoSigningRoot}
repeats == slot \in DOMAIN proposals /\ proposals[slot] = block

\* Condition 2 of EIP-3076, then condition 1.
slashableProposal ==
    \/ lowest # NoSlot /\ (slot < lowest \/ (slot = lowest /\ ~ repeats))
    \/ slot \in DOMAIN proposals /\ ~ repeats

slashableProposalCheck ==
    /\ call = "check"
    /\ call' = IF slashableProposal THEN "idle" ELSE "save"
    /\ UNCHANGED <<proposals, lowest, highest, slot, block, submitted>>

\* pruneProposalHistoryBySlot: from the oldest entry on, relative to the slot just saved.
pruned_inclusive(history, newest) ==
    {sl \in DOMAIN history :
        ToEpoch(sl) + WeakSubjectivityPeriod <= ToEpoch(newest) + 1}
pruned(history, newest) ==
    {sl \in DOMAIN history :
        ToEpoch(sl) + WeakSubjectivityPeriod <= ToEpoch(newest)}

\* SaveProposalHistoryForSlot: the buckets after one write transaction.
SaveProposalHistoryForSlot_unset(sl, root) ==
    LET history == [s \in DOMAIN proposals \cup {sl} |-> IF s = sl THEN root ELSE proposals[s]]
        kept == DOMAIN history \ pruned(history, sl)
    IN
    /\ proposals' = [s \in kept |-> history[s]]
    /\ lowest' = IF sl < lowest THEN sl ELSE lowest
    /\ highest' = IF sl > highest THEN sl ELSE highest
SaveProposalHistoryForSlot(sl, root) ==
    LET history == [s \in DOMAIN proposals \cup {sl} |-> IF s = sl THEN root ELSE proposals[s]]
        kept == DOMAIN history \ pruned(history, sl)
    IN
    /\ proposals' = [s \in kept |-> history[s]]
    /\ lowest' = IF sl < lowest THEN sl ELSE lowest
    /\ highest' = IF highest = NoSlot \/ sl > highest THEN sl ELSE highest

SaveProposal ==
    /\ call = "save"
    /\ SaveProposalHistoryForSlot(slot, block)
    /\ call' = "submit"
    /\ UNCHANGED <<slot, block, submitted>>

\* The write transaction fails and is rolled back: the block is not submitted.
SaveFails ==
    /\ call = "save"
    /\ call' = "idle"
    /\ UNCHANGED <<proposals, lowest, highest, slot, block, submitted>>

\* ProposeBeaconBlock, whether or not the beacon node accepts the block.
ProposeBeaconBlock ==
    /\ call = "submit"
    /\ submitted' = submitted \cup {<<slot, block>>}
    /\ call' = "idle"
    /\ UNCHANGED <<proposals, lowest, highest, slot, block>>

Crash ==
    /\ call # "idle"
    /\ call' = "idle"
    /\ UNCHANGED <<proposals, lowest, highest, slot, block, submitted>>

\* The history is new, or holds one imported proposal.
Init ==
    /\ \/ proposals = [s \in {} |-> NoSigningRoot] /\ lowest = NoSlot /\ highest = NoSlot
       \/ \E sl \in 1 .. MaxSlot, root \in Blocks \cup {NoSigningRoot} :
             /\ proposals = [s \in {sl} |-> root]
             /\ lowest = sl /\ highest = sl
    /\ call = "idle"
    /\ slot = 0 /\ block = CHOOSE blk \in Blocks : TRUE
    /\ submitted = {}

Next ==
    \/ \E sl \in 0 .. MaxSlot, blk \in Blocks : ProposeBlock(sl, blk)
    \/ slashableProposalCheck
    \/ SaveProposal
    \/ SaveFails
    \/ ProposeBeaconBlock
    \/ Crash

Spec == Init /\ [][Next]_vars

-----------------------------------------------------------------------------
\* Two proposals for one slot are the same block, as long as the slot is within the weak
\* subjectivity period of the highest signed proposal: pruning forgets only older slots, and it
\* does not raise the lowest signed slot that would refuse them.  In the period the history also
\* still has the proposal, so the next check sees it.
NoDoubleProposal ==
    \A p \in submitted :
        ToEpoch(p[1]) + WeakSubjectivityPeriod > ToEpoch(highest) =>
            /\ p[1] \in DOMAIN proposals /\ proposals[p[1]] = p[2]
            /\ \A q \in submitted : q[1] = p[1] => q = p

\* An imported proposal without a signing root is never signed again while it is in the history.
RootlessNeverSigned ==
    [][\A sl \in DOMAIN proposals :
          (proposals[sl] = NoSigningRoot /\ sl \in DOMAIN proposals') =>
              proposals'[sl] = NoSigningRoot]_vars
=============================================================================
