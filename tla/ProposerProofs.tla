--------------------------- MODULE ProposerProofs ---------------------------
(***************************************************************************)
(* Proofs about ProposerProtection for every number of slots, every set of *)
(* blocks and every weak subjectivity period.                              *)
(***************************************************************************)
EXTENDS ProposerProtection, TLAPS

\* A slot that pruning has not given up: within the period of the highest signed one.
Remembered(sl) == ToEpoch(sl) + WeakSubjectivityPeriod > ToEpoch(highest)

\* The history has the proposal.
Recorded(sl, blk) == sl \in DOMAIN proposals /\ proposals[sl] = blk

\* The inductive invariant.  A block that was checked is not slashable when it is saved,
\* since nothing else writes the history, and it is in the history when it is submitted; a
\* history without a highest slot, to which no period relates, belongs to a validator that
\* has submitted nothing.
IInv ==
    /\ TypeOK
    /\ call # "idle" => slot # 0
    /\ call = "save" => ~slashableProposal
    /\ call = "submit" => highest # NoSlot /\ (Remembered(slot) => Recorded(slot, block))
    /\ submitted # {} => highest # NoSlot
    /\ \A p \in submitted : Remembered(p[1]) => Recorded(p[1], p[2])

-----------------------------------------------------------------------------
\* Epochs follow the order of the slots.
LEMMA EpochMonotone ==
    ASSUME NEW a \in Nat, NEW b \in Nat, a <= b
    PROVE  ToEpoch(a) \in Nat /\ ToEpoch(b) \in Nat /\ ToEpoch(a) <= ToEpoch(b)
<1> DEFINE k == SlotsPerEpoch
           x == a \div k
           y == b \div k
<1>1. k \in Nat \ {0}
  BY ProposalAssumption
<1>2. x \in Nat /\ y \in Nat /\ x * k <= a /\ b < y * k + k
  BY <1>1
<1> HIDE DEF k, x, y
<1>3. x < y + 1
  <2> SUFFICES ASSUME x >= y + 1 PROVE FALSE
    BY <1>2
  <2>1. x * k >= (y + 1) * k
    BY <1>1, <1>2
  <2>2. (y + 1) * k = y * k + k /\ y * k \in Nat /\ x * k \in Nat
    BY <1>1, <1>2
  <2> QED
    BY <2>1, <2>2, <1>1, <1>2
<1> QED
  BY <1>2, <1>3 DEF ToEpoch, x, y, k

\* What the write transaction leaves in the buckets.
LEMMA Saved ==
    ASSUME TypeOK, SaveProposalHistoryForSlot(slot, block)
    PROVE  /\ \A sl \in DOMAIN proposals' :
                 /\ sl \in DOMAIN proposals \cup {slot}
                 /\ proposals'[sl] = IF sl = slot THEN block ELSE proposals[sl]
           /\ \A sl \in DOMAIN proposals \cup {slot} :
                 sl \notin DOMAIN proposals' => ToEpoch(sl) + WeakSubjectivityPeriod <= ToEpoch(slot)
           /\ lowest' \in 0 .. MaxSlot
           /\ highest' \in 0 .. MaxSlot /\ slot <= highest'
           /\ highest # NoSlot => highest <= highest'
<1> DEFINE history == [s \in DOMAIN proposals \cup {slot} |->
                          IF s = slot THEN block ELSE proposals[s]]
           kept == DOMAIN history \ pruned(history, slot)
<1>1. /\ proposals' = [s \in kept |-> history[s]]
      /\ lowest' = IF slot < lowest THEN slot ELSE lowest
      /\ highest' = IF highest = NoSlot \/ slot > highest THEN slot ELSE highest
  BY Zenon DEF SaveProposalHistoryForSlot
<1>2. DOMAIN history = DOMAIN proposals \cup {slot}
  OBVIOUS
<1>3. kept \subseteq DOMAIN proposals \cup {slot}
  BY <1>2
<1>4. \A sl \in DOMAIN proposals \cup {slot} :
         sl \notin kept => ToEpoch(sl) + WeakSubjectivityPeriod <= ToEpoch(slot)
  BY <1>2 DEF pruned
<1>5. DOMAIN proposals' = kept
      /\ \A sl \in kept : proposals'[sl] = IF sl = slot THEN block ELSE proposals[sl]
  <2> HIDE DEF kept
  <2> QED BY <1>1, <1>3
<1>6. /\ lowest' \in 0 .. MaxSlot
      /\ highest' \in 0 .. MaxSlot /\ slot <= highest'
      /\ highest # NoSlot => highest <= highest'
  BY <1>1, ProposalAssumption DEF TypeOK, NoSlot
<1> HIDE DEF kept, history
<1> QED
  BY <1>3, <1>4, <1>5, <1>6

\* The initial states satisfy the invariant.
LEMMA InitInv == Init => IInv
<1> SUFFICES ASSUME Init PROVE IInv
  OBVIOUS
<1>1. TypeOK
  <2>1. block \in Blocks
    BY ProposalAssumption, Zenon DEF Init
  <2>2. CASE proposals = [s \in {} |-> NoSigningRoot] /\ lowest = NoSlot /\ highest = NoSlot
    BY <2>1, <2>2, ProposalAssumption DEF Init, TypeOK, NoSlot
  <2>3. CASE \E sl \in 1 .. MaxSlot, root \in Blocks \cup {NoSigningRoot} :
                proposals = [s \in {sl} |-> root] /\ lowest = sl /\ highest = sl
    BY <2>1, <2>3, ProposalAssumption DEF Init, TypeOK, NoSlot
  <2> QED
    BY <2>2, <2>3 DEF Init
<1> QED
  BY <1>1 DEF Init, IInv

\* A saved proposal keeps the invariant: the history forgets nothing of the period, and
\* what it overwrites is the same block.
LEMMA SaveProposalInv ==
    ASSUME IInv, SaveProposal
    PROVE  IInv'
<1>1. /\ call = "save" /\ call' = "submit"
      /\ SaveProposalHistoryForSlot(slot, block)
      /\ slot' = slot /\ block' = block /\ submitted' = submitted
  BY DEF SaveProposal
<1>2. TypeOK /\ slot # 0 /\ slot \in 0 .. MaxSlot /\ ~slashableProposal
  BY <1>1 DEF IInv, TypeOK
<1>3. /\ \A sl \in DOMAIN proposals' :
            /\ sl \in DOMAIN proposals \cup {slot}
            /\ proposals'[sl] = IF sl = slot THEN block ELSE proposals[sl]
      /\ \A sl \in DOMAIN proposals \cup {slot} :
            sl \notin DOMAIN proposals' => ToEpoch(sl) + WeakSubjectivityPeriod <= ToEpoch(slot)
      /\ lowest' \in 0 .. MaxSlot
      /\ highest' \in 0 .. MaxSlot /\ slot <= highest'
      /\ highest # NoSlot => highest <= highest'
  BY <1>1, <1>2, Saved
<1>4. TypeOK' /\ highest' # NoSlot
  BY <1>1, <1>2, <1>3, ProposalAssumption DEF TypeOK, NoSlot
<1>5. /\ ToEpoch(slot) \in Nat /\ ToEpoch(highest') \in Nat
      /\ ToEpoch(slot) <= ToEpoch(highest')
  BY <1>2, <1>3, ProposalAssumption, EpochMonotone
<1>6. ASSUME NEW sl \in DOMAIN proposals \cup {slot}, sl \in Nat,
             ToEpoch(sl) + WeakSubjectivityPeriod > ToEpoch(highest')
      PROVE  sl \in DOMAIN proposals'
  <2>1. ToEpoch(sl) \in Nat /\ WeakSubjectivityPeriod \in Nat
    BY <1>6, EpochMonotone, ProposalAssumption
  <2> QED
    BY <1>3, <1>5, <1>6, <2>1
<1>7. ASSUME Remembered(slot)' PROVE Recorded(slot, block)'
  <2>1. slot \in Nat /\ ToEpoch(slot) + WeakSubjectivityPeriod > ToEpoch(highest')
    BY <1>1, <1>2, <1>7 DEF Remembered
  <2>2. slot \in DOMAIN proposals'
    BY <1>6, <2>1
  <2> QED
    BY <1>1, <1>3, <2>2 DEF Recorded
<1>8. ASSUME NEW p \in submitted, Remembered(p[1])'
      PROVE  Recorded(p[1], p[2])'
  <2>1. highest # NoSlot /\ highest \in Nat /\ p[1] \in Nat
    BY ProposalAssumption DEF IInv, TypeOK
  <2>2. /\ ToEpoch(highest) \in Nat /\ ToEpoch(highest) <= ToEpoch(highest')
        /\ ToEpoch(p[1]) \in Nat /\ WeakSubjectivityPeriod \in Nat
    BY <1>3, <2>1, ProposalAssumption, EpochMonotone
  <2>3. ToEpoch(p[1]) + WeakSubjectivityPeriod > ToEpoch(highest')
    BY <1>8 DEF Remembered
  <2>4. Remembered(p[1])
    BY <1>5, <2>2, <2>3 DEF Remembered
  <2>5. p[1] \in DOMAIN proposals /\ proposals[p[1]] = p[2]
    BY <2>4 DEF IInv, Recorded
  <2>6. p[1] \in DOMAIN proposals'
    BY <1>6, <2>1, <2>3, <2>5
  <2>7. p[1] = slot => p[2] = block
    BY <1>2, <2>5 DEF slashableProposal, repeats
  <2> QED
    BY <1>3, <2>5, <2>6, <2>7 DEF Recorded
<1> QED
  BY <1>1, <1>2, <1>4, <1>7, <1>8 DEF IInv

\* Every step keeps the invariant.
LEMMA StepInv == IInv /\ [Next]_vars => IInv'
<1> SUFFICES ASSUME IInv, [Next]_vars PROVE IInv'
  OBVIOUS
<1>1. ASSUME UNCHANGED <<proposals, lowest, highest>>
      PROVE  /\ \A sl : Remembered(sl)' <=> Remembered(sl)
             /\ \A sl, blk : Recorded(sl, blk)' <=> Recorded(sl, blk)
  BY <1>1 DEF Remembered, Recorded
<1>2. ASSUME NEW sl \in 0 .. MaxSlot, NEW blk \in Blocks, ProposeBlock(sl, blk) PROVE IInv'
  BY <1>1, <1>2 DEF ProposeBlock, IInv, TypeOK
<1>3. CASE slashableProposalCheck
  BY <1>1, <1>3 DEF slashableProposalCheck, IInv, TypeOK, slashableProposal, repeats
<1>4. CASE SaveProposal
  BY <1>4, SaveProposalInv
<1>5. CASE SaveFails \/ Crash
  BY <1>1, <1>5 DEF SaveFails, Crash, IInv, TypeOK
<1>6. CASE ProposeBeaconBlock
  <2>1. /\ call = "submit" /\ call' = "idle"
        /\ submitted' = submitted \cup {<<slot, block>>}
        /\ UNCHANGED <<proposals, lowest, highest, slot, block>>
    BY <1>6 DEF ProposeBeaconBlock
  <2>2. slot \in 1 .. MaxSlot /\ highest # NoSlot
    BY <2>1, ProposalAssumption DEF IInv, TypeOK
  <2>3. TypeOK'
    BY <2>1, <2>2 DEF IInv, TypeOK
  <2>4. \A p \in submitted' : Remembered(p[1]) => Recorded(p[1], p[2])
    BY <2>1 DEF IInv
  <2> QED
    BY <1>1, <2>1, <2>2, <2>3, <2>4 DEF IInv
<1>7. CASE UNCHANGED vars
  BY <1>1, <1>7 DEF vars, IInv, TypeOK, slashableProposal, repeats
<1> QED
  BY <1>2, <1>3, <1>4, <1>5, <1>6, <1>7 DEF Next

\* The invariant holds in every reachable state.
THEOREM Invariance == Spec => []IInv
BY InitInv, StepInv, PTL DEF Spec

\* Whatever is proposed, refused, saved or lost in a crash, the buckets keep their types.
THEOREM TypeCorrect == Spec => []TypeOK
<1>1. IInv => TypeOK
  BY DEF IInv
<1> QED
  BY <1>1, Invariance, PTL

\* No two different blocks are submitted for a slot of the weak subjectivity period, for
\* every length of the period and every sequence of proposals, failed writes and crashes.
THEOREM NoSlashableProposal == Spec => []NoDoubleProposal
<1>1. IInv => NoDoubleProposal
  <2> SUFFICES ASSUME IInv, NEW p \in submitted, Remembered(p[1])
               PROVE  /\ p[1] \in DOMAIN proposals /\ proposals[p[1]] = p[2]
                      /\ \A q \in submitted : q[1] = p[1] => q = p
    BY DEF NoDoubleProposal, Remembered
  <2>1. \A q \in submitted : q[1] = p[1] => Recorded(p[1], q[2])
    BY DEF IInv
  <2>2. \A q \in submitted : q = <<q[1], q[2]>>
    BY DEF IInv, TypeOK
  <2> QED
    BY <2>1, <2>2 DEF Recorded
<1> QED
  BY <1>1, Invariance, PTL

\* A proposal without a signing root, which an imported history may hold, is never replaced.
THEOREM RootlessStays == Spec => RootlessNeverSigned
<1>1. IInv /\ [Next]_vars =>
        [\A sl \in DOMAIN proposals :
            (proposals[sl] = NoSigningRoot /\ sl \in DOMAIN proposals') =>
                proposals'[sl] = NoSigningRoot]_vars
  <2> SUFFICES ASSUME IInv, Next, NEW sl \in DOMAIN proposals, proposals[sl] = NoSigningRoot,
                      sl \in DOMAIN proposals'
               PROVE  proposals'[sl] = NoSigningRoot
    OBVIOUS
  <2>1. CASE SaveProposal
    <3>1. TypeOK /\ SaveProposalHistoryForSlot(slot, block) /\ ~slashableProposal /\ block \in Blocks
      BY <2>1 DEF SaveProposal, IInv, TypeOK
    <3>2. sl # slot
      BY <3>1, ProposalAssumption DEF slashableProposal, repeats
    <3> QED
      BY <3>1, <3>2, Saved
  <2>2. CASE UNCHANGED proposals
    BY <2>2
  <2> QED
    BY <2>1, <2>2
    DEF Next, ProposeBlock, slashableProposalCheck, SaveFails, ProposeBeaconBlock, Crash
<1> QED
  BY <1>1, Invariance, PTL DEF Spec, RootlessNeverSigned
=============================================================================
