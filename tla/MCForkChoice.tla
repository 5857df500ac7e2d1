---------------------------- MODULE MCForkChoice ----------------------------
(***************************************************************************)
(* Instances of ForkChoice for TLC.                                        *)
(***************************************************************************)
EXTENDS ForkChoiceQueries, ForkChoiceRefinement, TLC

CONSTANTS g, a, b, c, e, x, y, v1, v2, noHash

Genesis == [epoch |-> 0, root |-> NoNode]

\* Finalization tree, two slots an epoch.  e finalizes epoch 1, whose first slot (2)
\* is empty on its chain, so the checkpoint block is a (slot 1): x (slot 2) is an
\* incompatible child of a and y competes with a.
FinRoots == {g, a, x, c, e, y}
FinParent == g :> NoNode @@ a :> g @@ x :> a @@ c :> a @@ e :> c @@ y :> g
FinSlot == g :> 0 @@ a :> 1 @@ x :> 2 @@ c :> 3 @@ e :> 6 @@ y :> 3
FinJC == [r \in FinRoots |-> IF r = e THEN [epoch |-> 2, root |-> c] ELSE Genesis]
FinFC == [r \in FinRoots |-> IF r = e THEN [epoch |-> 1, root |-> a] ELSE Genesis]
FinPayload == [r \in FinRoots |-> r]
FinLastValid == {g, a, noHash}

\* Vote tree, two slots an epoch: the chain g, a, b.  v1 attests in slot 1 and, in the
\* next epoch, in slot 2; the late votes of a slot can arrive after those of the next.
VoteRoots == {g, a, b}
VoteParent == g :> NoNode @@ a :> g @@ b :> a
VoteSlot == g :> 0 @@ a :> 1 @@ b :> 2
VoteCheckpoint == [r \in VoteRoots |-> Genesis]
VotePayload == [r \in VoteRoots |-> r]
VoteLastValid == {g}
VoteCommittee == 0 :> {} @@ 1 :> {v1, v2} @@ 2 :> {v1} @@ 3 :> {}
NoCommittee == [s \in 0 .. MaxSlot |-> {}]
=============================================================================
