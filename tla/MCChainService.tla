--------------------------- MODULE MCChainService ---------------------------
(***************************************************************************)
(* Instances of ChainService for TLC, two slots an epoch.                  *)
(***************************************************************************)
EXTENDS ChainService, TLC

CONSTANTS g, a, b, c, e, v1, noHash

Genesis == [epoch |-> 0, root |-> NoNode]
vote(r, s) == [indices |-> {v1}, root |-> r, slot |-> s]
Payload == [r \in Roots |-> r]
NoCommittee == [s \in 0 .. MaxSlot |-> {}]
NoBlockVotes == [r \in Roots |-> {}]

\* A chain that finalizes: c justifies epoch 1, e justifies epoch 2 and finalizes
\* epoch 1.  The payload of b, a second child of c, is invalid.
FinRoots == {g, a, c, b, e}
FinParent == g :> NoNode @@ a :> g @@ c :> a @@ b :> c @@ e :> c
FinSlot == g :> 0 @@ a :> 2 @@ c :> 4 @@ b :> 5 @@ e :> 6
FinJC == [r \in FinRoots |-> CASE r \in {g, a} -> Genesis [] r \in {c, b} -> [epoch |-> 1, root |-> a]
                                [] r = e -> [epoch |-> 2, root |-> c]]
FinFC == [r \in FinRoots |-> IF r = e THEN [epoch |-> 1, root |-> a] ELSE Genesis]
FinBlockVotes == [r \in FinRoots |-> IF r = b THEN {vote(c, 4)} ELSE {}]
FinLastValid == {a, noHash}
FinBatches == {{a, c, e}, {c, b}}
NoBatches == {}
NoVotes == {}

\* Two forks from genesis, of depth 2 and 1; b carries a vote for a.
ForkRoots == {g, a, b, c}
ForkParent == g :> NoNode @@ a :> g @@ b :> a @@ c :> g
ForkSlot == g :> 0 @@ a :> 1 @@ b :> 2 @@ c :> 1
ForkCheckpoint == [r \in ForkRoots |-> Genesis]
ForkVotes == {vote(a, 1)}
ForkBlockVotes == [r \in ForkRoots |-> IF r = b THEN {vote(a, 1), vote(c, 1)} ELSE {}]
ForkLastValid == {g, noHash}
ForkBatchInvalid == {{a, b}}

\* c and e justify epoch 1; nothing is finalized.
GapRoots == {g, a, c, e}
GapParent == g :> NoNode @@ a :> g @@ c :> a @@ e :> c
GapSlot == g :> 0 @@ a :> 2 @@ c :> 4 @@ e :> 5
GapJC == [r \in GapRoots |-> IF r \in {c, e} THEN [epoch |-> 1, root |-> a] ELSE Genesis]
GapFC == [r \in GapRoots |-> Genesis]
GapBatches == {{e}}
GapLastValid == {a}
=============================================================================
