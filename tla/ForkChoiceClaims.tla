-------------------------- MODULE ForkChoiceClaims --------------------------
(***************************************************************************)
(* ForkChoice with the history variables needed to state what the          *)
(* repository's README says about the head.  The history variables observe *)
(* the actions and never restrict them.                                    *)
(***************************************************************************)
EXTENDS ForkChoice

VARIABLES
    cachedVotes,   \* <<root, index, slot>> of every vote counted since the cache was emptied
    answer,        \* what the last Head call returned (NoNode: an error)
    attestedHead   \* the last answer of Head that half a committee of one slot had voted for

claimVars == <<vars, cachedVotes, answer, attestedHead>>

ClaimsInit ==
    /\ Init
    /\ cachedVotes = {}
    /\ answer = StartRoot /\ attestedHead = StartRoot

ObservedAttestation(indices, r, s) ==
    /\ \/ OnAttestation(indices, r, s)
       \/ \E blk \in Roots : handleBlockAttestations(blk, indices, r, s)
    /\ cachedVotes' = (IF s > cacheSlot THEN {} ELSE cachedVotes)
                        \cup ({r} \X newIndex(indices, r) \X {s})
    /\ UNCHANGED <<answer, attestedHead>>

ObservedHead ==
    /\ Head
    /\ answer' = headNode'
    /\ attestedHead' =
          IF /\ answer' # NoNode /\ Slot[answer'] <= cacheSlot
             /\ Cardinality({v \in cachedVotes : v[1] = answer' /\ v[3] = cacheSlot})
                   >= ValidatorPerSlot \div 2
          THEN answer' ELSE attestedHead
    /\ UNCHANGED cachedVotes

Unobserved ==
    /\ \/ \E r \in Roots : ReceiveBlock(r) \/ InsertNode(r)
       \/ NewSlot
       \/ Tick
    /\ UNCHANGED <<cachedVotes, answer, attestedHead>>

ClaimsNext ==
    \/ \E s \in 0 .. MaxSlot : \E indices \in SUBSET Committee[s] \ {{}}, r \in Roots :
          ObservedAttestation(indices, r, s)
    \/ ObservedHead
    \/ Unobserved

ClaimsSpec == ClaimsInit /\ [][ClaimsNext]_claimVars

-----------------------------------------------------------------------------
\* "Reorg-Resilient" (README): once half a committee has voted for the head, a later
\* head never leaves that block's chain.
AttestedHeadKept == answer # NoNode => attestedHead \in BlockAncestors(answer)
=============================================================================
