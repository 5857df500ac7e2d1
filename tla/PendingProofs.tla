---------------------------- MODULE PendingProofs ----------------------------
(***************************************************************************)
(* Proofs about PendingBlocks, for every tree of blocks, every assignment  *)
(* of slots and proposers and every interleaving of gossip, the routine,   *)
(* expiry, resync and finality.                                            *)
(***************************************************************************)
EXTENDS PendingBlocks, FiniteSetTheorems, TLAPS

\* The two maps of the queue agree: a block is kept under its slot, is recorded as seen, and no
\* slot has too many; an expired entry is not empty.
QueueOK ==
    /\ slotToPendingBlocks \in [Slots -> SUBSET Blocks]
    /\ \A sl \in Slots : \A b \in slotToPendingBlocks[sl] : Slot[b] = sl
    /\ \A sl \in Slots : /\ IsFiniteSet(slotToPendingBlocks[sl])
                         /\ Cardinality(slotToPendingBlocks[sl]) <= MaxBlocksPerSlot
    /\ expired \subseteq {sl \in Slots : slotToPendingBlocks[sl] # {}}
    /\ seenPendingBlocks \subseteq Blocks
    /\ QueuedIsSeen

\* Fork choice holds the blocks of the database that continue the finalized block, no others.
ChainOK ==
    /\ db \subseteq Roots /\ Genesis \in db
    /\ finalized \in tree /\ tree \subseteq db
    /\ \A b \in db : b \in tree <=> finalized \in ancestors[b]

GossipOK ==
    /\ queueing \subseteq Blocks /\ Cardinality(queueing) <= 1
    /\ accepted \subseteq Blocks

\* The block the routine imports has its parent in the database and is not finalized.
RoutineOK ==
    /\ stage \in {"idle", "validate", "sort", "slots", "import", "remove", "request"}
    /\ todo \subseteq Slots /\ batch \subseteq Blocks
    /\ current \in Roots /\ wanted \subseteq Blocks
    /\ stage = "import" => current \in Blocks /\ Parent[current] \in db /\ current # finalized

BadOK == badBlock \subseteq Blocks /\ BadIsDeserved

CountersOK == clock \in 0 .. MaxSlot /\ losses \in 0 .. MaxLosses

IInv == QueueOK /\ ChainOK /\ GossipOK /\ RoutineOK /\ BadOK /\ CountersOK

-----------------------------------------------------------------------------
(* Ancestors.                                                              *)

\* The ancestors of a block hold it, and the parent of every block among them.
LEMMA AncestorsClosed ==
    ASSUME NEW b \in Roots
    PROVE  /\ b \in ancestors[b] /\ ancestors[b] \subseteq Roots
           /\ \A y \in ancestors[b] \cap Blocks : Parent[y] \in ancestors[b]
<1>1. ancestors[b] = {x \in Roots : \A S \in SUBSET Roots :
            (b \in S /\ \A y \in S \cap Blocks : Parent[y] \in S) => x \in S}
  BY Zenon DEF ancestors
<1>2. ASSUME NEW y \in ancestors[b] \cap Blocks PROVE Parent[y] \in ancestors[b]
  <2>1. Parent[y] \in Roots
    BY PendingAssumption
  <2>2. ASSUME NEW S \in SUBSET Roots, b \in S, \A z \in S \cap Blocks : Parent[z] \in S
        PROVE  Parent[y] \in S
    BY <1>1, <1>2, <2>2
  <2> QED
    BY <1>1, <2>1, <2>2
<1> QED
  BY <1>1, <1>2

\* They are in every set that does.
LEMMA AncestorsLeast ==
    ASSUME NEW b \in Roots, NEW S \in SUBSET Roots, b \in S,
           \A y \in S \cap Blocks : Parent[y] \in S
    PROVE  ancestors[b] \subseteq S
<1>1. ancestors[b] = {x \in Roots : \A T \in SUBSET Roots :
            (b \in T /\ \A y \in T \cap Blocks : Parent[y] \in T) => x \in T}
  BY Zenon DEF ancestors
<1> QED
  BY <1>1

\* An ancestor's ancestors are ancestors.
LEMMA AncestorsTransitive ==
    ASSUME NEW z \in Roots, NEW y \in ancestors[z]
    PROVE  ancestors[y] \subseteq ancestors[z]
<1>1. y \in Roots /\ ancestors[z] \in SUBSET Roots
  BY AncestorsClosed
<1> QED
  BY <1>1, AncestorsClosed, AncestorsLeast, Zenon

\* The ancestors of a block are the block and those of its parent.
LEMMA AncestorsParent ==
    ASSUME NEW b \in Blocks
    PROVE  ancestors[b] = {b} \cup ancestors[Parent[b]] /\ Parent[b] \in Roots
<1>1. b \in Roots /\ Parent[b] \in Roots
  BY PendingAssumption DEF Roots
<1>2. b \in ancestors[b] /\ Parent[b] \in ancestors[b]
  BY <1>1, AncestorsClosed
<1>3. ancestors[Parent[b]] \subseteq ancestors[b]
  BY <1>1, <1>2, AncestorsTransitive
<1> DEFINE S == {b} \cup ancestors[Parent[b]]
<1>4. b \in S /\ S \in SUBSET Roots /\ \A y \in S \cap Blocks : Parent[y] \in S
  <2>1. /\ Parent[b] \in ancestors[Parent[b]] /\ ancestors[Parent[b]] \subseteq Roots
        /\ \A y \in ancestors[Parent[b]] \cap Blocks : Parent[y] \in ancestors[Parent[b]]
    BY <1>1, AncestorsClosed, Zenon
  <2> QED
    BY <1>1, <2>1
<1>5. ancestors[b] \subseteq S
  <2> HIDE DEF S
  <2> QED BY <1>1, <1>4, AncestorsLeast, Zenon
<1> QED
  BY <1>1, <1>2, <1>3, <1>5

\* Genesis has no other ancestor.
LEMMA AncestorsGenesis == ancestors[Genesis] = {Genesis}
<1>1. Genesis \in Roots /\ Genesis \notin Blocks
  BY PendingAssumption DEF Roots
<1>2. ancestors[Genesis] \subseteq {Genesis}
  <2>1. {Genesis} \in SUBSET Roots /\ \A y \in {Genesis} \cap Blocks : Parent[y] \in {Genesis}
    BY <1>1
  <2> QED
    BY <1>1, <2>1, AncestorsLeast
<1> QED
  BY <1>1, <1>2, AncestorsClosed

-----------------------------------------------------------------------------
(* The two maps of the queue.                                              *)

\* An insertion keeps the maps in agreement, also when it replaces an expired entry and when the
\* slot is full.
LEMMA InsertKeepsQueue ==
    ASSUME QueueOK, NEW b \in Blocks, insertBlockToPendingQueue(b)
    PROVE  QueueOK'
<1> DEFINE slot == Slot[b]
           blks == pendingBlocksInCache(slot)
           adds == b \notin seenPendingBlocks /\ Cardinality(blks) < MaxBlocksPerSlot
<1>1. /\ seenPendingBlocks' = seenPendingBlocks \cup {b}
      /\ slotToPendingBlocks' = IF adds
                                THEN [slotToPendingBlocks EXCEPT ![slot] = blks \cup {b}]
                                ELSE slotToPendingBlocks
      /\ expired' = IF adds THEN expired \ {slot} ELSE expired
  BY Zenon DEF insertBlockToPendingQueue
<1>2. slot \in Slots
  BY PendingAssumption
<1>3. /\ blks \subseteq slotToPendingBlocks[slot]
      /\ blks = {} \/ blks = slotToPendingBlocks[slot]
  BY DEF pendingBlocksInCache
<1>4. IsFiniteSet(blks)
  <2>1. IsFiniteSet(slotToPendingBlocks[slot])
    BY <1>2 DEF QueueOK
  <2> QED
    BY <1>3, <2>1, FS_Subset
<1>5. CASE ~ adds
  <2>1. UNCHANGED <<slotToPendingBlocks, expired>> /\ seenPendingBlocks' = seenPendingBlocks \cup {b}
    BY <1>1, <1>5
  <2> HIDE DEF adds, blks, slot
  <2> QED
    BY <2>1 DEF QueueOK, QueuedIsSeen
<1>6. CASE adds
  <2> DEFINE new == blks \cup {b}
  <2>1. IsFiniteSet(new) /\ Cardinality(new) <= MaxBlocksPerSlot
    <3>1. Cardinality(blks) \in Nat
      BY <1>4, FS_CardinalityType
    <3>2. /\ IsFiniteSet(new)
          /\ Cardinality(new) = IF b \in blks THEN Cardinality(blks) ELSE Cardinality(blks) + 1
      BY <1>4, FS_AddElement
    <3>3. Cardinality(blks) < MaxBlocksPerSlot /\ MaxBlocksPerSlot \in Nat
      BY <1>6, PendingAssumption
    <3> HIDE DEF blks, new
    <3> QED
      BY <3>1, <3>2, <3>3
  <2>2. /\ slotToPendingBlocks' = [slotToPendingBlocks EXCEPT ![slot] = new]
        /\ expired' = expired \ {slot} /\ seenPendingBlocks' = seenPendingBlocks \cup {b}
    BY <1>1, <1>6
  <2>3. /\ new \subseteq Blocks /\ new # {} /\ (\A x \in new : Slot[x] = slot)
        /\ new \subseteq seenPendingBlocks \cup {b}
    BY <1>2, <1>3 DEF QueueOK, QueuedIsSeen
  <2> HIDE DEF new, blks, adds, slot
  <2>4. /\ slotToPendingBlocks'[slot] = new
        /\ \A sl \in Slots : sl # slot => slotToPendingBlocks'[sl] = slotToPendingBlocks[sl]
        /\ slotToPendingBlocks' \in [Slots -> SUBSET Blocks]
    BY <1>2, <2>2, <2>3 DEF QueueOK
  <2>5. /\ \A sl \in Slots : \A x \in slotToPendingBlocks'[sl] : Slot[x] = sl
        /\ \A sl \in Slots : /\ IsFiniteSet(slotToPendingBlocks'[sl])
                             /\ Cardinality(slotToPendingBlocks'[sl]) <= MaxBlocksPerSlot
    BY <2>1, <2>3, <2>4 DEF QueueOK
  <2>6. expired' \subseteq {sl \in Slots : slotToPendingBlocks'[sl] # {}}
    BY <2>2, <2>4 DEF QueueOK
  <2>7. seenPendingBlocks' \subseteq Blocks /\ QueuedIsSeen'
    BY <2>2, <2>3, <2>4 DEF QueueOK, QueuedIsSeen
  <2> QED
    BY <2>4, <2>5, <2>6, <2>7 DEF QueueOK
<1> QED
  BY <1>5, <1>6

\* A deletion takes the same blocks out of both maps, and none of an expired entry.
LEMMA DeleteKeepsQueue ==
    ASSUME QueueOK, NEW blks, deleteBlocksFromPendingQueue(blks)
    PROVE  QueueOK'
<1> DEFINE gone == {b \in blks : pendingBlocksInCache(Slot[b]) # {}}
<1>1. /\ slotToPendingBlocks' = [sl \in Slots |-> slotToPendingBlocks[sl] \ gone]
      /\ seenPendingBlocks' = seenPendingBlocks \ gone
      /\ UNCHANGED expired
  BY Zenon DEF deleteBlocksFromPendingQueue
<1>2. ASSUME NEW sl \in expired PROVE sl \in Slots /\ slotToPendingBlocks[sl] \ gone = slotToPendingBlocks[sl]
  <2>1. sl \in Slots /\ \A b \in slotToPendingBlocks[sl] : Slot[b] = sl
    BY DEF QueueOK
  <2>2. pendingBlocksInCache(sl) = {}
    BY DEF pendingBlocksInCache
  <2> QED
    BY <2>1, <2>2
<1> HIDE DEF gone
<1>3. \A sl \in Slots : slotToPendingBlocks'[sl] = slotToPendingBlocks[sl] \ gone
  BY <1>1
<1>4. ASSUME NEW sl \in Slots
      PROVE  /\ IsFiniteSet(slotToPendingBlocks'[sl])
             /\ Cardinality(slotToPendingBlocks'[sl]) <= MaxBlocksPerSlot
  <2> DEFINE old == slotToPendingBlocks[sl]
             new == slotToPendingBlocks'[sl]
  <2>1. IsFiniteSet(old) /\ Cardinality(old) <= MaxBlocksPerSlot /\ new \in SUBSET old
    BY <1>3 DEF QueueOK
  <2>2. MaxBlocksPerSlot \in Nat
    BY PendingAssumption
  <2> HIDE DEF old, new
  <2>3. /\ IsFiniteSet(new) /\ Cardinality(new) <= Cardinality(old)
        /\ Cardinality(new) \in Nat /\ Cardinality(old) \in Nat
    BY <2>1, FS_Subset, FS_CardinalityType
  <2>4. IsFiniteSet(new) /\ Cardinality(new) <= MaxBlocksPerSlot
    BY <2>1, <2>2, <2>3
  <2> QED
    BY <2>4 DEF new
<1>5. slotToPendingBlocks' \in [Slots -> SUBSET Blocks]
  BY <1>1 DEF QueueOK
<1>6. \A sl \in Slots : \A b \in slotToPendingBlocks'[sl] : Slot[b] = sl
  BY <1>3 DEF QueueOK
<1>7. expired' \subseteq {sl \in Slots : slotToPendingBlocks'[sl] # {}}
  BY <1>1, <1>2, <1>3 DEF QueueOK
<1>8. seenPendingBlocks' \subseteq Blocks /\ QueuedIsSeen'
  BY <1>1, <1>3 DEF QueueOK, QueuedIsSeen
<1> QED
  BY <1>4, <1>5, <1>6, <1>7, <1>8 DEF QueueOK

\* Expired entries leave both maps; the blocks of the others are of other slots and stay seen.
LEMMA DeleteExpiredKeepsQueue ==
    ASSUME QueueOK, DeleteExpiredBlocks
    PROVE  QueueOK'
<1>1. /\ seenPendingBlocks' = seenPendingBlocks \ UNION {slotToPendingBlocks[sl] : sl \in expired}
      /\ slotToPendingBlocks' = [sl \in Slots |-> IF sl \in expired THEN {} ELSE slotToPendingBlocks[sl]]
      /\ expired' = {}
  BY DEF DeleteExpiredBlocks
<1>2. \A sl \in Slots : /\ sl \in expired => slotToPendingBlocks'[sl] = {}
                        /\ sl \notin expired => slotToPendingBlocks'[sl] = slotToPendingBlocks[sl]
  BY <1>1
<1>3. IsFiniteSet({}) /\ Cardinality({}) = 0 /\ MaxBlocksPerSlot \in Nat
  BY FS_EmptySet, PendingAssumption
<1>4. slotToPendingBlocks' \in [Slots -> SUBSET Blocks]
  BY <1>1 DEF QueueOK
<1>5. \A sl \in Slots : \A b \in slotToPendingBlocks'[sl] : Slot[b] = sl
  BY <1>2 DEF QueueOK
<1>6. \A sl \in Slots : /\ IsFiniteSet(slotToPendingBlocks'[sl])
                        /\ Cardinality(slotToPendingBlocks'[sl]) <= MaxBlocksPerSlot
  <2> SUFFICES ASSUME NEW sl \in Slots
               PROVE  /\ IsFiniteSet(slotToPendingBlocks'[sl])
                      /\ Cardinality(slotToPendingBlocks'[sl]) <= MaxBlocksPerSlot
    OBVIOUS
  <2>1. CASE sl \in expired
    <3>1. slotToPendingBlocks'[sl] = {} /\ 0 <= MaxBlocksPerSlot
      BY <1>2, <1>3, <2>1
    <3> QED
      BY <1>3, <3>1
  <2>2. CASE sl \notin expired
    <3>1. slotToPendingBlocks'[sl] = slotToPendingBlocks[sl]
      BY <1>2, <2>2
    <3> QED
      BY <3>1 DEF QueueOK
  <2> QED
    BY <2>1, <2>2
<1>7. ASSUME NEW sl \in Slots, NEW b \in slotToPendingBlocks'[sl]
      PROVE  b \in seenPendingBlocks'
  <2>1. sl \notin expired /\ b \in slotToPendingBlocks[sl] /\ Slot[b] = sl /\ b \in seenPendingBlocks
    BY <1>2 DEF QueueOK, QueuedIsSeen
  <2>2. ASSUME NEW other \in expired, b \in slotToPendingBlocks[other] PROVE FALSE
    BY <2>1, <2>2 DEF QueueOK
  <2> QED
    BY <1>1, <2>1, <2>2
<1>8. seenPendingBlocks' \subseteq Blocks
  BY <1>1 DEF QueueOK
<1> QED
  BY <1>1, <1>4, <1>5, <1>6, <1>7, <1>8 DEF QueueOK, QueuedIsSeen

-----------------------------------------------------------------------------
(* The chain and the bad blocks.                                           *)

Deserved(b) == finalized \notin ancestors[b] \/ ancestors[b] \cap Invalid # {}

\* An import adds a block to fork choice when its parent is there, that is, when it continues
\* the finalized block.
LEMMA ImportKeepsChain ==
    ASSUME ChainOK, NEW b \in Blocks, Import(b)
    PROVE  ChainOK' /\ db \subseteq db' /\ UNCHANGED finalized
<1>1. /\ Parent[b] \in tree \/ b \in db
      /\ db' = db \cup {b}
      /\ tree' = IF Parent[b] \in tree THEN tree \cup {b} ELSE tree
      /\ UNCHANGED finalized
  BY DEF Import
<1>2. b \in Roots /\ ancestors[b] = {b} \cup ancestors[Parent[b]]
  BY AncestorsParent DEF Roots
<1>3. CASE Parent[b] \in tree
  <2>1. finalized \in ancestors[b] /\ tree' = tree \cup {b}
    BY <1>1, <1>2, <1>3 DEF ChainOK
  <2> QED
    BY <1>1, <1>2, <2>1 DEF ChainOK
<1>4. CASE Parent[b] \notin tree
  <2>1. UNCHANGED <<db, tree>>
    BY <1>1, <1>4
  <2> QED
    BY <1>1, <2>1 DEF ChainOK
<1> QED
  BY <1>3, <1>4

\* A child of a bad block deserves to be bad, unless it is finalized itself.
LEMMA ChildOfBad ==
    ASSUME BadOK, NEW b \in Blocks, Parent[b] \in badBlock, b # finalized
    PROVE  Deserved(b)
<1>1. ancestors[b] = {b} \cup ancestors[Parent[b]]
  BY AncestorsParent
<1>2. Deserved(Parent[b])
  BY DEF BadOK, BadIsDeserved, Deserved
<1> QED
  BY <1>1, <1>2 DEF Deserved

\* A child of a block that is in the database and no longer in fork choice is off the finalized
\* chain.
LEMMA ChildOfPruned ==
    ASSUME ChainOK, NEW b \in Blocks, Parent[b] \in db, Parent[b] \notin tree, b # finalized
    PROVE  Deserved(b)
<1>1. ancestors[b] = {b} \cup ancestors[Parent[b]]
  BY AncestorsParent
<1>2. finalized \notin ancestors[Parent[b]]
  BY DEF ChainOK
<1> QED
  BY <1>1, <1>2 DEF Deserved

\* An invalid block deserves it.
LEMMA InvalidDeserved ==
    ASSUME NEW b \in Blocks, b \in Invalid
    PROVE  Deserved(b)
<1>1. b \in ancestors[b]
  BY AncestorsParent
<1> QED
  BY <1>1 DEF Deserved

\* Marking a block that deserves it.
LEMMA MarkKeepsBad ==
    ASSUME BadOK, NEW b \in Blocks, Deserved(b), badBlock' = badBlock \cup {b}, UNCHANGED finalized
    PROVE  BadOK'
BY DEF BadOK, BadIsDeserved, Deserved

\* When finality moves up, fork choice keeps what continues the new finalized block, and what
\* was off the finalized chain still is.
LEMMA FinalizeKeeps ==
    ASSUME IInv, NEW b \in Blocks, Finalize(b)
    PROVE  IInv'
<1>1. /\ b \in tree \ {Genesis}
      /\ ~ (stage = "import" /\ current \in ancestors[b])
      /\ finalized' = b
      /\ tree' = {other \in tree \ {Genesis} : b \in ancestors[other]}
      /\ UNCHANGED <<queue, db, gossip, routine, seenBlock, badBlock, clock, losses>>
  BY DEF Finalize
<1>2. b \in Roots /\ b \in ancestors[b] /\ finalized \in ancestors[b]
  BY <1>1, AncestorsClosed DEF Roots, IInv, ChainOK
<1>3. ASSUME NEW x \in Roots, b \in ancestors[x] PROVE finalized \in ancestors[x]
  BY <1>2, <1>3, AncestorsTransitive
<1>4. ChainOK'
  <2>1. b \in tree'
    BY <1>1, <1>2
  <2>2. ASSUME NEW x \in db PROVE x \in tree' <=> b \in ancestors[x]
    <3>1. CASE x = Genesis
      BY <1>1, <3>1, AncestorsGenesis
    <3>2. CASE x # Genesis
      <4>1. b \in ancestors[x] => x \in tree
        BY <1>3 DEF IInv, ChainOK
      <4> QED
        BY <1>1, <3>2, <4>1
    <3> QED
      BY <3>1, <3>2
  <2>3. tree' \subseteq db
    BY <1>1 DEF IInv, ChainOK
  <2> QED
    BY <1>1, <2>1, <2>2, <2>3 DEF IInv, ChainOK
<1>5. BadOK'
  <2>1. ASSUME NEW x \in badBlock PROVE b \notin ancestors[x] \/ ancestors[x] \cap Invalid # {}
    <3>1. x \in Roots /\ Deserved(x)
      BY DEF IInv, BadOK, BadIsDeserved, Deserved, Roots
    <3> QED
      BY <1>3, <3>1 DEF Deserved
  <2> QED
    BY <1>1, <2>1 DEF IInv, BadOK, BadIsDeserved
<1>6. RoutineOK'
  BY <1>1, <1>2 DEF IInv, RoutineOK, routine
<1>7. QueueOK' /\ GossipOK' /\ CountersOK'
  BY <1>1 DEF IInv, QueueOK, QueuedIsSeen, GossipOK, CountersOK, queue, gossip
<1> QED
  BY <1>4, <1>5, <1>6, <1>7 DEF IInv

-----------------------------------------------------------------------------
(* What a step leaves alone.                                               *)

\* A step that leaves the maps of the queue alone keeps their invariant.
LEMMA QueueStays == QueueOK /\ UNCHANGED queue => QueueOK'
BY DEF QueueOK, QueuedIsSeen, queue

\* The same for the chain service's blocks.
LEMMA ChainStays == ChainOK /\ UNCHANGED chain => ChainOK'
BY DEF ChainOK, chain

\* The same for the calls of gossip validation.
LEMMA GossipStays == GossipOK /\ UNCHANGED gossip => GossipOK'
BY DEF GossipOK, gossip

\* The same for the cache of bad blocks.
LEMMA BadStays == BadOK /\ UNCHANGED <<badBlock, finalized>> => BadOK'
BY DEF BadOK, BadIsDeserved

\* The import of another goroutine does not disturb the routine.
LEMMA RoutineStays ==
    ASSUME RoutineOK, UNCHANGED <<routine, finalized>>, db \subseteq db'
    PROVE  RoutineOK'
BY DEF RoutineOK, routine

\* The same for the clock and the number of losses.
LEMMA CountersStay == CountersOK /\ UNCHANGED <<clock, losses>> => CountersOK'
BY DEF CountersOK

\* A loss is counted within its bound.
LEMMA LossCounts ==
    ASSUME CountersOK, loss, UNCHANGED clock
    PROVE  CountersOK'
<1>1. losses \in 0 .. MaxLosses /\ losses < MaxLosses /\ losses' = losses + 1 /\ MaxLosses \in Nat
  BY PendingAssumption DEF CountersOK, loss
<1>2. losses' \in 0 .. MaxLosses
  BY <1>1
<1> QED
  BY <1>2 DEF CountersOK

-----------------------------------------------------------------------------
(* Every step keeps the invariant.                                         *)

\* Initially only genesis is known.
LEMMA InitInv == Init => IInv
<1> SUFFICES ASSUME Init PROVE IInv
  OBVIOUS
<1>1. IsFiniteSet({}) /\ Cardinality({}) = 0
  BY FS_EmptySet
<1>2. MaxBlocksPerSlot \in Nat /\ MaxSlot \in Nat /\ MaxLosses \in Nat /\ Genesis \in Roots
  BY PendingAssumption DEF Roots
<1>3. QueueOK
  <2>1. \A sl \in Slots : slotToPendingBlocks[sl] = {}
    BY DEF Init
  <2>2. \A sl \in Slots : /\ IsFiniteSet(slotToPendingBlocks[sl])
                          /\ Cardinality(slotToPendingBlocks[sl]) <= MaxBlocksPerSlot
    <3> SUFFICES ASSUME NEW sl \in Slots
                 PROVE  IsFiniteSet({}) /\ Cardinality({}) <= MaxBlocksPerSlot
      BY <2>1
    <3> QED
      BY <1>1, <1>2
  <2>3. slotToPendingBlocks \in [Slots -> SUBSET Blocks] /\ expired = {} /\ seenPendingBlocks = {}
    BY DEF Init
  <2> QED
    BY <2>1, <2>2, <2>3 DEF QueueOK, QueuedIsSeen
<1>4. ChainOK
  BY <1>2, AncestorsGenesis DEF Init, ChainOK
<1>5. GossipOK
  BY <1>1 DEF Init, GossipOK
<1>6. RoutineOK /\ BadOK /\ CountersOK
  BY <1>2 DEF Init, RoutineOK, BadOK, BadIsDeserved, CountersOK
<1> QED
  BY <1>3, <1>4, <1>5, <1>6 DEF IInv

\* Gossip.
LEMMA GossipKeeps ==
    ASSUME IInv, NEW b \in Blocks, Gossip(b)
    PROVE  IInv'
<1> USE DEF IInv
<1>1. CASE GossipBadParent(b)
  <2>1. /\ b \notin db /\ Parent[b] \in badBlock /\ badBlock' = badBlock \cup {b}
        /\ UNCHANGED <<queue, chain, gossip, routine, clock, losses>>
    BY <1>1 DEF GossipBadParent
  <2>2. b # finalized
    BY <2>1 DEF ChainOK
  <2>3. Deserved(b) /\ UNCHANGED <<finalized, db>>
    BY <2>1, <2>2, ChildOfBad DEF chain
  <2>4. BadOK'
    BY <2>1, <2>3, MarkKeepsBad
  <2> QED
    BY <2>1, <2>3, <2>4, QueueStays, ChainStays, GossipStays, RoutineStays, CountersStay
<1>2. CASE GossipQueues(b)
  <2>1. /\ queueing' = {b}
        /\ UNCHANGED <<queue, chain, accepted, routine, badBlock, clock, losses>>
    BY <1>2 DEF GossipQueues
  <2>2. Cardinality({b}) = 1
    BY FS_Singleton
  <2>3. GossipOK'
    BY <2>1, <2>2 DEF GossipOK
  <2>4. UNCHANGED <<finalized, db>>
    BY <2>1 DEF chain
  <2> QED
    BY <2>1, <2>3, <2>4, QueueStays, ChainStays, BadStays, RoutineStays, CountersStay
<1>3. CASE GossipAccepts(b)
  <2>1. /\ plausible(b) /\ Parent[b] \in db
        /\ IF Parent[b] \in tree
           THEN accepted' = accepted \cup {b} /\ UNCHANGED badBlock
           ELSE badBlock' = badBlock \cup {b} /\ UNCHANGED accepted
        /\ UNCHANGED <<queue, chain, queueing, routine, clock, losses>>
    BY <1>3 DEF GossipAccepts
  <2>2. b # finalized /\ UNCHANGED <<finalized, db>>
    BY <2>1 DEF ChainOK, plausible, chain
  <2>3. GossipOK'
    BY <2>1 DEF GossipOK
  <2>4. BadOK'
    <3>1. CASE Parent[b] \in tree
      BY <2>1, <2>2, <3>1, BadStays
    <3>2. CASE Parent[b] \notin tree
      <4>1. Deserved(b)
        BY <2>1, <2>2, <3>2, ChildOfPruned
      <4> QED
        BY <2>1, <2>2, <3>2, <4>1, MarkKeepsBad
    <3> QED
      BY <3>1, <3>2
  <2> QED
    BY <2>1, <2>2, <2>3, <2>4, QueueStays, ChainStays, RoutineStays, CountersStay
<1>4. CASE SubscriberReceives(b)
  <2>1. /\ accepted' = accepted \ {b}
        /\ \/ Import(b) /\ UNCHANGED badBlock
           \/ b \in Invalid /\ badBlock' = badBlock \cup {b} /\ UNCHANGED chain
           \/ UNCHANGED <<chain, badBlock>>
        /\ UNCHANGED <<queue, queueing, routine, clock, losses>>
    BY <1>4 DEF SubscriberReceives
  <2>2. GossipOK'
    BY <2>1 DEF GossipOK
  <2>3. ChainOK' /\ db \subseteq db' /\ UNCHANGED finalized
    <3>1. CASE Import(b)
      BY <3>1, ImportKeepsChain
    <3>2. CASE UNCHANGED chain
      BY <3>2, ChainStays DEF chain
    <3> QED
      BY <2>1, <3>1, <3>2
  <2>4. BadOK'
    <3>1. CASE UNCHANGED badBlock
      BY <2>3, <3>1, BadStays
    <3>2. CASE b \in Invalid /\ badBlock' = badBlock \cup {b}
      BY <2>3, <3>2, InvalidDeserved, MarkKeepsBad
    <3> QED
      BY <2>1, <3>1, <3>2
  <2> QED
    BY <2>1, <2>2, <2>3, <2>4, QueueStays, RoutineStays, CountersStay
<1> QED
  BY <1>1, <1>2, <1>3, <1>4 DEF Gossip

\* The queue takes what gossip decided to queue.
LEMMA QueueBlockKeeps ==
    ASSUME IInv, QueueBlock
    PROVE  IInv'
<1> USE DEF IInv
<1>1. PICK b \in queueing :
        /\ insertBlockToPendingQueue(b)
        /\ queueing' = {}
        /\ UNCHANGED <<chain, accepted, routine, badBlock, clock, losses>>
  BY DEF QueueBlock
<1>2. b \in Blocks
  BY DEF GossipOK
<1>3. QueueOK'
  BY <1>1, <1>2, InsertKeepsQueue
<1>4. Cardinality({}) = 0
  BY FS_EmptySet
<1>5. GossipOK'
  BY <1>1, <1>4 DEF GossipOK
<1>6. UNCHANGED <<finalized, db>>
  BY <1>1 DEF chain
<1> QED
  BY <1>1, <1>3, <1>5, <1>6, ChainStays, BadStays, RoutineStays, CountersStay

\* What is in the cache for a slot are blocks.
LEMMA CachedBlocks ==
    ASSUME QueueOK, NEW slot \in Slots
    PROVE  pendingBlocksInCache(slot) \subseteq Blocks
BY DEF QueueOK, pendingBlocksInCache

\* The walk of the routine through the queue: it only reads the maps, deletes from both or
\* inserts into both.
LEMMA WalkKeeps ==
    ASSUME IInv,
           \/ DeleteExpiredBlocks \/ validatePendingSlots \/ sortedPendingSlots \/ NextSlot
           \/ \E b \in Blocks : SkipBlock(b) \/ PeerReturns(b)
           \/ removeBlockFromQueue \/ sendBatchRootRequest \/ RequestEnds
    PROVE  IInv'
<1> USE DEF IInv
<1>1. UNCHANGED <<chain, gossip, current, badBlock, clock, losses>>
  BY DEF DeleteExpiredBlocks, validatePendingSlots, sortedPendingSlots, NextSlot, SkipBlock,
         PeerReturns, removeBlockFromQueue, sendBatchRootRequest, RequestEnds
<1>2. UNCHANGED <<finalized, db>>
  BY <1>1 DEF chain
<1>3. ChainOK' /\ GossipOK' /\ BadOK' /\ CountersOK'
  BY <1>1, <1>2, ChainStays, GossipStays, BadStays, CountersStay
<1>4. QueueOK'
  <2>1. CASE DeleteExpiredBlocks
    BY <2>1, DeleteExpiredKeepsQueue
  <2>2. CASE validatePendingSlots
    <3>1. \E blks : deleteBlocksFromPendingQueue(blks)
      BY <2>2, Zenon DEF validatePendingSlots
    <3> QED
      BY <3>1, DeleteKeepsQueue
  <2>3. CASE removeBlockFromQueue
    <3>1. deleteBlocksFromPendingQueue({current})
      BY <2>3 DEF removeBlockFromQueue
    <3> QED
      BY <3>1, DeleteKeepsQueue
  <2>4. ASSUME NEW b \in Blocks, PeerReturns(b) PROVE QueueOK'
    BY <2>4, InsertKeepsQueue DEF PeerReturns
  <2>5. CASE UNCHANGED queue
    BY <2>5, QueueStays
  <2>6. CASE \/ sortedPendingSlots \/ NextSlot \/ sendBatchRootRequest \/ RequestEnds
             \/ \E b \in Blocks : SkipBlock(b)
    BY <2>5, <2>6 DEF sortedPendingSlots, NextSlot, sendBatchRootRequest, RequestEnds, SkipBlock
  <2> QED
    BY <2>1, <2>2, <2>3, <2>4, <2>6
<1>5. /\ todo' \subseteq Slots /\ batch' \subseteq Blocks /\ wanted' \subseteq Blocks
      /\ stage' \in {"idle", "validate", "sort", "slots", "request"} \/ UNCHANGED stage
  <2>1. CASE DeleteExpiredBlocks \/ validatePendingSlots \/ removeBlockFromQueue
    BY <2>1 DEF RoutineOK, DeleteExpiredBlocks, validatePendingSlots, removeBlockFromQueue
  <2>2. CASE sortedPendingSlots
    BY <2>2 DEF RoutineOK, sortedPendingSlots, liveSlots
  <2>3. CASE NextSlot
    <3>1. PICK slot \in todo : batch' = pendingBlocksInCache(slot) /\ todo' = todo \ {slot}
      BY <2>3 DEF NextSlot
    <3>2. batch' \subseteq Blocks
      BY <3>1, CachedBlocks DEF RoutineOK
    <3> QED
      BY <2>3, <3>1, <3>2 DEF RoutineOK, NextSlot
  <2>4. CASE \E b \in Blocks : SkipBlock(b) \/ PeerReturns(b)
    BY <2>4 DEF RoutineOK, SkipBlock, PeerReturns
  <2>5. CASE sendBatchRootRequest \/ RequestEnds
    BY <2>5 DEF RoutineOK, sendBatchRootRequest, RequestEnds
  <2> QED
    BY <2>1, <2>2, <2>3, <2>4, <2>5
<1>6. RoutineOK'
  BY <1>1, <1>2, <1>5 DEF RoutineOK
<1> QED
  BY <1>3, <1>4, <1>6

\* The decision about a block: it is marked bad only for its parent, and imported only when
\* it is unknown and its parent known.
LEMMA CheckBlockKeeps ==
    ASSUME IInv, NEW b \in Blocks, CheckBlock(b)
    PROVE  IInv'
<1> USE DEF IInv
<1> DEFINE inDB == b \in db
           bad == ~ inDB /\ (Parent[b] \in badBlock \/ b \in badBlock)
<1>1. /\ batch' = batch \ {b}
      /\ stage' = IF inDB \/ bad THEN "remove"
                  ELSE IF Parent[b] \in db THEN "import" ELSE "slots"
      /\ badBlock' = IF bad /\ Parent[b] \in badBlock THEN badBlock \cup {b} ELSE badBlock
      /\ wanted' = IF ~ inDB /\ ~ bad /\ missingParent(b) THEN wanted \cup {Parent[b]} ELSE wanted
      /\ current' = IF stage' = "slots" THEN current ELSE b
      /\ UNCHANGED <<queue, chain, gossip, todo, clock, losses>>
  BY DEF CheckBlock
<1>2. UNCHANGED <<finalized, db>> /\ finalized \in db /\ Genesis \in db
  BY <1>1 DEF chain, ChainOK
<1>3. BadOK'
  <2>1. CASE bad /\ Parent[b] \in badBlock
    <3>1. b # finalized
      BY <1>2, <2>1
    <3>2. Deserved(b)
      BY <2>1, <3>1, ChildOfBad
    <3> QED
      BY <1>1, <1>2, <2>1, <3>2, MarkKeepsBad
  <2>2. CASE ~ (bad /\ Parent[b] \in badBlock)
    BY <1>1, <1>2, <2>2, BadStays
  <2> QED
    BY <2>1, <2>2
<1>4. Parent[b] \in Roots /\ (Parent[b] \notin db => Parent[b] \in Blocks)
  BY <1>2, PendingAssumption DEF Roots
<1>5. wanted' \subseteq Blocks
  BY <1>1, <1>4 DEF RoutineOK, missingParent
<1>6. RoutineOK'
  <2>1. current' \in Roots /\ b \in Roots
    BY <1>1 DEF RoutineOK, Roots
  <2>2. stage' = "import" => current' = b /\ Parent[b] \in db /\ b \notin db
    BY <1>1
  <2>3. stage' \in {"slots", "import", "remove"}
    BY <1>1
  <2> QED
    BY <1>1, <1>2, <1>5, <2>1, <2>2, <2>3 DEF RoutineOK
<1> QED
  BY <1>1, <1>3, <1>6, QueueStays, ChainStays, GossipStays, CountersStay

\* The import by the routine.
LEMMA ProcessKeeps ==
    ASSUME IInv, ProcessSucceeds \/ ProcessFails
    PROVE  IInv'
<1> USE DEF IInv
<1>1. /\ current \in Blocks /\ Parent[current] \in db /\ current # finalized
      /\ UNCHANGED <<queue, gossip, todo, batch, current, wanted, clock, losses>>
      /\ stage' \in {"remove", "slots"}
  BY DEF RoutineOK, ProcessSucceeds, ProcessFails
<1>2. RoutineOK'
  BY <1>1 DEF RoutineOK
<1>3. CASE ProcessSucceeds
  <2>1. ChainOK' /\ UNCHANGED finalized
    BY <1>1, <1>3, ImportKeepsChain DEF ProcessSucceeds
  <2>2. BadOK'
    BY <1>3, <2>1, BadStays DEF ProcessSucceeds
  <2> QED
    BY <1>1, <1>2, <2>1, <2>2, QueueStays, GossipStays, CountersStay
<1>4. CASE ProcessFails
  <2>1. /\ \/ /\ current \in Invalid \/ Parent[current] \notin tree
              /\ badBlock' = badBlock \cup {current}
           \/ UNCHANGED badBlock
        /\ UNCHANGED chain
    BY <1>4 DEF ProcessFails
  <2>2. UNCHANGED finalized
    BY <2>1 DEF chain
  <2>3. BadOK'
    <3>1. CASE UNCHANGED badBlock
      BY <2>2, <3>1, BadStays
    <3>2. CASE (current \in Invalid \/ Parent[current] \notin tree) /\ badBlock' = badBlock \cup {current}
      <4>1. Deserved(current)
        BY <1>1, <3>2, InvalidDeserved, ChildOfPruned
      <4> QED
        BY <1>1, <2>2, <3>2, <4>1, MarkKeepsBad
    <3> QED
      BY <2>1, <3>1, <3>2
  <2> QED
    BY <1>1, <1>2, <2>1, <2>3, QueueStays, ChainStays, GossipStays, CountersStay
<1> QED
  BY <1>3, <1>4

\* Time passes, entries expire, and a resync clears the queue.
LEMMA EnvironmentKeeps ==
    ASSUME IInv, Tick \/ (\E slot \in Slots : Expire(slot)) \/ clearPendingSlots
    PROVE  IInv'
<1> USE DEF IInv
<1>1. UNCHANGED <<chain, gossip, routine, badBlock>>
  BY DEF Tick, Expire, clearPendingSlots
<1>2. UNCHANGED <<finalized, db>>
  BY <1>1 DEF chain
<1>3. ChainOK' /\ GossipOK' /\ RoutineOK' /\ BadOK'
  BY <1>1, <1>2, ChainStays, GossipStays, RoutineStays, BadStays
<1>4. CASE Tick
  <2>1. clock \in 0 .. MaxSlot /\ clock < MaxSlot /\ clock' = clock + 1 /\ MaxSlot \in Nat
    BY <1>4, PendingAssumption DEF CountersOK, Tick
  <2>2. clock' \in 0 .. MaxSlot
    BY <2>1
  <2>3. UNCHANGED queue /\ UNCHANGED losses
    BY <1>4 DEF Tick
  <2>4. CountersOK'
    BY <2>2, <2>3 DEF CountersOK
  <2> QED
    BY <1>3, <2>3, <2>4, QueueStays
<1>5. ASSUME NEW slot \in Slots, Expire(slot) PROVE IInv'
  <2>1. /\ loss /\ slot \in liveSlots /\ expired' = expired \cup {slot}
        /\ UNCHANGED <<slotToPendingBlocks, seenPendingBlocks, clock>>
    BY <1>5 DEF Expire
  <2>2. slotToPendingBlocks[slot] # {}
    BY <2>1 DEF liveSlots, pendingBlocksInCache
  <2>3. QueueOK'
    BY <2>1, <2>2 DEF QueueOK, QueuedIsSeen
  <2> QED
    BY <1>3, <2>1, <2>3, LossCounts
<1>6. CASE clearPendingSlots
  <2>1. /\ loss /\ UNCHANGED clock
        /\ slotToPendingBlocks' = [sl \in Slots |-> {}] /\ expired' = {} /\ seenPendingBlocks' = {}
    BY <1>6 DEF clearPendingSlots
  <2>2. IsFiniteSet({}) /\ Cardinality({}) = 0 /\ MaxBlocksPerSlot \in Nat
    BY FS_EmptySet, PendingAssumption
  <2>3. \A sl \in Slots : slotToPendingBlocks'[sl] = {}
    BY <2>1
  <2>4. \A sl \in Slots : /\ IsFiniteSet(slotToPendingBlocks'[sl])
                          /\ Cardinality(slotToPendingBlocks'[sl]) <= MaxBlocksPerSlot
    <3> SUFFICES ASSUME NEW sl \in Slots
                 PROVE  IsFiniteSet({}) /\ Cardinality({}) <= MaxBlocksPerSlot
      BY <2>3
    <3> QED
      BY <2>2
  <2>5. slotToPendingBlocks' \in [Slots -> SUBSET Blocks]
    BY <2>1
  <2>6. QueueOK'
    BY <2>1, <2>3, <2>4, <2>5 DEF QueueOK, QueuedIsSeen
  <2> QED
    BY <1>3, <2>1, <2>6, LossCounts
<1> QED
  BY <1>4, <1>5, <1>6

\* Every step keeps the invariant.
LEMMA StepInv == IInv /\ [Next]_vars => IInv'
<1> SUFFICES ASSUME IInv, [Next]_vars PROVE IInv'
  OBVIOUS
<1>1. CASE Routine
  BY <1>1, WalkKeeps, CheckBlockKeeps, ProcessKeeps DEF Routine
<1>2. CASE UNCHANGED vars
  <2>1. UNCHANGED <<queue, chain, gossip, routine, badBlock, clock, losses, finalized, db>>
    BY <1>2 DEF vars, chain
  <2> QED
    BY <2>1, QueueStays, ChainStays, GossipStays, RoutineStays, BadStays, CountersStay DEF IInv
<1> QED
  BY <1>1, <1>2, GossipKeeps, QueueBlockKeeps, EnvironmentKeeps, FinalizeKeeps DEF Next

\* The maps of the queue agree, fork choice holds what continues the finalized block, and the
\* routine imports no finalized block.
THEOREM Invariance == Spec => []IInv
BY InitInv, StepInv, PTL DEF Spec

\* The queue, the caches and the routine keep their types; no slot has more blocks than it may.
THEOREM TypeCorrect == Spec => []TypeOK
<1>1. IInv => TypeOK
  BY DEF IInv, QueueOK, ChainOK, GossipOK, RoutineOK, BadOK, CountersOK, TypeOK
<1> QED
  BY <1>1, Invariance, PTL

\* Whatever expires, is cleared, removed or inserted again, a queued block is recorded as seen.
THEOREM QueuedStaysSeen == Spec => []QueuedIsSeen
<1>1. IInv => QueuedIsSeen
  BY DEF IInv, QueueOK
<1> QED
  BY <1>1, Invariance, PTL

\* For every tree of blocks, no interleaving of gossip, peers, failed imports and finality marks
\* a block bad that continues the finalized block through valid blocks.
THEOREM NeverBadUndeserved == Spec => []BadIsDeserved
<1>1. IInv => BadIsDeserved
  BY DEF IInv, BadOK
<1> QED
  BY <1>1, Invariance, PTL

=============================================================================
