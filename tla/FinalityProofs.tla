--------------------------- MODULE FinalityProofs ---------------------------
(***************************************************************************)
(* Proofs about ForkChoice that rest on the safety of finality: targets    *)
(* stay in the store, finality only advances and keeps its chain, and the  *)
(* store implements AvailableAttestation.                                  *)
(***************************************************************************)
EXTENDS ForkChoiceRefinement, ForkChoiceProofs, WellFoundedInduction

-----------------------------------------------------------------------------
(* The inductive invariant, on top of IInv.                                *)

\* The tree root is on the chain of the finalized block, which a post-state finalized.
FinalityOK(fc, root) ==
    /\ \/ fc = StartFinalized
       \/ \E r \in Roots : FC[r].epoch > StartFinalized.epoch /\ fc = FC[r]
    /\ IF fc.root = NoNode THEN root = StartRoot ELSE root \in BlockChain[fc.root]

\* The target of a node is in the map, a walk down from it reaches the node, and between the
\* two there are only blocks of the node's epoch after its first slot.
TargetsOK(nodes, ch, tgt) ==
    \A n \in nodes : tgt[n] # NoNode =>
        /\ tgt[n] \in nodes
        /\ n \in Subtree(ch, tgt[n])
        /\ \A x \in BlockChain[n] :
              Slot[x] > Slot[tgt[n]] => Slot[x] > EpochStart(ToEpoch(Slot[n]))

\* A listed child was in the map at some time.
ListedKnown(nodes, drp, ch) == \A n \in Roots : ch[n] \subseteq nodes \cup drp

FInv ==
    /\ IInv
    /\ FinalityOK(finalizedCheckpoint, treeRootNode)
    /\ TargetsOK(nodeByRoot, children, target)
    /\ ListedKnown(nodeByRoot, dropped, children)

-----------------------------------------------------------------------------
(* Chains and subtrees.                                                    *)

\* Child lists follow what the blocks say.
Listing(ch) ==
    /\ ch \in [Roots -> SUBSET Roots]
    /\ \A x \in Roots : \A c \in ch[x] : ParentRoot[c] = x

\* A listed child is later than its parent.
LEMMA ChildLater ==
    ASSUME NEW ch, Listing(ch), NEW x \in Roots, NEW c \in ch[x]
    PROVE  c \in Roots /\ ParentRoot[c] = x /\ Slot[x] < Slot[c]
<1>1. c \in Roots /\ ParentRoot[c] = x /\ x # NoNode
  BY ConstantsAssumption DEF Listing
<1> QED
  BY <1>1, BlocksAssumption

\* A chain ends in its block, holds nothing later, and holds the parent of what it holds.
LEMMA ChainClosed ==
    ASSUME NEW r \in Roots
    PROVE  /\ r \in BlockChain[r]
           /\ BlockChain[r] \subseteq Roots
           /\ \A x \in BlockChain[r] : Slot[x] <= Slot[r]
           /\ \A x \in BlockChain[r] : ParentRoot[x] # NoNode => ParentRoot[x] \in BlockChain[r]
<1>1. r \in NotAfter(r)
  BY BlocksAssumption DEF NotAfter
<1>2. ASSUME NEW x \in NotAfter(r)
      PROVE  Up(ParentRoot)[x] \subseteq NotAfter(r)
  <2>1. x \in Roots /\ Slot[x] <= Slot[r] /\ Slot[x] \in Nat /\ Slot[r] \in Nat
    BY BlocksAssumption DEF NotAfter
  <2>2. CASE ParentRoot[x] = NoNode
    BY <2>1, <2>2 DEF Up
  <2>3. CASE ParentRoot[x] # NoNode
    <3>1. ParentRoot[x] \in Roots /\ Slot[ParentRoot[x]] < Slot[x] /\ Slot[ParentRoot[x]] \in Nat
      BY <2>1, <2>3, BlocksAssumption
    <3>2. ParentRoot[x] \in NotAfter(r)
      BY <2>1, <3>1 DEF NotAfter
    <3> QED
      BY <2>1, <2>3, <3>2 DEF Up
  <2> QED
    BY <2>2, <2>3
<1>3. BlockChain[r] = Closure(NotAfter(r), Up(ParentRoot), r)
  BY DEF BlockChain
<1>4. /\ r \in BlockChain[r]
      /\ BlockChain[r] \subseteq NotAfter(r)
      /\ \A x \in BlockChain[r] : Up(ParentRoot)[x] \subseteq BlockChain[r]
  <2> DEFINE C == Closure(NotAfter(r), Up(ParentRoot), r)
  <2>1. /\ r \in C /\ C \subseteq NotAfter(r)
        /\ \A x \in C : Up(ParentRoot)[x] \subseteq C
    BY <1>1, <1>2, ClosureClosed, Zenon
  <2> HIDE DEF C
  <2> QED
    BY <1>3, <2>1, Zenon DEF C
<1>5. ASSUME NEW x \in BlockChain[r], ParentRoot[x] # NoNode
      PROVE  ParentRoot[x] \in BlockChain[r]
  <2>1. x \in Roots
    BY <1>4 DEF NotAfter
  <2>2. ParentRoot[x] \in Up(ParentRoot)[x]
    BY <2>1, <1>5 DEF Up
  <2> QED
    BY <2>2, <1>4
<1> QED
  BY <1>4, <1>5 DEF NotAfter

\* A chain holds nothing but its block and what is above it.
LEMMA ChainLeast ==
    ASSUME NEW r \in Roots, NEW S, r \in S,
           \A x \in S \cap Roots : ParentRoot[x] # NoNode => ParentRoot[x] \in S
    PROVE  BlockChain[r] \subseteq S
<1> DEFINE T == S \cap BlockChain[r]
<1>1. /\ r \in BlockChain[r] /\ BlockChain[r] \subseteq Roots
      /\ \A x \in BlockChain[r] : Slot[x] <= Slot[r]
      /\ \A x \in BlockChain[r] : ParentRoot[x] # NoNode => ParentRoot[x] \in BlockChain[r]
  BY ChainClosed, Zenon
<1>2. T \in SUBSET NotAfter(r) /\ r \in T
  BY <1>1 DEF NotAfter
<1>3. ASSUME NEW x \in T
      PROVE  Up(ParentRoot)[x] \subseteq T
  <2>1. x \in Roots /\ x \in S /\ x \in BlockChain[r]
    BY <1>1
  <2>2. ParentRoot[x] # NoNode => ParentRoot[x] \in T
    BY <2>1, <1>1
  <2> HIDE DEF T
  <2> QED
    BY <2>1, <2>2 DEF Up
<1> HIDE DEF T
<1>4. Closure(NotAfter(r), Up(ParentRoot), r) \subseteq T
  BY <1>2, <1>3, ClosureLeast, Zenon
<1> QED
  BY <1>4 DEF BlockChain, T

\* The chain of a block of a chain is part of it.
LEMMA ChainTransitive ==
    ASSUME NEW z \in Roots, NEW y \in BlockChain[z]
    PROVE  BlockChain[y] \subseteq BlockChain[z]
<1>1. y \in Roots
  BY ChainClosed
<1> QED
  BY <1>1, ChainClosed, ChainLeast, Zenon

\* The chain of a block is the block and the chain of its parent.
LEMMA ChainParent ==
    ASSUME NEW r \in Roots, ParentRoot[r] # NoNode
    PROVE  /\ ParentRoot[r] \in Roots
           /\ Slot[ParentRoot[r]] < Slot[r]
           /\ BlockChain[r] = {r} \cup BlockChain[ParentRoot[r]]
<1> DEFINE p == ParentRoot[r]
<1>1. p \in Roots /\ Slot[p] < Slot[r]
  BY BlocksAssumption
<1>2. p \in BlockChain[r] /\ r \in BlockChain[r]
  BY ChainClosed
<1>3. {r} \cup BlockChain[p] \subseteq BlockChain[r]
  BY <1>2, ChainTransitive
<1>4. p \in BlockChain[p] /\ \A x \in BlockChain[p] : ParentRoot[x] # NoNode => ParentRoot[x] \in BlockChain[p]
  BY <1>1, ChainClosed, Zenon
<1> DEFINE S == {r} \cup BlockChain[p]
<1>5. r \in S /\ \A x \in S : ParentRoot[x] # NoNode => ParentRoot[x] \in S
  BY <1>4
<1>6. BlockChain[r] \subseteq S
  <2> HIDE DEF S
  <2> QED BY <1>5, ChainLeast, Zenon
<1> QED
  BY <1>1, <1>3, <1>6

\* A walk down from n visits nothing outside a set that holds n and is closed under ch.
LEMMA SubtreeLeast ==
    ASSUME NEW ch, Listing(ch), NEW n \in Roots, NEW S, n \in S,
           \A x \in S \cap Roots : \A c \in ch[x] : Slot[c] >= Slot[n] => c \in S
    PROVE  Subtree(ch, n) \subseteq S
<1> DEFINE T == S \cap NotBefore(n)
<1>1. T \in SUBSET NotBefore(n) /\ n \in T
  BY BlocksAssumption DEF NotBefore
<1>2. ASSUME NEW x \in T
      PROVE  ch[x] \subseteq T
  <2> SUFFICES ASSUME NEW c \in ch[x] PROVE c \in T
    OBVIOUS
  <2>1. x \in Roots /\ x \in S /\ Slot[x] >= Slot[n]
    BY DEF NotBefore
  <2>2. c \in Roots /\ Slot[x] < Slot[c]
    BY <2>1, ChildLater
  <2>3. Slot[c] >= Slot[n]
    BY <2>1, <2>2, BlocksAssumption
  <2> QED
    BY <2>1, <2>2, <2>3 DEF NotBefore
<1> HIDE DEF T
<1>3. Closure(NotBefore(n), ch, n) \subseteq T
  BY <1>1, <1>2, ClosureLeast, Zenon
<1> QED
  BY <1>3 DEF Subtree, T

\* The facts of SubtreeClosed, for a listing.
LEMMA SubtreeFacts ==
    ASSUME NEW ch, Listing(ch), NEW n \in Roots
    PROVE  /\ n \in Subtree(ch, n)
           /\ Subtree(ch, n) \subseteq Roots
           /\ \A x \in Subtree(ch, n) : Slot[n] <= Slot[x]
           /\ \A x \in Subtree(ch, n) : ch[x] \subseteq Subtree(ch, n)
BY SubtreeClosed, Zenon DEF Listing

\* The subtree of a node of a subtree is part of it.
LEMMA SubtreeTransitive ==
    ASSUME NEW ch, Listing(ch), NEW n \in Roots, NEW y \in Subtree(ch, n)
    PROVE  Subtree(ch, y) \subseteq Subtree(ch, n)
<1>1. y \in Roots /\ \A x \in Subtree(ch, n) \cap Roots : \A c \in ch[x] : c \in Subtree(ch, n)
  BY SubtreeFacts, Zenon
<1> QED
  BY <1>1, SubtreeLeast, Zenon

\* The top of a subtree is on the chain of every node of it.
LEMMA SubtreeChain ==
    ASSUME NEW ch, Listing(ch), NEW t \in Roots, NEW n \in Subtree(ch, t)
    PROVE  n \in Roots /\ t \in BlockChain[n]
<1> DEFINE S == {x \in Roots : t \in BlockChain[x]}
<1>1. t \in S
  BY ChainClosed
<1>2. ASSUME NEW x \in S, NEW c \in ch[x]
      PROVE  c \in S
  <2>1. x \in Roots /\ t \in BlockChain[x] /\ x # NoNode
    BY ConstantsAssumption
  <2>2. c \in Roots /\ ParentRoot[c] = x
    BY <2>1, ChildLater
  <2>3. BlockChain[c] = {c} \cup BlockChain[x]
    BY <2>1, <2>2, ChainParent
  <2> QED
    BY <2>1, <2>2, <2>3
<1> HIDE DEF S
<1>3. Subtree(ch, t) \subseteq S
  BY <1>1, <1>2, SubtreeLeast, Zenon
<1> QED
  BY <1>3 DEF S

\* A walk down leaves its start through one of the children.
LEMMA SubtreeStep ==
    ASSUME NEW ch, Listing(ch), NEW f \in Roots, NEW n \in Subtree(ch, f), n # f
    PROVE  \E c \in ch[f] : n \in Subtree(ch, c)
<1> DEFINE S == {x \in Roots : x = f \/ \E c \in ch[f] : x \in Subtree(ch, c)}
<1>1. ASSUME NEW x \in S, NEW d \in ch[x]
      PROVE  d \in S
  <2>1. x \in Roots
    OBVIOUS
  <2>2. d \in Roots
    BY <2>1, ChildLater
  <2>3. CASE x = f
    <3>1. d \in Subtree(ch, d)
      BY <2>2, SubtreeFacts
    <3> QED
      BY <2>2, <2>3, <3>1
  <2>4. CASE \E c \in ch[f] : x \in Subtree(ch, c)
    <3>1. PICK c \in ch[f] : x \in Subtree(ch, c)
      BY <2>4
    <3>2. c \in Roots
      BY ChildLater
    <3>3. d \in Subtree(ch, c)
      BY <3>1, <3>2, SubtreeFacts
    <3> QED
      BY <2>2, <3>3
  <2> QED
    BY <2>3, <2>4
<1>2. f \in S
  OBVIOUS
<1> HIDE DEF S
<1>3. Subtree(ch, f) \subseteq S
  BY <1>1, <1>2, SubtreeLeast, Zenon
<1> QED
  BY <1>3 DEF S

\* A block of a chain other than its end is earlier than the end.
LEMMA ChainEarlier ==
    ASSUME NEW r \in Roots, NEW x \in BlockChain[r], x # r
    PROVE  x \in Roots /\ Slot[x] < Slot[r]
<1> DEFINE S == {y \in Roots : y = r \/ Slot[y] < Slot[r]}
<1>1. ASSUME NEW y \in S, ParentRoot[y] # NoNode
      PROVE  ParentRoot[y] \in S
  <2>1. ParentRoot[y] \in Roots /\ Slot[ParentRoot[y]] < Slot[y]
    BY <1>1, ChainParent
  <2> QED
    BY <2>1, BlocksAssumption
<1>2. r \in S
  OBVIOUS
<1> HIDE DEF S
<1>3. BlockChain[r] \subseteq S
  BY <1>1, <1>2, ChainLeast, Zenon
<1> QED
  BY <1>3 DEF S

\* Of two blocks of a chain, one is on the chain of the other.
LEMMA ChainTotal ==
    ASSUME NEW n \in Roots, NEW f \in BlockChain[n], NEW t \in BlockChain[n]
    PROVE  t \in BlockChain[f] \/ f \in BlockChain[t]
<1> DEFINE S == {y \in Roots : y \in BlockChain[f] \/ f \in BlockChain[y]}
<1>1. f \in Roots
  BY ChainClosed
<1>2. ASSUME NEW y \in S, ParentRoot[y] # NoNode
      PROVE  ParentRoot[y] \in S
  <2>1. y \in Roots /\ ParentRoot[y] \in Roots /\ BlockChain[y] = {y} \cup BlockChain[ParentRoot[y]]
    BY <1>2, ChainParent
  <2>2. CASE y \in BlockChain[f]
    BY <1>1, <1>2, <2>1, <2>2, ChainClosed
  <2>3. CASE f \in BlockChain[y] /\ f # y
    BY <2>1, <2>3
  <2>4. CASE f = y
    BY <1>1, <1>2, <2>1, <2>4, ChainClosed
  <2> QED
    BY <2>2, <2>3, <2>4
<1>3. n \in S
  OBVIOUS
<1> HIDE DEF S
<1>4. BlockChain[n] \subseteq S
  BY <1>2, <1>3, ChainLeast, Zenon
<1> QED
  BY <1>4 DEF S

-----------------------------------------------------------------------------
(* Slots and epochs.                                                       *)

\* The order of the numbers is well-founded: a set of numbers has a least member.
LEMMA LeastNumber ==
    ASSUME NEW T \in SUBSET Nat, T # {}
    PROVE  \E x \in T : \A y \in T : x <= y
<1> DEFINE R == {ss \in Nat \X Nat : ss[1] < ss[2]}
<1>1. IsWellFoundedOn(R, Nat)
  BY NatLessThanWellFounded, Zenon DEF OpToRel
<1>2. \A y, x \in Nat : y < x => <<y, x>> \in R
  OBVIOUS
<1> HIDE DEF R
<1>3. PICK x \in T : \A y \in T : ~(<<y, x>> \in R)
  BY <1>1, WFMin, Zenon
<1>4. ASSUME NEW y \in T PROVE x <= y
  <2>1. x \in Nat /\ y \in Nat
    OBVIOUS
  <2>2. ~(y < x)
    BY <2>1, <1>2, <1>3, Zenon
  <2> QED
    BY <2>1, <2>2
<1> QED
  BY <1>4

\* A set of blocks none of which is later than n has a latest block.
LEMMA LatestBlock ==
    ASSUME NEW n \in Nat, NEW C \in SUBSET Roots, C # {}, \A x \in C : Slot[x] <= n
    PROVE  \E x \in C : \A z \in C : Slot[z] <= Slot[x]
<1> DEFINE T == {k \in Nat : \E x \in C : k = n - Slot[x]}
<1>1. ASSUME NEW x \in C PROVE Slot[x] \in Nat /\ n - Slot[x] \in T
  BY BlocksAssumption
<1>2. T \in SUBSET Nat /\ T # {}
  BY <1>1
<1>3. PICK k \in T : \A l \in T : k <= l
  <2> HIDE DEF T
  <2> QED BY <1>2, LeastNumber, Zenon
<1>4. PICK x \in C : k = n - Slot[x]
  OBVIOUS
<1>5. ASSUME NEW z \in C PROVE Slot[z] <= Slot[x]
  <2>1. n - Slot[z] \in T /\ Slot[z] \in Nat /\ Slot[x] \in Nat
    BY <1>1
  <2>2. k <= n - Slot[z]
    <3> HIDE DEF T
    <3> QED BY <2>1, <1>3
  <2> QED
    BY <2>1, <2>2, <1>4
<1> QED
  BY <1>5

\* The block of a chain at a checkpoint is on the chain, not later than the checkpoint, and
\* the latest such block.
LEMMA CheckpointBlockLatest ==
    ASSUME NEW r \in Roots, NEW epoch \in Nat, NEW f \in BlockChain[r],
           Slot[f] <= EpochStart(epoch)
    PROVE  /\ CheckpointBlock(r, epoch) \in BlockChain[r]
           /\ \A z \in BlockChain[r] :
                 Slot[z] <= EpochStart(epoch) => Slot[z] <= Slot[CheckpointBlock(r, epoch)]
<1> DEFINE C == {x \in BlockChain[r] : Slot[x] <= EpochStart(epoch)}
<1>1. C \in SUBSET Roots /\ C # {} /\ EpochStart(epoch) \in Nat
  BY ChainClosed, ConstantsAssumption DEF EpochStart
<1>2. \A x \in C : Slot[x] <= EpochStart(epoch)
  OBVIOUS
<1>3. CheckpointBlock(r, epoch) = CHOOSE x \in C : \A z \in C : Slot[z] <= Slot[x]
  BY Zenon DEF CheckpointBlock, BlockAncestors
<1> HIDE DEF C
<1>4. \E x \in C : \A z \in C : Slot[z] <= Slot[x]
  BY <1>1, <1>2, LatestBlock, Zenon
<1>5. CheckpointBlock(r, epoch) \in C /\ \A z \in C : Slot[z] <= Slot[CheckpointBlock(r, epoch)]
  BY <1>3, <1>4, Zenon
<1> QED
  BY <1>5 DEF C

\* A slot that is not before an epoch's first slot is in this epoch or in a later one.
LEMMA EpochOrder ==
    ASSUME NEW e \in Nat, NEW n \in Nat, EpochStart(e) <= n
    PROVE  EpochStart(e) <= EpochStart(ToEpoch(n))
<1> DEFINE k == SlotsPerEpoch
           q == n \div k
<1>1. k \in Nat \ {0}
  BY ConstantsAssumption
<1>2. q \in Nat /\ n < q * k + k
  BY <1>1
<1>3. e * k <= n
  BY DEF EpochStart
<1> HIDE DEF q, k
<1>4. e < q + 1
  <2> SUFFICES ASSUME e >= q + 1 PROVE FALSE
    BY <1>2
  <2>1. e * k >= (q + 1) * k
    BY <1>1, <1>2
  <2>2. (q + 1) * k = q * k + k
    BY <1>1, <1>2
  <2>3. q * k \in Nat /\ e * k \in Nat
    BY <1>1, <1>2
  <2> QED
    BY <2>1, <2>2, <2>3, <1>1, <1>2, <1>3
<1>5. e * k <= q * k
  BY <1>1, <1>2, <1>4
<1> QED
  BY <1>5 DEF EpochStart, ToEpoch, q, k

\* A slot is not before the first slot of its epoch, and after it unless it is that slot.
LEMMA InEpoch ==
    ASSUME NEW n \in Nat
    PROVE  /\ EpochStart(ToEpoch(n)) \in Nat
           /\ EpochStart(ToEpoch(n)) <= n
           /\ ~IsEpochStart(n) => EpochStart(ToEpoch(n)) < n
<1> DEFINE k == SlotsPerEpoch
           q == n \div k
           m == n % k
<1>1. k \in Nat \ {0}
  BY ConstantsAssumption
<1>2. q \in Nat /\ m \in Nat /\ n = k * q + m
  BY <1>1
<1>3. k * q \in Nat /\ q * k = k * q
  <2> HIDE DEF k, q, m
  <2> QED BY <1>1, <1>2
<1>4. q * k <= n /\ (m # 0 => q * k < n)
  <2> HIDE DEF k, q, m
  <2> QED BY <1>1, <1>2, <1>3
<1> QED
  BY <1>1, <1>3, <1>4 DEF EpochStart, ToEpoch, IsEpochStart

-----------------------------------------------------------------------------
(* What a prune takes out.                                                 *)

\* The finalized checkpoint fc has a block, not later than its epoch's first slot, and the
\* tree root is on its chain.
Final(fc) ==
    /\ fc \in Checkpoints
    /\ fc.root \in Roots
    /\ Slot[fc.root] <= EpochStart(fc.epoch)
    /\ treeRootNode \in BlockChain[fc.root]
    /\ treeRootNode # fc.root

\* The listing without the children of the finalized block, which bounds the first part of
\* a prune's walk.
Cut(f, ch) == [ch EXCEPT ![f] = {}]

\* What the two parts of a prune's walk visit.
LEMMA GoneParts ==
    ASSUME NEW ch, Listing(ch), NEW fc, fc.root \in Roots, treeRootNode \in Roots
    PROVE  LET f == fc.root
               top == Subtree(Cut(f, ch), treeRootNode)
           IN  /\ treeRootNode \in top
               /\ top \subseteq Roots
               /\ \A x \in top : x # f => ch[x] \subseteq top
               /\ competing(f, ch) = top \ {f}
               /\ \A x \in incompatible(fc, ch) :
                     \E c \in ch[f] : Slot[c] <= EpochStart(fc.epoch) /\ x \in Subtree(ch, c)
               /\ \A x \in incompatible(fc, ch) : ch[x] \subseteq incompatible(fc, ch)
               /\ \A n \in Subtree(ch, f) : n # f /\ n \notin incompatible(fc, ch) =>
                     \/ Slot[f] = EpochStart(fc.epoch)
                     \/ \E c \in ch[f] : n \in Subtree(ch, c) /\ ~(Slot[c] <= EpochStart(fc.epoch))
<1> DEFINE f == fc.root
           cut == Cut(f, ch)
           top == Subtree(cut, treeRootNode)
           early == {x \in ch[f] : Slot[x] <= EpochStart(fc.epoch)}
           inc == incompatible(fc, ch)
<1>1. Listing(cut) /\ \A x \in Roots : x # f => cut[x] = ch[x]
  BY DEF Listing, Cut
<1>2. /\ treeRootNode \in top /\ top \subseteq Roots
      /\ \A x \in top : cut[x] \subseteq top
  <2> HIDE DEF cut
  <2> QED BY <1>1, SubtreeFacts, Zenon
<1>3. competing(f, ch) = top \ {f}
  BY DEF competing, Cut
<1>4. \A x \in top : x # f => ch[x] \subseteq top
  <2> HIDE DEF top, cut
  <2> QED BY <1>1, <1>2
<1>5. IF Slot[f] = EpochStart(fc.epoch) THEN inc = {}
      ELSE inc = UNION {Subtree(ch, c) : c \in early}
  BY Zenon DEF incompatible
<1>6. \A c \in early : c \in ch[f] /\ c \in Roots /\ Slot[c] <= EpochStart(fc.epoch)
  BY ChildLater
<1>7. \A c \in ch[f] : c \notin early => ~(Slot[c] <= EpochStart(fc.epoch))
  OBVIOUS
<1> HIDE DEF early, inc
<1>8. \A x \in inc : \E c \in ch[f] : Slot[c] <= EpochStart(fc.epoch) /\ x \in Subtree(ch, c)
  BY <1>5, <1>6
<1>9. ASSUME NEW x \in inc
      PROVE  ch[x] \subseteq inc
  <2>1. inc = UNION {Subtree(ch, c) : c \in early}
    BY <1>5
  <2>2. PICK c \in early : x \in Subtree(ch, c)
    BY <2>1
  <2>3. ch[x] \subseteq Subtree(ch, c)
    BY <1>6, <2>2, SubtreeFacts, Zenon
  <2> QED
    BY <2>1, <2>3
<1>10. ASSUME NEW n \in Subtree(ch, f), n # f, n \notin inc, Slot[f] # EpochStart(fc.epoch)
       PROVE  \E c \in ch[f] : n \in Subtree(ch, c) /\ ~(Slot[c] <= EpochStart(fc.epoch))
  <2>1. PICK c \in ch[f] : n \in Subtree(ch, c)
    BY <1>10, SubtreeStep, Zenon
  <2>2. c \notin early
    BY <1>5, <1>10, <2>1
  <2> QED
    BY <1>7, <2>1, <2>2
<1> HIDE DEF top, f
<1>11. \A n \in Subtree(ch, f) : n # f /\ n \notin inc =>
         \/ Slot[f] = EpochStart(fc.epoch)
         \/ \E c \in ch[f] : n \in Subtree(ch, c) /\ ~(Slot[c] <= EpochStart(fc.epoch))
  BY <1>10
<1> QED
  BY <1>2, <1>3, <1>4, <1>8, <1>9, <1>11, Zenon DEF top, f, cut, inc

\* A node that competes with the finalized block does not have it on its chain.
LEMMA CompetingOffChain ==
    ASSUME NEW ch, Listing(ch), NEW fc, Final(fc), treeRootNode \in Roots,
           NEW x \in competing(fc.root, ch)
    PROVE  x \in Roots /\ treeRootNode \in BlockChain[x] /\ fc.root \notin BlockChain[x]
<1> DEFINE f == fc.root
           cut == Cut(f, ch)
           S == {y \in Roots : y = f \/ f \notin BlockChain[y]}
<1>1. f \in Roots /\ treeRootNode \in BlockChain[f] /\ treeRootNode # f
  BY DEF Final
<1>2. Listing(cut) /\ cut[f] = {}
  BY <1>1 DEF Listing, Cut
<1>3. x \in Subtree(cut, treeRootNode) /\ x # f
  BY DEF competing, Cut
<1>4. treeRootNode \in S
  <2>1. Slot[treeRootNode] < Slot[f]
    BY <1>1, ChainEarlier
  <2>2. f \in BlockChain[treeRootNode] => Slot[f] <= Slot[treeRootNode]
    BY ChainClosed
  <2>3. f \notin BlockChain[treeRootNode]
    BY <2>1, <2>2, <1>1, BlocksAssumption
  <2> QED
    BY <2>3
<1>5. ASSUME NEW y \in S, NEW c \in cut[y]
      PROVE  c \in S
  <2>1. y \in Roots /\ y # f /\ f \notin BlockChain[y] /\ y # NoNode
    BY <1>2, ConstantsAssumption
  <2>2. c \in Roots /\ ParentRoot[c] = y
    <3> HIDE DEF cut
    <3> QED BY <1>2, <2>1, ChildLater
  <2>3. BlockChain[c] = {c} \cup BlockChain[y]
    BY <2>1, <2>2, ChainParent
  <2> QED
    BY <2>1, <2>2, <2>3
<1> HIDE DEF S, cut
<1>6. Subtree(cut, treeRootNode) \subseteq S
  BY <1>2, <1>4, <1>5, SubtreeLeast, Zenon
<1>7. x \in Roots /\ treeRootNode \in BlockChain[x]
  BY <1>2, <1>3, SubtreeChain, Zenon
<1> QED
  BY <1>3, <1>6, <1>7 DEF S

\* Nothing a prune takes out goes through the finalized checkpoint.
LEMMA GoneOffCheckpoint ==
    ASSUME NEW ch, Listing(ch), NEW fc, Final(fc), treeRootNode \in Roots,
           NEW x \in Gone(fc, ch)
    PROVE  CheckpointBlock(x, fc.epoch) # fc.root
<1> DEFINE f == fc.root
           e == fc.epoch
<1>1. /\ f \in Roots /\ e \in Nat /\ Slot[f] <= EpochStart(e)
      /\ treeRootNode \in BlockChain[f] /\ treeRootNode # f
      /\ Slot[f] \in Nat /\ EpochStart(e) \in Nat
  BY ConstantsAssumption, BlocksAssumption DEF Final, Checkpoints, EpochStart
<1>2. CASE x \in competing(f, ch)
  <2>1. x \in Roots /\ treeRootNode \in BlockChain[x] /\ f \notin BlockChain[x]
    BY <1>2, CompetingOffChain, Zenon
  <2>2. Slot[treeRootNode] < Slot[f] /\ Slot[treeRootNode] \in Nat
    BY <1>1, ChainEarlier, BlocksAssumption
  <2>3. Slot[treeRootNode] <= EpochStart(e)
    BY <1>1, <2>2
  <2>4. CheckpointBlock(x, e) \in BlockChain[x]
    BY <1>1, <2>1, <2>3, CheckpointBlockLatest, Zenon
  <2> QED
    BY <2>1, <2>4
<1>3. CASE x \in incompatible(fc, ch)
  <2>1. PICK c \in ch[f] : Slot[c] <= EpochStart(e) /\ x \in Subtree(ch, c)
    BY <1>1, <1>3, GoneParts, Zenon
  <2>2. c \in Roots /\ Slot[f] < Slot[c] /\ Slot[c] \in Nat
    BY <1>1, ChildLater, BlocksAssumption
  <2>3. x \in Roots /\ c \in BlockChain[x]
    BY <2>1, <2>2, SubtreeChain, Zenon
  <2>4. Slot[c] <= Slot[CheckpointBlock(x, e)]
    BY <1>1, <2>1, <2>3, CheckpointBlockLatest, Zenon
  <2> QED
    BY <1>1, <2>2, <2>4
<1> QED
  BY <1>2, <1>3 DEF Gone

\* A block a prune keeps below the finalized block is in the checkpoint's epoch or later.
LEMMA KeptLater ==
    ASSUME NEW ch, Listing(ch), NEW fc, Final(fc), treeRootNode \in Roots,
           NEW n \in Subtree(ch, fc.root), n # fc.root, n \notin incompatible(fc, ch)
    PROVE  /\ n \in Roots
           /\ fc.root \in BlockChain[n]
           /\ Slot[fc.root] <= EpochStart(ToEpoch(Slot[n]))
<1> DEFINE f == fc.root
           e == fc.epoch
<1>1. /\ f \in Roots /\ e \in Nat /\ Slot[f] <= EpochStart(e)
      /\ Slot[f] \in Nat /\ EpochStart(e) \in Nat
  BY ConstantsAssumption, BlocksAssumption DEF Final, Checkpoints, EpochStart
<1>2. n \in Roots /\ f \in BlockChain[n]
  BY <1>1, SubtreeChain, Zenon
<1>3. Slot[f] < Slot[n] /\ Slot[n] \in Nat
  BY <1>1, <1>2, ChainEarlier, BlocksAssumption
<1>4. EpochStart(e) <= Slot[n]
  <2>1. CASE Slot[f] = EpochStart(e)
    BY <2>1, <1>1, <1>3
  <2>2. CASE Slot[f] # EpochStart(e)
    <3>1. PICK c \in ch[f] : n \in Subtree(ch, c) /\ ~(Slot[c] <= EpochStart(e))
      BY <1>1, <2>2, GoneParts, Zenon
    <3>2. c \in Roots /\ Slot[c] \in Nat
      BY <1>1, ChildLater, BlocksAssumption
    <3>3. Slot[c] <= Slot[n]
      BY <3>1, <3>2, SubtreeFacts
    <3> QED
      BY <1>1, <1>3, <3>1, <3>2, <3>3
  <2> QED
    BY <2>1, <2>2
<1>5. EpochStart(e) <= EpochStart(ToEpoch(Slot[n])) /\ EpochStart(ToEpoch(Slot[n])) \in Nat
  BY <1>1, <1>3, <1>4, EpochOrder, InEpoch
<1> QED
  BY <1>1, <1>2, <1>5

-----------------------------------------------------------------------------
(* Targets.                                                                *)

\* The block after a prune: a kept node's target is kept, and a walk still leads from the
\* one to the other.
LEMMA PruneKeepsTarget ==
    ASSUME NEW nodes \in SUBSET Roots, NEW ch, Listing(ch), NEW fc, Final(fc),
           treeRootNode \in Roots,
           NEW n \in nodes, n \notin Gone(fc, ch), NEW t \in nodes,
           n \in Subtree(ch, t),
           \A x \in BlockChain[n] : Slot[x] > Slot[t] => Slot[x] > EpochStart(ToEpoch(Slot[n])),
           n = fc.root /\ fc.root \in Subtree(ch, treeRootNode) => t = fc.root
    PROVE  /\ t \notin Gone(fc, ch)
           /\ n \in Subtree([x \in Roots |-> IF x \in Gone(fc, ch) THEN {} ELSE ch[x]], t)
<1> DEFINE f == fc.root
           G == Gone(fc, ch)
           top == Subtree(Cut(f, ch), treeRootNode)
           inc == incompatible(fc, ch)
           kept == [x \in Roots |-> IF x \in G THEN {} ELSE ch[x]]
<1>1. /\ f \in Roots /\ n \in Roots /\ t \in Roots
      /\ Slot[f] \in Nat /\ Slot[t] \in Nat /\ Slot[n] \in Nat
  BY BlocksAssumption DEF Final
<1>2. /\ treeRootNode \in top /\ top \subseteq Roots
      /\ \A x \in top : x # f => ch[x] \subseteq top
      /\ competing(f, ch) = top \ {f}
      /\ \A x \in inc : ch[x] \subseteq inc
  BY <1>1, GoneParts, Zenon
<1>3. G = (top \ {f}) \cup inc
  BY <1>2 DEF Gone
<1>4. f \in BlockChain[f] /\ t \in BlockChain[n]
  BY <1>1, ChainClosed, SubtreeChain, Zenon
\* A node below the finalized block whose target is above it is the finalized block.
<1>5. ASSUME n \in Subtree(ch, f), f # t, t \notin BlockChain[f] => f \in BlockChain[t] /\ Slot[t] <= Slot[f]
      PROVE  n = f
  <2> SUFFICES ASSUME n # f PROVE FALSE
    OBVIOUS
  <2>1. n \notin inc
    BY <1>3
  <2>2. f \in BlockChain[n] /\ Slot[f] <= EpochStart(ToEpoch(Slot[n]))
    BY <1>5, <2>1, KeptLater, Zenon
  <2>3. Slot[t] < Slot[f]
    <3>1. CASE t \in BlockChain[f]
      BY <1>1, <1>5, <3>1, ChainEarlier
    <3>2. CASE f \in BlockChain[t] /\ Slot[t] <= Slot[f]
      BY <1>1, <1>5, <3>2, ChainEarlier
    <3> QED
      BY <1>5, <3>1, <3>2
  <2>4. EpochStart(ToEpoch(Slot[n])) \in Nat
    BY <1>1, InEpoch
  <2> QED
    BY <1>1, <2>2, <2>3, <2>4
\* With the finalized block not below the tree root, a prune's walk is closed.
<1>6. ASSUME f \notin top
      PROVE  \A x \in G : ch[x] \subseteq G
  BY <1>2, <1>3, <1>6
<1>7. f \in top => f \in Subtree(ch, treeRootNode)
  <2>1. /\ treeRootNode \in Subtree(ch, treeRootNode)
        /\ \A x \in Subtree(ch, treeRootNode) : ch[x] \subseteq Subtree(ch, treeRootNode)
    BY SubtreeFacts, Zenon
  <2>2. Listing(Cut(f, ch)) /\ \A x \in Roots : Cut(f, ch)[x] \subseteq ch[x]
    BY <1>1 DEF Listing, Cut
  <2>3. \A x \in Subtree(ch, treeRootNode) \cap Roots :
           \A c \in Cut(f, ch)[x] : c \in Subtree(ch, treeRootNode)
    BY <2>1, <2>2
  <2>4. top \subseteq Subtree(ch, treeRootNode)
    BY <2>1, <2>2, <2>3, SubtreeLeast, Zenon
  <2> QED
    BY <2>4
<1> HIDE DEF top, inc, f
<1>8. /\ f \in Subtree(ch, f) /\ \A x \in Subtree(ch, f) : ch[x] \subseteq Subtree(ch, f)
      /\ f = fc.root
  BY <1>1, SubtreeFacts, Zenon DEF f
<1>9. t \notin G
  <2> SUFFICES ASSUME t \in G PROVE FALSE
    OBVIOUS
  <2>1. CASE t \in inc
    <3>1. t \in inc /\ \A x \in inc \cap Roots : \A c \in ch[x] : c \in inc
      BY <1>2, <2>1
    <3>2. Subtree(ch, t) \subseteq inc
      BY <1>1, <3>1, SubtreeLeast, Zenon
    <3> QED
      BY <1>3, <3>2
  <2>2. CASE t \in top /\ t # f
    <3>1. CASE f \notin top
      <4>1. Subtree(ch, t) \subseteq top
        <5>1. t \in top /\ \A x \in top \cap Roots : \A c \in ch[x] : c \in top
          BY <1>2, <2>2, <3>1
        <5> QED
          BY <5>1, <1>1, SubtreeLeast, Zenon
      <4> QED
        BY <4>1, <1>3, <3>1
    <3>2. CASE f \in top
      <4> DEFINE S == top \cup Subtree(ch, f)
      <4>1. t \in S /\ \A x \in S \cap Roots : \A c \in ch[x] : c \in S
        BY <1>2, <1>8, <2>2
      <4>2. Subtree(ch, t) \subseteq S
        <5> HIDE DEF S
        <5> QED BY <4>1, <1>1, SubtreeLeast, Zenon
      <4>3. n \in Subtree(ch, f)
        BY <4>2, <1>3, <1>8
      <4>4. f \notin BlockChain[t]
        <5>1. t \in competing(fc.root, ch)
          BY <1>2, <1>8, <2>2
        <5> QED
          BY <5>1, <1>8, CompetingOffChain, Zenon
      <4>5. f \in BlockChain[n]
        BY <4>3, <1>1, SubtreeChain, Zenon
      <4>6. t \in BlockChain[f]
        BY <1>1, <1>4, <4>4, <4>5, ChainTotal, Zenon
      <4>7. n = f
        BY <1>5, <2>2, <4>3, <4>6
      <4> QED
        BY <4>7, <3>2, <1>7, <1>8, <2>2
    <3> QED
      BY <3>1, <3>2
  <2> QED
    BY <1>3, <2>1, <2>2
<1>10. /\ Listing(kept)
       /\ \A x \in Roots : x \notin G => kept[x] = ch[x]
  BY DEF Listing
<1> HIDE DEF kept, G
<1>11. /\ t \in Subtree(kept, t)
       /\ \A x \in Subtree(kept, t) : kept[x] \subseteq Subtree(kept, t)
  BY <1>1, <1>10, SubtreeFacts, Zenon
<1>12. \A x \in G : \A c \in ch[x] : c = f \/ c \in G
  BY <1>2, <1>3
<1>13. n \in Subtree(kept, t)
  <2> DEFINE S == Subtree(kept, t) \cup G
  <2>1. ASSUME f \notin top \/ f \in Subtree(kept, t) \/ Slot[f] < Slot[t]
        PROVE  n \in Subtree(kept, t)
    <3>1. t \in S
      BY <1>11
    <3>2. ASSUME NEW x \in S \cap Roots, NEW c \in ch[x], Slot[c] >= Slot[t]
          PROVE  c \in S
      <4>1. CASE x \notin G
        BY <4>1, <3>2, <1>10, <1>11
      <4>2. CASE x \in G
        <5>1. CASE f \notin top
          BY <5>1, <4>2, <1>6, <3>2
        <5>2. CASE f \in Subtree(kept, t)
          BY <5>2, <4>2, <1>12, <3>2
        <5>3. CASE Slot[f] < Slot[t]
          <6>1. c # f
            BY <5>3, <3>2, <1>1
          <6> QED
            BY <6>1, <4>2, <1>12, <3>2
        <5> QED
          BY <2>1, <5>1, <5>2, <5>3
      <4> QED
        BY <4>1, <4>2
    <3> HIDE DEF S
    <3>3. Subtree(ch, t) \subseteq S
      BY <3>1, <3>2, <1>1, SubtreeLeast, Zenon
    <3>4. n \notin G
      BY DEF G
    <3> QED
      BY <3>3, <3>4 DEF S
  <2>2. ASSUME f \in top, f \notin Subtree(kept, t), ~(Slot[f] < Slot[t])
        PROVE  n \in Subtree(kept, t)
    <3> DEFINE U == Subtree(kept, t) \cup G \cup Subtree(ch, f)
    <3>1. t \in U /\ \A x \in U \cap Roots : \A c \in ch[x] : c \in U
      BY <1>8, <1>10, <1>11, <1>12
    <3>2. Subtree(ch, t) \subseteq U
      <4> HIDE DEF U
      <4> QED BY <3>1, <1>1, SubtreeLeast, Zenon
    <3> SUFFICES ASSUME n \in Subtree(ch, f) PROVE FALSE
      <4>1. n \notin G
        BY DEF G
      <4> QED BY <3>2, <4>1
    <3>3. f \in BlockChain[n]
      BY <1>1, SubtreeChain, Zenon
    <3>4. t \in BlockChain[f] \/ f \in BlockChain[t]
      BY <1>1, <1>4, <3>3, ChainTotal, Zenon
    <3>5. f # t
      BY <1>11, <2>2
    <3>6. Slot[t] <= Slot[f]
      BY <1>1, <2>2
    <3>7. n = f
      BY <1>5, <3>4, <3>5, <3>6
    <3> QED
      BY <3>5, <3>7, <2>2, <1>7, <1>8
  <2> QED
    BY <2>1, <2>2
<1> QED
  BY <1>9, <1>13 DEF kept, G

\* A listing that keeps the lists of the map's nodes keeps the walks between them.
LEMMA ListingKeepsWalks ==
    ASSUME NEW nodes \in SUBSET Roots, NEW par, NEW root, NEW ch, Listing(ch),
           Linked(nodes, par, ch, root),
           NEW ch2, Listing(ch2), \A x \in nodes : ch[x] \subseteq ch2[x],
           NEW t \in nodes, NEW n \in nodes, n \in Subtree(ch, t)
    PROVE  n \in Subtree(ch2, t)
<1> DEFINE S == {x \in Roots : IF x \in nodes THEN x \in Subtree(ch2, t) ELSE ch[x] = {}}
<1>1. /\ t \in Subtree(ch2, t)
      /\ \A x \in Subtree(ch2, t) : ch2[x] \subseteq Subtree(ch2, t)
  BY SubtreeFacts, Zenon
<1>2. t \in S
  BY <1>1
<1>3. ASSUME NEW x \in S \cap Roots, NEW c \in ch[x]
      PROVE  c \in S
  <2>1. x \in nodes /\ x \in Subtree(ch2, t) /\ c \in Roots
    BY ChildLater
  <2>2. c \in Subtree(ch2, t)
    BY <1>1, <2>1
  <2>3. c \notin nodes => ch[c] = {}
    BY <2>1 DEF Linked
  <2> QED
    BY <2>1, <2>2, <2>3
<1> HIDE DEF S
<1>4. Subtree(ch, t) \subseteq S
  BY <1>2, <1>3, SubtreeLeast, Zenon
<1> QED
  BY <1>4 DEF S

\* The target that an insertion gives the new block is in order.
LEMMA LinkTargets ==
    ASSUME IInv, TargetsOK(nodeByRoot, children, target),
           NEW r \in Roots, r \notin nodeByRoot, ParentRoot[r] \in nodeByRoot,
           NEW ch, Listing(ch), r \in ch[ParentRoot[r]],
           \A x \in nodeByRoot : children[x] \subseteq ch[x]
    PROVE  TargetsOK(nodeByRoot \cup {r}, ch,
                     [target EXCEPT ![r] = targetOf(r, ParentRoot[r])])
<1> DEFINE p == ParentRoot[r]
           nodes == nodeByRoot \cup {r}
           tgt == [target EXCEPT ![r] = targetOf(r, p)]
<1>1. /\ nodeByRoot \in SUBSET Roots /\ target \in [Roots -> Nodes] /\ Listing(children)
      /\ Linked(nodeByRoot, parent, children, treeRootNode)
  BY DEF IInv, TypeOK, TreeOK, Pointers, Listing
<1>2. p \in Roots /\ p # NoNode /\ Slot[p] < Slot[r] /\ BlockChain[r] = {r} \cup BlockChain[p]
  BY <1>1, ConstantsAssumption, ChainParent
<1>3. /\ Slot[r] \in Nat /\ Slot[p] \in Nat
      /\ \A x \in BlockChain[p] : x \in Roots /\ Slot[x] <= Slot[p] /\ Slot[x] \in Nat
  BY <1>2, ChainClosed, BlocksAssumption
<1>4. ASSUME NEW n \in nodeByRoot, target[n] # NoNode
      PROVE  /\ target[n] \in nodeByRoot
             /\ n \in Subtree(ch, target[n])
             /\ \A x \in BlockChain[n] :
                   Slot[x] > Slot[target[n]] => Slot[x] > EpochStart(ToEpoch(Slot[n]))
  <2>1. /\ target[n] \in nodeByRoot
        /\ n \in Subtree(children, target[n])
        /\ \A x \in BlockChain[n] :
              Slot[x] > Slot[target[n]] => Slot[x] > EpochStart(ToEpoch(Slot[n]))
    BY <1>4 DEF TargetsOK
  <2>2. n \in Subtree(ch, target[n])
    BY <1>1, <2>1, ListingKeepsWalks, Zenon
  <2> QED
    BY <2>1, <2>2
<1>5. ASSUME NEW n \in nodes, tgt[n] # NoNode
      PROVE  /\ tgt[n] \in nodes
             /\ n \in Subtree(ch, tgt[n])
             /\ \A x \in BlockChain[n] :
                   Slot[x] > Slot[tgt[n]] => Slot[x] > EpochStart(ToEpoch(Slot[n]))
  <2>1. CASE n # r
    <3>1. n \in nodeByRoot /\ tgt[n] = target[n]
      BY <1>1, <2>1
    <3> HIDE DEF tgt
    <3> QED
      BY <3>1, <1>4, <1>5
  <2>2. CASE n = r
    <3>1. tgt[n] = targetOf(r, p)
      BY <1>1, <2>2
    <3> HIDE DEF tgt
    <3>2. CASE IsEpochStart(Slot[r])
      <4>1. tgt[n] = r
        BY <3>1, <3>2 DEF targetOf
      <4>2. r \in Subtree(ch, r)
        BY SubtreeFacts
      <4> QED
        BY <4>1, <4>2, <2>2, <1>2, <1>3
    <3>3. CASE ~IsEpochStart(Slot[r])
      <4>1. EpochStart(ToEpoch(Slot[r])) < Slot[r]
        BY <1>3, <3>3, InEpoch
      <4>2. CASE ToEpoch(Slot[r]) = ToEpoch(Slot[p])
        <5>1. tgt[n] = target[p]
          BY <3>1, <3>3, <4>2, <1>2 DEF targetOf
        <5>2. /\ target[p] \in nodeByRoot
              /\ p \in Subtree(ch, target[p])
              /\ \A x \in BlockChain[p] :
                    Slot[x] > Slot[target[p]] => Slot[x] > EpochStart(ToEpoch(Slot[p]))
          BY <5>1, <1>4, <1>5
        <5>3. r \in Subtree(ch, target[p])
          BY <5>2, <1>1, SubtreeFacts
        <5> QED
          BY <5>1, <5>2, <5>3, <2>2, <1>2, <4>1, <4>2
      <4>3. CASE ToEpoch(Slot[r]) # ToEpoch(Slot[p])
        <5>1. tgt[n] = p
          BY <3>1, <3>3, <4>3, <1>2 DEF targetOf
        <5>2. r \in Subtree(ch, p)
          BY <1>2, SubtreeFacts
        <5> QED
          BY <5>1, <5>2, <2>2, <1>2, <1>3, <4>1
      <4> QED
        BY <4>2, <4>3
    <3> QED
      BY <3>2, <3>3
  <2> QED
    BY <2>1, <2>2
<1> HIDE DEF tgt, nodes
<1>6. TargetsOK(nodes, ch, tgt)
  BY <1>5 DEF TargetsOK
<1> QED
  BY <1>6 DEF tgt, nodes

\* The removal of a subtree keeps the targets of the other nodes.
LEMMA RemoveTargets ==
    ASSUME IInv, TargetsOK(nodeByRoot, children, target), NEW m \in nodeByRoot, removeNode(m)
    PROVE  TargetsOK(nodeByRoot', children', target')
<1> DEFINE G == Subtree(children, m)
<1>1. /\ parent[m] # NoNode
      /\ nodeByRoot' = nodeByRoot \ G
      /\ children' = [children EXCEPT ![parent[m]] = @ \ {m}]
      /\ target' = target
  BY Zenon DEF removeNode, removable, unlink
<1>2. nodeByRoot \in SUBSET Roots /\ m \in Roots /\ Listing(children) /\ target \in [Roots -> Nodes]
  BY DEF IInv, TypeOK, TreeOK, Pointers, Listing
<1>3. /\ Listing(children')
      /\ \A x \in Roots : \A c \in children[x] : c \in children'[x] \/ c = m
  BY <1>1, <1>2 DEF Listing
<1>4. m \in G /\ \A x \in G : children[x] \subseteq G
  BY <1>2, SubtreeFacts, Zenon
<1>5. ASSUME NEW n \in nodeByRoot', target'[n] # NoNode
      PROVE  /\ target'[n] \in nodeByRoot'
             /\ n \in Subtree(children', target'[n])
             /\ \A x \in BlockChain[n] :
                   Slot[x] > Slot[target'[n]] => Slot[x] > EpochStart(ToEpoch(Slot[n]))
  <2> DEFINE t == target[n]
             S == Subtree(children', t) \cup G
  <2>1. n \in nodeByRoot /\ n \notin G /\ t = target'[n]
    BY <1>1
  <2>2. /\ t \in nodeByRoot /\ n \in Subtree(children, t)
        /\ \A x \in BlockChain[n] :
              Slot[x] > Slot[t] => Slot[x] > EpochStart(ToEpoch(Slot[n]))
    BY <2>1, <1>5 DEF TargetsOK
  <2>3. t \in Roots
    BY <1>2, <2>2
  <2> HIDE DEF t, G
  <2>4. t \notin G
    <3> SUFFICES ASSUME t \in G PROVE FALSE
      OBVIOUS
    <3>1. Subtree(children, t) \subseteq G
      BY <1>2, SubtreeTransitive, Zenon DEF G
    <3> QED
      BY <3>1, <2>1, <2>2
  <2>5. /\ t \in Subtree(children', t)
        /\ \A x \in Subtree(children', t) : children'[x] \subseteq Subtree(children', t)
    BY <1>3, <2>3, SubtreeFacts, Zenon
  <2>6. t \in S /\ \A x \in S \cap Roots : \A c \in children[x] : c \in S
    BY <1>3, <1>4, <2>5
  <2>7. Subtree(children, t) \subseteq S
    <3> HIDE DEF S
    <3> QED BY <1>2, <2>3, <2>6, SubtreeLeast, Zenon
  <2>8. t \in nodeByRoot'
    BY <1>1, <2>2, <2>4 DEF G
  <2>9. n \in Subtree(children', t)
    BY <2>1, <2>2, <2>7
  <2> QED
    BY <2>1, <2>2, <2>8, <2>9
<1> QED
  BY <1>5 DEF TargetsOK

-----------------------------------------------------------------------------
(* Steps that may prune.                                                   *)

\* What such a step leaves behind of a tree with these nodes.
Advanced(nodes) ==
    /\ FinalityOK(finalizedCheckpoint', treeRootNode')
    /\ TargetsOK(nodeByRoot', children', target')
    /\ ListedKnown(nodeByRoot', dropped', children')
    /\ nodeByRoot' \subseteq nodes
    /\ dropped' = dropped \cup (nodes \ nodeByRoot')
    /\ finalizedCheckpoint'.epoch >= finalizedCheckpoint.epoch
    /\ treeRootNode' \in Roots
    /\ treeRootNode \in BlockChain[treeRootNode']
    /\ treeRootNode' # treeRootNode =>
          \A x \in nodes \ nodeByRoot' :
             CheckpointBlock(x, finalizedCheckpoint'.epoch) # finalizedCheckpoint'.root

\* A walk down from a node that was in the map stays among the nodes that were.
LEMMA WalkKnown ==
    ASSUME NEW nodes, NEW drp, NEW ch, Listing(ch), ListedKnown(nodes, drp, ch),
           NEW n \in Roots, n \in nodes \cup drp
    PROVE  Subtree(ch, n) \subseteq nodes \cup drp
<1> DEFINE S == nodes \cup drp
<1>1. n \in S /\ \A x \in S \cap Roots : \A c \in ch[x] : c \in S
  BY DEF ListedKnown
<1> HIDE DEF S
<1>2. Subtree(ch, n) \subseteq S
  BY <1>1, SubtreeLeast, Zenon
<1> QED
  BY <1>2 DEF S

\* A prune with the finalized checkpoint.
LEMMA PruneAdvances ==
    ASSUME NEW nodes, NEW par, NEW ch, NEW tgt, NEW opt, NEW fc \in Checkpoints,
           TreeOK(nodes, par, ch, tgt, treeRootNode, opt),
           treeRootNode \in nodes \cup dropped,
           ListedKnown(nodes, dropped, ch),
           TargetsOK(nodes, ch, tgt),
           FinalityOK(fc, treeRootNode),
           finalizedCheckpoint' = fc,
           fc.epoch >= finalizedCheckpoint.epoch,
           prune(fc, nodes, par, ch, tgt)
    PROVE  Advanced(nodes)
<1> DEFINE f == fc.root
           G == Gone(fc, ch)
<1>1. /\ nodes \in SUBSET Roots /\ treeRootNode \in Roots /\ tgt \in [Roots -> Nodes]
      /\ Pointers(par, ch) /\ Listing(ch)
      /\ par[treeRootNode] = NoNode
  BY DEF TreeOK, Pointers, Listing, Linked
<1>2. CASE f \notin nodes \/ par[f] = NoNode
  <2>1. /\ nodeByRoot' = nodes /\ children' = ch /\ target' = tgt
        /\ treeRootNode' = treeRootNode /\ dropped' = dropped
    BY <1>2 DEF prune
  <2>2. treeRootNode \in BlockChain[treeRootNode]
    BY <1>1, ChainClosed
  <2> QED
    BY <1>1, <2>1, <2>2 DEF Advanced
<1>3. CASE f \in nodes /\ par[f] # NoNode
  <2>1. /\ nodeByRoot' = nodes \ G
        /\ children' = [x \in Roots |-> IF x \in G THEN {} ELSE ch[x]]
        /\ target' = prunedTarget(f, ch, tgt)
        /\ treeRootNode' = f
        /\ dropped' = dropped \cup G
    BY <1>3, Zenon DEF prune, Gone
  <2>2. f \in Roots /\ f # NoNode /\ f # treeRootNode
    BY <1>1, <1>3, ConstantsAssumption
  <2>3. Final(fc)
    <3>1. treeRootNode \in BlockChain[f]
      BY <2>2 DEF FinalityOK
    <3>2. Slot[f] <= EpochStart(fc.epoch)
      <4>1. CASE fc = StartFinalized
        BY <2>2, <4>1, FinalityAssumption
      <4>2. CASE \E r \in Roots : FC[r].epoch > StartFinalized.epoch /\ fc = FC[r]
        BY <4>2, FinalityAssumption
      <4> QED
        BY <4>1, <4>2 DEF FinalityOK
    <3> QED
      BY <2>2, <3>1, <3>2 DEF Final
  <2>4. /\ f \notin G /\ G \subseteq Roots
    BY <1>1, <1>3, GoneFacts, Zenon
  <2>5. G \subseteq nodes \cup dropped
    <3> SUFFICES ASSUME NEW x \in G PROVE x \in nodes \cup dropped
      OBVIOUS
    <3>1. CASE x \in competing(f, ch)
      <4>1. Listing(Cut(f, ch)) /\ ListedKnown(nodes, dropped, Cut(f, ch))
        BY <1>1, <2>2 DEF Listing, Cut, ListedKnown
      <4>2. Subtree(Cut(f, ch), treeRootNode) \subseteq nodes \cup dropped
        BY <1>1, <4>1, WalkKnown, Zenon
      <4> QED
        BY <3>1, <4>2 DEF competing, Cut
    <3>2. CASE x \in incompatible(fc, ch)
      <4>1. PICK c \in ch[f] : x \in Subtree(ch, c)
        BY <1>1, <2>2, <3>2, GoneParts, Zenon
      <4>2. c \in Roots /\ c \in nodes \cup dropped
        BY <1>1, <2>2, ChildLater DEF ListedKnown
      <4> QED
        BY <1>1, <4>1, <4>2, WalkKnown, Zenon
    <3> QED
      BY <3>1, <3>2 DEF Gone
  <2>6. \A x \in G : CheckpointBlock(x, fc.epoch) # f
    BY <1>1, <2>3, GoneOffCheckpoint, Zenon
  <2>7. TargetsOK(nodeByRoot', children', target')
    <3>1. ASSUME NEW n \in nodeByRoot', target'[n] # NoNode
          PROVE  /\ target'[n] \in nodeByRoot'
                 /\ n \in Subtree(children', target'[n])
                 /\ \A x \in BlockChain[n] :
                       Slot[x] > Slot[target'[n]] => Slot[x] > EpochStart(ToEpoch(Slot[n]))
      <4> DEFINE t == tgt[n]
      <4>1. /\ n \in nodes /\ n \notin G /\ n \in Roots /\ t = target'[n]
            /\ n = f /\ f \in Subtree(ch, treeRootNode) => t = f
        <5>1. n \in nodes /\ n \notin G /\ n \in Roots
          BY <1>1, <2>1
        <5>2. target' = tgt
              \/ (target' = [tgt EXCEPT ![f] = NoNode]
                  /\ f \in Subtree(ch, treeRootNode) /\ tgt[f] # f)
          BY <2>1 DEF prunedTarget
        <5>3. t = target'[n]
          BY <1>1, <2>2, <3>1, <5>1, <5>2
        <5>4. f \in Subtree(ch, treeRootNode) => tgt[f] = f \/ target'[f] = NoNode
          BY <1>1, <2>1, <2>2 DEF prunedTarget
        <5> QED
          BY <3>1, <5>1, <5>3, <5>4
      <4>2. /\ t \in nodes /\ n \in Subtree(ch, t)
            /\ \A x \in BlockChain[n] :
                  Slot[x] > Slot[t] => Slot[x] > EpochStart(ToEpoch(Slot[n]))
        BY <4>1, <3>1 DEF TargetsOK
      <4> HIDE DEF t
      <4>3. t \notin G /\ n \in Subtree([x \in Roots |-> IF x \in G THEN {} ELSE ch[x]], t)
        BY <1>1, <2>3, <4>1, <4>2, PruneKeepsTarget, Zenon
      <4> HIDE DEF G
      <4> QED
        BY <2>1, <4>1, <4>2, <4>3
    <3> QED
      BY <3>1 DEF TargetsOK
  <2> HIDE DEF G
  <2>8. ListedKnown(nodeByRoot', dropped', children')
    BY <1>1, <2>1, <2>5 DEF ListedKnown, Listing
  <2>9. FinalityOK(fc, f)
    <3>1. f \in BlockChain[f]
      BY <2>2, ChainClosed
    <3> QED
      BY <2>2, <3>1 DEF FinalityOK
  <2> QED
    BY <2>1, <2>2, <2>3, <2>5, <2>6, <2>7, <2>8, <2>9 DEF Advanced, Final
<1> QED
  BY <1>2, <1>3

\* A later checkpoint of a post-state finalizes a block whose chain holds the tree root.
LEMMA LaterCheckpoint ==
    ASSUME TypeOK, FinalityOK(finalizedCheckpoint, treeRootNode),
           NEW r \in Roots, ~finalityStands(FC[r])
    PROVE  FC[r].epoch >= finalizedCheckpoint.epoch /\ FinalityOK(FC[r], treeRootNode)
<1> DEFINE fc == finalizedCheckpoint
<1>1. FC[r].epoch \in Nat /\ fc.epoch \in Nat /\ StartFinalized.epoch \in Nat
  BY BlocksAssumption, ConstantsAssumption DEF TypeOK, Checkpoints
<1>2. FC[r].epoch > fc.epoch
  BY <1>1 DEF finalityStands
<1>3. FC[r].epoch > StartFinalized.epoch
  BY <1>1, <1>2, BlocksAssumption DEF FinalityOK, Checkpoints
<1>4. FC[r].root \in Roots /\ FC[r].root # NoNode /\ StartRoot \in BlockChain[FC[r].root]
  BY <1>3, FinalityAssumption, ConstantsAssumption
<1>5. treeRootNode \in BlockChain[FC[r].root]
  <2>1. CASE fc = StartFinalized /\ fc.root = NoNode
    BY <2>1, <1>4 DEF FinalityOK
  <2>2. CASE fc = StartFinalized /\ fc.root # NoNode
    <3>1. treeRootNode \in BlockChain[StartRoot]
      BY <2>2, FinalityAssumption DEF FinalityOK
    <3> QED
      BY <3>1, <1>4, ChainTransitive
  <2>3. CASE \E z \in Roots : FC[z].epoch > StartFinalized.epoch /\ fc = FC[z]
    <3>1. PICK z \in Roots : FC[z].epoch > StartFinalized.epoch /\ fc = FC[z]
      BY <2>3
    <3>2. fc.root \in Roots /\ fc.root # NoNode /\ fc.root \in BlockChain[FC[r].root]
      BY <3>1, <1>2, FinalityAssumption, ConstantsAssumption
    <3>3. treeRootNode \in BlockChain[fc.root]
      BY <3>2 DEF FinalityOK
    <3> QED
      BY <3>2, <3>3, <1>4, ChainTransitive
  <2> QED
    BY <2>1, <2>2, <2>3 DEF FinalityOK
<1> QED
  BY <1>1, <1>2, <1>3, <1>4, <1>5 DEF FinalityOK

\* updateCheckpoints with the checkpoints of a block's post-state.
LEMMA UpdateCheckpointsAdvances ==
    ASSUME NEW nodes, NEW par, NEW ch, NEW tgt, NEW opt, NEW jc, NEW r \in Roots,
           TypeOK, FinalityOK(finalizedCheckpoint, treeRootNode),
           TreeOK(nodes, par, ch, tgt, treeRootNode, opt),
           treeRootNode \in nodes \cup dropped,
           ListedKnown(nodes, dropped, ch),
           TargetsOK(nodes, ch, tgt),
           updateCheckpoints(jc, FC[r], nodes, par, ch, tgt)
    PROVE  Advanced(nodes)
<1>1. CASE finalityStands(FC[r])
  <2>1. /\ nodeByRoot' = nodes /\ children' = ch /\ target' = tgt
        /\ treeRootNode' = treeRootNode /\ dropped' = dropped
        /\ finalizedCheckpoint' = finalizedCheckpoint
    BY <1>1 DEF updateCheckpoints
  <2>2. treeRootNode \in Roots /\ treeRootNode \in BlockChain[treeRootNode]
    BY ChainClosed DEF TypeOK
  <2>3. finalizedCheckpoint.epoch \in Nat
    BY DEF TypeOK, Checkpoints
  <2> QED
    BY <2>1, <2>2, <2>3 DEF Advanced
<1>2. CASE ~finalityStands(FC[r])
  <2>1. finalizedCheckpoint' = FC[r] /\ prune(FC[r], nodes, par, ch, tgt)
    BY <1>2 DEF updateCheckpoints
  <2>2. FC[r].epoch >= finalizedCheckpoint.epoch /\ FinalityOK(FC[r], treeRootNode)
    BY <1>2, LaterCheckpoint, Zenon
  <2>3. FC[r] \in Checkpoints
    BY BlocksAssumption
  <2> QED
    BY <2>1, <2>2, <2>3, PruneAdvances, Zenon
<1> QED
  BY <1>1, <1>2

\* A step that leaves the tree and the finalized checkpoint alone.
LEMMA UnchangedAdvances ==
    ASSUME FInv, UNCHANGED <<tree, finalizedCheckpoint>>
    PROVE  Advanced(nodeByRoot)
<1>1. treeRootNode \in Roots /\ finalizedCheckpoint.epoch \in Nat
  BY DEF FInv, IInv, TypeOK, Checkpoints
<1>2. treeRootNode \in BlockChain[treeRootNode]
  BY <1>1, ChainClosed
<1>3. /\ nodeByRoot' = nodeByRoot /\ treeRootNode' = treeRootNode /\ children' = children
      /\ target' = target /\ dropped' = dropped /\ finalizedCheckpoint' = finalizedCheckpoint
  BY DEF tree
<1> QED
  BY <1>1, <1>2, <1>3 DEF Advanced, FInv

\* A block that is in the map already: only its checkpoints are applied.
LEMMA InsertKnownAdvances ==
    ASSUME NEW r \in Roots, FInv, InsertKnown(r, JC[r], FC[r])
    PROVE  Advanced(nodeByRoot)
<1>1. updateCheckpoints(JC[r], FC[r], nodeByRoot, parent, children, target)
  BY DEF InsertKnown
<1>2. /\ TypeOK /\ TreeOK(nodeByRoot, parent, children, target, treeRootNode, optimistic)
      /\ treeRootNode \in nodeByRoot \cup dropped
  BY DEF FInv, IInv, VotesOK
<1> QED
  BY <1>1, <1>2, UpdateCheckpointsAdvances, Zenon DEF FInv

\* A block whose parent is gone enters the map and no list; no checkpoint changes.
LEMMA InsertOrphanAdvances ==
    ASSUME NEW r \in Roots, FInv, InsertOrphan(r, JC[r])
    PROVE  Advanced(nodeByRoot \cup {r})
<1>1. /\ r \notin nodeByRoot
      /\ nodeByRoot' = nodeByRoot \cup {r}
      /\ children' = [children EXCEPT ![r] = {}]
      /\ target' = [target EXCEPT ![r] = targetOf(r, NoNode)]
      /\ UNCHANGED <<treeRootNode, dropped, finalizedCheckpoint>>
  BY DEF InsertOrphan, checkpoints
<1>2. /\ nodeByRoot \in SUBSET Roots /\ target \in [Roots -> Nodes] /\ Listing(children)
      /\ Linked(nodeByRoot, parent, children, treeRootNode)
      /\ treeRootNode \in Roots /\ finalizedCheckpoint.epoch \in Nat
  BY DEF FInv, IInv, TypeOK, TreeOK, Pointers, Listing, Checkpoints
<1>3. /\ Listing(children')
      /\ \A x \in nodeByRoot : children[x] \subseteq children'[x]
  BY <1>1, <1>2 DEF Listing
<1>4. TargetsOK(nodeByRoot', children', target')
  <2>1. ASSUME NEW n \in nodeByRoot', target'[n] # NoNode
        PROVE  /\ target'[n] \in nodeByRoot'
               /\ n \in Subtree(children', target'[n])
               /\ \A x \in BlockChain[n] :
                     Slot[x] > Slot[target'[n]] => Slot[x] > EpochStart(ToEpoch(Slot[n]))
    <3>1. CASE n = r
      <4>1. target'[n] = r
        BY <1>1, <1>2, <2>1, <3>1 DEF targetOf
      <4>2. r \in Subtree(children', r)
        BY <1>3, SubtreeFacts
      <4>3. \A x \in BlockChain[r] : x \in Roots /\ Slot[x] <= Slot[r]
        BY ChainClosed
      <4> QED
        BY <1>1, <3>1, <4>1, <4>2, <4>3, BlocksAssumption
    <3>2. CASE n # r
      <4>1. n \in nodeByRoot /\ target'[n] = target[n]
        BY <1>1, <1>2, <3>2
      <4>2. /\ target[n] \in nodeByRoot
            /\ n \in Subtree(children, target[n])
            /\ \A x \in BlockChain[n] :
                  Slot[x] > Slot[target[n]] => Slot[x] > EpochStart(ToEpoch(Slot[n]))
        BY <2>1, <4>1 DEF FInv, TargetsOK
      <4>3. n \in Subtree(children', target[n])
        BY <1>2, <1>3, <4>1, <4>2, ListingKeepsWalks, Zenon
      <4> QED
        BY <1>1, <4>1, <4>2, <4>3
    <3> QED
      BY <3>1, <3>2
  <2> QED
    BY <2>1 DEF TargetsOK
<1>5. ListedKnown(nodeByRoot', dropped', children')
  BY <1>1, <1>2 DEF FInv, ListedKnown, Listing
<1>6. treeRootNode \in BlockChain[treeRootNode]
  BY <1>2, ChainClosed
<1> QED
  BY <1>1, <1>2, <1>4, <1>5, <1>6 DEF Advanced, FInv

\* A linked block: its checkpoints are applied and the store is pruned with it in the tree.
LEMMA InsertLinkedAdvances ==
    ASSUME NEW r \in Roots, FInv, unaliased(r), InsertLinked(r, JC[r], FC[r])
    PROVE  Advanced(nodeByRoot \cup {r})
<1> DEFINE p == ParentRoot[r]
           nodes == nodeByRoot \cup {r}
           par == [parent EXCEPT ![r] = p]
           ch == [children EXCEPT ![r] = {}, ![p] = children[p] \cup {r}]
           tgt == [target EXCEPT ![r] = targetOf(r, p)]
           opt == [optimistic EXCEPT ![r] = TRUE]
<1>1. /\ r \notin nodeByRoot /\ p \in nodeByRoot
      /\ updateCheckpoints(JC[r], FC[r], nodes, par, ch, tgt)
  BY Zenon DEF InsertLinked
<1>2. /\ TypeOK /\ TreeOK(nodeByRoot, parent, children, target, treeRootNode, optimistic)
      /\ treeRootNode \in nodes \cup dropped
  BY DEF FInv, IInv, VotesOK
<1>3. tgt \in [Roots -> Nodes] /\ r # treeRootNode
  BY <1>1, <1>2 DEF targetOf, Nodes, TypeOK, unaliased
<1>4. TreeOK(nodes, par, ch, tgt, treeRootNode, opt)
  <2> HIDE DEF tgt
  <2> QED BY <1>1, <1>3, LinkOK DEF FInv
<1>5. /\ Listing(ch) /\ r \in ch[p]
      /\ \A x \in nodeByRoot : children[x] \subseteq ch[x]
  <2>1. children \in [Roots -> SUBSET Roots] /\ nodeByRoot \in SUBSET Roots
    BY <1>2 DEF TypeOK
  <2>2. Listing(ch)
    <3> HIDE DEF par, ch, tgt, opt
    <3> QED BY <1>4 DEF TreeOK, Pointers, Listing
  <2> QED
    BY <1>1, <2>1, <2>2
<1>6. ListedKnown(nodes, dropped, ch)
  <2>1. children \in [Roots -> SUBSET Roots] /\ nodeByRoot \in SUBSET Roots
    BY <1>2 DEF TypeOK
  <2>2. \A n \in Roots : children[n] \subseteq nodeByRoot \cup dropped
    BY DEF FInv, ListedKnown
  <2>3. \A n \in Roots : ch[n] \subseteq children[n] \cup {r}
    BY <1>1, <2>1
  <2> HIDE DEF ch
  <2> QED
    BY <2>2, <2>3 DEF ListedKnown
<1> HIDE DEF par, ch, opt
<1>7. TargetsOK(nodes, ch, tgt)
  BY <1>1, <1>5, LinkTargets, Zenon DEF FInv
<1> HIDE DEF nodes, tgt
<1>8. Advanced(nodes)
  BY <1>1, <1>2, <1>4, <1>6, <1>7, UpdateCheckpointsAdvances, Zenon DEF FInv
<1> QED
  BY <1>8 DEF nodes

\* NewSlot prunes for the finalized checkpoint the store already has.
LEMMA NewSlotAdvances ==
    ASSUME FInv, NewSlot
    PROVE  Advanced(nodeByRoot)
<1>1. /\ prune(finalizedCheckpoint, nodeByRoot, parent, children, target)
      /\ finalizedCheckpoint' = finalizedCheckpoint
  BY DEF NewSlot, checkpoints
<1>2. /\ finalizedCheckpoint \in Checkpoints
      /\ TreeOK(nodeByRoot, parent, children, target, treeRootNode, optimistic)
      /\ treeRootNode \in nodeByRoot \cup dropped
  BY DEF FInv, IInv, TypeOK, VotesOK
<1>3. finalizedCheckpoint.epoch >= finalizedCheckpoint.epoch
  BY <1>2 DEF Checkpoints
<1> QED
  BY <1>1, <1>2, <1>3, PruneAdvances, Zenon DEF FInv

\* The subtree removed by an INVALID verdict holds no block of the finalized chain.
LEMMA SetOptimisticToInvalidAdvances ==
    ASSUME NEW r \in Roots, NEW lastValidHash, FInv, SetOptimisticToInvalid(r, lastValidHash)
    PROVE  Advanced(nodeByRoot)
<1>1. PICK m \in nodeByRoot : removeNode(m)
  BY InvalidRemovesSubtree, Zenon DEF FInv
<1> DEFINE G == Subtree(children, m)
<1>2. /\ nodeByRoot' = nodeByRoot \ G
      /\ dropped' = dropped \cup G
      /\ children' = [children EXCEPT ![parent[m]] = @ \ {m}]
      /\ treeRootNode' = treeRootNode
  BY <1>1, Zenon DEF removeNode, removable, unlink
<1>3. finalizedCheckpoint' = finalizedCheckpoint
  BY DEF SetOptimisticToInvalid, checkpoints
<1>4. /\ nodeByRoot \in SUBSET Roots /\ m \in Roots /\ Listing(children)
      /\ treeRootNode \in Roots /\ finalizedCheckpoint.epoch \in Nat
  BY DEF FInv, IInv, TypeOK, TreeOK, Pointers, Listing, Checkpoints
<1>5. TargetsOK(nodeByRoot', children', target')
  BY <1>1, RemoveTargets, Zenon DEF FInv
<1>6. G \subseteq nodeByRoot \cup dropped
  <2>1. m \in nodeByRoot \cup dropped
    OBVIOUS
  <2> QED
    BY <1>4, <2>1, WalkKnown, Zenon DEF FInv
<1> HIDE DEF G
<1>7. ListedKnown(nodeByRoot', dropped', children')
  BY <1>2, <1>4 DEF FInv, ListedKnown, Listing
<1>8. treeRootNode \in BlockChain[treeRootNode]
  BY <1>4, ChainClosed
<1> QED
  BY <1>2, <1>3, <1>4, <1>5, <1>6, <1>7, <1>8 DEF Advanced, FInv

\* Every step advances the store, with at most one new block.
LEMMA StepAdvances ==
    ASSUME FInv, [Next]_vars
    PROVE  Advanced(nodeByRoot) \/ \E r \in Roots : Advanced(nodeByRoot \cup {r})
<1>1. CASE \E r \in Roots : InsertNode(r)
  <2>1. PICK r \in Roots : InsertNode(r)
    BY <1>1
  <2>2. CASE InsertKnown(r, JC[r], FC[r])
    BY <2>2, InsertKnownAdvances, Zenon
  <2>3. CASE InsertOrphan(r, JC[r])
    BY <2>3, InsertOrphanAdvances, Zenon
  <2>4. CASE unaliased(r) /\ InsertLinked(r, JC[r], FC[r])
    BY <2>4, InsertLinkedAdvances, Zenon
  <2> QED
    BY <2>1, <2>2, <2>3, <2>4 DEF InsertNode, InsertLinked
<1>2. CASE NewSlot
  BY <1>2, NewSlotAdvances, Zenon
<1>3. CASE \E r \in Roots, lastValidHash \in LastValidHashes :
              SetOptimisticToInvalid(r, lastValidHash)
  BY <1>3, SetOptimisticToInvalidAdvances, Zenon
<1>4. ASSUME UNCHANGED <<tree, finalizedCheckpoint>> PROVE Advanced(nodeByRoot)
  BY <1>4, UnchangedAdvances, Zenon
<1>5. CASE \E r \in Roots : ReceiveBlock(r) \/ SetOptimisticToValid(r)
  BY <1>4, <1>5 DEF ReceiveBlock, SetOptimisticToValid, checkpoints
<1>6. CASE Head \/ Tick
  BY <1>4, <1>6 DEF Head, Tick, checkpoints
<1>7. CASE \E s \in 0 .. MaxSlot : \E indices \in SUBSET Committee[s] \ {{}}, r \in Roots :
              ProcessAttestation(indices, r, s)
  BY <1>4, <1>7 DEF ProcessAttestation, checkpoints
<1>8. CASE UNCHANGED vars
  BY <1>4, <1>8 DEF vars, checkpoints
<1> QED
  BY <1>1, <1>2, <1>3, <1>5, <1>6, <1>7, <1>8
  DEF Next, OnAttestation, handleBlockAttestations

-----------------------------------------------------------------------------
(* The theorems.                                                           *)

\* The initial states satisfy the invariant.
LEMMA InitFInv == Init => FInv
<1> SUFFICES ASSUME Init PROVE FInv
  OBVIOUS
<1>1. IInv
  BY InitInv
<1>2. StartRoot \in Roots /\ StartRoot # NoNode /\ StartRoot \in BlockChain[StartRoot]
  BY ConstantsAssumption, ChainClosed
<1>3. FinalityOK(finalizedCheckpoint, treeRootNode)
  BY <1>2, FinalityAssumption DEF Init, FinalityOK
<1>4. Listing(children) /\ ListedKnown(nodeByRoot, dropped, children)
  BY DEF Init, Listing, ListedKnown
<1>5. /\ StartRoot \in Subtree(children, StartRoot)
      /\ \A x \in BlockChain[StartRoot] : ~(Slot[x] > Slot[StartRoot])
  <2>1. \A x \in BlockChain[StartRoot] : x \in Roots /\ Slot[x] <= Slot[StartRoot]
    BY <1>2, ChainClosed
  <2> QED
    BY <1>2, <1>4, <2>1, SubtreeFacts, BlocksAssumption
<1>6. \A n \in nodeByRoot : n = StartRoot /\ (target[n] # NoNode => target[n] = StartRoot)
  BY <1>2 DEF Init
<1>7. TargetsOK(nodeByRoot, children, target)
  <2>1. StartRoot \in nodeByRoot
    BY DEF Init
  <2> QED
    BY <1>5, <1>6, <2>1 DEF TargetsOK
<1> QED
  BY <1>1, <1>3, <1>4, <1>7 DEF FInv

\* Every step keeps the invariant.
LEMMA StepFInv == FInv /\ [Next]_vars => FInv'
<1> SUFFICES ASSUME FInv, [Next]_vars PROVE FInv'
  OBVIOUS
<1>1. IInv'
  BY StepInv DEF FInv
<1>2. \E nodes : Advanced(nodes)
  BY StepAdvances, Zenon
<1> QED
  BY <1>1, <1>2 DEF Advanced, FInv

\* The invariant holds in every reachable state, for every tree of blocks whose finalized
\* checkpoints lie on one chain.
THEOREM FinalityInvariance == Spec => []FInv
BY InitFInv, StepFInv, PTL DEF Spec

\* No prune and no INVALID verdict leaves a node whose target is gone.
THEOREM TargetsStay == Spec => []TargetLive
<1>1. FInv => TargetLive
  BY DEF FInv, TargetsOK, TargetLive
<1> QED
  BY <1>1, FinalityInvariance, PTL

\* The finalized epoch never decreases, and the tree root never leaves its chain: it only
\* moves to a block built on it.
THEOREM FinalityNeverGoesBack == Spec => FinalityAdvances
<1>1. FInv /\ [Next]_vars =>
        [/\ finalizedCheckpoint'.epoch >= finalizedCheckpoint.epoch
         /\ treeRootNode \in BlockAncestors(treeRootNode')]_vars
  <2> SUFFICES ASSUME FInv, [Next]_vars
               PROVE  /\ finalizedCheckpoint'.epoch >= finalizedCheckpoint.epoch
                      /\ treeRootNode \in BlockAncestors(treeRootNode')
    OBVIOUS
  <2>1. \E nodes : Advanced(nodes)
    BY StepAdvances, Zenon
  <2> QED
    BY <2>1 DEF Advanced, BlockAncestors
<1> QED
  BY <1>1, FinalityInvariance, PTL DEF Spec, FinalityAdvances

\* A prune that moves the tree root takes no block that goes through the finalized
\* checkpoint, wherever the block hangs in the tree.
THEOREM FinalizedChainStays == Spec => FinalizedChainKept
<1>1. FInv /\ [Next]_vars =>
        [treeRootNode' # treeRootNode =>
           \A r \in nodeByRoot :
              CheckpointBlock(r, finalizedCheckpoint'.epoch) = finalizedCheckpoint'.root
                 => r \in nodeByRoot']_vars
  <2> SUFFICES ASSUME FInv, [Next]_vars, treeRootNode' # treeRootNode, NEW r \in nodeByRoot,
                      CheckpointBlock(r, finalizedCheckpoint'.epoch) = finalizedCheckpoint'.root
               PROVE  r \in nodeByRoot'
    OBVIOUS
  <2>1. PICK nodes : nodeByRoot \subseteq nodes /\ Advanced(nodes)
    <3>1. CASE Advanced(nodeByRoot)
      BY <3>1
    <3>2. CASE \E z \in Roots : Advanced(nodeByRoot \cup {z})
      <4>1. PICK z \in Roots : Advanced(nodeByRoot \cup {z})
        BY <3>2
      <4>2. nodeByRoot \subseteq nodeByRoot \cup {z}
        OBVIOUS
      <4> QED
        BY <4>1, <4>2, Zenon
    <3> QED
      BY <3>1, <3>2, StepAdvances, Zenon
  <2> QED
    BY <2>1 DEF Advanced
<1> QED
  BY <1>1, FinalityInvariance, PTL DEF Spec, FinalizedChainKept

-----------------------------------------------------------------------------
(* The store implements AvailableAttestation.                              *)

\* The stabled blocks, as the abstract specification sees them.
Stabled == {r \in Roots : stabled[r]}

\* A step that advances the store keeps blocks as Keep says.
LEMMA AdvancedKeeps ==
    ASSUME NEW nodes, Advanced(nodes)
    PROVE  Abstract!Keep(nodes)
BY DEF Advanced, Abstract!Keep

\* A block that becomes stable is built on a block that is available.
LEMMA StableOnAvailable ==
    ASSUME IInv, NEW p \in nodeByRoot, StableOn(p)
    PROVE  Abstract!Available(p)
<1>1. p \in Roots /\ validatorIndices[p] \in SUBSET Validators
  BY DEF IInv, TypeOK
<1>2. CASE p \in DOMAIN cacheAttCount /\ p \notin dropped
  <2>1. cacheAttCount[p] <= Cardinality(validatorIndices[p])
    BY <1>2 DEF IInv, VotesOK
  <2>2. cacheAttCount[p] >= ValidatorPerSlot \div 2
    BY <1>2 DEF StableOn
  <2>3. cacheAttCount[p] \in Nat
    BY <1>2 DEF IInv, TypeOK
  <2>4. Cardinality(validatorIndices[p]) \in Nat
    <3>1. IsFiniteSet(validatorIndices[p])
      BY <1>1, ConstantsAssumption, FS_Subset
    <3> QED
      BY <3>1, FS_CardinalityType
  <2>5. ValidatorPerSlot \div 2 \in Nat
    BY ConstantsAssumption
  <2>6. Cardinality(validatorIndices[p]) >= ValidatorPerSlot \div 2
    BY <2>1, <2>2, <2>3, <2>4, <2>5
  <2> QED
    <3>1. Abstract!Cardinality(validatorIndices[p]) = Cardinality(validatorIndices[p])
      BY DEF Cardinality, Abstract!Cardinality
    <3> QED
      BY <2>6, <3>1 DEF Abstract!Available
<1>3. CASE p \in dropped
  BY <1>3 DEF Abstract!Available
<1>4. CASE p \notin DOMAIN cacheAttCount
  BY <1>1, <1>4 DEF StableOn, Abstract!Available
<1> QED
  BY <1>2, <1>3, <1>4

\* A step that only takes blocks out.
LEMMA DropRefines ==
    ASSUME Advanced(nodeByRoot), UNCHANGED <<stabled, validatorIndices, headNode>>
    PROVE  Abstract!Drop
<1>1. Abstract!Keep(nodeByRoot)
  BY AdvancedKeeps
<1>2. Stabled' = Stabled
  BY DEF Stabled
<1> QED
  BY <1>1, <1>2 DEF Abstract!Drop, Stabled

\* An insertion without parent is an import of a block that is not stable.
LEMMA InsertOrphanRefines ==
    ASSUME NEW r \in Roots, FInv, InsertOrphan(r, JC[r])
    PROVE  Abstract!Import(r)
<1>1. /\ r \notin nodeByRoot
      /\ stabled' = [stabled EXCEPT ![r] = FALSE]
      /\ validatorIndices' = [validatorIndices EXCEPT ![r] = {}]
      /\ headNode' = headNode
  BY DEF InsertOrphan, newNode
<1>2. Abstract!Keep(nodeByRoot \cup {r})
  BY InsertOrphanAdvances, AdvancedKeeps, Zenon
<1>3. Stabled' = Stabled \ {r}
  BY <1>1 DEF Stabled, FInv, IInv, TypeOK
<1> QED
  BY <1>1, <1>2, <1>3 DEF Abstract!Import, Stabled

\* A linked insertion is an import: the block is stable only on a quorum.
LEMMA InsertLinkedRefines ==
    ASSUME NEW r \in Roots, FInv, unaliased(r), InsertLinked(r, JC[r], FC[r])
    PROVE  Abstract!Import(r)
<1> DEFINE p == ParentRoot[r]
           nodes == nodeByRoot \cup {r}
           par == [parent EXCEPT ![r] = p]
           ch == [children EXCEPT ![r] = {}, ![p] = children[p] \cup {r}]
           je == [justifiedEpoch EXCEPT ![r] = JC[r].epoch]
           stab == [stabled EXCEPT ![r] = StableOn(p)]
<1>1. /\ r \notin nodeByRoot /\ p \in nodeByRoot
      /\ stabled' = stab
      /\ validatorIndices' = [validatorIndices EXCEPT ![r] = {}]
      /\ headNode' \in BestDescendants(nodes, par, ch, je, stab, justifiedCheckpoint.epoch)
  BY Zenon DEF InsertLinked, newNode
<1>2. Abstract!Keep(nodes)
  BY InsertLinkedAdvances, AdvancedKeeps, Zenon
<1>3. headNode' = NoNode \/ (headNode' \in nodes /\ stab[headNode'])
  <2> HIDE DEF nodes, par, ch, je, stab
  <2> QED BY <1>1, BestDescendantsStable, Zenon
<1>4. nodeByRoot \in SUBSET Roots /\ stabled \in [Roots -> BOOLEAN]
  BY DEF FInv, IInv, TypeOK
<1>5. headNode' = NoNode \/ headNode' \in Stabled' \cap nodes
  BY <1>1, <1>3, <1>4 DEF Stabled
<1>6. CASE ~StableOn(p)
  <2>1. Stabled' = Stabled \ {r}
    BY <1>1, <1>4, <1>6 DEF Stabled
  <2> QED
    BY <1>1, <1>2, <1>5, <2>1 DEF Abstract!Import, Stabled
<1>7. CASE StableOn(p)
  <2>1. Stabled' = Stabled \cup {r}
    BY <1>1, <1>4, <1>7 DEF Stabled
  <2>2. Abstract!Available(p)
    BY <1>1, <1>7, StableOnAvailable, Zenon DEF FInv
  <2> QED
    BY <1>1, <1>2, <1>5, <2>1, <2>2 DEF Abstract!Import, Stabled
<1> QED
  BY <1>6, <1>7

\* Processing an attestation is a vote of its indices.
LEMMA ProcessAttestationRefines ==
    ASSUME NEW indices \in SUBSET Validators, NEW r \in Roots, NEW s,
           ProcessAttestation(indices, r, s)
    PROVE  Abstract!Vote(r, indices)
<1>1. /\ r \in nodeByRoot
      /\ validatorIndices' = [validatorIndices EXCEPT ![r] = @ \cup indices]
      /\ UNCHANGED <<nodeByRoot, treeRootNode, stabled, dropped, headNode>>
  BY DEF ProcessAttestation, tree
<1> QED
  BY <1>1 DEF Abstract!Vote

\* Head picks the tree root or a stable block.
LEMMA HeadRefines ==
    ASSUME FInv, Head
    PROVE  Abstract!PickHead
<1>1. PICK h \in BestDescendants(nodeByRoot, parent, children, justifiedEpoch, stabled,
                                 justifiedCheckpoint.epoch) :
         headNode' = IF h = NoNode /\ justifiedCheckpoint.epoch = 0 THEN treeRootNode ELSE h
  BY Zenon DEF Head
<1>2. UNCHANGED <<nodeByRoot, treeRootNode, stabled, validatorIndices, dropped>>
  BY DEF Head, tree
<1>3. h = NoNode \/ (h \in nodeByRoot /\ stabled[h])
  BY <1>1, BestDescendantsStable, Zenon
<1>4. h = NoNode \/ h \in Stabled \cap nodeByRoot
  BY <1>3 DEF Stabled, FInv, IInv, TypeOK
<1>5. headNode' = NoNode \/ headNode' = treeRootNode \/ headNode' \in Stabled \cap nodeByRoot
  BY <1>1, <1>4
<1> QED
  BY <1>2, <1>5 DEF Abstract!PickHead, Stabled

\* Every step of the store is a step of the abstract tree or changes nothing of it.
LEMMA StepRefines == FInv /\ [Next]_vars => [Abstract!Next]_Abstract!vars
<1> SUFFICES ASSUME FInv, [Next]_vars PROVE [Abstract!Next]_Abstract!vars
  OBVIOUS
<1>1. ASSUME NEW r \in Roots, InsertNode(r) PROVE Abstract!Next
  <2>1. CASE InsertKnown(r, JC[r], FC[r])
    <3>1. Advanced(nodeByRoot)
      BY <2>1, InsertKnownAdvances, Zenon
    <3>2. UNCHANGED <<stabled, validatorIndices, headNode>>
      BY <2>1 DEF InsertKnown
    <3> QED
      BY <3>1, <3>2, DropRefines DEF Abstract!Next
  <2>2. CASE InsertOrphan(r, JC[r])
    BY <2>2, InsertOrphanRefines DEF Abstract!Next
  <2>3. CASE unaliased(r) /\ InsertLinked(r, JC[r], FC[r])
    BY <2>3, InsertLinkedRefines DEF Abstract!Next
  <2> QED
    BY <1>1, <2>1, <2>2, <2>3 DEF InsertNode, InsertLinked
<1>2. ASSUME NEW s \in 0 .. MaxSlot, NEW indices \in SUBSET Committee[s] \ {{}},
             NEW r \in Roots, ProcessAttestation(indices, r, s)
      PROVE  Abstract!Next
  <2>1. indices \in SUBSET Validators
    BY ConstantsAssumption
  <2>2. Abstract!Vote(r, indices)
    BY <1>2, <2>1, ProcessAttestationRefines
  <2> QED
    BY <2>1, <2>2, Zenon DEF Abstract!Next
<1>3. CASE Head
  BY <1>3, HeadRefines DEF Abstract!Next
<1>4. CASE NewSlot
  <2>1. UNCHANGED <<stabled, validatorIndices, headNode>>
    BY <1>4 DEF NewSlot
  <2> QED
    BY <1>4, <2>1, NewSlotAdvances, DropRefines DEF Abstract!Next
<1>5. ASSUME NEW r \in Roots, NEW lastValidHash, SetOptimisticToInvalid(r, lastValidHash)
      PROVE  Abstract!Next
  <2>1. UNCHANGED <<stabled, validatorIndices, headNode>>
    BY <1>5 DEF SetOptimisticToInvalid
  <2>2. Advanced(nodeByRoot)
    BY <1>5, SetOptimisticToInvalidAdvances, Zenon
  <2> QED
    BY <2>1, <2>2, DropRefines DEF Abstract!Next
<1>6. ASSUME UNCHANGED <<nodeByRoot, treeRootNode, stabled, validatorIndices, dropped, headNode>>
      PROVE  UNCHANGED Abstract!vars
  BY <1>6 DEF Abstract!vars
<1>7. CASE \E r \in Roots : ReceiveBlock(r) \/ SetOptimisticToValid(r)
  BY <1>6, <1>7 DEF ReceiveBlock, SetOptimisticToValid, tree
<1>8. CASE Tick
  BY <1>6, <1>8 DEF Tick, tree
<1>9. CASE UNCHANGED vars
  BY <1>6, <1>9 DEF vars, tree
<1> QED
  BY <1>1, <1>2, <1>3, <1>4, <1>5, <1>7, <1>8, <1>9
  DEF Next, OnAttestation, handleBlockAttestations

\* The store keeps the promise of AvailableAttestation, for every tree of blocks, every
\* committee and every threshold: a block is accepted as stable only on top of a block that a
\* quorum of different validators voted for, and the head that is picked is stable.
THEOREM Implementation == Spec => ImplementsAvailableAttestation
<1>1. ASSUME Init PROVE Abstract!Init
  <2>1. stabled = [x \in Roots |-> x = StartRoot] /\ StartRoot \in Roots
    BY <1>1, ConstantsAssumption DEF Init
  <2>2. \A x \in Roots : stabled[x] <=> x = StartRoot
    BY <2>1
  <2>3. Stabled = {StartRoot}
    BY <2>1, <2>2, Zenon DEF Stabled
  <2> QED
    BY <1>1, <2>3, Zenon DEF Init, Abstract!Init, Stabled
<1> QED
  BY <1>1, StepRefines, FinalityInvariance, PTL
  DEF Spec, ImplementsAvailableAttestation, Abstract!Spec
=============================================================================
