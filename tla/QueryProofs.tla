---------------------------- MODULE QueryProofs ----------------------------
(***************************************************************************)
(* Proofs about ForkChoiceQueries: for every tree of blocks, the walks of  *)
(* the read-only methods answer what the block chains say, whatever was    *)
(* inserted, pruned and invalidated before.                                *)
(***************************************************************************)
EXTENDS ForkChoiceQueries, FinalityProofs, FiniteSetTheorems

-----------------------------------------------------------------------------
(* Walks up.                                                               *)

\* A walk up holds its start and follows the parent pointers.
LEMMA AncestorsFacts ==
    ASSUME NEW par, NEW ch, Pointers(par, ch), NEW n \in Roots
    PROVE  /\ n \in Ancestors(par, n)
           /\ Ancestors(par, n) \subseteq Roots
           /\ \A x \in Ancestors(par, n) : Slot[x] <= Slot[n]
           /\ \A x \in Ancestors(par, n) : par[x] # NoNode => par[x] \in Ancestors(par, n)
<1>1. n \in NotAfter(n)
  BY BlocksAssumption DEF NotAfter
<1>2. ASSUME NEW x \in NotAfter(n)
      PROVE  Up(par)[x] \subseteq NotAfter(n)
  <2>1. x \in Roots /\ Slot[x] <= Slot[n] /\ Slot[x] \in Nat /\ Slot[n] \in Nat
    BY BlocksAssumption DEF NotAfter
  <2>2. CASE par[x] = NoNode
    BY <2>1, <2>2 DEF Up
  <2>3. CASE par[x] # NoNode
    <3>1. par[x] \in Roots /\ Slot[par[x]] < Slot[x] /\ Slot[par[x]] \in Nat
      BY <2>1, <2>3, BlocksAssumption DEF Pointers
    <3>2. par[x] \in NotAfter(n)
      BY <2>1, <3>1 DEF NotAfter
    <3> QED
      BY <2>1, <2>3, <3>2 DEF Up
  <2> QED
    BY <2>2, <2>3
<1> DEFINE C == Closure(NotAfter(n), Up(par), n)
<1>3. /\ n \in C /\ C \subseteq NotAfter(n)
      /\ \A x \in C : Up(par)[x] \subseteq C
  BY <1>1, <1>2, ClosureClosed, Zenon
<1>4. Ancestors(par, n) = C
  BY DEF Ancestors
<1> HIDE DEF C
<1>5. ASSUME NEW x \in C, par[x] # NoNode PROVE par[x] \in C
  <2>1. x \in Roots
    BY <1>3 DEF NotAfter
  <2>2. par[x] \in Up(par)[x]
    BY <2>1, <1>5 DEF Up
  <2> QED
    BY <2>2, <1>3
<1> QED
  BY <1>3, <1>4, <1>5 DEF NotAfter

\* It holds nothing else.
LEMMA AncestorsLeast ==
    ASSUME NEW par, NEW ch, Pointers(par, ch), NEW n \in Roots, NEW S, n \in S,
           \A x \in S \cap Roots : par[x] # NoNode => par[x] \in S
    PROVE  Ancestors(par, n) \subseteq S
<1> DEFINE T == S \cap Ancestors(par, n)
<1>1. /\ n \in Ancestors(par, n) /\ Ancestors(par, n) \subseteq Roots
      /\ \A x \in Ancestors(par, n) : Slot[x] <= Slot[n]
      /\ \A x \in Ancestors(par, n) : par[x] # NoNode => par[x] \in Ancestors(par, n)
  BY AncestorsFacts, Zenon
<1>2. T \in SUBSET NotAfter(n) /\ n \in T
  BY <1>1 DEF NotAfter
<1>3. ASSUME NEW x \in T PROVE Up(par)[x] \subseteq T
  <2>1. x \in Roots /\ (par[x] # NoNode => par[x] \in T)
    BY <1>1
  <2> HIDE DEF T
  <2> QED
    BY <2>1 DEF Up
<1> HIDE DEF T
<1>4. Closure(NotAfter(n), Up(par), n) \subseteq T
  BY <1>2, <1>3, ClosureLeast, Zenon
<1> QED
  BY <1>4 DEF Ancestors, T

\* A node is below every node of its walk up.
LEMMA AncestorsBelow ==
    ASSUME IInv, NEW n \in nodeByRoot, NEW x \in Ancestors(parent, n)
    PROVE  n \in Subtree(children, x)
<1> DEFINE S == {y \in nodeByRoot : n \in Subtree(children, y)}
<1>1. /\ Pointers(parent, children) /\ Listing(children) /\ nodeByRoot \in SUBSET Roots
      /\ Linked(nodeByRoot, parent, children, treeRootNode)
  BY DEF IInv, TreeOK, Pointers, Listing
<1>2. n \in S
  BY <1>1, SubtreeFacts
<1>3. ASSUME NEW y \in S \cap Roots, parent[y] # NoNode PROVE parent[y] \in S
  <2>1. y \in nodeByRoot /\ n \in Subtree(children, y)
    OBVIOUS
  <2>2. parent[y] \in nodeByRoot /\ y \in children[parent[y]] /\ parent[y] \in Roots
    BY <1>1, <1>3, <2>1 DEF Linked
  <2>3. y \in Subtree(children, parent[y])
    BY <1>1, <2>2, SubtreeFacts
  <2>4. Subtree(children, y) \subseteq Subtree(children, parent[y])
    BY <1>1, <2>2, <2>3, SubtreeTransitive, Zenon
  <2> QED
    BY <2>1, <2>2, <2>4
<1>4. n \in Roots
  BY <1>1
<1> HIDE DEF S
<1>5. Ancestors(parent, n) \subseteq S
  BY <1>1, <1>2, <1>3, <1>4, AncestorsLeast, Zenon
<1> QED
  BY <1>5 DEF S

-----------------------------------------------------------------------------
(* Connected nodes.                                                        *)

\* What IInv says of the present tree.
LEMMA PresentTree ==
    ASSUME IInv
    PROVE  /\ Pointers(parent, children) /\ Listing(children) /\ nodeByRoot \in SUBSET Roots
           /\ Linked(nodeByRoot, parent, children, treeRootNode) /\ treeRootNode \in Roots
BY DEF IInv, TreeOK, Pointers, Listing

\* The parent pointer of a connected node leads to a connected node, up to the tree root.
LEMMA ConnectedUp ==
    ASSUME IInv, NEW n \in Connected
    PROVE  /\ n \in nodeByRoot /\ n \in Roots /\ treeRootNode \in nodeByRoot
           /\ n \in Subtree(children, treeRootNode)
           /\ n # treeRootNode => parent[n] = ParentRoot[n] /\ parent[n] \in Connected
<1>1. /\ Pointers(parent, children) /\ Listing(children) /\ nodeByRoot \in SUBSET Roots
      /\ Linked(nodeByRoot, parent, children, treeRootNode) /\ treeRootNode \in Roots
  BY PresentTree
<1>2. /\ treeRootNode \in nodeByRoot /\ Connected = Subtree(children, treeRootNode) \cap nodeByRoot
      /\ n \in nodeByRoot /\ n \in Subtree(children, treeRootNode)
  BY DEF Connected
<1> DEFINE root == treeRootNode
           sub == Subtree(children, root)
           S == {x \in sub : IF x \in nodeByRoot
                             THEN x = root \/ (parent[x] = ParentRoot[x] /\ parent[x] \in Connected)
                             ELSE children[x] = {}}
<1>3. /\ root \in sub /\ sub \subseteq Roots
      /\ \A x \in sub : children[x] \subseteq sub
  BY <1>1, SubtreeFacts, Zenon
<1>4. root \in S
  BY <1>2, <1>3
<1>5. ASSUME NEW x \in S \cap Roots, NEW c \in children[x] PROVE c \in S
  <2>1. x \in nodeByRoot /\ x \in sub /\ x \in Connected
    BY <1>2, <1>5
  <2>2. c \in sub /\ ParentRoot[c] = x
    BY <1>1, <1>3, <2>1 DEF Pointers
  <2>3. IF c \in nodeByRoot THEN parent[c] = x \/ c = root ELSE children[c] = {}
    BY <1>1, <2>1 DEF Linked
  <2> QED
    BY <2>1, <2>2, <2>3
<1> HIDE DEF S
<1>6. sub \subseteq S
  BY <1>1, <1>4, <1>5, SubtreeLeast, Zenon
<1>7. n \in S
  BY <1>2, <1>6
<1> QED
  BY <1>1, <1>2, <1>7 DEF S

\* The chain of a connected node is its walk up, followed by what is before the tree root.
LEMMA ConnectedChain ==
    ASSUME IInv, NEW n \in Connected
    PROVE  /\ Ancestors(parent, n) = BlockChain[n] \cap Connected
           /\ \A x \in BlockChain[n] : Slot[x] >= Slot[treeRootNode] => x \in Ancestors(parent, n)
           /\ treeRootNode \in Ancestors(parent, n)
           /\ \A x \in Ancestors(parent, n) : Slot[x] >= Slot[treeRootNode]
<1> DEFINE root == treeRootNode
           A == Ancestors(parent, n)
<1>1. /\ Pointers(parent, children) /\ Listing(children) /\ nodeByRoot \in SUBSET Roots
      /\ Linked(nodeByRoot, parent, children, treeRootNode) /\ treeRootNode \in Roots
  BY PresentTree
<1>2. \A x \in Connected :
         /\ x \in nodeByRoot /\ x \in Roots /\ root \in nodeByRoot
         /\ x \in Subtree(children, root)
         /\ x # root => parent[x] = ParentRoot[x] /\ parent[x] \in Connected
  BY ConnectedUp, Zenon
<1>3. /\ n \in A /\ A \subseteq Roots
      /\ \A x \in A : parent[x] # NoNode => parent[x] \in A
  BY <1>1, <1>2, AncestorsFacts, Zenon
<1>4. parent[root] = NoNode
  BY <1>1 DEF Linked
<1>5. \A x \in Connected : Slot[root] <= Slot[x] /\ root \in BlockChain[x]
  BY <1>1, <1>2, SubtreeFacts, SubtreeChain, Zenon
<1>6. A \subseteq BlockChain[n] \cap Connected
  <2> DEFINE T == BlockChain[n] \cap Connected
  <2>1. n \in T
    BY <1>2, ChainClosed
  <2>2. ASSUME NEW x \in T \cap Roots, parent[x] # NoNode PROVE parent[x] \in T
    <3>1. x # root
      BY <1>4, <2>2
    <3>2. parent[x] = ParentRoot[x] /\ parent[x] \in Connected /\ x \in BlockChain[n]
      BY <1>2, <2>2, <3>1
    <3>3. ParentRoot[x] \in BlockChain[n]
      BY <1>2, <2>2, <3>2, ChainClosed
    <3> QED
      BY <3>2, <3>3
  <2> HIDE DEF T
  <2>3. A \subseteq T
    BY <1>1, <1>2, <2>1, <2>2, AncestorsLeast, Zenon
  <2> QED
    BY <2>3 DEF T
<1>7. ASSUME NEW x \in BlockChain[n], Slot[x] >= Slot[root] PROVE x \in A
  <2> DEFINE B == {y \in BlockChain[root] : y # root}
             S == A \cup B
  <2>1. n \in S
    BY <1>3
  <2>2. ASSUME NEW y \in S \cap Roots, ParentRoot[y] # NoNode PROVE ParentRoot[y] \in S
    <3>1. CASE y \in A /\ y # root
      <4>1. parent[y] = ParentRoot[y]
        BY <1>2, <1>6, <3>1
      <4> QED
        BY <1>3, <2>2, <3>1, <4>1
    <3>2. CASE y \in BlockChain[root]
      <4>1. ParentRoot[y] \in BlockChain[root]
        BY <1>1, <2>2, <3>2, ChainClosed
      <4>2. Slot[y] <= Slot[root] /\ Slot[ParentRoot[y]] < Slot[y]
        BY <1>1, <2>2, <3>2, ChainClosed, ChainParent
      <4>3. ParentRoot[y] # root
        BY <1>1, <2>2, <4>2, BlocksAssumption
      <4> QED
        BY <4>1, <4>3
    <3>3. root \in BlockChain[root]
      BY <1>1, ChainClosed
    <3> QED
      BY <2>2, <3>1, <3>2, <3>3
  <2> HIDE DEF S
  <2>3. BlockChain[n] \subseteq S
    BY <1>2, <2>1, <2>2, ChainLeast, Zenon
  <2>4. x \notin B
    <3> SUFFICES ASSUME x \in BlockChain[root], x # root PROVE FALSE
      OBVIOUS
    <3>1. x \in Roots /\ Slot[x] < Slot[root]
      BY <1>1, ChainEarlier
    <3> QED
      BY <1>1, <1>7, <3>1, BlocksAssumption
  <2> QED
    BY <2>3, <2>4 DEF S
<1>8. root \in A
  BY <1>1, <1>5, <1>7, BlocksAssumption
<1> QED
  BY <1>5, <1>6, <1>7, <1>8

-----------------------------------------------------------------------------
(* AncestorRoot and IsCanonical.                                           *)

\* No two blocks of a chain have the same slot.
LEMMA ChainSlots ==
    ASSUME NEW r \in Roots, NEW x \in BlockChain[r], NEW y \in BlockChain[r], Slot[x] = Slot[y]
    PROVE  x = y
<1>1. x \in Roots /\ y \in Roots /\ Slot[x] \in Nat /\ Slot[y] \in Nat
  BY ChainClosed, BlocksAssumption
<1>2. x \in BlockChain[y] \/ y \in BlockChain[x]
  BY ChainTotal, Zenon
<1>3. x # y => Slot[x] < Slot[y] \/ Slot[y] < Slot[x]
  BY <1>1, <1>2, ChainEarlier
<1> QED
  BY <1>1, <1>3

\* The latest block of a part of a chain is the one that no other is later than.
LEMMA LatestIs ==
    ASSUME NEW r \in Roots, NEW C \in SUBSET BlockChain[r], NEW x \in C,
           \A z \in C : Slot[z] <= Slot[x]
    PROVE  Latest(C) = x
<1> DEFINE y == CHOOSE w \in C : \A z \in C : Slot[z] <= Slot[w]
<1>1. y \in C /\ \A z \in C : Slot[z] <= Slot[y]
  BY Zenon
<1>2. Latest(C) = y
  BY DEF Latest
<1> HIDE DEF y
<1>3. Slot[x] = Slot[y]
  <2>1. x \in Roots /\ y \in Roots
    BY <1>1, ChainClosed
  <2> QED
    BY <1>1, <2>1, BlocksAssumption
<1>4. x = y
  BY <1>1, <1>3, ChainSlots
<1> QED
  BY <1>2, <1>4

\* AncestorRoot answers for every connected block and slot what the block's chain says.
LEMMA AncestorRootCorrect == IInv => AncestorRootExact
<1> SUFFICES ASSUME IInv, NEW r \in Connected, NEW s \in Slot[treeRootNode] .. MaxSlot
             PROVE  AncestorRoot(r, s) = Latest({x \in BlockAncestors(r) : Slot[x] <= s})
  BY Zenon DEF AncestorRootExact
<1> DEFINE met == {x \in Ancestors(parent, r) : Slot[x] <= s}
           C == {x \in BlockChain[r] : Slot[x] <= s}
<1>1. treeRootNode \in Roots /\ r \in Roots /\ r \in nodeByRoot
  BY PresentTree, ConnectedUp
<1>2. Slot[treeRootNode] \in Nat /\ MaxSlot \in Nat /\ s \in Nat /\ Slot[treeRootNode] <= s
  BY <1>1, BlocksAssumption, ConstantsAssumption
<1>3. /\ Ancestors(parent, r) \subseteq BlockChain[r]
      /\ \A x \in BlockChain[r] : Slot[x] >= Slot[treeRootNode] => x \in Ancestors(parent, r)
      /\ treeRootNode \in Ancestors(parent, r)
      /\ BlockChain[r] \subseteq Roots
  BY <1>1, ConnectedChain, ChainClosed
<1>4. met \subseteq C /\ C \in SUBSET Roots /\ treeRootNode \in met /\ C # {}
  BY <1>2, <1>3
<1>5. PICK x \in C : \A z \in C : Slot[z] <= Slot[x]
  <2>1. \A z \in C : Slot[z] <= s
    OBVIOUS
  <2> HIDE DEF C
  <2> QED
    BY <1>2, <1>4, <2>1, LatestBlock, Zenon
<1>6. Slot[treeRootNode] <= Slot[x] /\ Slot[x] \in Nat /\ x \in BlockChain[r] /\ Slot[x] <= s
  BY <1>4, <1>5, BlocksAssumption
<1>7. x \in met
  BY <1>2, <1>3, <1>6
<1>8. C \in SUBSET BlockChain[r] /\ met \in SUBSET BlockChain[r]
  BY <1>3
<1>9. AncestorRoot(r, s) = Latest(met)
  BY <1>1, <1>4, Zenon DEF AncestorRoot
<1>10. C = {z \in BlockAncestors(r) : Slot[z] <= s}
  BY Zenon DEF BlockAncestors
<1>11. \A z \in met : Slot[z] <= Slot[x]
  BY <1>4, <1>5
<1> HIDE DEF met, C
<1>12. Latest(met) = x
  BY <1>1, <1>7, <1>8, <1>11, LatestIs, Zenon
<1>13. Latest(C) = x
  BY <1>1, <1>5, <1>8, LatestIs, Zenon
<1> QED
  BY <1>9, <1>10, <1>12, <1>13

\* The canonical blocks are the connected ones of the head's chain.
LEMMA CanonicalCorrect == IInv => CanonicalIsHeadChain
<1> SUFFICES ASSUME IInv, headNode \in Connected
             PROVE  {r \in nodeByRoot : IsCanonical(r)} = BlockAncestors(headNode) \cap Connected
  BY Zenon DEF CanonicalIsHeadChain
<1>1. Ancestors(parent, headNode) = BlockChain[headNode] \cap Connected
  BY ConnectedChain
<1>2. headNode \in Roots /\ headNode # NoNode /\ \A x \in Connected : x \in nodeByRoot
  BY ConnectedUp, ConstantsAssumption
<1>3. \A r \in nodeByRoot : IsCanonical(r) <=> r \in Ancestors(parent, headNode)
  BY <1>2 DEF IsCanonical
<1> QED
  BY <1>1, <1>2, <1>3, Zenon DEF BlockAncestors

\* AncestorRoot answers right in every reachable state: pruning, invalidation and re-import
\* never leave a gap in a walk from a connected block up to the tree root.
THEOREM AncestorRootRight == Spec => []AncestorRootExact
BY Invariance, AncestorRootCorrect, PTL

\* IsCanonical answers right in every reachable state: while the cached head is connected,
\* the canonical blocks are those of its chain.
THEOREM CanonicalRight == Spec => []CanonicalIsHeadChain
BY Invariance, CanonicalCorrect, PTL

-----------------------------------------------------------------------------
(* The invariant of the other queries.                                     *)

\* A node that lists a deleted child is the tree root, and the child is not later than the
\* finalized epoch's first slot (prune leaves it there), or is older than the tree root (it
\* is out of every walk).
StaleOK(nodes, ch, root, epoch) ==
    \A n \in nodes : \A k \in ch[n] \ nodes :
        (n = root /\ Slot[k] <= EpochStart(epoch)) \/ Slot[n] < Slot[root]

\* A target is the block at the first slot of the node's epoch or before; a block of that slot
\* is its own target; and only a chain that starts within the epoch has none.
TargetsExact(nodes, par, tgt) ==
    \A n \in nodes :
        /\ IsEpochStart(Slot[n]) => tgt[n] = n
        /\ tgt[n] # NoNode => Slot[tgt[n]] <= EpochStart(ToEpoch(Slot[n]))
        /\ tgt[n] = NoNode /\ par[n] # NoNode =>
              tgt[par[n]] = NoNode /\ ToEpoch(Slot[par[n]]) = ToEpoch(Slot[n])

QInv ==
    /\ FInv
    /\ StaleOK(nodeByRoot, children, treeRootNode, finalizedCheckpoint.epoch)
    /\ TargetsExact(nodeByRoot, parent, target)

\* A walk down meets the parent of every node it meets, and finds the node in its list.
LEMMA SubtreeUp ==
    ASSUME NEW ch, Listing(ch), NEW t \in Roots, NEW y \in Subtree(ch, t), y # t
    PROVE  /\ ParentRoot[y] \in Subtree(ch, t) /\ ParentRoot[y] \in Roots
           /\ y \in ch[ParentRoot[y]]
<1> DEFINE sub == Subtree(ch, t)
           S == {x \in sub : x = t \/ (ParentRoot[x] \in sub /\ x \in ch[ParentRoot[x]])}
<1>1. t \in sub /\ sub \subseteq Roots /\ \A x \in sub : ch[x] \subseteq sub
  BY SubtreeFacts, Zenon
<1> HIDE DEF sub
<1>2. t \in S
  BY <1>1
<1>3. ASSUME NEW x \in S \cap Roots, NEW c \in ch[x] PROVE c \in S
  <2>1. x \in sub /\ ParentRoot[c] = x
    BY DEF Listing
  <2> QED
    BY <1>1, <2>1
<1> HIDE DEF S
<1>4. sub \subseteq S
  BY <1>2, <1>3, SubtreeLeast, Zenon DEF sub
<1>5. y \in S
  BY <1>4 DEF sub
<1> QED
  BY <1>1, <1>5 DEF S, sub

\* A node that is kept by a prune and lists a removed one is the finalized node itself, and the
\* removed one is not later than the epoch's first slot, or it is older than the tree root.
LEMMA PrunedListed ==
    ASSUME NEW ch, Listing(ch), NEW fc, Final(fc), treeRootNode \in Roots,
           NEW n \in Roots, n \notin Gone(fc, ch), NEW k \in ch[n], k \in Gone(fc, ch)
    PROVE  (n = fc.root /\ Slot[k] <= EpochStart(fc.epoch)) \/ Slot[n] < Slot[fc.root]
<1> DEFINE f == fc.root
<1>1. k \in Roots /\ ParentRoot[k] = n /\ Slot[n] < Slot[k] /\ f \in Roots
  BY ChildLater DEF Final
<1>2. CASE k \in competing(f, ch)
  <2> DEFINE top == Subtree(Cut(f, ch), treeRootNode)
  <2>1. k \in top /\ k # f /\ competing(f, ch) = top \ {f}
    BY <1>1, <1>2, GoneParts
  <2>2. Listing(Cut(f, ch))
    BY <1>1 DEF Listing, Cut
  <2>3. CASE k = treeRootNode
    <3>1. Slot[k] <= Slot[f]
      BY <1>1, <2>3, ChainClosed DEF Final
    <3>2. Slot[n] \in Nat /\ Slot[k] \in Nat /\ Slot[f] \in Nat
      BY <1>1, BlocksAssumption
    <3> QED
      BY <1>1, <3>1, <3>2
  <2>4. CASE k # treeRootNode
    <3>1. n \in top /\ k \in Cut(f, ch)[n]
      BY <1>1, <2>1, <2>2, <2>4, SubtreeUp
    <3>2. ch \in [Roots -> SUBSET Roots]
      BY DEF Listing
    <3>3. n # f
      BY <1>1, <3>1, <3>2 DEF Cut
    <3>4. n \in competing(f, ch)
      BY <2>1, <3>1, <3>3
    <3> QED
      BY <3>4 DEF Gone
  <2> QED
    BY <2>3, <2>4
<1>3. CASE k \in incompatible(fc, ch)
  <2>1. Slot[f] # EpochStart(fc.epoch)
    BY <1>3 DEF incompatible
  <2>2. PICK c \in ch[f] : Slot[c] <= EpochStart(fc.epoch) /\ k \in Subtree(ch, c)
    BY <1>1, <1>3, GoneParts, Zenon
  <2>3. c \in Roots /\ ParentRoot[c] = f
    BY <1>1, ChildLater
  <2>4. CASE k = c
    BY <1>1, <2>2, <2>3, <2>4
  <2>5. CASE k # c
    <3>1. n \in Subtree(ch, c)
      BY <1>1, <2>2, <2>3, <2>5, SubtreeUp
    <3>2. n \in incompatible(fc, ch)
      BY <2>1, <2>2, <3>1, Zenon DEF incompatible
    <3> QED
      BY <3>2 DEF Gone
  <2> QED
    BY <2>4, <2>5
<1> QED
  BY <1>2, <1>3 DEF Gone

\* The finalized block a prune cuts the tree at is built on the tree root.
LEMMA PruneFinal ==
    ASSUME NEW fc \in Checkpoints, FinalityOK(fc, treeRootNode), fc.root \in Roots,
           fc.root # treeRootNode
    PROVE  Final(fc)
<1>1. fc.root # NoNode
  BY ConstantsAssumption
<1>2. treeRootNode \in BlockChain[fc.root]
  BY <1>1 DEF FinalityOK
<1>3. CASE fc = StartFinalized
  BY <1>1, <1>2, <1>3, FinalityAssumption DEF Final
<1>4. CASE \E r \in Roots : FC[r].epoch > StartFinalized.epoch /\ fc = FC[r]
  BY <1>2, <1>4, FinalityAssumption DEF Final
<1> QED
  BY <1>3, <1>4 DEF FinalityOK

Exact(nodes, par, ch, tgt, root, epoch) ==
    StaleOK(nodes, ch, root, epoch) /\ TargetsExact(nodes, par, tgt)

\* A later finalized epoch excuses no less.
LEMMA StaleLater ==
    ASSUME NEW nodes \in SUBSET Roots, NEW ch, Listing(ch), NEW root, NEW e \in Nat, NEW e2 \in Nat,
           e <= e2, StaleOK(nodes, ch, root, e)
    PROVE  StaleOK(nodes, ch, root, e2)
<1>1. EpochStart(e) <= EpochStart(e2) /\ EpochStart(e) \in Nat /\ EpochStart(e2) \in Nat
  BY ConstantsAssumption, SMTT(30) DEF EpochStart
<1>2. ASSUME NEW n \in nodes, NEW k \in ch[n] \ nodes
      PROVE  (n = root /\ Slot[k] <= EpochStart(e2)) \/ Slot[n] < Slot[root]
  <2>1. k \in Roots /\ Slot[k] \in Nat
    BY ChildLater, BlocksAssumption
  <2> QED
    BY <1>1, <1>2, <2>1 DEF StaleOK
<1> QED
  BY <1>2 DEF StaleOK

\* Pruning keeps the invariant.
LEMMA PruneExact ==
    ASSUME NEW nodes, NEW par, NEW ch, NEW tgt, NEW opt, NEW fc \in Checkpoints, NEW e \in Nat,
           TreeOK(nodes, par, ch, tgt, treeRootNode, opt),
           FinalityOK(fc, treeRootNode), e <= fc.epoch,
           Exact(nodes, par, ch, tgt, treeRootNode, e),
           prune(fc, nodes, par, ch, tgt)
    PROVE  Exact(nodeByRoot', parent', children', target', treeRootNode', fc.epoch)
<1> DEFINE f == fc.root
           G == Gone(fc, ch)
<1>1. /\ nodes \in SUBSET Roots /\ treeRootNode \in Roots /\ tgt \in [Roots -> Nodes]
      /\ Pointers(par, ch) /\ Listing(ch)
      /\ par[treeRootNode] = NoNode
  BY DEF TreeOK, Pointers, Listing, Linked
<1>2. CASE f \notin nodes \/ par[f] = NoNode
  <2>1. /\ nodeByRoot' = nodes /\ parent' = par /\ children' = ch /\ target' = tgt
        /\ treeRootNode' = treeRootNode
    BY <1>2 DEF prune
  <2>2. fc.epoch \in Nat
    BY DEF Checkpoints
  <2>3. StaleOK(nodes, ch, treeRootNode, fc.epoch)
    BY <1>1, <2>2, StaleLater, Zenon DEF Exact
  <2> QED
    BY <2>1, <2>3 DEF Exact
<1>3. CASE f \in nodes /\ par[f] # NoNode
  <2>1. /\ nodeByRoot' = nodes \ G
        /\ parent' = [par EXCEPT ![f] = NoNode]
        /\ children' = [x \in Roots |-> IF x \in G THEN {} ELSE ch[x]]
        /\ target' = prunedTarget(f, ch, tgt)
        /\ treeRootNode' = f
    BY <1>3, Zenon DEF prune, Gone
  <2>2. f \in Roots /\ f # treeRootNode /\ f # NoNode
    BY <1>1, <1>3, ConstantsAssumption
  <2>3. Final(fc)
    BY <2>2, PruneFinal, Zenon
  <2>4. treeRootNode \in G
    BY <1>1, <1>3, GoneFacts, Zenon
  <2>5. Slot[treeRootNode] <= Slot[f] /\ Slot[treeRootNode] \in Nat /\ Slot[f] \in Nat
    BY <1>1, <2>2, <2>3, ChainClosed, BlocksAssumption DEF Final
  <2>6. StaleOK(nodeByRoot', children', f, fc.epoch)
    <3>1. ASSUME NEW n \in nodeByRoot', NEW k \in children'[n] \ nodeByRoot'
          PROVE  (n = f /\ Slot[k] <= EpochStart(fc.epoch)) \/ Slot[n] < Slot[f]
      <4>1. n \in nodes /\ n \notin G /\ n \in Roots
        BY <1>1, <2>1
      <4>2. k \in ch[n] /\ (k \notin nodes \/ k \in G)
        <5> HIDE DEF G
        <5> QED BY <2>1, <3>1, <4>1
      <4>3. CASE k \in G
        BY <1>1, <2>3, <4>1, <4>2, <4>3, PrunedListed, Zenon
      <4>4. CASE k \notin nodes
        <5>1. n = treeRootNode \/ Slot[n] < Slot[treeRootNode]
          BY <4>1, <4>2, <4>4 DEF Exact, StaleOK
        <5>2. Slot[n] \in Nat
          BY <4>1, BlocksAssumption
        <5> QED
          BY <2>4, <2>5, <4>1, <5>1, <5>2
      <4> QED
        BY <4>2, <4>3, <4>4
    <3> QED
      BY <3>1 DEF StaleOK
  <2>7. TargetsExact(nodeByRoot', parent', target')
    <3>1. \/ target' = tgt
          \/ target' = [tgt EXCEPT ![f] = NoNode] /\ tgt[f] # f
      BY <2>1 DEF prunedTarget
    <3>2. nodeByRoot' \subseteq nodes
      BY <2>1
    <3> HIDE DEF G
    <3>3. ASSUME NEW n \in nodeByRoot'
          PROVE  /\ IsEpochStart(Slot[n]) => target'[n] = n
                 /\ target'[n] # NoNode => Slot[target'[n]] <= EpochStart(ToEpoch(Slot[n]))
                 /\ target'[n] = NoNode /\ parent'[n] # NoNode =>
                       target'[parent'[n]] = NoNode /\ ToEpoch(Slot[parent'[n]]) = ToEpoch(Slot[n])
      <4>1. n \in nodes /\ n \in Roots
        BY <1>1, <3>2
      <4>2. /\ IsEpochStart(Slot[n]) => tgt[n] = n
            /\ tgt[n] # NoNode => Slot[tgt[n]] <= EpochStart(ToEpoch(Slot[n]))
            /\ tgt[n] = NoNode /\ par[n] # NoNode =>
                  tgt[par[n]] = NoNode /\ ToEpoch(Slot[par[n]]) = ToEpoch(Slot[n])
        BY <4>1 DEF Exact, TargetsExact
      <4>3. /\ n # f => parent'[n] = par[n] /\ target'[n] = tgt[n]
            /\ n = f => parent'[n] = NoNode /\ target'[n] \in {NoNode, tgt[n]}
            /\ tgt[n] = n => target'[n] = n
        BY <1>1, <2>1, <2>2, <3>1, <4>1 DEF Pointers
      <4>4. par[n] # NoNode => par[n] \in Roots /\ target'[par[n]] \in {NoNode, tgt[par[n]]}
        BY <1>1, <2>2, <3>1, <4>1 DEF Pointers, Nodes
      <4> QED
        BY <4>2, <4>3, <4>4
    <3> QED
      BY <3>3 DEF TargetsExact
  <2> QED
    BY <2>1, <2>6, <2>7 DEF Exact
<1> QED
  BY <1>2, <1>3

\* Applying the checkpoints of a post-state keeps it.
LEMMA UpdateCheckpointsExact ==
    ASSUME NEW nodes, NEW par, NEW ch, NEW tgt, NEW opt, NEW jc, NEW r \in Roots,
           TypeOK, FinalityOK(finalizedCheckpoint, treeRootNode),
           TreeOK(nodes, par, ch, tgt, treeRootNode, opt),
           Exact(nodes, par, ch, tgt, treeRootNode, finalizedCheckpoint.epoch),
           updateCheckpoints(jc, FC[r], nodes, par, ch, tgt)
    PROVE  Exact(nodeByRoot', parent', children', target', treeRootNode', finalizedCheckpoint'.epoch)
<1>1. CASE finalityStands(FC[r])
  <2>1. /\ nodeByRoot' = nodes /\ parent' = par /\ children' = ch /\ target' = tgt
        /\ treeRootNode' = treeRootNode /\ finalizedCheckpoint' = finalizedCheckpoint
    BY <1>1 DEF updateCheckpoints
  <2> QED
    BY <2>1
<1>2. CASE ~finalityStands(FC[r])
  <2>1. finalizedCheckpoint' = FC[r] /\ prune(FC[r], nodes, par, ch, tgt)
    BY <1>2 DEF updateCheckpoints
  <2>2. FC[r].epoch >= finalizedCheckpoint.epoch /\ FinalityOK(FC[r], treeRootNode)
    BY <1>2, LaterCheckpoint, Zenon
  <2>3. FC[r] \in Checkpoints /\ finalizedCheckpoint.epoch \in Nat /\ FC[r].epoch \in Nat
    BY BlocksAssumption DEF TypeOK, Checkpoints
  <2>4. finalizedCheckpoint.epoch <= FC[r].epoch
    BY <2>2, <2>3
  <2>5. Exact(nodeByRoot', parent', children', target', treeRootNode', FC[r].epoch)
    BY <2>1, <2>2, <2>3, <2>4, PruneExact, Zenon
  <2> QED
    BY <2>1, <2>5
<1> QED
  BY <1>1, <1>2

\* Two slots of different epochs have the later epoch's first slot between them.
LEMMA EarlierEpoch ==
    ASSUME NEW a \in Nat, NEW b \in Nat, a < b
    PROVE  /\ ToEpoch(a) \in Nat /\ ToEpoch(b) \in Nat /\ ToEpoch(a) <= ToEpoch(b)
           /\ ToEpoch(a) # ToEpoch(b) => a < EpochStart(ToEpoch(b))
<1> DEFINE k == SlotsPerEpoch
           p == a \div k
           q == b \div k
<1>1. k \in Nat \ {0}
  BY ConstantsAssumption
<1>2. /\ p \in Nat /\ q \in Nat
      /\ a < p * k + k /\ p * k <= a /\ q * k <= b /\ b < q * k + k
  BY <1>1
<1> HIDE DEF p, q, k
<1>3. p * k \in Nat /\ q * k \in Nat /\ (p + 1) * k = p * k + k /\ (q + 1) * k = q * k + k
  BY <1>1, <1>2
<1>4. p <= q
  <2> SUFFICES ASSUME p >= q + 1 PROVE FALSE
    BY <1>2
  <2>1. p * k >= (q + 1) * k
    BY <1>1, <1>2
  <2> QED
    BY <1>1, <1>2, <1>3, <2>1
<1>5. ASSUME p # q PROVE a < q * k
  <2>1. q >= p + 1
    BY <1>2, <1>4, <1>5
  <2>2. q * k >= (p + 1) * k
    BY <1>1, <1>2, <2>1
  <2> QED
    BY <1>1, <1>2, <1>3, <2>2
<1> QED
  BY <1>2, <1>4, <1>5 DEF ToEpoch, EpochStart, p, q, k

\* The target of a new block is exact.
LEMMA LinkExact ==
    ASSUME QInv, NEW r \in Roots, r \notin nodeByRoot, ParentRoot[r] \in nodeByRoot
    PROVE  TargetsExact(nodeByRoot \cup {r}, [parent EXCEPT ![r] = ParentRoot[r]],
                        [target EXCEPT ![r] = targetOf(r, ParentRoot[r])])
<1> DEFINE p == ParentRoot[r]
           par == [parent EXCEPT ![r] = p]
           tgt == [target EXCEPT ![r] = targetOf(r, p)]
<1>1. /\ nodeByRoot \in SUBSET Roots /\ target \in [Roots -> Nodes] /\ parent \in [Roots -> Nodes]
      /\ Linked(nodeByRoot, parent, children, treeRootNode)
      /\ TargetsExact(nodeByRoot, parent, target)
  BY DEF QInv, FInv, IInv, TypeOK, TreeOK
<1>2. p \in Roots /\ p # NoNode /\ p # r /\ r # NoNode /\ Slot[p] < Slot[r] /\ Slot[p] \in Nat
      /\ Slot[r] \in Nat
  BY <1>1, ConstantsAssumption, BlocksAssumption
<1>3. /\ par[r] = p /\ tgt[r] = targetOf(r, p) /\ tgt[p] = target[p]
      /\ \A n \in nodeByRoot : par[n] = parent[n] /\ tgt[n] = target[n]
      /\ \A n \in nodeByRoot : parent[n] # NoNode => tgt[parent[n]] = target[parent[n]]
  BY <1>1, <1>2 DEF Linked
<1> HIDE DEF par, tgt
<1>4. ASSUME NEW n \in nodeByRoot
      PROVE  /\ IsEpochStart(Slot[n]) => tgt[n] = n
             /\ tgt[n] # NoNode => Slot[tgt[n]] <= EpochStart(ToEpoch(Slot[n]))
             /\ tgt[n] = NoNode /\ par[n] # NoNode =>
                   tgt[par[n]] = NoNode /\ ToEpoch(Slot[par[n]]) = ToEpoch(Slot[n])
  BY <1>1, <1>3 DEF TargetsExact
<1>5. /\ IsEpochStart(Slot[r]) => tgt[r] = r
      /\ tgt[r] # NoNode => Slot[tgt[r]] <= EpochStart(ToEpoch(Slot[r]))
      /\ tgt[r] = NoNode /\ par[r] # NoNode =>
            tgt[par[r]] = NoNode /\ ToEpoch(Slot[par[r]]) = ToEpoch(Slot[r])
  <2>1. CASE IsEpochStart(Slot[r])
    <3>1. tgt[r] = r
      BY <1>3, <2>1 DEF targetOf
    <3>2. Slot[r] <= EpochStart(ToEpoch(Slot[r]))
      BY <1>2, <2>1, ConstantsAssumption DEF IsEpochStart, EpochStart, ToEpoch
    <3> QED
      BY <1>2, <3>1, <3>2
  <2>2. CASE ~IsEpochStart(Slot[r]) /\ ToEpoch(Slot[r]) = ToEpoch(Slot[p])
    <3>1. tgt[r] = target[p]
      BY <1>2, <1>3, <2>2 DEF targetOf
    <3>2. target[p] # NoNode => Slot[target[p]] <= EpochStart(ToEpoch(Slot[p]))
      BY <1>1 DEF TargetsExact
    <3> QED
      BY <1>2, <1>3, <2>2, <3>1, <3>2
  <2>3. CASE ~IsEpochStart(Slot[r]) /\ ToEpoch(Slot[r]) # ToEpoch(Slot[p])
    <3>1. tgt[r] = p
      BY <1>2, <1>3, <2>3 DEF targetOf
    <3>2. Slot[p] < EpochStart(ToEpoch(Slot[r]))
      BY <1>2, <2>3, EarlierEpoch
    <3>3. EpochStart(ToEpoch(Slot[r])) \in Nat
      BY <1>2, InEpoch
    <3> QED
      BY <1>2, <2>3, <3>1, <3>2, <3>3
  <2> QED
    BY <2>1, <2>2, <2>3
<1>6. TargetsExact(nodeByRoot \cup {r}, par, tgt)
  BY <1>4, <1>5 DEF TargetsExact
<1> QED
  BY <1>6 DEF par, tgt

\* A known block: only its checkpoints are applied.
LEMMA InsertKnownExact ==
    ASSUME NEW r \in Roots, QInv, InsertKnown(r, JC[r], FC[r])
    PROVE  Exact(nodeByRoot', parent', children', target', treeRootNode', finalizedCheckpoint'.epoch)
<1>1. updateCheckpoints(JC[r], FC[r], nodeByRoot, parent, children, target)
  BY DEF InsertKnown
<1>2. /\ TypeOK /\ TreeOK(nodeByRoot, parent, children, target, treeRootNode, optimistic)
      /\ FinalityOK(finalizedCheckpoint, treeRootNode)
      /\ Exact(nodeByRoot, parent, children, target, treeRootNode, finalizedCheckpoint.epoch)
  BY DEF QInv, FInv, IInv, Exact
<1> QED
  BY <1>1, <1>2, UpdateCheckpointsExact, Zenon

\* A block without parent in the map.
LEMMA InsertOrphanExact ==
    ASSUME NEW r \in Roots, QInv, InsertOrphan(r, JC[r])
    PROVE  Exact(nodeByRoot', parent', children', target', treeRootNode', finalizedCheckpoint'.epoch)
<1>1. /\ r \notin nodeByRoot
      /\ nodeByRoot' = nodeByRoot \cup {r}
      /\ parent' = [parent EXCEPT ![r] = NoNode]
      /\ children' = [children EXCEPT ![r] = {}]
      /\ target' = [target EXCEPT ![r] = targetOf(r, NoNode)]
      /\ treeRootNode' = treeRootNode /\ finalizedCheckpoint' = finalizedCheckpoint
  BY DEF InsertOrphan, orphanParent, checkpoints
<1>2. /\ nodeByRoot \in SUBSET Roots /\ target \in [Roots -> Nodes] /\ parent \in [Roots -> Nodes]
      /\ children \in [Roots -> SUBSET Roots]
      /\ Linked(nodeByRoot, parent, children, treeRootNode)
      /\ StaleOK(nodeByRoot, children, treeRootNode, finalizedCheckpoint.epoch)
      /\ TargetsExact(nodeByRoot, parent, target)
  BY DEF QInv, FInv, IInv, TypeOK, TreeOK
<1>3. r # NoNode /\ Slot[r] \in Nat
  BY ConstantsAssumption, BlocksAssumption
<1>4. StaleOK(nodeByRoot', children', treeRootNode, finalizedCheckpoint.epoch)
  BY <1>1, <1>2 DEF StaleOK
<1>5. /\ parent'[r] = NoNode /\ target'[r] = targetOf(r, NoNode)
      /\ \A n \in nodeByRoot : parent'[n] = parent[n] /\ target'[n] = target[n]
      /\ \A n \in nodeByRoot : parent[n] # NoNode => target'[parent[n]] = target[parent[n]]
  BY <1>1, <1>2 DEF Linked
<1>6. ASSUME NEW n \in nodeByRoot
      PROVE  /\ IsEpochStart(Slot[n]) => target'[n] = n
             /\ target'[n] # NoNode => Slot[target'[n]] <= EpochStart(ToEpoch(Slot[n]))
             /\ target'[n] = NoNode /\ parent'[n] # NoNode =>
                   target'[parent'[n]] = NoNode /\ ToEpoch(Slot[parent'[n]]) = ToEpoch(Slot[n])
  BY <1>2, <1>5 DEF TargetsExact
<1>7. /\ IsEpochStart(Slot[r]) => target'[r] = r
      /\ target'[r] # NoNode => Slot[target'[r]] <= EpochStart(ToEpoch(Slot[r]))
  <2>1. IsEpochStart(Slot[r]) => Slot[r] <= EpochStart(ToEpoch(Slot[r]))
    BY <1>3, ConstantsAssumption DEF IsEpochStart, EpochStart, ToEpoch
  <2> QED
    BY <1>5, <2>1 DEF targetOf
<1>8. TargetsExact(nodeByRoot', parent', target')
  BY <1>1, <1>5, <1>6, <1>7 DEF TargetsExact
<1> QED
  BY <1>1, <1>4, <1>8 DEF Exact

\* A linked block, with the prune its checkpoints bring.
LEMMA InsertLinkedExact ==
    ASSUME NEW r \in Roots, QInv, unaliased(r), InsertLinked(r, JC[r], FC[r])
    PROVE  Exact(nodeByRoot', parent', children', target', treeRootNode', finalizedCheckpoint'.epoch)
<1> DEFINE p == ParentRoot[r]
           nodes == nodeByRoot \cup {r}
           par == [parent EXCEPT ![r] = p]
           ch == [children EXCEPT ![r] = {}, ![p] = children[p] \cup {r}]
           tgt == [target EXCEPT ![r] = targetOf(r, p)]
           opt == [optimistic EXCEPT ![r] = TRUE]
<1>1. /\ r \notin nodeByRoot /\ p \in nodeByRoot
      /\ updateCheckpoints(JC[r], FC[r], nodes, par, ch, tgt)
  BY Zenon DEF InsertLinked
<1>2. /\ TypeOK /\ IInv /\ FinalityOK(finalizedCheckpoint, treeRootNode)
      /\ nodeByRoot \in SUBSET Roots /\ children \in [Roots -> SUBSET Roots]
      /\ StaleOK(nodeByRoot, children, treeRootNode, finalizedCheckpoint.epoch)
  BY DEF QInv, FInv, IInv, TypeOK
<1>3. tgt \in [Roots -> Nodes] /\ r # treeRootNode
  BY <1>1, <1>2 DEF targetOf, Nodes, TypeOK, unaliased
<1>4. TreeOK(nodes, par, ch, tgt, treeRootNode, opt)
  <2> HIDE DEF tgt
  <2> QED BY <1>1, <1>2, <1>3, LinkOK
<1>5. StaleOK(nodes, ch, treeRootNode, finalizedCheckpoint.epoch)
  <2>1. \A n \in nodes : \A k \in ch[n] \ nodes : n \in nodeByRoot /\ k \in children[n] \ nodeByRoot
    BY <1>1, <1>2
  <2> HIDE DEF ch, nodes
  <2> QED
    BY <1>2, <2>1 DEF StaleOK
<1>6. TargetsExact(nodes, par, tgt)
  BY <1>1, LinkExact, Zenon
<1> HIDE DEF nodes, par, ch, tgt, opt
<1>7. Exact(nodes, par, ch, tgt, treeRootNode, finalizedCheckpoint.epoch)
  BY <1>5, <1>6 DEF Exact
<1> QED
  BY <1>1, <1>2, <1>4, <1>7, UpdateCheckpointsExact, Zenon

\* An INVALID verdict takes the removed block out of its parent's list.
LEMMA SetOptimisticToInvalidExact ==
    ASSUME NEW r \in Roots, NEW lastValidHash, QInv, SetOptimisticToInvalid(r, lastValidHash)
    PROVE  Exact(nodeByRoot', parent', children', target', treeRootNode', finalizedCheckpoint'.epoch)
<1>1. IInv /\ FInv
  BY DEF QInv, FInv
<1>2. PICK m \in nodeByRoot : removeNode(m)
  BY <1>1, InvalidRemovesSubtree, Zenon
<1> DEFINE G == Subtree(children, m)
<1>3. /\ parent[m] # NoNode
      /\ nodeByRoot' = nodeByRoot \ G
      /\ children' = [children EXCEPT ![parent[m]] = @ \ {m}]
      /\ treeRootNode' = treeRootNode /\ parent' = parent /\ target' = target
  BY <1>2, Zenon DEF removeNode, removable, unlink
<1>4. finalizedCheckpoint' = finalizedCheckpoint
  BY DEF SetOptimisticToInvalid, checkpoints
<1>5. /\ nodeByRoot \in SUBSET Roots /\ m \in Roots /\ Pointers(parent, children)
      /\ children \in [Roots -> SUBSET Roots] /\ parent \in [Roots -> Nodes]
      /\ StaleOK(nodeByRoot, children, treeRootNode, finalizedCheckpoint.epoch)
      /\ TargetsExact(nodeByRoot, parent, target)
  BY <1>1, <1>2 DEF QInv, IInv, TypeOK, TreeOK
<1>6. ASSUME NEW n \in nodeByRoot', NEW k \in children'[n] \ nodeByRoot'
      PROVE  (n = treeRootNode /\ Slot[k] <= EpochStart(finalizedCheckpoint.epoch))
             \/ Slot[n] < Slot[treeRootNode]
  <2>1. n \in nodeByRoot /\ n \notin G /\ n \in Roots
    BY <1>3, <1>5
  <2>2. k \in children[n] /\ (n = parent[m] => k # m)
    <3> HIDE DEF G
    <3> QED BY <1>3, <1>5, <2>1
  <2>3. k \notin G
    <3> SUFFICES ASSUME k \in G PROVE FALSE
      OBVIOUS
    <3>1. k = m
      BY <1>1, <2>1, <2>2, RemovedListed
    <3>2. ParentRoot[m] = n /\ parent[m] = ParentRoot[m]
      BY <1>3, <1>5, <2>1, <2>2, <3>1 DEF Pointers
    <3> QED
      BY <2>2, <3>1, <3>2
  <2>4. k \notin nodeByRoot
    BY <1>3, <1>6, <2>3
  <2> QED
    BY <1>5, <2>1, <2>2, <2>4 DEF StaleOK
<1>7. StaleOK(nodeByRoot', children', treeRootNode, finalizedCheckpoint.epoch)
  BY <1>6 DEF StaleOK
<1>8. TargetsExact(nodeByRoot', parent', target')
  <2>1. nodeByRoot' \subseteq nodeByRoot
    BY <1>3
  <2> QED
    BY <1>3, <1>5, <2>1 DEF TargetsExact
<1> QED
  BY <1>3, <1>4, <1>7, <1>8 DEF Exact

\* The initial states satisfy the invariant.
LEMMA InitQInv == Init => QInv
<1> SUFFICES ASSUME Init PROVE QInv
  OBVIOUS
<1>1. FInv
  BY InitFInv
<1>2. StartRoot \in Roots /\ StartRoot # NoNode /\ Slot[StartRoot] \in Nat
  BY ConstantsAssumption, BlocksAssumption
<1>3. StaleOK(nodeByRoot, children, treeRootNode, finalizedCheckpoint.epoch)
  BY <1>2 DEF Init, StaleOK
<1>4. IsEpochStart(Slot[StartRoot]) => Slot[StartRoot] <= EpochStart(ToEpoch(Slot[StartRoot]))
  BY <1>2, ConstantsAssumption DEF IsEpochStart, EpochStart, ToEpoch
<1>5. /\ nodeByRoot = {StartRoot} /\ parent[StartRoot] = NoNode
      /\ target[StartRoot] = IF IsEpochStart(Slot[StartRoot]) THEN StartRoot ELSE NoNode
  BY <1>2 DEF Init
<1>6. TargetsExact(nodeByRoot, parent, target)
  BY <1>4, <1>5 DEF TargetsExact
<1> QED
  BY <1>1, <1>3, <1>6 DEF QInv

\* Every step keeps the invariant.
LEMMA StepQInv == QInv /\ [Next]_vars => QInv'
<1> SUFFICES ASSUME QInv, [Next]_vars PROVE QInv'
  OBVIOUS
<1> DEFINE E == Exact(nodeByRoot, parent, children, target, treeRootNode, finalizedCheckpoint.epoch)
<1>1. FInv /\ FInv'
  BY StepFInv DEF QInv
<1>2. CASE \E r \in Roots : InsertNode(r)
  <2>1. PICK r \in Roots : InsertNode(r)
    BY <1>2
  <2>2. ASSUME InsertKnown(r, JC[r], FC[r]) PROVE E'
    BY <2>2, InsertKnownExact, Zenon
  <2>3. ASSUME InsertOrphan(r, JC[r]) PROVE E'
    BY <2>3, InsertOrphanExact, Zenon
  <2>4. ASSUME unaliased(r) /\ InsertLinked(r, JC[r], FC[r]) PROVE E'
    BY <2>4, InsertLinkedExact, Zenon
  <2>5. E'
    BY <2>1, <2>2, <2>3, <2>4 DEF InsertNode, InsertLinked
  <2> QED
    BY <1>1, <2>5 DEF QInv, Exact
<1>3. CASE NewSlot
  <2>1. /\ prune(finalizedCheckpoint, nodeByRoot, parent, children, target)
        /\ finalizedCheckpoint' = finalizedCheckpoint
    BY <1>3 DEF NewSlot, checkpoints
  <2>2. /\ finalizedCheckpoint \in Checkpoints /\ finalizedCheckpoint.epoch \in Nat
        /\ TreeOK(nodeByRoot, parent, children, target, treeRootNode, optimistic)
        /\ FinalityOK(finalizedCheckpoint, treeRootNode) /\ E
    BY DEF QInv, FInv, IInv, TypeOK, Checkpoints, Exact
  <2>3. finalizedCheckpoint.epoch <= finalizedCheckpoint.epoch
    BY <2>2
  <2>4. Exact(nodeByRoot', parent', children', target', treeRootNode', finalizedCheckpoint.epoch)
    BY <2>1, <2>2, <2>3, PruneExact, Zenon
  <2> QED
    BY <1>1, <2>1, <2>4 DEF QInv, Exact
<1>4. CASE \E r \in Roots, lastValidHash \in LastValidHashes :
              SetOptimisticToInvalid(r, lastValidHash)
  <2>1. E'
    BY <1>4, SetOptimisticToInvalidExact, Zenon
  <2> QED
    BY <1>1, <2>1 DEF QInv, Exact
<1>5. ASSUME UNCHANGED <<tree, finalizedCheckpoint>> PROVE QInv'
  BY <1>1, <1>5 DEF QInv, tree
<1>6. CASE \E r \in Roots : ReceiveBlock(r) \/ SetOptimisticToValid(r)
  BY <1>5, <1>6 DEF ReceiveBlock, SetOptimisticToValid, checkpoints
<1>7. CASE Head \/ Tick
  BY <1>5, <1>7 DEF Head, Tick, checkpoints
<1>8. CASE \E s \in 0 .. MaxSlot : \E indices \in SUBSET Committee[s] \ {{}}, r \in Roots :
              ProcessAttestation(indices, r, s)
  BY <1>5, <1>8 DEF ProcessAttestation, checkpoints
<1>9. CASE UNCHANGED vars
  BY <1>5, <1>9 DEF vars, checkpoints
<1> QED
  BY <1>2, <1>3, <1>4, <1>6, <1>7, <1>8, <1>9
  DEF Next, OnAttestation, handleBlockAttestations

\* What deleted children are still listed, and how exact the targets are, in every reachable
\* state.
THEOREM QueryInvariance == Spec => []QInv
BY InitQInv, StepQInv, PTL DEF Spec

-----------------------------------------------------------------------------
(* TargetRootForEpoch.                                                     *)

\* The first slot of an epoch, compared with a slot of an earlier or a later one.
LEMMA EpochBetween ==
    ASSUME NEW e \in Nat, NEW n \in Nat
    PROVE  /\ EpochStart(e) \in Nat /\ ToEpoch(n) \in Nat
           /\ e < ToEpoch(n) => EpochStart(e) < EpochStart(ToEpoch(n))
           /\ e > ToEpoch(n) => n < EpochStart(e)
<1> DEFINE k == SlotsPerEpoch
           q == n \div k
<1>1. k \in Nat \ {0}
  BY ConstantsAssumption
<1>2. q \in Nat /\ n < q * k + k
  BY <1>1
<1> HIDE DEF q, k
<1>3. e * k \in Nat /\ q * k \in Nat /\ (q + 1) * k = q * k + k /\ (e + 1) * k = e * k + k
  BY <1>1, <1>2
<1>4. ASSUME e < q PROVE e * k < q * k
  <2>1. q * k >= (e + 1) * k
    BY <1>1, <1>2, <1>4
  <2> QED
    BY <1>1, <1>3, <2>1
<1>5. ASSUME e > q PROVE n < e * k
  <2>1. e * k >= (q + 1) * k
    BY <1>1, <1>2, <1>5
  <2> QED
    BY <1>1, <1>2, <1>3, <2>1
<1> QED
  BY <1>2, <1>3, <1>4, <1>5 DEF EpochStart, ToEpoch, q, k

\* A walk that stays within a closed set is itself closed.
LEMMA ClosureWithin ==
    ASSUME NEW range, NEW succ, NEW n, NEW S \in SUBSET range,
           n \in S, \A x \in S : succ[x] \subseteq S
    PROVE  /\ n \in Closure(range, succ, n)
           /\ Closure(range, succ, n) \subseteq S
           /\ \A x \in Closure(range, succ, n) : succ[x] \subseteq Closure(range, succ, n)
<1> DEFINE closed == {T \in SUBSET range : n \in T /\ \A x \in T : succ[x] \subseteq T}
           C == {x \in range : \A T \in closed : x \in T}
<1>1. Closure(range, succ, n) = C
  BY DEF Closure
<1>2. S \in closed
  OBVIOUS
<1>3. n \in C /\ C \subseteq S
  BY <1>2
<1>4. ASSUME NEW x \in C, NEW y \in succ[x] PROVE y \in C
  <2>1. y \in range
    BY <1>3
  <2>2. ASSUME NEW T \in closed PROVE y \in T
    BY <1>4
  <2> QED
    BY <2>1, <2>2
<1> QED
  BY <1>1, <1>3, <1>4

\* A node without target starts its chain within its epoch.
LEMMA NoTarget ==
    ASSUME QInv, NEW n \in nodeByRoot, target[n] = NoNode, NEW z \in Ancestors(parent, n)
    PROVE  Slot[z] > EpochStart(ToEpoch(Slot[n]))
<1> DEFINE S == {x \in nodeByRoot : target[x] = NoNode /\ ToEpoch(Slot[x]) = ToEpoch(Slot[n])}
<1>1. /\ Pointers(parent, children) /\ nodeByRoot \in SUBSET Roots
      /\ Linked(nodeByRoot, parent, children, treeRootNode)
      /\ TargetsExact(nodeByRoot, parent, target)
  BY PresentTree DEF QInv, FInv
<1>2. n \in S /\ n \in Roots
  BY <1>1
<1>3. ASSUME NEW x \in S \cap Roots, parent[x] # NoNode PROVE parent[x] \in S
  BY <1>1, <1>3 DEF Linked, TargetsExact
<1> HIDE DEF S
<1>4. Ancestors(parent, n) \subseteq S
  BY <1>1, <1>2, <1>3, AncestorsLeast, Zenon
<1>5. z \in nodeByRoot /\ z \in Roots /\ target[z] = NoNode /\ ToEpoch(Slot[z]) = ToEpoch(Slot[n])
  BY <1>1, <1>4 DEF S
<1>6. ~IsEpochStart(Slot[z])
  BY <1>1, <1>5, ConstantsAssumption DEF TargetsExact
<1>7. EpochStart(ToEpoch(Slot[z])) < Slot[z] /\ EpochStart(ToEpoch(Slot[z])) \in Nat /\ Slot[z] \in Nat
  BY <1>5, <1>6, InEpoch, BlocksAssumption
<1> QED
  BY <1>5, <1>7

\* The target of a connected node n, when a connected block b of n's chain is not later than the
\* first slot of n's epoch: it is connected too, and b is on its chain.
LEMMA TargetBetween ==
    ASSUME QInv, NEW n \in Connected, NEW b \in Connected, b \in BlockChain[n],
           Slot[b] <= EpochStart(ToEpoch(Slot[n]))
    PROVE  /\ target[n] \in Connected /\ target[n] \in BlockChain[n]
           /\ b \in BlockChain[target[n]]
           /\ Slot[target[n]] <= EpochStart(ToEpoch(Slot[n]))
           /\ \A x \in BlockChain[n] :
                 Slot[x] <= EpochStart(ToEpoch(Slot[n])) => Slot[x] <= Slot[target[n]]
<1> DEFINE t == target[n]
           first == EpochStart(ToEpoch(Slot[n]))
<1>1. /\ Listing(children) /\ nodeByRoot \in SUBSET Roots /\ treeRootNode \in Roots
      /\ TargetsOK(nodeByRoot, children, target) /\ IInv /\ FInv
      /\ TargetsExact(nodeByRoot, parent, target)
  BY PresentTree DEF QInv, FInv
<1>2. n \in nodeByRoot /\ n \in Roots /\ b \in nodeByRoot /\ b \in Roots
  BY <1>1, ConnectedUp
<1>3. Slot[n] \in Nat /\ Slot[b] \in Nat /\ Slot[treeRootNode] \in Nat /\ first \in Nat
  BY <1>1, <1>2, BlocksAssumption, InEpoch
<1>4. /\ Ancestors(parent, n) = BlockChain[n] \cap Connected
      /\ \A x \in BlockChain[n] : Slot[x] >= Slot[treeRootNode] => x \in Ancestors(parent, n)
      /\ \A x \in Ancestors(parent, n) : Slot[x] >= Slot[treeRootNode]
  BY <1>1, ConnectedChain
<1>5. b \in Ancestors(parent, n) /\ Slot[b] >= Slot[treeRootNode]
  BY <1>4
<1>6. t # NoNode
  <2> SUFFICES ASSUME t = NoNode PROVE FALSE
    OBVIOUS
  <2>1. Slot[b] > first
    BY <1>2, <1>5, NoTarget
  <2> QED
    BY <1>3, <2>1
<1>7. /\ t \in nodeByRoot /\ n \in Subtree(children, t)
      /\ \A x \in BlockChain[n] : Slot[x] > Slot[t] => Slot[x] > first
      /\ Slot[t] <= first
  BY <1>1, <1>2, <1>6 DEF TargetsOK, TargetsExact
<1>8. t \in Roots /\ Slot[t] \in Nat
  BY <1>1, <1>7, BlocksAssumption
<1>9. t \in BlockChain[n]
  BY <1>1, <1>7, <1>8, SubtreeChain
<1> HIDE DEF t, first
<1>10. \A x \in BlockChain[n] : Slot[x] \in Nat
  BY <1>2, ChainClosed, BlocksAssumption
<1>11. \A x \in BlockChain[n] : Slot[x] <= first => Slot[x] <= Slot[t]
  BY <1>3, <1>7, <1>8, <1>10
<1>12. Slot[b] <= Slot[t]
  BY <1>11 DEF first
<1>13. t \in Connected
  BY <1>3, <1>4, <1>5, <1>8, <1>9, <1>12
<1>14. b \in BlockChain[t]
  <2>1. b \in BlockChain[t] \/ t \in BlockChain[b]
    BY <1>2, <1>9, ChainTotal, Zenon
  <2>2. ASSUME t \in BlockChain[b], t # b PROVE FALSE
    BY <1>2, <1>3, <1>8, <1>12, <2>2, ChainEarlier
  <2>3. t \in BlockChain[t]
    BY <1>8, ChainClosed
  <2> QED
    BY <2>1, <2>2, <2>3
<1> QED
  BY <1>7, <1>9, <1>11, <1>13, <1>14 DEF t, first

\* One step back of TargetRootForEpoch's walk, from a node of a later epoch: it finds a node,
\* earlier on the same chain and not before the block b at the start of the epoch.
LEMMA TargetStep ==
    ASSUME QInv, NEW epoch \in Nat, NEW n \in Connected, NEW b \in Connected, b \in BlockChain[n],
           Slot[b] <= EpochStart(epoch), epoch < ToEpoch(Slot[n])
    PROVE  LET y == beforeTarget(n, target[n])
           IN  /\ ~targetAnswers(n, epoch)
               /\ y \in Connected /\ y \in BlockChain[n] /\ b \in BlockChain[y]
               /\ Slot[y] < Slot[n]
<1> DEFINE t == target[n]
           y == beforeTarget(n, t)
<1>1. IInv /\ treeRootNode \in Roots /\ parent[treeRootNode] = NoNode
  BY PresentTree DEF QInv, FInv, Linked
<1>2. n \in Roots /\ b \in Roots /\ n \in nodeByRoot
  BY <1>1, ConnectedUp
<1>3. /\ Slot[n] \in Nat /\ Slot[b] \in Nat /\ Slot[treeRootNode] \in Nat
      /\ EpochStart(epoch) \in Nat /\ ToEpoch(Slot[n]) \in Nat
      /\ EpochStart(epoch) < EpochStart(ToEpoch(Slot[n])) /\ EpochStart(ToEpoch(Slot[n])) \in Nat
  BY <1>1, <1>2, BlocksAssumption, EpochBetween, InEpoch
<1>4. Slot[b] <= EpochStart(ToEpoch(Slot[n]))
  BY <1>3
<1>5. t \in Connected /\ t \in BlockChain[n] /\ b \in BlockChain[t]
  BY <1>4, TargetBetween
<1>6. t \in Roots /\ t \in nodeByRoot /\ Slot[t] \in Nat /\ Slot[t] <= Slot[n]
  BY <1>1, <1>2, <1>5, ConnectedUp, ChainClosed, BlocksAssumption
<1> HIDE DEF t
<1>7. y \in Connected /\ y \in BlockChain[n] /\ b \in BlockChain[y] /\ Slot[y] < Slot[n]
  <2>1. CASE ToEpoch(Slot[n]) # ToEpoch(Slot[t])
    <3>1. y = t /\ t # n
      BY <2>1 DEF beforeTarget
    <3>2. Slot[t] < Slot[n]
      BY <1>2, <1>5, <3>1, ChainEarlier
    <3> QED
      BY <1>5, <3>1, <3>2
  <2>2. CASE ToEpoch(Slot[n]) = ToEpoch(Slot[t])
    <3>1. y = parent[t]
      BY <2>2 DEF beforeTarget
    <3>2. EpochStart(ToEpoch(Slot[t])) <= Slot[t]
      BY <1>6, InEpoch
    <3>3. Slot[b] < Slot[t]
      BY <1>3, <1>6, <2>2, <3>2
    <3>4. t # treeRootNode
      <4>1. b \in BlockChain[b]
        BY <1>2, ChainClosed
      <4>2. Slot[b] >= Slot[treeRootNode]
        BY <1>1, <4>1, ConnectedChain
      <4> QED
        BY <1>3, <3>3, <4>2
    <3>5. parent[t] = ParentRoot[t] /\ parent[t] \in Connected
      BY <1>1, <1>5, <3>4, ConnectedUp
    <3>6. parent[t] \in Roots /\ parent[t] # NoNode
      BY <1>1, <3>5, ConnectedUp, ConstantsAssumption
    <3>7. Slot[parent[t]] < Slot[t] /\ BlockChain[t] = {t} \cup BlockChain[parent[t]]
      BY <1>6, <3>5, <3>6, ChainParent
    <3>8. parent[t] \in BlockChain[n]
      BY <1>2, <1>5, <3>5, <3>6, ChainClosed
    <3>9. Slot[parent[t]] \in Nat
      BY <3>6, BlocksAssumption
    <3> QED
      BY <1>3, <1>5, <1>6, <3>1, <3>3, <3>5, <3>7, <3>8, <3>9
  <2> QED
    BY <2>1, <2>2
<1>8. y \in nodeByRoot
  BY <1>1, <1>7, ConnectedUp
<1> HIDE DEF y
<1>9. ~targetAnswers(n, epoch)
  BY <1>3, <1>6, <1>8 DEF targetAnswers, t, y
<1> QED
  BY <1>7, <1>9 DEF t, y

\* The node the walk ends at gives the answer.
LEMMA TargetEnd ==
    ASSUME QInv, NEW epoch \in Nat, NEW r \in Connected, NEW b \in Connected,
           StartsEpoch(b, r, epoch),
           NEW n \in Connected, n \in BlockChain[r], b \in BlockChain[n], epoch >= ToEpoch(Slot[n])
    PROVE  /\ epoch > ToEpoch(Slot[n]) => n = b
           /\ epoch = ToEpoch(Slot[n]) => target[n] = b
<1>1. IInv
  BY DEF QInv, FInv
<1>2. r \in Roots /\ n \in Roots /\ b \in Roots
  BY <1>1, ConnectedUp
<1>3. Slot[n] \in Nat /\ Slot[b] \in Nat /\ EpochStart(epoch) \in Nat
  BY <1>2, BlocksAssumption, EpochBetween
<1>4. /\ b \in BlockChain[r] /\ Slot[b] <= EpochStart(epoch)
      /\ \A z \in BlockChain[r] : Slot[z] <= EpochStart(epoch) => Slot[z] <= Slot[b]
  BY DEF StartsEpoch, BlockAncestors
<1>5. ASSUME NEW x \in BlockChain[r], b \in BlockChain[x], Slot[x] <= EpochStart(epoch) PROVE x = b
  <2>1. x \in Roots /\ Slot[x] \in Nat
    BY <1>2, ChainClosed, BlocksAssumption
  <2>2. Slot[b] <= Slot[x] /\ Slot[x] <= Slot[b]
    BY <1>4, <1>5, <2>1, ChainClosed
  <2>3. Slot[x] = Slot[b]
    BY <1>3, <2>1, <2>2
  <2> QED
    BY <1>2, <1>4, <2>3, ChainSlots
<1>6. CASE epoch > ToEpoch(Slot[n])
  <2>1. Slot[n] < EpochStart(epoch) /\ ToEpoch(Slot[n]) \in Nat
    BY <1>3, <1>6, EpochBetween
  <2> QED
    BY <1>3, <1>5, <1>6, <2>1
<1>7. CASE epoch = ToEpoch(Slot[n])
  <2>1. /\ target[n] \in Connected /\ target[n] \in BlockChain[n]
        /\ b \in BlockChain[target[n]] /\ Slot[target[n]] <= EpochStart(epoch)
    BY <1>4, <1>7, TargetBetween
  <2>2. target[n] \in BlockChain[r]
    BY <1>2, <2>1, ChainTransitive
  <2> QED
    BY <1>5, <1>7, <2>1, <2>2
<1>8. ToEpoch(Slot[n]) \in Nat
  BY <1>3, EpochBetween
<1> QED
  BY <1>6, <1>7, <1>8

\* TargetRootForEpoch answers with the block of the chain at the start of the epoch.
LEMMA TargetRootCorrect == QInv => TargetRootExact
<1> SUFFICES ASSUME QInv, NEW r \in Connected, NEW b \in Connected, NEW epoch \in Epochs,
                    StartsEpoch(b, r, epoch)
             PROVE  TargetRootForEpoch(r, epoch) = b
  BY Zenon DEF TargetRootExact
<1> DEFINE back == [n \in Roots |-> IF targetAnswers(n, epoch) THEN {}
                                    ELSE {beforeTarget(n, target[n])}]
           C == Closure(NotAfter(r), back, r)
           S == {x \in Connected : x \in BlockChain[r] /\ b \in BlockChain[x]}
           last == CHOOSE n \in C : targetAnswers(n, epoch)
<1>1. IInv /\ r \in Roots /\ r \in nodeByRoot /\ b \in Roots
  BY ConnectedUp DEF QInv, FInv
<1>2. epoch \in Nat
  <2>1. ToEpoch(MaxSlot) \in Nat
    BY ConstantsAssumption, EpochBetween
  <2> QED
    BY <2>1 DEF Epochs
<1>3. b \in BlockChain[r] /\ Slot[b] <= EpochStart(epoch)
  BY DEF StartsEpoch, BlockAncestors
<1>4. \A x \in S : x \in Roots /\ Slot[x] \in Nat /\ ToEpoch(Slot[x]) \in Nat /\ Slot[x] <= Slot[r]
  BY <1>1, ChainClosed, BlocksAssumption, EpochBetween
<1>5. S \in SUBSET NotAfter(r) /\ r \in S
  <2>1. r \in BlockChain[r]
    BY <1>1, ChainClosed
  <2> QED
    BY <1>3, <1>4, <2>1 DEF NotAfter
<1>6. ASSUME NEW x \in S, epoch < ToEpoch(Slot[x])
      PROVE  /\ ~targetAnswers(x, epoch)
             /\ beforeTarget(x, target[x]) \in S
             /\ Slot[beforeTarget(x, target[x])] < Slot[x]
  <2> DEFINE y == beforeTarget(x, target[x])
  <2>1. /\ ~targetAnswers(x, epoch)
        /\ y \in Connected /\ y \in BlockChain[x] /\ b \in BlockChain[y]
        /\ Slot[y] < Slot[x]
    BY <1>2, <1>3, <1>6, TargetStep
  <2>2. y \in BlockChain[r]
    BY <1>1, <2>1, ChainTransitive
  <2> QED
    BY <2>1, <2>2
<1>7. ASSUME NEW x \in S, ~targetAnswers(x, epoch)
      PROVE  epoch < ToEpoch(Slot[x])
  <2> HIDE DEF S
  <2>1. ~(epoch >= ToEpoch(Slot[x]))
    BY <1>7 DEF targetAnswers
  <2> QED
    BY <1>2, <1>4, <2>1
<1> HIDE DEF S
<1>8. ASSUME NEW x \in S PROVE back[x] \subseteq S
  BY <1>4, <1>6, <1>7
<1>9. /\ r \in C /\ C \subseteq S
      /\ \A x \in C : back[x] \subseteq C
  <2> HIDE DEF back
  <2> QED BY <1>5, <1>8, ClosureWithin, Zenon
<1>10. \E n \in C : targetAnswers(n, epoch)
  <2> HIDE DEF C
  <2> SUFFICES ASSUME \A n \in C : ~targetAnswers(n, epoch) PROVE FALSE
    OBVIOUS
  <2>1. {Slot[x] : x \in C} \in SUBSET Nat /\ {Slot[x] : x \in C} # {}
    BY <1>4, <1>9
  <2>2. PICK x \in C : \A z \in C : Slot[x] <= Slot[z]
    <3>1. \E s \in {Slot[x] : x \in C} : \A u \in {Slot[x] : x \in C} : s <= u
      BY <2>1, LeastNumber, Zenon
    <3> QED
      BY <3>1
  <2>3. x \in S /\ epoch < ToEpoch(Slot[x])
    BY <1>7, <1>9
  <2>4. beforeTarget(x, target[x]) \in S /\ Slot[beforeTarget(x, target[x])] < Slot[x]
    BY <1>6, <2>3
  <2>5. beforeTarget(x, target[x]) \in back[x]
    BY <1>4, <2>3
  <2>6. beforeTarget(x, target[x]) \in C
    BY <1>9, <2>5
  <2> QED
    BY <1>4, <2>2, <2>3, <2>4, <2>6
<1>11. last \in C /\ targetAnswers(last, epoch)
  BY <1>10, Zenon
<1>12. TargetRootForEpoch(r, epoch) =
         IF epoch > ToEpoch(Slot[last]) THEN last
         ELSE IF epoch = ToEpoch(Slot[last]) THEN target[last]
         ELSE NoNode
  BY <1>1, Zenon DEF TargetRootForEpoch
<1> HIDE DEF C, last
<1>13. last \in S
  BY <1>9, <1>11
<1>14. epoch >= ToEpoch(Slot[last])
  <2>1. ~(epoch < ToEpoch(Slot[last]))
    BY <1>6, <1>11, <1>13
  <2> QED
    BY <1>2, <1>4, <1>13, <2>1
<1>15. /\ epoch > ToEpoch(Slot[last]) => last = b
       /\ epoch = ToEpoch(Slot[last]) => target[last] = b
  BY <1>2, <1>13, <1>14, TargetEnd DEF S
<1> QED
  BY <1>2, <1>4, <1>12, <1>13, <1>14, <1>15

\* TargetRootForEpoch answers right in every reachable state: neither the targets that a prune
\* cleared nor the ones of blocks imported after it mislead the walk.
THEOREM TargetRootRight == Spec => []TargetRootExact
BY QueryInvariance, TargetRootCorrect, PTL

-----------------------------------------------------------------------------
(* IsViableForCheckpoint.                                                  *)

\* Below a connected node that is later than the tree root there is a leaf of the store.
LEMMA LeafBelow ==
    ASSUME QInv, NEW c \in Connected, Slot[c] > Slot[treeRootNode]
    PROVE  \E n \in tips(nodeByRoot, children) \cap Connected : n \in Subtree(children, c)
<1> DEFINE sub(x) == Subtree(children, x)
           below == sub(c) \cap nodeByRoot
           sizes == {Cardinality(sub(x)) : x \in below}
<1>1. /\ IInv /\ Listing(children) /\ nodeByRoot \in SUBSET Roots /\ treeRootNode \in Roots
      /\ StaleOK(nodeByRoot, children, treeRootNode, finalizedCheckpoint.epoch)
  BY PresentTree DEF QInv, FInv
<1>2. /\ c \in nodeByRoot /\ c \in Roots /\ c \in sub(treeRootNode) /\ treeRootNode \in nodeByRoot
      /\ Connected = sub(treeRootNode) \cap nodeByRoot
  BY <1>1, ConnectedUp DEF Connected
<1>3. \A x \in Roots : /\ x \in sub(x) /\ sub(x) \subseteq Roots
                       /\ \A y \in sub(x) : Slot[x] <= Slot[y] /\ children[y] \subseteq sub(x)
  BY <1>1, SubtreeFacts, Zenon
<1>4. \A x \in Roots : \A y \in sub(x) : sub(y) \subseteq sub(x)
  BY <1>1, SubtreeTransitive, Zenon
<1> HIDE DEF sub
<1>5. \A x \in Roots : IsFiniteSet(sub(x)) /\ Cardinality(sub(x)) \in Nat
  BY <1>3, ConstantsAssumption, FS_Subset, FS_CardinalityType
<1>6. sizes \in SUBSET Nat /\ sizes # {}
  BY <1>1, <1>2, <1>3, <1>5
<1>7. PICK n \in below : \A x \in below : Cardinality(sub(n)) <= Cardinality(sub(x))
  <2>1. \E s \in sizes : \A u \in sizes : s <= u
    <3> HIDE DEF sizes
    <3> QED BY <1>6, LeastNumber, Zenon
  <2> QED
    BY <2>1
<1>8. n \in Roots /\ n \in nodeByRoot /\ n \in sub(c) /\ n \in Connected
  BY <1>1, <1>2, <1>4
<1>9. children[n] = {}
  <2> SUFFICES ASSUME NEW k \in children[n] PROVE FALSE
    OBVIOUS
  <2>1. k \in Roots /\ Slot[n] < Slot[k] /\ Slot[n] \in Nat /\ Slot[k] \in Nat
    BY <1>1, <1>8, ChildLater, BlocksAssumption
  <2>2. k \in sub(n) /\ k \in sub(c)
    BY <1>2, <1>3, <1>8
  <2>3. Slot[n] > Slot[treeRootNode]
    <3>1. Slot[c] <= Slot[n] /\ Slot[c] \in Nat /\ Slot[treeRootNode] \in Nat
      BY <1>1, <1>2, <1>3, <1>8, BlocksAssumption
    <3> QED
      BY <2>1, <3>1
  <2>4. Slot[treeRootNode] \in Nat
    BY <1>1, BlocksAssumption
  <2>5. k \in nodeByRoot
    BY <1>1, <1>8, <2>1, <2>3, <2>4 DEF StaleOK
  <2>6. n \notin sub(k) /\ n \in sub(n) /\ sub(k) \subseteq sub(n)
    BY <1>3, <1>4, <1>8, <2>1, <2>2
  <2>7. Cardinality(sub(k)) < Cardinality(sub(n))
    BY <1>5, <1>8, <2>1, <2>6, FS_Subset
  <2>8. Cardinality(sub(n)) <= Cardinality(sub(k))
    BY <1>7, <2>2, <2>5
  <2> QED
    BY <1>5, <1>8, <2>1, <2>7, <2>8
<1> QED
  BY <1>8, <1>9 DEF tips, sub

\* A leaf of the store below a child c of r that is later than the first slot of the epoch
\* has r at the start of the epoch; so has any leaf below r when r is that slot's block.
LEMMA ChildStarts ==
    ASSUME QInv, NEW r \in Connected, NEW epoch \in Nat, Slot[r] <= EpochStart(epoch),
           NEW c \in children[r], c \in nodeByRoot,
           Slot[c] > EpochStart(epoch) \/ Slot[r] = EpochStart(epoch)
    PROVE  \E n \in tips(nodeByRoot, children) \cap Connected : StartsEpoch(r, n, epoch)
<1>1. IInv /\ Listing(children) /\ nodeByRoot \in SUBSET Roots /\ treeRootNode \in Roots
  BY PresentTree DEF QInv, FInv
<1>2. /\ r \in Roots /\ r \in nodeByRoot /\ treeRootNode \in nodeByRoot
      /\ r \in Subtree(children, treeRootNode)
  BY <1>1, ConnectedUp
<1>3. c \in Roots /\ ParentRoot[c] = r /\ Slot[r] < Slot[c]
  BY <1>1, <1>2, ChildLater
<1>4. /\ Slot[treeRootNode] <= Slot[r]
      /\ c \in Subtree(children, treeRootNode)
  BY <1>1, <1>2, SubtreeFacts
<1>5. c \in Connected
  BY <1>2, <1>4 DEF Connected
<1>6. Slot[c] \in Nat /\ Slot[r] \in Nat /\ Slot[treeRootNode] \in Nat /\ EpochStart(epoch) \in Nat
  BY <1>1, <1>2, <1>3, BlocksAssumption, EpochBetween
<1>7. PICK n \in tips(nodeByRoot, children) \cap Connected : n \in Subtree(children, c)
  BY <1>3, <1>4, <1>5, <1>6, LeafBelow
<1>8. n \in Roots /\ c \in BlockChain[n]
  BY <1>1, <1>3, <1>7, SubtreeChain
<1>9. r # NoNode /\ BlockChain[c] = {c} \cup BlockChain[r] /\ r \in BlockChain[r]
  BY <1>2, <1>3, ConstantsAssumption, ChainParent, ChainClosed
<1>10. r \in BlockChain[n]
  BY <1>8, <1>9, ChainTransitive
<1>11. ASSUME NEW z \in BlockChain[n], Slot[z] <= EpochStart(epoch) PROVE Slot[z] <= Slot[r]
  <2>1. z \in Roots /\ Slot[z] \in Nat
    BY <1>8, ChainClosed, BlocksAssumption
  <2>2. CASE Slot[r] = EpochStart(epoch)
    BY <1>11, <2>2
  <2>3. CASE Slot[c] > EpochStart(epoch)
    <3>1. z \in BlockChain[c] \/ c \in BlockChain[z]
      BY <1>8, ChainTotal, Zenon
    <3>2. c \in BlockChain[z] => Slot[c] <= Slot[z]
      BY <2>1, ChainClosed
    <3>3. z \in BlockChain[c] /\ z # c
      BY <1>6, <1>11, <2>1, <2>3, <3>1, <3>2
    <3>4. z \in BlockChain[r]
      BY <1>9, <3>3
    <3> QED
      BY <1>2, <3>4, ChainClosed
  <2> QED
    BY <2>2, <2>3
<1> QED
  BY <1>7, <1>10, <1>11 DEF StartsEpoch, BlockAncestors

\* IsViableForCheckpoint accepts exactly the checkpoints that some chain of the store has.
LEMMA ViableCheckpointCorrect == QInv => ViableCheckpointExact
<1> SUFFICES ASSUME QInv, NEW r \in Connected, NEW epoch \in Epochs, telling(r)
             PROVE  IsViableForCheckpoint([epoch |-> epoch, root |-> r]) <=>
                        \E n \in tips(nodeByRoot, children) \cap Connected : StartsEpoch(r, n, epoch)
  BY Zenon DEF ViableCheckpointExact
<1> DEFINE L == EpochStart(epoch)
           F == EpochStart(finalizedCheckpoint.epoch)
<1>1. /\ IInv /\ Listing(children) /\ nodeByRoot \in SUBSET Roots /\ treeRootNode \in Roots
      /\ finalizedCheckpoint.epoch \in Nat
      /\ StaleOK(nodeByRoot, children, treeRootNode, finalizedCheckpoint.epoch)
  <2>1. IInv /\ StaleOK(nodeByRoot, children, treeRootNode, finalizedCheckpoint.epoch)
    BY DEF QInv, FInv
  <2>2. finalizedCheckpoint.epoch \in Nat
    BY <2>1 DEF IInv, TypeOK, Checkpoints
  <2> QED
    BY <2>1, <2>2, PresentTree
<1>2. epoch \in Nat
  <2>1. ToEpoch(MaxSlot) \in Nat
    BY ConstantsAssumption, EpochBetween
  <2> QED
    BY <2>1 DEF Epochs
<1>3. r \in nodeByRoot /\ r \in Roots /\ r \in Subtree(children, treeRootNode)
  BY <1>1, ConnectedUp
<1>4. /\ Slot[r] \in Nat /\ Slot[treeRootNode] \in Nat /\ Slot[treeRootNode] <= Slot[r]
      /\ L \in Nat /\ F \in Nat /\ ToEpoch(Slot[r]) \in Nat
  BY <1>1, <1>2, <1>3, SubtreeFacts, BlocksAssumption, EpochBetween
<1>5. IsViableForCheckpoint([epoch |-> epoch, root |-> r]) <=>
        /\ Slot[r] <= L
        /\ \/ children[r] = {}
           \/ Slot[r] = L
           \/ ToEpoch(Slot[r]) < epoch /\ \E c \in children[r] : Slot[c] > L
  BY <1>3 DEF IsViableForCheckpoint
<1>6. \A c \in children[r] : c \in Roots /\ Slot[c] \in Nat /\ Slot[r] < Slot[c]
  BY <1>1, <1>3, ChildLater, BlocksAssumption
<1>7. ASSUME NEW n \in tips(nodeByRoot, children) \cap Connected, StartsEpoch(r, n, epoch)
      PROVE  /\ Slot[r] <= L
             /\ \/ children[r] = {}
                \/ Slot[r] = L
                \/ ToEpoch(Slot[r]) < epoch /\ \E c \in children[r] : Slot[c] > L
  <2>1. /\ r \in BlockChain[n] /\ Slot[r] <= L
        /\ \A z \in BlockChain[n] : Slot[z] <= L => Slot[z] <= Slot[r]
    BY <1>7 DEF StartsEpoch, BlockAncestors
  <2>2. n \in nodeByRoot /\ n \in Roots /\ children[n] = {}
    BY <1>1 DEF tips
  <2>3. r \in Ancestors(parent, n)
    BY <1>1, <2>1, ConnectedChain
  <2>4. n \in Subtree(children, r)
    BY <1>1, <2>2, <2>3, AncestorsBelow
  <2>5. CASE n = r \/ Slot[r] = L
    BY <2>1, <2>2, <2>5
  <2>6. CASE n # r /\ Slot[r] # L
    <3>1. PICK c \in children[r] : n \in Subtree(children, c)
      BY <1>1, <1>3, <2>4, <2>6, SubtreeStep, Zenon
    <3>2. c \in BlockChain[n] /\ Slot[c] \in Nat /\ Slot[r] < Slot[c]
      BY <1>1, <1>6, <3>1, SubtreeChain
    <3>3. Slot[c] > L
      BY <1>4, <2>1, <3>2
    <3>4. ToEpoch(Slot[r]) < epoch
      <4> SUFFICES ASSUME epoch <= ToEpoch(Slot[r]) PROVE FALSE
        BY <1>2, <1>4
      <4>1. EpochStart(ToEpoch(Slot[r])) <= Slot[r] /\ EpochStart(ToEpoch(Slot[r])) \in Nat
        BY <1>4, InEpoch
      <4>2. L <= EpochStart(ToEpoch(Slot[r]))
        <5>1. epoch = ToEpoch(Slot[r]) \/ epoch < ToEpoch(Slot[r])
          BY <1>2, <1>4
        <5> QED
          BY <1>2, <1>4, <4>1, <5>1, EpochBetween
      <4> QED
        BY <1>4, <2>1, <2>6, <4>1, <4>2
    <3> QED
      BY <2>1, <3>3, <3>4
  <2> QED
    BY <2>5, <2>6
<1>8. ASSUME Slot[r] <= L,
             \/ children[r] = {}
             \/ Slot[r] = L
             \/ ToEpoch(Slot[r]) < epoch /\ \E c \in children[r] : Slot[c] > L
      PROVE  \E n \in tips(nodeByRoot, children) \cap Connected : StartsEpoch(r, n, epoch)
  <2>1. CASE children[r] = {}
    <3>1. r \in BlockChain[r] /\ \A z \in BlockChain[r] : Slot[z] <= Slot[r]
      BY <1>3, ChainClosed
    <3> QED
      BY <1>3, <1>8, <2>1, <3>1 DEF StartsEpoch, BlockAncestors, tips
  <2>2. CASE children[r] # {} /\ Slot[r] = L
    <3>1. PICK c \in children[r] : c \in nodeByRoot
      BY <2>2 DEF telling
    <3> QED
      BY <1>2, <1>8, <2>2, <3>1, ChildStarts, Zenon
  <2>3. CASE \E c \in children[r] : Slot[c] > L
    <3>1. PICK c \in children[r] : Slot[c] > L
      BY <2>3
    <3>2. CASE c \in nodeByRoot
      BY <1>2, <1>8, <3>1, <3>2, ChildStarts, Zenon
    <3>3. CASE c \notin nodeByRoot
      <4>1. Slot[c] <= F
        BY <1>1, <1>3, <1>4, <3>1, <3>3 DEF StaleOK
      <4>2. PICK d \in children[r] \cap nodeByRoot : Slot[d] > F
        BY <3>1, <3>3 DEF telling
      <4>3. Slot[d] > L
        BY <1>4, <1>6, <3>1, <4>1, <4>2
      <4> QED
        BY <1>2, <1>8, <4>2, <4>3, ChildStarts
    <3> QED
      BY <3>2, <3>3
  <2> QED
    BY <1>8, <2>1, <2>2, <2>3
<1> HIDE DEF L
<1> QED
  BY <1>5, <1>7, <1>8

\* IsViableForCheckpoint answers right in every reachable state, for every block whose list of
\* children says which chains there are.
THEOREM ViableCheckpointRight == Spec => []ViableCheckpointExact
BY QueryInvariance, ViableCheckpointCorrect, PTL

-----------------------------------------------------------------------------
(* CommonAncestor.                                                         *)

\* A walk up is its start followed by the walk up from the parent, and the start is the
\* latest block of it.
LEMMA AncestorsParent ==
    ASSUME IInv, NEW n \in Roots
    PROVE  /\ n \in Ancestors(parent, n) /\ Ancestors(parent, n) \subseteq Roots
           /\ \A x \in Ancestors(parent, n) : x = n \/ Slot[x] < Slot[n]
           /\ parent[n] = NoNode => Ancestors(parent, n) = {n}
           /\ parent[n] # NoNode =>
                 /\ parent[n] \in Roots /\ Slot[parent[n]] < Slot[n]
                 /\ Ancestors(parent, n) = {n} \cup Ancestors(parent, parent[n])
<1>1. Pointers(parent, children)
  BY PresentTree
<1>2. \A x \in Roots :
         /\ x \in Ancestors(parent, x) /\ Ancestors(parent, x) \subseteq Roots
         /\ \A y \in Ancestors(parent, x) : Slot[y] <= Slot[x]
         /\ \A y \in Ancestors(parent, x) : parent[y] # NoNode => parent[y] \in Ancestors(parent, x)
  BY <1>1, AncestorsFacts, Zenon
<1>3. CASE parent[n] = NoNode
  <2>1. Ancestors(parent, n) \subseteq {n}
    <3>1. n \in {n} /\ \A x \in {n} \cap Roots : parent[x] # NoNode => parent[x] \in {n}
      BY <1>3
    <3> QED
      BY <1>1, <3>1, AncestorsLeast, Zenon
  <2> QED
    BY <1>2, <1>3, <2>1
<1>4. CASE parent[n] # NoNode
  <2> DEFINE p == parent[n]
             S == {n} \cup Ancestors(parent, p)
  <2>1. p \in Roots /\ Slot[p] < Slot[n] /\ Slot[p] \in Nat /\ Slot[n] \in Nat
    BY <1>1, <1>4, BlocksAssumption DEF Pointers
  <2>2. Ancestors(parent, n) \subseteq S
    <3>1. n \in S /\ \A x \in S \cap Roots : parent[x] # NoNode => parent[x] \in S
      BY <1>2, <2>1
    <3> HIDE DEF S
    <3> QED
      BY <1>1, <3>1, AncestorsLeast, Zenon
  <2>3. Ancestors(parent, p) \subseteq Ancestors(parent, n)
    <3>1. /\ p \in Ancestors(parent, n)
          /\ \A x \in Ancestors(parent, n) \cap Roots :
                parent[x] # NoNode => parent[x] \in Ancestors(parent, n)
      BY <1>2, <1>4
    <3> HIDE DEF p
    <3> QED
      BY <1>1, <2>1, <3>1, AncestorsLeast, Zenon
  <2>4. \A x \in Ancestors(parent, p) : x \in Roots /\ Slot[x] \in Nat /\ Slot[x] < Slot[n]
    <3>1. \A x \in Ancestors(parent, p) : x \in Roots /\ Slot[x] <= Slot[p]
      BY <1>2, <2>1
    <3> QED
      BY <2>1, <3>1, BlocksAssumption
  <2> QED
    BY <1>2, <1>4, <2>1, <2>2, <2>3, <2>4
<1> QED
  BY <1>3, <1>4

\* Where the walk of CommonAncestor ends: for two nodes, the latest one that is on both walks
\* up; a node paired with itself steps to its parent.
Meeting(n1, n2) ==
    LET both == Ancestors(parent, n1) \cap Ancestors(parent, n2)
    IN  IF n1 = n2 THEN parent[n1] ELSE IF both = {} THEN NoNode ELSE Latest(both)

\* The later of two nodes, which takes the step.
step1(n1, n2) == IF Slot[n1] > Slot[n2] THEN parent[n1] ELSE n1
step2(n1, n2) == IF Slot[n1] > Slot[n2] THEN n2 ELSE parent[n2]

\* The latest node of a walk up is its start.
LEMMA LatestAncestor ==
    ASSUME IInv, NEW n \in Roots
    PROVE  Latest(Ancestors(parent, n)) = n
<1> DEFINE A == Ancestors(parent, n)
           y == CHOOSE w \in A : \A z \in A : Slot[z] <= Slot[w]
<1>1. n \in A /\ A \subseteq Roots /\ \A x \in A : x = n \/ Slot[x] < Slot[n]
  BY AncestorsParent
<1>2. \A x \in A : Slot[x] \in Nat /\ Slot[x] <= Slot[n]
  BY <1>1, BlocksAssumption
<1>3. Latest(A) = y
  BY DEF Latest
<1> HIDE DEF A
<1>4. y \in A /\ \A z \in A : Slot[z] <= Slot[y]
  BY <1>1, <1>2, Zenon
<1> HIDE DEF y
<1>5. y = n
  BY <1>1, <1>2, <1>4
<1> QED
  BY <1>3, <1>5 DEF A

\* A step of the walk does not change what the two walks up have in common.
LEMMA MeetingStep ==
    ASSUME IInv, NEW n1 \in Roots, NEW n2 \in Roots
    PROVE  LET m1 == step1(n1, n2)
               m2 == step2(n1, n2)
           IN  /\ m1 = NoNode \/ m2 = NoNode => Meeting(n1, n2) = NoNode
               /\ m1 # NoNode /\ m2 # NoNode =>
                     /\ m1 \in Roots /\ m2 \in Roots
                     /\ Slot[m1] + Slot[m2] < Slot[n1] + Slot[n2]
                     /\ Meeting(n1, n2) = IF m1 = m2 THEN m1 ELSE Meeting(m1, m2)
<1> DEFINE A(n) == Ancestors(parent, n)
<1>1. \A n \in Roots :
         /\ n \in A(n) /\ A(n) \subseteq Roots
         /\ \A x \in A(n) : x = n \/ Slot[x] < Slot[n]
         /\ parent[n] = NoNode => A(n) = {n}
         /\ parent[n] # NoNode =>
               /\ parent[n] \in Roots /\ Slot[parent[n]] < Slot[n]
               /\ A(n) = {n} \cup A(parent[n])
  BY AncestorsParent, Zenon
<1>2. \A n \in Roots : Latest(A(n)) = n
  BY LatestAncestor, Zenon
<1>3. \A n \in Roots : Slot[n] \in Nat /\ n # NoNode
  BY BlocksAssumption, ConstantsAssumption
<1>4. \A x, y : Meeting(x, y) = IF x = y THEN parent[x]
                               ELSE IF A(x) \cap A(y) = {} THEN NoNode
                               ELSE Latest(A(x) \cap A(y))
  BY Zenon DEF Meeting
<1> HIDE DEF A
<1>5. CASE Slot[n1] > Slot[n2]
  <2>1. n1 # n2 /\ n1 \notin A(n2) /\ step1(n1, n2) = parent[n1] /\ step2(n1, n2) = n2
    BY <1>1, <1>3, <1>5 DEF step1, step2
  <2>2. CASE parent[n1] = NoNode
    <3>1. A(n1) \cap A(n2) = {}
      BY <1>1, <2>1, <2>2
    <3> QED
      BY <1>3, <1>4, <2>1, <2>2, <3>1
  <2>3. CASE parent[n1] # NoNode
    <3>1. A(n1) \cap A(n2) = A(parent[n1]) \cap A(n2)
      BY <1>1, <2>1, <2>3
    <3>2. parent[n1] \in Roots /\ Slot[parent[n1]] + Slot[n2] < Slot[n1] + Slot[n2]
      BY <1>1, <1>3, <2>3
    <3>3. Meeting(n1, n2) = IF parent[n1] = n2 THEN parent[n1] ELSE Meeting(parent[n1], n2)
      <4>1. CASE parent[n1] = n2
        <5>1. A(n1) \cap A(n2) = A(n2) /\ A(n2) # {}
          BY <1>1, <3>1, <4>1
        <5> QED
          BY <1>2, <1>4, <2>1, <4>1, <5>1
      <4>2. CASE parent[n1] # n2
        BY <1>4, <2>1, <3>1, <4>2
      <4> QED
        BY <4>1, <4>2
    <3> QED
      BY <1>3, <2>1, <2>3, <3>2, <3>3
  <2> QED
    BY <2>2, <2>3
<1>6. CASE ~(Slot[n1] > Slot[n2])
  <2>1. /\ n1 # n2 => n2 \notin A(n1)
        /\ step1(n1, n2) = n1 /\ step2(n1, n2) = parent[n2]
    <3>1. \A x \in A(n1) : x = n1 \/ Slot[x] < Slot[n1]
      BY <1>1
    <3> QED
      BY <1>3, <1>6, <3>1 DEF step1, step2
  <2>2. CASE parent[n2] = NoNode
    <3>1. n1 # n2 => A(n1) \cap A(n2) = {}
      BY <1>1, <2>1, <2>2
    <3> QED
      BY <1>3, <1>4, <2>1, <2>2, <3>1
  <2>3. CASE parent[n2] # NoNode
    <3> DEFINE p == parent[n2]
    <3>1. p \in Roots /\ Slot[n1] + Slot[p] < Slot[n1] + Slot[n2] /\ Slot[p] < Slot[n2]
      BY <1>1, <1>3, <2>3
    <3>2. Meeting(n1, n2) = IF n1 = p THEN n1 ELSE Meeting(n1, p)
      <4>1. CASE n1 = n2
        <5>1. n1 # p
          BY <1>3, <3>1, <4>1
        <5>2. A(n1) \cap A(p) = A(p) /\ A(p) # {} /\ Latest(A(p)) = p
          BY <1>1, <1>2, <2>3, <3>1, <4>1
        <5> QED
          BY <1>4, <4>1, <5>1, <5>2
      <4>2. CASE n1 # n2
        <5>1. A(n1) \cap A(n2) = A(n1) \cap A(p)
          BY <1>1, <2>1, <2>3, <4>2
        <5>2. A(n1) # {} /\ Latest(A(n1)) = n1
          BY <1>1, <1>2
        <5>3. CASE n1 = p
          <6>1. A(n1) \cap A(n2) = A(n1)
            BY <5>1, <5>3
          <6> QED
            BY <1>4, <4>2, <5>2, <5>3, <6>1
        <5>4. CASE n1 # p
          BY <1>4, <4>2, <5>1, <5>4
        <5> QED
          BY <5>3, <5>4
      <4> QED
        BY <4>1, <4>2
    <3> QED
      BY <1>3, <2>1, <2>3, <3>1, <3>2
  <2> QED
    BY <2>2, <2>3
<1> QED
  BY <1>5, <1>6

\* What the recursive walk computes: the recursion has a solution, Meeting, and it has no other,
\* since each step lowers the sum of the two slots.
LEMMA MeetIsMeeting ==
    ASSUME IInv, NEW r1 \in Roots, NEW r2 \in Roots
    PROVE  meet[<<r1, r2>>] = Meeting(r1, r2)
<1> DEFINE Pairs == Roots \X Roots
           Body(f, pr) ==
               IF step1(pr[1], pr[2]) = NoNode \/ step2(pr[1], pr[2]) = NoNode THEN NoNode
               ELSE IF step1(pr[1], pr[2]) = step2(pr[1], pr[2]) THEN step1(pr[1], pr[2])
               ELSE f[<<step1(pr[1], pr[2]), step2(pr[1], pr[2])>>]
           W == [pr \in Pairs |-> Meeting(pr[1], pr[2])]
           sum(pr) == Slot[pr[1]] + Slot[pr[2]]
<1>1. \A n1, n2 \in Roots :
         LET m1 == step1(n1, n2)
             m2 == step2(n1, n2)
         IN  /\ m1 = NoNode \/ m2 = NoNode => Meeting(n1, n2) = NoNode
             /\ m1 # NoNode /\ m2 # NoNode =>
                   /\ m1 \in Roots /\ m2 \in Roots
                   /\ Slot[m1] + Slot[m2] < Slot[n1] + Slot[n2]
                   /\ Meeting(n1, n2) = IF m1 = m2 THEN m1 ELSE Meeting(m1, m2)
  BY MeetingStep, Zenon
<1>2. ASSUME NEW f, NEW pr \in Pairs,
             \A q \in Pairs : sum(q) < sum(pr) => f[q] = Meeting(q[1], q[2])
      PROVE  Body(f, pr) = Meeting(pr[1], pr[2])
  <2> DEFINE m1 == step1(pr[1], pr[2])
             m2 == step2(pr[1], pr[2])
  <2>1. pr[1] \in Roots /\ pr[2] \in Roots
    OBVIOUS
  <2>2. /\ m1 = NoNode \/ m2 = NoNode => Meeting(pr[1], pr[2]) = NoNode
        /\ m1 # NoNode /\ m2 # NoNode =>
              /\ m1 \in Roots /\ m2 \in Roots
              /\ Slot[m1] + Slot[m2] < Slot[pr[1]] + Slot[pr[2]]
              /\ Meeting(pr[1], pr[2]) = IF m1 = m2 THEN m1 ELSE Meeting(m1, m2)
    BY <1>1, <2>1
  <2>3. Body(f, pr) = IF m1 = NoNode \/ m2 = NoNode THEN NoNode
                      ELSE IF m1 = m2 THEN m1 ELSE f[<<m1, m2>>]
    OBVIOUS
  <2> HIDE DEF m1, m2, Body
  <2>4. ASSUME m1 # NoNode, m2 # NoNode PROVE f[<<m1, m2>>] = Meeting(m1, m2)
    <3>1. <<m1, m2>> \in Pairs /\ sum(<<m1, m2>>) < sum(pr)
      BY <2>2, <2>4
    <3> QED
      BY <1>2, <3>1
  <2> QED
    BY <2>2, <2>3, <2>4
<1>3. W = [pr \in Pairs |-> Body(W, pr)]
  <2>1. \A q \in Pairs : W[q] = Meeting(q[1], q[2])
    OBVIOUS
  <2> HIDE DEF W, Body
  <2>2. \A pr \in Pairs : Body(W, pr) = Meeting(pr[1], pr[2])
    BY <1>2, <2>1
  <2> QED
    BY <2>2 DEF W
<1>4. meet = CHOOSE f : f = [pr \in Pairs |-> Body(f, pr)]
  BY Zenon DEF meet, step1, step2
<1>5. meet = [pr \in Pairs |-> Body(meet, pr)]
  <2> HIDE DEF W, Body
  <2> QED BY <1>3, <1>4, Zenon
<1> DEFINE bad == {pr \in Pairs : meet[pr] # Meeting(pr[1], pr[2])}
<1>6. bad = {}
  <2> SUFFICES ASSUME bad # {} PROVE FALSE
    OBVIOUS
  <2>1. \A pr \in Pairs : sum(pr) \in Nat
    BY BlocksAssumption
  <2> HIDE DEF sum
  <2>2. {sum(pr) : pr \in bad} \in SUBSET Nat /\ {sum(pr) : pr \in bad} # {}
    BY <2>1
  <2>3. PICK pr \in bad : \A q \in bad : sum(pr) <= sum(q)
    <3>1. \E s \in {sum(q) : q \in bad} : \A u \in {sum(q) : q \in bad} : s <= u
      <4> HIDE DEF bad
      <4> QED BY <2>2, LeastNumber, Zenon
    <3> QED
      BY <3>1
  <2>4. pr \in Pairs /\ \A q \in Pairs : sum(q) < sum(pr) => meet[q] = Meeting(q[1], q[2])
    <3>1. \A q \in Pairs : q \in bad <=> meet[q] # Meeting(q[1], q[2])
      OBVIOUS
    <3>2. pr \in Pairs
      OBVIOUS
    <3> HIDE DEF bad, Pairs
    <3> QED
      BY <2>1, <2>3, <3>1, <3>2
  <2>5. meet[pr] = Body(meet, pr)
    <3> HIDE DEF Body, Pairs
    <3> QED BY <1>5, <2>4
  <2>6. Body(meet, pr) = Meeting(pr[1], pr[2])
    <3> HIDE DEF Body, Pairs
    <3> QED BY <1>2, <2>4
  <2> QED
    BY <2>5, <2>6
<1>7. <<r1, r2>> \in Pairs
  OBVIOUS
<1> QED
  BY <1>6, <1>7

\* CommonAncestor answers with the last block the two chains share.
LEMMA CommonAncestorCorrect == IInv => CommonAncestorExact
<1> SUFFICES ASSUME IInv, NEW r1 \in Connected, NEW r2 \in Connected
             PROVE  CommonAncestor(r1, r2) = Latest(BlockChain[r1] \cap BlockChain[r2])
  BY Zenon DEF CommonAncestorExact, BlockAncestors
<1> DEFINE A(n) == Ancestors(parent, n)
           C == BlockChain[r1] \cap BlockChain[r2]
           D == A(r1) \cap A(r2)
<1>1. /\ r1 \in Roots /\ r2 \in Roots /\ treeRootNode \in Roots
      /\ r1 \in nodeByRoot /\ r2 \in nodeByRoot
  BY ConnectedUp, PresentTree
<1>2. \A n \in Connected :
        /\ A(n) \subseteq BlockChain[n]
        /\ \A x \in BlockChain[n] : Slot[x] >= Slot[treeRootNode] => x \in A(n)
        /\ treeRootNode \in A(n)
  <2>1. \A n \in Connected :
           /\ A(n) = BlockChain[n] \cap Connected
           /\ \A x \in BlockChain[n] : Slot[x] >= Slot[treeRootNode] => x \in A(n)
           /\ treeRootNode \in A(n)
    BY ConnectedChain, Zenon
  <2> QED
    BY <2>1
<1> HIDE DEF A
<1>3. /\ C \in SUBSET Roots /\ C \in SUBSET BlockChain[r1] /\ D \subseteq C /\ treeRootNode \in D
      /\ \A z \in C : Slot[z] <= Slot[r1]
  BY <1>1, <1>2, ChainClosed
<1>4. PICK x \in C : \A z \in C : Slot[z] <= Slot[x]
  <2>1. C # {} /\ Slot[r1] \in Nat
    BY <1>1, <1>3, BlocksAssumption
  <2> HIDE DEF C
  <2> QED
    BY <1>3, <2>1, LatestBlock, Zenon
<1>5. x \in D
  <2>1. Slot[treeRootNode] <= Slot[x] /\ Slot[x] \in Nat /\ Slot[treeRootNode] \in Nat
    BY <1>1, <1>3, <1>4, BlocksAssumption
  <2> QED
    BY <1>2, <2>1
<1>6. \A z \in D : Slot[z] <= Slot[x]
  BY <1>3, <1>4
<1>7. D \in SUBSET BlockChain[r1]
  BY <1>3
<1>8. D = Ancestors(parent, r1) \cap Ancestors(parent, r2)
  BY DEF A
<1> HIDE DEF C, D
<1>9. Latest(C) = x /\ Latest(D) = x
  BY <1>1, <1>3, <1>4, <1>5, <1>6, <1>7, LatestIs, Zenon
<1>10. CASE r1 = r2
  <2>1. CommonAncestor(r1, r2) = r1
    BY <1>1, <1>10, Zenon DEF CommonAncestor
  <2>2. r1 \in C /\ \A z \in C : Slot[z] <= Slot[r1]
    BY <1>1, <1>3, <1>10, ChainClosed DEF C
  <2>3. Latest(C) = r1
    BY <1>1, <1>3, <2>2, LatestIs, Zenon
  <2> QED
    BY <2>1, <2>3 DEF C
<1>11. CASE r1 # r2
  <2>1. CommonAncestor(r1, r2) = meet[<<r1, r2>>]
    BY <1>1, <1>11, Zenon DEF CommonAncestor
  <2>2. meet[<<r1, r2>>] = Meeting(r1, r2)
    BY <1>1, MeetIsMeeting, Zenon
  <2>3. Meeting(r1, r2) = IF D = {} THEN NoNode ELSE Latest(D)
    BY <1>8, <1>11, Zenon DEF Meeting
  <2>4. D # {}
    BY <1>5
  <2>5. CommonAncestor(r1, r2) = x
    BY <1>9, <2>1, <2>2, <2>3, <2>4
  <2> QED
    BY <1>9, <2>5 DEF C
<1> QED
  BY <1>10, <1>11

\* CommonAncestor answers right in every reachable state: its two walks, of which the later one
\* steps, meet at the last block the two chains share, whatever was pruned or imported before.
THEOREM CommonAncestorRight == Spec => []CommonAncestorExact
BY Invariance, CommonAncestorCorrect, PTL

=============================================================================
