-------------------------- MODULE ForkChoiceProofs --------------------------
(***************************************************************************)
(* Proofs about ForkChoice for every set of blocks, every committee and    *)
(* every bound: the inductive invariant IInv and the safety properties it  *)
(* gives.                                                                  *)
(***************************************************************************)
EXTENDS ForkChoice, FiniteSetTheorems, TLAPS

-----------------------------------------------------------------------------
(* The inductive invariant.  The parts about the tree are stated for any   *)
(* tree (nodes, par, ch, root): an insertion links the new block first and *)
(* prunes the tree it gets.                                                *)

\* A pointer follows what the blocks say.
Pointers(par, ch) ==
    /\ par \in [Roots -> Nodes]
    /\ ch \in [Roots -> SUBSET Roots]
    /\ \A n \in Roots : par[n] # NoNode => par[n] = ParentRoot[n]
    /\ \A n \in Roots : \A c \in ch[n] : ParentRoot[c] = n

\* TreeLinked of any tree.
Linked(nodes, par, ch, root) ==
    /\ par[root] = NoNode
    /\ \A n \in nodes : par[n] # NoNode => par[n] \in nodes /\ n \in ch[par[n]]
    /\ \A n \in nodes : \A c \in ch[n] :
          IF c \in nodes THEN par[c] = n \/ c = root ELSE ch[c] = {}

\* ValidAncestors of any tree.
Validated(nodes, par, opt) ==
    \A n \in nodes : ~opt[n] /\ par[n] # NoNode => ~opt[par[n]]

\* A tree is in order.
TreeOK(nodes, par, ch, tgt, root, opt) ==
    /\ nodes \in SUBSET Roots
    /\ root \in Roots
    /\ tgt \in [Roots -> Nodes]
    /\ Pointers(par, ch)
    /\ Linked(nodes, par, ch, root)
    /\ Validated(nodes, par, opt)

\* Votes, stability and head of any tree with the dropped roots drp, the head hd and
\* the counts att: every node the store refers to was in the map once; VotesCountedOnce,
\* StableHasQuorum and HeadStable.
VotesOK(nodes, drp, par, root, hd, att, stab, vi) ==
    /\ root \in nodes \cup drp
    /\ hd \in nodes \cup drp \cup {NoNode}
    /\ DOMAIN att \subseteq nodes \cup drp
    /\ \A r \in (nodes \cap DOMAIN att) \ drp : att[r] <= Cardinality(vi[r])
    /\ \A n \in nodes :
          stab[n] /\ par[n] # NoNode /\ par[n] \notin drp /\ Slot[par[n]] # 0
             => Cardinality(vi[par[n]]) >= ValidatorPerSlot \div 2
    /\ hd \in nodes \ drp => stab[hd] \/ hd = root

IInv ==
    /\ TypeOK
    /\ TreeOK(nodeByRoot, parent, children, target, treeRootNode, optimistic)
    /\ VotesOK(nodeByRoot, dropped, parent, treeRootNode, headNode, cacheAttCount,
               stabled, validatorIndices)

-----------------------------------------------------------------------------
(* Walks.                                                                  *)

\* A walk visits its start, stays in its range and follows every pointer.
LEMMA ClosureClosed ==
    ASSUME NEW range, NEW succ, NEW n \in range,
           \A x \in range : succ[x] \subseteq range
    PROVE  /\ n \in Closure(range, succ, n)
           /\ Closure(range, succ, n) \subseteq range
           /\ \A x \in Closure(range, succ, n) : succ[x] \subseteq Closure(range, succ, n)
BY Zenon DEF Closure

\* A walk visits nothing else.
LEMMA ClosureLeast ==
    ASSUME NEW range, NEW succ, NEW n, NEW S \in SUBSET range,
           n \in S, \A x \in S : succ[x] \subseteq S
    PROVE  Closure(range, succ, n) \subseteq S
BY Zenon DEF Closure

\* A walk down from n.
LEMMA SubtreeClosed ==
    ASSUME NEW ch \in [Roots -> SUBSET Roots], NEW n \in Roots,
           \A x \in Roots : \A c \in ch[x] : ParentRoot[c] = x
    PROVE  /\ n \in Subtree(ch, n)
           /\ Subtree(ch, n) \subseteq Roots
           /\ \A x \in Subtree(ch, n) : Slot[n] <= Slot[x]
           /\ \A x \in Subtree(ch, n) : ch[x] \subseteq Subtree(ch, n)
<1>1. n \in NotBefore(n)
  BY BlocksAssumption DEF NotBefore
<1>2. ASSUME NEW x \in NotBefore(n), NEW c \in ch[x]
      PROVE  c \in NotBefore(n)
  <2>1. x \in Roots /\ c \in Roots /\ ParentRoot[c] = x /\ Slot[x] >= Slot[n]
    BY <1>2 DEF NotBefore
  <2>2. Slot[x] < Slot[c]
    BY <2>1, BlocksAssumption, ConstantsAssumption
  <2> QED
    BY <2>1, <2>2, BlocksAssumption DEF NotBefore
<1>3. \A x \in NotBefore(n) : ch[x] \subseteq NotBefore(n)
  BY <1>2
<1>4. /\ n \in Subtree(ch, n)
      /\ Subtree(ch, n) \subseteq NotBefore(n)
      /\ \A x \in Subtree(ch, n) : ch[x] \subseteq Subtree(ch, n)
  BY <1>1, <1>3, ClosureClosed DEF Subtree
<1> QED
  BY <1>4, BlocksAssumption DEF NotBefore

\* A walk up from a node of the map stays in the map.
LEMMA AncestorsLive ==
    ASSUME NEW par, NEW ch, NEW nodes \in SUBSET Roots, NEW root, NEW n \in nodes,
           Pointers(par, ch), Linked(nodes, par, ch, root)
    PROVE  Ancestors(par, n) \subseteq nodes
<1> DEFINE S == {x \in nodes : Slot[x] <= Slot[n]}
<1>1. S \subseteq NotAfter(n) /\ n \in S
  BY BlocksAssumption DEF NotAfter
<1>2. ASSUME NEW x \in S
      PROVE  Up(par)[x] \subseteq S
  <2>1. CASE par[x] = NoNode
    BY <2>1 DEF Up
  <2>2. CASE par[x] # NoNode
    <3>1. par[x] = ParentRoot[x] /\ par[x] \in nodes
      BY <2>2 DEF Pointers, Linked
    <3>2. Slot[par[x]] < Slot[x] /\ Slot[par[x]] \in Nat /\ Slot[x] \in Nat /\ Slot[n] \in Nat
      BY <3>1, BlocksAssumption, ConstantsAssumption
    <3>3. par[x] \in S
      BY <3>1, <3>2
    <3> QED
      BY <3>3, <2>2 DEF Up
  <2> QED
    BY <2>1, <2>2
<1>3. Closure(NotAfter(n), Up(par), n) \subseteq S
  BY <1>1, <1>2, ClosureLeast, Zenon
<1> QED
  BY <1>3 DEF Ancestors

-----------------------------------------------------------------------------
(* What the steps do to any tree.                                          *)

\* What prune takes out of the maps.
Gone(fc, ch) == competing(fc.root, ch) \cup incompatible(fc, ch)

\* prune spares the finalized block, deletes the tree root, and deletes with a node
\* everything the node lists except the finalized block.
LEMMA GoneFacts ==
    ASSUME NEW nodes \in SUBSET Roots, NEW par, NEW ch, NEW fc,
           Pointers(par, ch), treeRootNode \in Roots,
           par[treeRootNode] = NoNode, fc.root \in nodes, par[fc.root] # NoNode
    PROVE  /\ fc.root \notin Gone(fc, ch)
           /\ treeRootNode \in Gone(fc, ch)
           /\ Gone(fc, ch) \subseteq Roots
           /\ \A x \in Gone(fc, ch) : \A c \in ch[x] : c = fc.root \/ c \in Gone(fc, ch)
<1> DEFINE f == fc.root
           cut == [ch EXCEPT ![f] = {}]
           late == {x \in ch[f] : Slot[x] <= EpochStart(fc.epoch)}
<1>1. f \in Roots /\ ch \in [Roots -> SUBSET Roots]
  BY DEF Pointers
<1>2. /\ cut \in [Roots -> SUBSET Roots]
      /\ \A x \in Roots : \A c \in cut[x] : ParentRoot[c] = x
  BY <1>1 DEF Pointers
<1>3. /\ treeRootNode \in Subtree(cut, treeRootNode)
      /\ Subtree(cut, treeRootNode) \subseteq Roots
      /\ \A x \in Subtree(cut, treeRootNode) : cut[x] \subseteq Subtree(cut, treeRootNode)
  <2> HIDE DEF cut
  <2> QED BY <1>2, SubtreeClosed
<1>4. ASSUME NEW c \in ch[f]
      PROVE  /\ Subtree(ch, c) \subseteq Roots
             /\ f \notin Subtree(ch, c)
             /\ \A x \in Subtree(ch, c) : ch[x] \subseteq Subtree(ch, c)
  <2>1. c \in Roots /\ ParentRoot[c] = f
    BY <1>1 DEF Pointers
  <2>2. /\ Subtree(ch, c) \subseteq Roots
        /\ \A x \in Subtree(ch, c) : Slot[c] <= Slot[x]
        /\ \A x \in Subtree(ch, c) : ch[x] \subseteq Subtree(ch, c)
    BY <1>1, <2>1, SubtreeClosed DEF Pointers
  <2>3. Slot[f] < Slot[c] /\ Slot[f] \in Nat /\ Slot[c] \in Nat
    BY <1>1, <2>1, BlocksAssumption, ConstantsAssumption
  <2>4. f \notin Subtree(ch, c)
    BY <2>2, <2>3
  <2> QED
    BY <2>2, <2>4
<1>5. /\ competing(f, ch) = Subtree(cut, treeRootNode) \ {f}
      /\ incompatible(fc, ch) \subseteq UNION {Subtree(ch, c) : c \in late}
      /\ \A x \in incompatible(fc, ch) :
            \E c \in late : x \in Subtree(ch, c) /\ Subtree(ch, c) \subseteq incompatible(fc, ch)
  <2>1. competing(f, ch) = Subtree(cut, treeRootNode) \ {f}
    BY DEF competing
  <2>2. incompatible(fc, ch) = {} \/ incompatible(fc, ch) = UNION {Subtree(ch, c) : c \in late}
    BY DEF incompatible
  <2> HIDE DEF late
  <2> QED
    BY <2>1, <2>2, Zenon
<1>6. f \notin Gone(fc, ch)
  BY <1>4, <1>5 DEF Gone
<1>7. treeRootNode \in Gone(fc, ch)
  BY <1>3, <1>5 DEF Gone
<1>8. Gone(fc, ch) \subseteq Roots
  BY <1>3, <1>4, <1>5 DEF Gone
<1>9. ASSUME NEW x \in Gone(fc, ch), NEW c \in ch[x]
      PROVE  c = f \/ c \in Gone(fc, ch)
  <2>1. CASE x \in competing(f, ch)
    <3>1. x # f /\ x \in Roots /\ x \in Subtree(cut, treeRootNode)
      BY <2>1, <1>3, <1>5
    <3>2. cut[x] = ch[x]
      BY <3>1, <1>1
    <3>3. c \in Subtree(cut, treeRootNode)
      <4> HIDE DEF cut
      <4> QED BY <3>1, <3>2, <1>3
    <3> QED
      BY <3>3, <1>5 DEF Gone
  <2>2. CASE x \in incompatible(fc, ch)
    <3>1. PICK d \in late : x \in Subtree(ch, d) /\ Subtree(ch, d) \subseteq incompatible(fc, ch)
      BY <2>2, <1>5
    <3> QED
      BY <3>1, <1>4 DEF Gone
  <2> QED
    BY <2>1, <2>2 DEF Gone
<1> QED
  BY <1>6, <1>7, <1>8, <1>9

\* What a step that may prune the tree (nodes, par) leaves behind.
Shrunk(nodes, par, fc, opt) ==
    /\ TreeOK(nodeByRoot', parent', children', target', treeRootNode', opt)
    /\ dropped' \in SUBSET Roots
    /\ dropped \subseteq dropped'
    /\ nodeByRoot' \subseteq nodes
    /\ nodes \subseteq nodeByRoot' \cup dropped'
    /\ \A n \in Roots : parent'[n] # NoNode => parent'[n] = par[n]
    /\ \/ treeRootNode' = treeRootNode /\ nodeByRoot' = nodes
       \/ /\ treeRootNode' = fc.root /\ fc.root \in nodeByRoot'
          /\ treeRootNode \in dropped' \ nodeByRoot'

\* A prune keeps the tree in order.
LEMMA PruneShrinks ==
    ASSUME NEW nodes, NEW par, NEW ch, NEW tgt, NEW opt, NEW fc,
           TreeOK(nodes, par, ch, tgt, treeRootNode, opt),
           dropped \in SUBSET Roots,
           prune(fc, nodes, par, ch, tgt)
    PROVE  Shrunk(nodes, par, fc, opt)
<1>1. CASE fc.root \notin nodes \/ par[fc.root] = NoNode
  <2>1. /\ nodeByRoot' = nodes /\ parent' = par /\ children' = ch /\ target' = tgt
        /\ treeRootNode' = treeRootNode /\ dropped' = dropped
    BY <1>1 DEF prune
  <2> QED
    BY <2>1 DEF Shrunk, TreeOK, Pointers
<1>2. CASE fc.root \in nodes /\ par[fc.root] # NoNode
  <2> DEFINE f == fc.root
             G == Gone(fc, ch)
  <2>1. /\ nodeByRoot' = nodes \ G
        /\ parent' = [par EXCEPT ![f] = NoNode]
        /\ children' = [x \in Roots |-> IF x \in G THEN {} ELSE ch[x]]
        /\ target' = prunedTarget(f, ch, tgt)
        /\ treeRootNode' = f
        /\ dropped' = dropped \cup G
    BY <1>2, Zenon DEF prune, Gone
  <2>2. /\ nodes \in SUBSET Roots /\ treeRootNode \in Roots /\ f \in Roots
        /\ Pointers(par, ch) /\ Linked(nodes, par, ch, treeRootNode)
        /\ par \in [Roots -> Nodes] /\ ch \in [Roots -> SUBSET Roots]
        /\ tgt \in [Roots -> Nodes]
    BY <1>2 DEF TreeOK, Pointers
  <2>3. /\ f \notin G /\ treeRootNode \in G /\ G \subseteq Roots
        /\ \A x \in G : \A c \in ch[x] : c = f \/ c \in G
    <3>1. par[treeRootNode] = NoNode
      BY <2>2 DEF Linked
    <3> QED
      BY <1>2, <2>2, <3>1, GoneFacts, Zenon
  <2> HIDE DEF G
  <2>4. Pointers(parent', children')
    BY <2>1, <2>2 DEF Pointers, Nodes
  <2>5. target' \in [Roots -> Nodes]
    BY <2>1, <2>2 DEF prunedTarget, Nodes
  <2>6. ASSUME NEW n \in nodeByRoot', parent'[n] # NoNode
        PROVE  parent'[n] \in nodeByRoot' /\ n \in children'[parent'[n]]
    <3>1. n \in nodes /\ n \notin G /\ n # f /\ parent'[n] = par[n]
      BY <2>6, <2>1, <2>2
    <3>2. par[n] \in nodes /\ n \in ch[par[n]]
      BY <3>1, <2>6, <2>2 DEF Linked
    <3>3. par[n] \notin G
      BY <3>1, <3>2, <2>3
    <3> QED
      BY <3>1, <3>2, <3>3, <2>1, <2>2
  <2>7. ASSUME NEW n \in nodeByRoot', NEW c \in children'[n]
        PROVE  IF c \in nodeByRoot' THEN parent'[c] = n \/ c = treeRootNode' ELSE children'[c] = {}
    <3>1. n \in nodes /\ n \in Roots /\ c \in ch[n] /\ c \in Roots
      BY <2>1, <2>2, <2>7
    <3>2. IF c \in nodes THEN par[c] = n \/ c = treeRootNode ELSE ch[c] = {}
      BY <3>1, <2>2 DEF Linked
    <3>3. CASE c \in nodes \ G
      BY <3>1, <3>2, <3>3, <2>1, <2>2, <2>3
    <3>4. CASE c \notin nodes \ G
      BY <3>1, <3>2, <3>4, <2>1, <2>2
    <3> QED
      BY <3>3, <3>4
  <2>8. Linked(nodeByRoot', parent', children', treeRootNode')
    <3>1. parent'[treeRootNode'] = NoNode
      BY <2>1, <2>2
    <3> QED
      BY <3>1, <2>6, <2>7 DEF Linked
  <2>9. \A n \in Roots : parent'[n] # NoNode => parent'[n] = par[n]
    BY <2>1, <2>2
  <2>10. Validated(nodeByRoot', parent', opt)
    <3>1. Validated(nodes, par, opt)
      BY DEF TreeOK
    <3> QED
      BY <3>1, <2>1, <2>2, <2>9 DEF Validated
  <2> QED
    BY <1>2, <2>1, <2>2, <2>3, <2>4, <2>5, <2>8, <2>9, <2>10 DEF Shrunk, TreeOK
<1> QED
  BY <1>1, <1>2

\* updateCheckpoints keeps the tree in order.
LEMMA UpdateCheckpointsShrinks ==
    ASSUME NEW nodes, NEW par, NEW ch, NEW tgt, NEW opt,
           NEW jc \in Checkpoints, NEW fc \in Checkpoints,
           TypeOK,
           TreeOK(nodes, par, ch, tgt, treeRootNode, opt),
           updateCheckpoints(jc, fc, nodes, par, ch, tgt)
    PROVE  /\ Shrunk(nodes, par, fc, opt)
           /\ justifiedCheckpoint' \in Checkpoints
           /\ prevJustifiedCheckpoint' \in Checkpoints
           /\ finalizedCheckpoint' \in Checkpoints
<1>1. justifiedCheckpoint' \in Checkpoints /\ prevJustifiedCheckpoint' \in Checkpoints
  BY DEF updateCheckpoints, TypeOK
<1>2. CASE finalityStands(fc)
  <2>1. /\ nodeByRoot' = nodes /\ parent' = par /\ children' = ch /\ target' = tgt
        /\ treeRootNode' = treeRootNode /\ dropped' = dropped
        /\ finalizedCheckpoint' = finalizedCheckpoint
    BY <1>2 DEF updateCheckpoints
  <2>2. Shrunk(nodes, par, fc, opt)
    BY <2>1 DEF Shrunk, TreeOK, TypeOK, Pointers
  <2> QED
    BY <1>1, <2>1, <2>2 DEF TypeOK
<1>3. CASE ~finalityStands(fc)
  <2>1. finalizedCheckpoint' = fc /\ prune(fc, nodes, par, ch, tgt)
    BY <1>3 DEF updateCheckpoints
  <2>2. Shrunk(nodes, par, fc, opt)
    BY <2>1, PruneShrinks DEF TypeOK
  <2> QED
    BY <1>1, <2>1, <2>2
<1> QED
  BY <1>2, <1>3

\* A prune keeps the votes, stability and head of the tree it is given.
LEMMA ShrunkKeepsVotes ==
    ASSUME NEW nodes, NEW par, NEW fc, NEW opt, NEW hd, NEW att, NEW stab, NEW vi,
           nodes \in SUBSET Roots,
           Shrunk(nodes, par, fc, opt),
           VotesOK(nodes, dropped, par, treeRootNode, hd, att, stab, vi)
    PROVE  VotesOK(nodeByRoot', dropped', parent', treeRootNode', hd, att, stab, vi)
<1>1. /\ nodeByRoot' \subseteq nodes /\ nodes \subseteq nodeByRoot' \cup dropped'
      /\ dropped \subseteq dropped'
      /\ \A n \in Roots : parent'[n] # NoNode => parent'[n] = par[n]
      /\ \/ treeRootNode' = treeRootNode /\ nodeByRoot' = nodes
         \/ treeRootNode' \in nodeByRoot' /\ treeRootNode \in dropped' \ nodeByRoot'
  BY DEF Shrunk
<1>2. /\ treeRootNode' \in nodeByRoot' \cup dropped'
      /\ hd \in nodeByRoot' \cup dropped' \cup {NoNode}
      /\ DOMAIN att \subseteq nodeByRoot' \cup dropped'
  BY <1>1 DEF VotesOK
<1>3. \A r \in (nodeByRoot' \cap DOMAIN att) \ dropped' : att[r] <= Cardinality(vi[r])
  BY <1>1 DEF VotesOK
<1>4. ASSUME NEW n \in nodeByRoot', stab[n], parent'[n] # NoNode, parent'[n] \notin dropped',
             Slot[parent'[n]] # 0
      PROVE  Cardinality(vi[parent'[n]]) >= ValidatorPerSlot \div 2
  <2>1. n \in nodes /\ parent'[n] = par[n] /\ par[n] \notin dropped
    BY <1>1, <1>4
  <2> QED
    BY <2>1, <1>4 DEF VotesOK
<1>5. hd \in nodeByRoot' \ dropped' => stab[hd] \/ hd = treeRootNode'
  BY <1>1 DEF VotesOK
<1> QED
  BY <1>2, <1>3, <1>4, <1>5 DEF VotesOK

\* updateBestDescendant picks a stabled node of the map or none.
LEMMA BestDescendantsStable ==
    ASSUME NEW nodes, NEW par, NEW ch, NEW je, NEW stab, NEW jEpoch,
           NEW h \in BestDescendants(nodes, par, ch, je, stab, jEpoch)
    PROVE  h = NoNode \/ (h \in nodes /\ stab[h])
<1> DEFINE filters == {n \in tips(nodes, ch) : eligible(je, stab, jEpoch, n)}
<1>1. h = NoNode \/ h \in filters
  BY Zenon DEF BestDescendants
<1> QED
  BY <1>1 DEF tips, eligible

\* Linking a new block below its parent keeps the tree in order.
LEMMA LinkOK ==
    ASSUME NEW r \in Roots, NEW tgt \in [Roots -> Nodes], IInv,
           r \notin nodeByRoot, r # treeRootNode, ParentRoot[r] \in nodeByRoot
    PROVE  TreeOK(nodeByRoot \cup {r}, [parent EXCEPT ![r] = ParentRoot[r]],
                  [children EXCEPT ![r] = {}, ![ParentRoot[r]] = children[ParentRoot[r]] \cup {r}],
                  tgt, treeRootNode, [optimistic EXCEPT ![r] = TRUE])
<1> DEFINE p == ParentRoot[r]
           nodes == nodeByRoot \cup {r}
           par == [parent EXCEPT ![r] = p]
           ch == [children EXCEPT ![r] = {}, ![p] = children[p] \cup {r}]
           opt == [optimistic EXCEPT ![r] = TRUE]
<1>1. /\ nodeByRoot \in SUBSET Roots /\ treeRootNode \in Roots
      /\ Pointers(parent, children)
      /\ Linked(nodeByRoot, parent, children, treeRootNode)
      /\ Validated(nodeByRoot, parent, optimistic)
      /\ optimistic \in [Roots -> BOOLEAN]
      /\ parent \in [Roots -> Nodes] /\ children \in [Roots -> SUBSET Roots]
  BY DEF IInv, TreeOK, TypeOK
<1>2. p \in nodeByRoot /\ p \in Roots /\ p # r /\ p # NoNode
  BY <1>1, ConstantsAssumption
<1>3. /\ par \in [Roots -> Nodes] /\ ch \in [Roots -> SUBSET Roots]
      /\ par[r] = p /\ \A n \in Roots \ {r} : par[n] = parent[n]
      /\ ch[r] = {} /\ ch[p] = children[p] \cup {r}
      /\ \A n \in Roots \ {r, p} : ch[n] = children[n]
      /\ opt[r] = TRUE /\ \A n \in Roots \ {r} : opt[n] = optimistic[n]
  BY <1>1, <1>2 DEF Nodes
<1> HIDE DEF par, ch, opt
<1>4. Pointers(par, ch)
  <2>1. \A n \in Roots : par[n] # NoNode => par[n] = ParentRoot[n]
    BY <1>1, <1>3 DEF Pointers
  <2>2. \A n \in Roots : \A c \in ch[n] : ParentRoot[c] = n
    BY <1>1, <1>2, <1>3 DEF Pointers
  <2> QED
    BY <2>1, <2>2, <1>3 DEF Pointers
<1>5. Linked(nodes, par, ch, treeRootNode)
  <2>1. par[treeRootNode] = NoNode
    BY <1>1, <1>3 DEF Linked
  <2>2. ASSUME NEW n \in nodes, par[n] # NoNode
        PROVE  par[n] \in nodes /\ n \in ch[par[n]]
    <3>1. CASE n = r
      BY <3>1, <1>2, <1>3
    <3>2. CASE n # r
      <4>1. parent[n] = par[n] /\ parent[n] \in nodeByRoot /\ n \in children[parent[n]]
        BY <3>2, <2>2, <1>1, <1>3 DEF Linked
      <4> QED
        BY <4>1, <1>1, <1>3
    <3> QED
      BY <3>1, <3>2
  <2>3. ASSUME NEW n \in nodes, NEW c \in ch[n]
        PROVE  IF c \in nodes THEN par[c] = n \/ c = treeRootNode ELSE ch[c] = {}
    <3>1. n # r /\ n \in nodeByRoot
      BY <1>3
    <3>2. CASE c = r
      <4>1. ParentRoot[c] = n
        BY <1>1, <1>4 DEF Pointers
      <4> QED
        BY <4>1, <3>2, <1>3
    <3>3. CASE c # r
      <4>1. c \in children[n] /\ c \in Roots
        BY <3>1, <3>3, <1>1, <1>3
      <4>2. IF c \in nodeByRoot THEN parent[c] = n \/ c = treeRootNode ELSE children[c] = {}
        BY <4>1, <3>1, <1>1 DEF Linked
      <4> QED
        BY <4>1, <4>2, <3>3, <1>2, <1>3
    <3> QED
      BY <3>2, <3>3
  <2> QED
    BY <2>1, <2>2, <2>3 DEF Linked
<1>6. Validated(nodes, par, opt)
  <2> SUFFICES ASSUME NEW n \in nodes, ~opt[n], par[n] # NoNode
               PROVE  ~opt[par[n]]
    BY DEF Validated
  <2>1. n # r /\ n \in nodeByRoot /\ parent[n] = par[n] /\ ~optimistic[n]
    BY <1>1, <1>3
  <2>2. parent[n] \in nodeByRoot /\ ~optimistic[parent[n]]
    BY <2>1, <1>1 DEF Linked, Validated
  <2> QED
    BY <2>1, <2>2, <1>1, <1>3
<1> QED
  BY <1>1, <1>4, <1>5, <1>6 DEF TreeOK, par, ch, opt

-----------------------------------------------------------------------------
(* Every step keeps the invariant: one lemma for each action.              *)

\* The checkpoints that come with a block.
LEMMA BlockCheckpoints ==
    ASSUME NEW r \in Roots
    PROVE  /\ JC[r] \in Checkpoints /\ FC[r] \in Checkpoints
           /\ JC[r].epoch \in Nat
BY BlocksAssumption DEF Checkpoints

\* The insertions, with any checkpoints: fillInForkChoiceMissingBlocks passes others than
\* those of the block.  A repeated insertion changes the checkpoints and prunes at most.
LEMMA InsertKnownInv ==
    ASSUME NEW r \in Roots, NEW jc \in Checkpoints, NEW fc \in Checkpoints, IInv,
           InsertKnown(r, jc, fc)
    PROVE  IInv'
<1> USE DEF IInv
<1>1. /\ updateCheckpoints(jc, fc, nodeByRoot, parent, children, target)
      /\ UNCHANGED <<headNode, cacheSlot, cacheAttCount, receivedBlocksLastEpoch,
                     justifiedEpoch, optimistic, stabled, validatorIndices, currentSlot, checked>>
  BY DEF InsertKnown, cache, environment
<1>2. /\ Shrunk(nodeByRoot, parent, fc, optimistic)
      /\ justifiedCheckpoint' \in Checkpoints
      /\ prevJustifiedCheckpoint' \in Checkpoints
      /\ finalizedCheckpoint' \in Checkpoints
  BY <1>1, UpdateCheckpointsShrinks, Zenon
<1>3. VotesOK(nodeByRoot', dropped', parent', treeRootNode', headNode, cacheAttCount,
              stabled, validatorIndices)
  BY <1>2, ShrunkKeepsVotes, Zenon DEF TypeOK
<1>4. TypeOK'
  BY <1>1, <1>2 DEF TypeOK, Shrunk, TreeOK, Pointers
<1> QED
  BY <1>1, <1>2, <1>3, <1>4 DEF Shrunk

\* A block whose parent is gone joins the map without a parent: no node of the map
\* lists it or points to it.
LEMMA InsertOrphanInv ==
    ASSUME NEW r \in Roots, NEW jc \in Checkpoints, IInv, r # treeRootNode,
           InsertOrphan(r, jc)
    PROVE  IInv'
<1> USE DEF IInv
<1>1. /\ r \notin nodeByRoot /\ ParentRoot[r] \notin nodeByRoot
      /\ nodeByRoot' = nodeByRoot \cup {r}
      /\ parent' = [parent EXCEPT ![r] = NoNode]
      /\ children' = [children EXCEPT ![r] = {}]
      /\ target' = [target EXCEPT ![r] = targetOf(r, NoNode)]
      /\ justifiedEpoch' = [justifiedEpoch EXCEPT ![r] = jc.epoch]
      /\ optimistic' = [optimistic EXCEPT ![r] = TRUE]
      /\ stabled' = [stabled EXCEPT ![r] = FALSE]
      /\ validatorIndices' = [validatorIndices EXCEPT ![r] = {}]
      /\ UNCHANGED <<treeRootNode, dropped, headNode, justifiedCheckpoint,
                     prevJustifiedCheckpoint, finalizedCheckpoint, cacheSlot, cacheAttCount,
                     receivedBlocksLastEpoch, currentSlot, checked>>
  BY DEF InsertOrphan, orphanParent, newNode, checkpoints, cache, environment
<1>2. r # treeRootNode
  OBVIOUS
<1>3. /\ nodeByRoot \in SUBSET Roots /\ treeRootNode \in Roots
      /\ Pointers(parent, children)
      /\ Linked(nodeByRoot, parent, children, treeRootNode)
      /\ Validated(nodeByRoot, parent, optimistic)
      /\ parent \in [Roots -> Nodes] /\ children \in [Roots -> SUBSET Roots]
      /\ optimistic \in [Roots -> BOOLEAN] /\ stabled \in [Roots -> BOOLEAN]
      /\ validatorIndices \in [Roots -> SUBSET Validators]
  BY DEF TreeOK, TypeOK
<1>4. TypeOK'
  <2>1. targetOf(r, NoNode) \in Nodes
    BY DEF targetOf, Nodes
  <2>2. jc.epoch \in Nat
    BY DEF Checkpoints
  <2> QED
    BY <1>1, <2>1, <2>2 DEF TypeOK, Nodes
<1>5. Pointers(parent', children')
  BY <1>1, <1>3 DEF Pointers, Nodes
<1>6. Linked(nodeByRoot', parent', children', treeRootNode')
  <2>1. parent'[treeRootNode'] = NoNode
    BY <1>1, <1>2, <1>3 DEF Linked
  <2>2. ASSUME NEW n \in nodeByRoot', parent'[n] # NoNode
        PROVE  parent'[n] \in nodeByRoot' /\ n \in children'[parent'[n]]
    <3>1. n # r /\ n \in nodeByRoot /\ parent'[n] = parent[n]
      BY <2>2, <1>1, <1>3
    <3>2. parent[n] \in nodeByRoot /\ n \in children[parent[n]]
      BY <3>1, <2>2, <1>3 DEF Linked
    <3> QED
      BY <3>1, <3>2, <1>1, <1>3
  <2>3. ASSUME NEW n \in nodeByRoot', NEW c \in children'[n]
        PROVE  IF c \in nodeByRoot' THEN parent'[c] = n \/ c = treeRootNode'
                                    ELSE children'[c] = {}
    <3>1. n # r /\ n \in nodeByRoot /\ c \in children[n] /\ c \in Roots
      BY <2>3, <1>1, <1>3
    <3>2. c # r
      BY <3>1, <1>1, <1>3 DEF Pointers
    <3>3. IF c \in nodeByRoot THEN parent[c] = n \/ c = treeRootNode ELSE children[c] = {}
      BY <3>1, <1>3 DEF Linked
    <3> QED
      BY <3>1, <3>2, <3>3, <1>1, <1>3
  <2> QED
    BY <2>1, <2>2, <2>3 DEF Linked
<1>7. Validated(nodeByRoot', parent', optimistic')
  <2> SUFFICES ASSUME NEW n \in nodeByRoot', ~optimistic'[n], parent'[n] # NoNode
               PROVE  ~optimistic'[parent'[n]]
    BY DEF Validated
  <2>1. n # r /\ n \in nodeByRoot /\ parent'[n] = parent[n] /\ ~optimistic[n]
    BY <1>1, <1>3
  <2>2. parent[n] \in nodeByRoot /\ ~optimistic[parent[n]]
    BY <2>1, <1>3 DEF Linked, Validated
  <2> QED
    BY <2>1, <2>2, <1>1, <1>3
<1>8. TreeOK(nodeByRoot', parent', children', target', treeRootNode', optimistic')
  BY <1>4, <1>5, <1>6, <1>7 DEF TreeOK, TypeOK
<1>9. VotesOK(nodeByRoot', dropped', parent', treeRootNode', headNode', cacheAttCount',
               stabled', validatorIndices')
  <2>1. /\ treeRootNode' \in nodeByRoot' \cup dropped'
        /\ headNode' \in nodeByRoot' \cup dropped' \cup {NoNode}
        /\ DOMAIN cacheAttCount' \subseteq nodeByRoot' \cup dropped'
    BY <1>1 DEF VotesOK
  <2>2. ASSUME NEW n \in (nodeByRoot' \cap DOMAIN cacheAttCount') \ dropped'
        PROVE  cacheAttCount'[n] <= Cardinality(validatorIndices'[n])
    <3>1. n # r /\ n \in nodeByRoot
      BY <1>1 DEF VotesOK
    <3> QED
      BY <3>1, <1>1, <1>3 DEF VotesOK
  <2>3. ASSUME NEW n \in nodeByRoot', stabled'[n], parent'[n] # NoNode,
               parent'[n] \notin dropped', Slot[parent'[n]] # 0
        PROVE  Cardinality(validatorIndices'[parent'[n]]) >= ValidatorPerSlot \div 2
    <3>1. n # r /\ n \in nodeByRoot /\ parent'[n] = parent[n] /\ stabled[n]
      BY <2>3, <1>1, <1>3
    <3>2. parent[n] \in nodeByRoot /\ parent[n] # r
      BY <3>1, <2>3, <1>1, <1>3 DEF Linked
    <3>3. validatorIndices'[parent[n]] = validatorIndices[parent[n]]
      BY <3>2, <1>1, <1>3
    <3>4. Cardinality(validatorIndices[parent[n]]) >= ValidatorPerSlot \div 2
      BY <3>1, <2>3, <1>1 DEF VotesOK
    <3> QED
      BY <3>1, <3>3, <3>4
  <2>4. ASSUME headNode' \in nodeByRoot' \ dropped'
        PROVE  stabled'[headNode'] \/ headNode' = treeRootNode'
    <3>1. headNode \in nodeByRoot \ dropped /\ headNode # r
      BY <2>4, <1>1, ConstantsAssumption DEF VotesOK
    <3> QED
      BY <3>1, <1>1, <1>3 DEF VotesOK
  <2> QED
    BY <2>1, <2>2, <2>3, <2>4 DEF VotesOK
<1> QED
  BY <1>4, <1>8, <1>9

\* An insertion links, decides stability from counts that VotesCountedOnce bounds,
\* picks a head, and may prune the linked tree.
LEMMA InsertLinkedInv ==
    ASSUME NEW r \in Roots, NEW jc \in Checkpoints, NEW fc \in Checkpoints, IInv,
           r # treeRootNode, InsertLinked(r, jc, fc)
    PROVE  IInv'
<1> USE DEF IInv
<1> DEFINE p == ParentRoot[r]
           nodes == nodeByRoot \cup {r}
           par == [parent EXCEPT ![r] = p]
           ch == [children EXCEPT ![r] = {}, ![p] = children[p] \cup {r}]
           tgt == [target EXCEPT ![r] = targetOf(r, p)]
           je == [justifiedEpoch EXCEPT ![r] = jc.epoch]
           stab == [stabled EXCEPT ![r] = StableOn(p)]
           opt == [optimistic EXCEPT ![r] = TRUE]
           vi == [validatorIndices EXCEPT ![r] = {}]
<1>1. /\ r \notin nodeByRoot /\ p \in nodeByRoot
      /\ justifiedEpoch' = je /\ optimistic' = opt /\ stabled' = stab
      /\ validatorIndices' = vi
      /\ headNode' \in BestDescendants(nodes, par, ch, je, stab, justifiedCheckpoint.epoch)
      /\ recordReceived(r)
      /\ updateCheckpoints(jc, fc, nodes, par, ch, tgt)
      /\ UNCHANGED <<cacheSlot, cacheAttCount, currentSlot, checked>>
  BY Zenon DEF InsertLinked, newNode, cache, environment
<1>2. /\ nodeByRoot \in SUBSET Roots /\ p \in Roots /\ p # NoNode /\ p # r
      /\ Linked(nodeByRoot, parent, children, treeRootNode)
      /\ parent \in [Roots -> Nodes]
      /\ target \in [Roots -> Nodes]
      /\ justifiedEpoch \in [Roots -> Nat]
      /\ optimistic \in [Roots -> BOOLEAN]
      /\ stabled \in [Roots -> BOOLEAN]
      /\ validatorIndices \in [Roots -> SUBSET Validators]
      /\ jc.epoch \in Nat
  BY <1>1, ConstantsAssumption DEF TreeOK, TypeOK, Checkpoints
<1>3. r # treeRootNode
  OBVIOUS
<1>4. tgt \in [Roots -> Nodes]
  BY <1>2 DEF targetOf, Nodes
<1>5. TreeOK(nodes, par, ch, tgt, treeRootNode, opt)
  <2> HIDE DEF tgt, IInv
  <2> QED BY <1>1, <1>3, <1>4, LinkOK
<1>6. /\ je \in [Roots -> Nat] /\ opt \in [Roots -> BOOLEAN]
      /\ vi \in [Roots -> SUBSET Validators]
      /\ vi[r] = {} /\ \A n \in Roots \ {r} : vi[n] = validatorIndices[n]
      /\ par[r] = p /\ \A n \in Roots \ {r} : par[n] = parent[n]
  BY <1>2 DEF Nodes
<1>7. StableOn(p) \in BOOLEAN
  <2>1. CASE p \in DOMAIN cacheAttCount
    <3>1. StableOn(p) = (cacheAttCount[p] >= ValidatorPerSlot \div 2)
      BY <2>1, Zenon DEF StableOn
    <3> QED BY <3>1
  <2>2. CASE p \notin DOMAIN cacheAttCount
    <3>1. StableOn(p) = (Slot[p] = 0)
      BY <2>2, Zenon DEF StableOn
    <3> QED BY <3>1
  <2> QED BY <2>1, <2>2
<1>8. /\ stab \in [Roots -> BOOLEAN]
      /\ stab[r] = StableOn(p) /\ \A n \in Roots \ {r} : stab[n] = stabled[n]
  BY <1>2, <1>7
<1>9. headNode' = NoNode \/ (headNode' \in nodes /\ stab[headNode'])
  BY <1>1, BestDescendantsStable, Zenon
<1> HIDE DEF par, ch, tgt, je, stab, opt, vi
<1>10. VotesOK(nodes, dropped, par, treeRootNode, headNode', cacheAttCount, stab, vi)
  <2>1. /\ treeRootNode \in nodes \cup dropped
        /\ headNode' \in nodes \cup dropped \cup {NoNode}
        /\ DOMAIN cacheAttCount \subseteq nodes \cup dropped
        /\ headNode' \in nodes \ dropped => stab[headNode'] \/ headNode' = treeRootNode
    BY <1>9, <1>2, ConstantsAssumption DEF VotesOK
  <2>2. ASSUME NEW n \in (nodes \cap DOMAIN cacheAttCount) \ dropped
        PROVE  cacheAttCount[n] <= Cardinality(vi[n])
    <3>1. n # r /\ n \in nodeByRoot
      BY <1>1 DEF VotesOK
    <3> QED
      BY <3>1, <1>2, <1>6 DEF VotesOK
  <2>3. ASSUME NEW n \in nodes, stab[n], par[n] # NoNode, par[n] \notin dropped, Slot[par[n]] # 0
        PROVE  Cardinality(vi[par[n]]) >= ValidatorPerSlot \div 2
    <3>1. CASE n = r
      <4>1. par[n] = p /\ StableOn(p) /\ p \notin dropped /\ vi[p] = validatorIndices[p]
        BY <3>1, <2>3, <1>2, <1>6, <1>8
      <4>2. p \in DOMAIN cacheAttCount /\ cacheAttCount[p] >= ValidatorPerSlot \div 2
        BY <4>1, <2>3 DEF StableOn
      <4>3. cacheAttCount[p] <= Cardinality(validatorIndices[p])
        BY <4>1, <4>2, <1>1 DEF VotesOK
      <4>4. cacheAttCount[p] \in Nat
        BY <4>2 DEF TypeOK
      <4>5. Cardinality(validatorIndices[p]) \in Nat
        BY <1>2, ConstantsAssumption, FS_Subset, FS_CardinalityType
      <4>6. ValidatorPerSlot \div 2 \in Nat
        BY ConstantsAssumption
      <4> QED
        BY <4>1, <4>2, <4>3, <4>4, <4>5, <4>6
    <3>2. CASE n # r
      <4>1. n \in nodeByRoot /\ par[n] = parent[n] /\ stabled[n]
        BY <3>2, <2>3, <1>2, <1>6, <1>8
      <4>2. parent[n] \in nodeByRoot /\ parent[n] # r
        BY <4>1, <2>3, <1>1, <1>2 DEF Linked
      <4>3. Cardinality(validatorIndices[parent[n]]) >= ValidatorPerSlot \div 2
        BY <4>1, <2>3 DEF VotesOK
      <4>4. vi[parent[n]] = validatorIndices[parent[n]]
        BY <4>2, <1>2, <1>6
      <4> QED
        BY <4>1, <4>3, <4>4
    <3> QED
      BY <3>1, <3>2
  <2> QED
    BY <2>1, <2>2, <2>3 DEF VotesOK
<1>11. /\ Shrunk(nodes, par, fc, opt)
        /\ justifiedCheckpoint' \in Checkpoints
       /\ prevJustifiedCheckpoint' \in Checkpoints
       /\ finalizedCheckpoint' \in Checkpoints
  BY <1>1, <1>5, UpdateCheckpointsShrinks, Zenon
<1>12. nodes \in SUBSET Roots
  BY <1>2
<1>13. VotesOK(nodeByRoot', dropped', parent', treeRootNode', headNode', cacheAttCount, stab, vi)
  BY <1>10, <1>11, <1>12, ShrunkKeepsVotes, Zenon
<1>14. TypeOK'
  <2>1. receivedBlocksLastEpoch' \in [0 .. SlotsPerEpoch - 1 -> Nat]
    <3>1. Slot[r] \in Nat
      BY BlocksAssumption
    <3> QED
      BY <3>1, <1>1 DEF recordReceived, TypeOK
  <2>2. headNode' \in Nodes
    BY <1>9, <1>12 DEF Nodes
  <2>3. /\ nodeByRoot' \in SUBSET Roots /\ treeRootNode' \in Roots
        /\ parent' \in [Roots -> Nodes] /\ children' \in [Roots -> SUBSET Roots]
        /\ target' \in [Roots -> Nodes] /\ dropped' \in SUBSET Roots
    BY <1>11 DEF Shrunk, TreeOK, Pointers
  <2> QED
    BY <1>1, <1>6, <1>8, <1>11, <2>1, <2>2, <2>3 DEF TypeOK
<1>15. TreeOK(nodeByRoot', parent', children', target', treeRootNode', optimistic')
  BY <1>1, <1>11 DEF Shrunk
<1> QED
  BY <1>1, <1>11, <1>13, <1>14, <1>15

\* An attestation adds its new voters to the node and, one each, to the cached count.
LEMMA ProcessAttestationInv ==
    ASSUME NEW indices \in SUBSET Validators, NEW r \in Roots, NEW s \in Nat, IInv,
           ProcessAttestation(indices, r, s)
    PROVE  IInv'
<1> USE DEF IInv
<1> DEFINE new == newIndex(indices, r)
           old == IF s > cacheSlot THEN [x \in {} |-> 0] ELSE cacheAttCount
           before == IF r \in DOMAIN old THEN old[r] ELSE 0
<1>1. /\ r \in nodeByRoot
      /\ validatorIndices' = [validatorIndices EXCEPT ![r] = @ \cup indices]
      /\ cacheSlot' = IF s > cacheSlot THEN s ELSE cacheSlot
      /\ cacheAttCount' = [x \in DOMAIN old \cup {r} |->
                              IF x = r THEN before + Cardinality(new) ELSE old[x]]
      /\ UNCHANGED <<nodeByRoot, treeRootNode, parent, children, target, dropped, headNode,
                     justifiedCheckpoint, prevJustifiedCheckpoint, finalizedCheckpoint,
                     receivedBlocksLastEpoch, justifiedEpoch, optimistic, stabled, currentSlot, checked>>
  BY Zenon DEF ProcessAttestation, UpdateVoted, tree, checkpoints, environment
<1>2. /\ validatorIndices \in [Roots -> SUBSET Validators]
      /\ validatorIndices[r] \in SUBSET Validators
      /\ new = indices \ validatorIndices[r]
  BY DEF TypeOK, newIndex
<1>3. /\ IsFiniteSet(validatorIndices[r]) /\ IsFiniteSet(new)
      /\ Cardinality(validatorIndices[r]) \in Nat /\ Cardinality(new) \in Nat
  <2> HIDE DEF new
  <2>1. new \in SUBSET Validators
    BY <1>2
  <2>2. IsFiniteSet(validatorIndices[r]) /\ IsFiniteSet(new)
    BY <1>2, <2>1, ConstantsAssumption, FS_Subset
  <2> QED
    BY <2>2, FS_CardinalityType
<1>4. Cardinality(validatorIndices[r] \cup indices) = Cardinality(validatorIndices[r]) + Cardinality(new)
  <2> HIDE DEF new
  <2>1. validatorIndices[r] \cup indices = validatorIndices[r] \cup new
    BY <1>2
  <2>2. validatorIndices[r] \cap new = {}
    BY <1>2
  <2>3. Cardinality(validatorIndices[r] \cup new)
           = Cardinality(validatorIndices[r]) + Cardinality(new) - Cardinality(validatorIndices[r] \cap new)
    BY <1>3, FS_Union
  <2>4. Cardinality(validatorIndices[r] \cap new) = 0
    BY <2>2, FS_EmptySet, Zenon
  <2>5. Cardinality(validatorIndices[r] \cup indices) = Cardinality(validatorIndices[r] \cup new)
    BY <2>1, Zenon
  <2> QED
    BY <2>3, <2>4, <2>5, <1>3
<1> HIDE DEF new
<1>5. /\ DOMAIN old \subseteq DOMAIN cacheAttCount
      /\ DOMAIN old \subseteq Roots
      /\ \A x \in DOMAIN old : old[x] = cacheAttCount[x] /\ old[x] \in Nat
  BY DEF TypeOK
<1> HIDE DEF old
<1>6. /\ before \in Nat
      /\ r \notin dropped => before <= Cardinality(validatorIndices[r])
  BY <1>1, <1>3, <1>5 DEF VotesOK
<1> HIDE DEF before
<1>7. /\ DOMAIN cacheAttCount' = DOMAIN old \cup {r}
      /\ cacheAttCount'[r] = before + Cardinality(new)
      /\ \A x \in DOMAIN old \ {r} : cacheAttCount'[x] = old[x]
  BY <1>1
<1>8. /\ validatorIndices' \in [Roots -> SUBSET Validators]
      /\ validatorIndices'[r] = validatorIndices[r] \cup indices
      /\ \A x \in Roots \ {r} : validatorIndices'[x] = validatorIndices[x]
  BY <1>1, <1>2
<1>9. TypeOK'
  <2>1. \E S \in SUBSET Roots : cacheAttCount' \in [S -> Nat]
    <3>1. DOMAIN old \cup {r} \in SUBSET Roots
      BY <1>5
    <3>2. cacheAttCount' \in [DOMAIN old \cup {r} -> Nat]
      BY <1>1, <1>3, <1>5, <1>6
    <3> QED
      BY <3>1, <3>2
  <2>2. cacheSlot' \in Nat
    BY <1>1 DEF TypeOK
  <2> QED
    BY <1>1, <1>8, <2>1, <2>2 DEF TypeOK
<1>10. TreeOK(nodeByRoot', parent', children', target', treeRootNode', optimistic')
  BY <1>1
<1>11. VotesOK(nodeByRoot', dropped', parent', treeRootNode', headNode', cacheAttCount',
               stabled', validatorIndices')
  <2>1. /\ treeRootNode' \in nodeByRoot' \cup dropped'
        /\ headNode' \in nodeByRoot' \cup dropped' \cup {NoNode}
        /\ DOMAIN cacheAttCount' \subseteq nodeByRoot' \cup dropped'
        /\ headNode' \in nodeByRoot' \ dropped' => stabled'[headNode'] \/ headNode' = treeRootNode'
    BY <1>1, <1>5, <1>7 DEF VotesOK
  <2>2. ASSUME NEW n \in (nodeByRoot' \cap DOMAIN cacheAttCount') \ dropped'
        PROVE  cacheAttCount'[n] <= Cardinality(validatorIndices'[n])
    <3>1. CASE n = r
      BY <3>1, <2>2, <1>1, <1>3, <1>4, <1>6, <1>7, <1>8
    <3>2. CASE n # r
      <4>1. n \in DOMAIN old /\ n \in Roots /\ n \in nodeByRoot /\ n \notin dropped
        BY <3>2, <2>2, <1>1, <1>5, <1>7
      <4>2. cacheAttCount[n] <= Cardinality(validatorIndices[n])
        BY <4>1, <1>5 DEF VotesOK
      <4> QED
        BY <4>1, <4>2, <3>2, <1>5, <1>7, <1>8
    <3> QED
      BY <3>1, <3>2
  <2>3. ASSUME NEW n \in nodeByRoot', stabled'[n], parent'[n] # NoNode,
               parent'[n] \notin dropped', Slot[parent'[n]] # 0
        PROVE  Cardinality(validatorIndices'[parent'[n]]) >= ValidatorPerSlot \div 2
    <3>1. /\ parent'[n] = parent[n] /\ parent[n] \in Roots
          /\ Cardinality(validatorIndices[parent[n]]) >= ValidatorPerSlot \div 2
      BY <2>3, <1>1 DEF VotesOK, TypeOK, Nodes
    <3>2. CASE parent[n] = r
      <4>1. ValidatorPerSlot \div 2 \in Nat
        BY ConstantsAssumption
      <4> QED
        BY <4>1, <3>1, <3>2, <1>3, <1>4, <1>8
    <3>3. CASE parent[n] # r
      BY <3>1, <3>3, <1>8
    <3> QED
      BY <3>2, <3>3
  <2> QED
    BY <2>1, <2>2, <2>3 DEF VotesOK
<1> QED
  BY <1>9, <1>10, <1>11

\* A Head call only replaces the cached head.
LEMMA HeadInv ==
    ASSUME IInv, Head
    PROVE  IInv'
<1> USE DEF IInv
<1>1. PICK h \in BestDescendants(nodeByRoot, parent, children, justifiedEpoch, stabled,
                                 justifiedCheckpoint.epoch) :
         headNode' = IF h = NoNode /\ justifiedCheckpoint.epoch = 0 THEN treeRootNode ELSE h
  BY Zenon DEF Head
<1>2. UNCHANGED <<nodeByRoot, treeRootNode, parent, children, target, dropped,
                  justifiedCheckpoint, prevJustifiedCheckpoint, finalizedCheckpoint, cacheSlot,
                  cacheAttCount, receivedBlocksLastEpoch, justifiedEpoch, optimistic, stabled,
                  validatorIndices, currentSlot, checked>>
  BY DEF Head, tree, checkpoints, cache, environment
<1>3. h = NoNode \/ (h \in nodeByRoot /\ stabled[h])
  BY <1>1, BestDescendantsStable, Zenon
<1>4. \/ headNode' = NoNode \/ headNode' = treeRootNode
      \/ headNode' \in nodeByRoot /\ stabled[headNode']
  BY <1>1, <1>3
<1>5. TypeOK'
  BY <1>2, <1>4 DEF TypeOK, Nodes
<1>6. TreeOK(nodeByRoot', parent', children', target', treeRootNode', optimistic')
  BY <1>2
<1>7. VotesOK(nodeByRoot', dropped', parent', treeRootNode', headNode', cacheAttCount',
              stabled', validatorIndices')
  BY <1>2, <1>4, ConstantsAssumption DEF VotesOK, TypeOK
<1> QED
  BY <1>5, <1>6, <1>7

\* The prune at the start of an epoch.
LEMMA NewSlotInv ==
    ASSUME IInv, NewSlot
    PROVE  IInv'
<1> USE DEF IInv
<1>1. /\ prune(finalizedCheckpoint, nodeByRoot, parent, children, target)
      /\ UNCHANGED <<headNode, justifiedCheckpoint, prevJustifiedCheckpoint,
                     finalizedCheckpoint, cacheSlot, cacheAttCount, receivedBlocksLastEpoch,
                     justifiedEpoch, optimistic, stabled, validatorIndices, currentSlot, checked>>
  BY DEF NewSlot, checkpoints, cache, environment
<1>2. Shrunk(nodeByRoot, parent, finalizedCheckpoint, optimistic)
  BY <1>1, PruneShrinks, Zenon DEF TypeOK
<1>3. VotesOK(nodeByRoot', dropped', parent', treeRootNode', headNode, cacheAttCount,
              stabled, validatorIndices)
  BY <1>2, ShrunkKeepsVotes, Zenon DEF TypeOK
<1>4. TypeOK'
  BY <1>1, <1>2 DEF TypeOK, Shrunk, TreeOK, Pointers
<1> QED
  BY <1>1, <1>2, <1>3, <1>4 DEF Shrunk

\* The walk of setNodeAndParentValidated goes on above a node it found unvalidated.
LEMMA UpToValidClosed ==
    ASSUME NEW n \in Roots, IInv
    PROVE  \A x \in UpToValid(n) :
               x \in Roots /\ (optimistic[x] /\ parent[x] # NoNode => parent[x] \in UpToValid(n))
<1> DEFINE succ == [x \in Roots |-> IF optimistic[x] THEN Up(parent)[x] ELSE {}]
<1>1. n \in NotAfter(n) /\ NotAfter(n) \subseteq Roots
  BY BlocksAssumption DEF NotAfter
<1>2. ASSUME NEW x \in NotAfter(n)
      PROVE  succ[x] \subseteq NotAfter(n)
  <2>1. x \in Roots /\ Slot[x] <= Slot[n] /\ Slot[x] \in Nat /\ Slot[n] \in Nat
    BY BlocksAssumption DEF NotAfter
  <2>2. CASE optimistic[x] /\ parent[x] # NoNode
    <3>1. succ[x] = {parent[x]}
      BY <2>1, <2>2 DEF Up
    <3>2. parent[x] = ParentRoot[x] /\ parent[x] \in Roots
      BY <2>1, <2>2 DEF IInv, TreeOK, Pointers, Nodes
    <3>3. Slot[parent[x]] < Slot[x] /\ Slot[parent[x]] \in Nat
      BY <2>1, <2>2, <3>2, BlocksAssumption
    <3>4. parent[x] \in NotAfter(n)
      BY <2>1, <3>2, <3>3 DEF NotAfter
    <3> QED
      BY <3>1, <3>4
  <2>3. CASE ~(optimistic[x] /\ parent[x] # NoNode)
    BY <2>1, <2>3 DEF Up
  <2> QED
    BY <2>2, <2>3
<1>3. /\ UpToValid(n) \subseteq NotAfter(n)
      /\ \A x \in UpToValid(n) : succ[x] \subseteq UpToValid(n)
  <2>1. UpToValid(n) = Closure(NotAfter(n), succ, n)
    BY Zenon DEF UpToValid
  <2>2. \A x \in NotAfter(n) : succ[x] \subseteq NotAfter(n)
    BY <1>2
  <2> HIDE DEF succ
  <2>3. /\ Closure(NotAfter(n), succ, n) \subseteq NotAfter(n)
        /\ \A x \in Closure(NotAfter(n), succ, n) : succ[x] \subseteq Closure(NotAfter(n), succ, n)
    BY <2>2, <1>1, ClosureClosed
  <2> QED
    BY <2>1, <2>3, Zenon
<1>4. ASSUME NEW x \in UpToValid(n), optimistic[x], parent[x] # NoNode
      PROVE  parent[x] \in UpToValid(n)
  <2>1. x \in Roots
    BY <1>1, <1>3
  <2>2. succ[x] = {parent[x]}
    BY <2>1, <1>4 DEF Up
  <2> HIDE DEF succ
  <2> QED
    BY <2>2, <1>3
<1> QED
  BY <1>1, <1>3, <1>4

\* A VALID verdict validates a node together with the unvalidated nodes above it.
LEMMA SetOptimisticToValidInv ==
    ASSUME NEW r \in Roots, IInv, SetOptimisticToValid(r)
    PROVE  IInv'
<1> USE DEF IInv
<1>1. /\ optimistic' = [x \in Roots |-> optimistic[x] /\ x \notin UpToValid(r)]
      /\ UNCHANGED <<nodeByRoot, treeRootNode, parent, children, target, dropped, headNode,
                     justifiedCheckpoint, prevJustifiedCheckpoint, finalizedCheckpoint,
                     cacheSlot, cacheAttCount, receivedBlocksLastEpoch, justifiedEpoch,
                     stabled, validatorIndices, currentSlot, checked>>
  BY DEF SetOptimisticToValid, tree, checkpoints, cache, environment
<1>2. optimistic' \in [Roots -> BOOLEAN]
  BY <1>1
<1>3. TypeOK'
  BY <1>1, <1>2 DEF TypeOK
<1>4. Validated(nodeByRoot', parent', optimistic')
  <2> SUFFICES ASSUME NEW n \in nodeByRoot, ~optimistic'[n], parent[n] # NoNode
               PROVE  ~optimistic'[parent[n]]
    BY <1>1 DEF Validated
  <2>1. n \in Roots /\ parent[n] \in Roots
    BY DEF TypeOK, Nodes
  <2>2. CASE ~optimistic[n]
    <3>1. ~optimistic[parent[n]]
      BY <2>2 DEF TreeOK, Validated
    <3> QED
      BY <3>1, <2>1, <1>1
  <2>3. CASE optimistic[n]
    <3>1. n \in UpToValid(r)
      BY <2>1, <2>3, <1>1
    <3>2. parent[n] \in UpToValid(r)
      BY <3>1, <2>3, UpToValidClosed
    <3> QED
      BY <3>2, <2>1, <1>1
  <2> QED
    BY <2>2, <2>3
<1>5. TreeOK(nodeByRoot', parent', children', target', treeRootNode', optimistic')
  BY <1>1, <1>4 DEF TreeOK
<1> QED
  BY <1>1, <1>3, <1>5

\* Whatever block and last valid hash an INVALID verdict names, the subtree that
\* leaves the store hangs below a node of the map.
LEMMA InvalidRemovesSubtree ==
    ASSUME NEW r \in Roots, NEW lastValidHash, IInv, SetOptimisticToInvalid(r, lastValidHash)
    PROVE  \E m \in nodeByRoot : removeNode(m)
<1>1. nodeByRoot \in SUBSET Roots
  BY DEF IInv, TypeOK
<1>2. ASSUME NEW n \in nodeByRoot, NEW first \in firstInvalid(n, lastValidHash)
      PROVE  first \in nodeByRoot
  <2>1. first \in Ancestors(parent, n)
    BY DEF firstInvalid
  <2>2. Ancestors(parent, n) \subseteq nodeByRoot
    BY <1>1, AncestorsLive DEF IInv, TreeOK
  <2> QED
    BY <2>1, <2>2
<1>3. CASE invalidateKnown(r, lastValidHash)
  <2>1. PICK first \in firstInvalid(r, lastValidHash) :
           removeNode(IF parent[first] = NoNode THEN r ELSE first)
    BY <1>3 DEF invalidateKnown
  <2>2. r \in nodeByRoot /\ first \in nodeByRoot
    BY <1>2, <1>3 DEF invalidateKnown
  <2> QED
    BY <2>1, <2>2
<1>4. CASE invalidateUnknown(r, lastValidHash)
  <2>1. PICK first \in firstInvalid(ParentRoot[r], lastValidHash) : removeNode(first)
    BY <1>4 DEF invalidateUnknown
  <2> QED
    BY <2>1, <1>2, <1>4 DEF invalidateUnknown
<1> QED
  BY <1>3, <1>4 DEF SetOptimisticToInvalid

\* removeNode takes out unvalidated nodes only, unless the tree root is below m.
LEMMA RemovedUnvalidated ==
    ASSUME NEW m \in nodeByRoot, IInv, optimistic[m],
           treeRootNode \notin Subtree(children, m)
    PROVE  \A x \in Subtree(children, m) \cap nodeByRoot : optimistic[x]
<1> DEFINE G == Subtree(children, m)
           S == {x \in G : IF x \in nodeByRoot THEN optimistic[x] ELSE children[x] = {}}
<1>1. /\ nodeByRoot \in SUBSET Roots /\ m \in Roots
      /\ children \in [Roots -> SUBSET Roots]
      /\ Pointers(parent, children)
      /\ Linked(nodeByRoot, parent, children, treeRootNode)
      /\ Validated(nodeByRoot, parent, optimistic)
      /\ \A x \in Roots : \A c \in children[x] : ParentRoot[c] = x
  BY ConstantsAssumption DEF IInv, TypeOK, TreeOK, Pointers
<1>2. /\ m \in G /\ G \subseteq Roots
      /\ \A x \in G : children[x] \subseteq G
  BY <1>1, SubtreeClosed
<1>3. G \subseteq NotBefore(m)
  BY DEF Subtree, Closure
<1> HIDE DEF G
<1>4. ASSUME NEW x \in S, NEW c \in children[x]
      PROVE  c \in S
  <2>1. x \in G /\ c \in G /\ x \in nodeByRoot /\ optimistic[x]
    BY <1>2
  <2>2. IF c \in nodeByRoot THEN parent[c] = x ELSE children[c] = {}
    BY <2>1, <1>1 DEF Linked, G
  <2>3. c \in nodeByRoot => optimistic[c]
    BY <2>1, <2>2, <1>1, ConstantsAssumption DEF Validated
  <2> QED
    BY <2>1, <2>2, <2>3
<1>5. S \in SUBSET NotBefore(m) /\ m \in S
  BY <1>2, <1>3
<1>6. Closure(NotBefore(m), children, m) \subseteq S
  <2> HIDE DEF S
  <2> QED BY <1>4, <1>5, ClosureLeast, Zenon
<1> QED
  BY <1>6 DEF Subtree

\* A node that a remaining node still lists cannot have been inside the removed
\* subtree, because only its parent lists it.
LEMMA RemovedListed ==
    ASSUME NEW m \in nodeByRoot, IInv, NEW n \in Roots, n \notin Subtree(children, m),
           NEW c \in children[n], c \in Subtree(children, m)
    PROVE  c = m
<1> DEFINE G == Subtree(children, m)
<1> SUFFICES ASSUME c # m PROVE FALSE
  OBVIOUS
<1>1. /\ m \in Roots
      /\ children \in [Roots -> SUBSET Roots]
      /\ \A x \in Roots : \A d \in children[x] : ParentRoot[d] = x
  BY DEF IInv, TypeOK, TreeOK, Pointers
<1>2. /\ m \in G /\ G \subseteq Roots
      /\ \A x \in G : children[x] \subseteq G
  BY <1>1, SubtreeClosed
<1>3. G \subseteq NotBefore(m)
  BY DEF Subtree, Closure
<1> HIDE DEF G
<1>4. \A x \in G \ {c} : children[x] \subseteq G \ {c}
  BY <1>1, <1>2 DEF G
<1>5. G \ {c} \in SUBSET NotBefore(m) /\ m \in G \ {c}
  BY <1>2, <1>3
<1>6. Closure(NotBefore(m), children, m) \subseteq G \ {c}
  BY <1>4, <1>5, ClosureLeast, Zenon
<1> QED
  BY <1>6 DEF Subtree, G

\* An INVALID verdict removes a whole subtree and unlinks its top.
LEMMA SetOptimisticToInvalidInv ==
    ASSUME NEW r \in Roots, NEW lastValidHash, IInv, SetOptimisticToInvalid(r, lastValidHash)
    PROVE  IInv'
<1> USE DEF IInv
<1>1. PICK m \in nodeByRoot : removeNode(m)
  BY InvalidRemovesSubtree, Zenon
<1> DEFINE G == Subtree(children, m)
<1>2. /\ parent[m] # NoNode
      /\ nodeByRoot' = nodeByRoot \ G
      /\ dropped' = dropped \cup G
      /\ children' = [children EXCEPT ![parent[m]] = @ \ {m}]
      /\ UNCHANGED <<treeRootNode, parent, target>>
  BY <1>1, Zenon DEF removeNode, removable, unlink
<1>3. UNCHANGED <<headNode, justifiedCheckpoint, prevJustifiedCheckpoint, finalizedCheckpoint,
                  cacheSlot, cacheAttCount, receivedBlocksLastEpoch, justifiedEpoch, optimistic,
                  stabled, validatorIndices, currentSlot, checked>>
  BY DEF SetOptimisticToInvalid, checkpoints, cache, environment
<1>4. /\ nodeByRoot \in SUBSET Roots /\ m \in Roots /\ dropped \in SUBSET Roots
      /\ children \in [Roots -> SUBSET Roots]
      /\ parent \in [Roots -> Nodes] /\ parent[m] \in Roots
      /\ Pointers(parent, children)
      /\ Linked(nodeByRoot, parent, children, treeRootNode)
      /\ Validated(nodeByRoot, parent, optimistic)
      /\ \A x \in Roots : \A c \in children[x] : ParentRoot[c] = x
  BY <1>2 DEF TypeOK, TreeOK, Pointers, Nodes
<1>5. /\ m \in G /\ G \subseteq Roots
      /\ \A x \in G : children[x] \subseteq G
  BY <1>4, SubtreeClosed
<1>6. \A n \in Roots \ G : \A c \in children[n] : c \in G => c = m
  BY <1>1, RemovedListed, Zenon
<1> HIDE DEF G
<1>7. /\ children' \in [Roots -> SUBSET Roots]
      /\ \A x \in Roots : children'[x] \subseteq children[x]
      /\ \A x \in Roots : \A c \in children[x] \ {m} : c \in children'[x]
      /\ m \notin children'[parent[m]]
  BY <1>2, <1>4
<1>8. TypeOK'
  BY <1>2, <1>3, <1>4, <1>5, <1>7 DEF TypeOK
<1>9. Pointers(parent', children')
  BY <1>2, <1>4, <1>7 DEF Pointers
<1>10. Linked(nodeByRoot', parent', children', treeRootNode')
  <2>1. parent'[treeRootNode'] = NoNode
    BY <1>2, <1>4 DEF Linked
  <2>2. ASSUME NEW n \in nodeByRoot', parent'[n] # NoNode
        PROVE  parent'[n] \in nodeByRoot' /\ n \in children'[parent'[n]]
    <3>1. n \in nodeByRoot /\ n \notin G /\ n # m /\ parent'[n] = parent[n]
      BY <1>2, <1>5
    <3>2. parent[n] \in nodeByRoot /\ n \in children[parent[n]]
      BY <3>1, <2>2, <1>4 DEF Linked
    <3>3. parent[n] \notin G
      BY <3>1, <3>2, <1>5
    <3> QED
      BY <3>1, <3>2, <3>3, <1>2, <1>4, <1>7
  <2>3. ASSUME NEW n \in nodeByRoot', NEW c \in children'[n]
        PROVE  IF c \in nodeByRoot' THEN parent'[c] = n \/ c = treeRootNode'
                                    ELSE children'[c] = {}
    <3>1. n \in nodeByRoot /\ n \notin G /\ n \in Roots /\ c \in children[n] /\ c \in Roots
      BY <1>2, <1>4, <1>7
    <3>2. IF c \in nodeByRoot THEN parent[c] = n \/ c = treeRootNode ELSE children[c] = {}
      BY <3>1, <1>4 DEF Linked
    <3>3. c \notin G
      <4> SUFFICES ASSUME c \in G PROVE FALSE
        OBVIOUS
      <4>1. c = m
        BY <3>1, <1>6
      <4>2. parent[m] = n
        BY <4>1, <3>1, <1>2, <1>4 DEF Pointers
      <4> QED
        BY <4>1, <4>2, <2>3, <1>7
    <3> QED
      BY <3>1, <3>2, <3>3, <1>2, <1>7
  <2> QED
    BY <2>1, <2>2, <2>3 DEF Linked
<1>11. Validated(nodeByRoot', parent', optimistic')
  BY <1>2, <1>3, <1>4 DEF Validated
<1>12. TreeOK(nodeByRoot', parent', children', target', treeRootNode', optimistic')
  BY <1>8, <1>9, <1>10, <1>11 DEF TreeOK, TypeOK
<1>13. VotesOK(nodeByRoot', dropped', parent', treeRootNode', headNode', cacheAttCount',
               stabled', validatorIndices')
  <2>1. VotesOK(nodeByRoot', dropped', parent, treeRootNode, headNode, cacheAttCount,
                stabled, validatorIndices)
    BY <1>2 DEF VotesOK
  <2> QED
    BY <2>1, <1>2, <1>3
<1> QED
  BY <1>8, <1>12, <1>13

-----------------------------------------------------------------------------
(* The theorems.                                                           *)

\* The store set up by the chain service satisfies the invariant.
LEMMA InitInv == Init => IInv
<1> SUFFICES ASSUME Init PROVE IInv
  OBVIOUS
<1> USE DEF Init
<1>1. Slot[StartRoot] \in Nat /\ JC[StartRoot].epoch \in Nat
  BY ConstantsAssumption, BlocksAssumption, BlockCheckpoints
<1>2. TypeOK
  <2>1. cacheAttCount \in [{} -> Nat]
    OBVIOUS
  <2>2. /\ justifiedCheckpoint \in Checkpoints /\ finalizedCheckpoint \in Checkpoints
        /\ prevJustifiedCheckpoint \in Checkpoints
    BY ConstantsAssumption DEF Checkpoints
  <2>3. receivedBlocksLastEpoch \in [0 .. SlotsPerEpoch - 1 -> Nat]
    BY <1>1
  <2>4. justifiedEpoch \in [Roots -> Nat]
    BY <1>1
  <2>5. optimistic \in [Roots -> BOOLEAN]
    BY ConstantsAssumption
  <2> QED
    BY <2>1, <2>2, <2>3, <2>4, <2>5, ConstantsAssumption DEF TypeOK, Nodes
<1>3. TreeOK(nodeByRoot, parent, children, target, treeRootNode, optimistic)
  BY <1>2, ConstantsAssumption DEF TreeOK, Pointers, Linked, Validated, TypeOK
<1>4. VotesOK(nodeByRoot, dropped, parent, treeRootNode, headNode, cacheAttCount,
              stabled, validatorIndices)
  BY ConstantsAssumption DEF VotesOK
<1> QED
  BY <1>2, <1>3, <1>4 DEF IInv

\* Every step keeps the invariant.
LEMMA StepInv == IInv /\ [Next]_vars => IInv'
<1> SUFFICES ASSUME IInv, [Next]_vars PROVE IInv'
  OBVIOUS
<1>1. ASSUME NEW r \in Roots, ReceiveBlock(r) \/ InsertNode(r) PROVE IInv'
  <2>1. CASE ReceiveBlock(r)
    BY <2>1 DEF ReceiveBlock, IInv, TypeOK, tree, checkpoints, cache
  <2>2. CASE InsertKnown(r, JC[r], FC[r])
    BY <2>2, BlockCheckpoints, InsertKnownInv, Zenon
  <2>3. CASE unaliased(r) /\ InsertOrphan(r, JC[r])
    BY <2>3, BlockCheckpoints, InsertOrphanInv, Zenon DEF unaliased
  <2>4. CASE unaliased(r) /\ InsertLinked(r, JC[r], FC[r])
    BY <2>4, BlockCheckpoints, InsertLinkedInv, Zenon DEF unaliased
  <2> QED
    BY <1>1, <2>1, <2>2, <2>3, <2>4 DEF InsertNode, InsertOrphan, InsertLinked
<1>2. ASSUME NEW s \in 0 .. MaxSlot, NEW indices \in SUBSET Committee[s] \ {{}},
             NEW r \in Roots, ProcessAttestation(indices, r, s)
      PROVE  IInv'
  <2>1. s \in Nat /\ indices \in SUBSET Validators
    BY ConstantsAssumption
  <2> QED
    BY <1>2, <2>1, ProcessAttestationInv
<1>3. CASE Head
  BY <1>3, HeadInv
<1>4. CASE NewSlot
  BY <1>4, NewSlotInv
<1>5. CASE Tick
  BY <1>5 DEF Tick, IInv, TypeOK, tree, checkpoints, cache
<1>6. ASSUME NEW r \in Roots, SetOptimisticToValid(r) PROVE IInv'
  BY <1>6, SetOptimisticToValidInv
<1>7. ASSUME NEW r \in Roots, NEW lastValidHash, SetOptimisticToInvalid(r, lastValidHash)
      PROVE  IInv'
  BY <1>7, SetOptimisticToInvalidInv
<1>8. CASE UNCHANGED vars
  BY <1>8 DEF vars, IInv, TypeOK, tree, checkpoints, cache, environment
<1> QED
  BY <1>1, <1>2, <1>3, <1>4, <1>5, <1>6, <1>7, <1>8
  DEF Next, OnAttestation, handleBlockAttestations

\* The invariant holds in every reachable state, for every set of blocks and committees.
THEOREM Invariance == Spec => []IInv
BY InitInv, StepInv, PTL DEF Spec

\* Whatever blocks, votes, ticks and verdicts reach the store, its fields keep their
\* types.
THEOREM TypeCorrect == Spec => []TypeOK
<1>1. IInv => TypeOK
  BY DEF IInv
<1> QED
  BY <1>1, Invariance, PTL

\* The map of nodes and the pointers of the tree agree after any sequence of
\* insertions, orphan insertions, prunes and invalidations.
THEOREM TreeStaysLinked == Spec => []TreeLinked
<1>1. IInv => TreeLinked
  BY DEF IInv, TreeOK, Linked, TreeLinked
<1> QED
  BY <1>1, Invariance, PTL

\* No validated block ever has an unvalidated parent.
THEOREM ValidatedChains == Spec => []ValidAncestors
<1>1. IInv => ValidAncestors
  BY DEF IInv, TreeOK, Validated, ValidAncestors
<1> QED
  BY <1>1, Invariance, PTL

\* No validator is counted twice for a block by the attestation cache.
THEOREM NoDoubleCount == Spec => []VotesCountedOnce
<1>1. IInv => VotesCountedOnce
  BY DEF IInv, VotesOK, VotesCountedOnce
<1> QED
  BY <1>1, Invariance, PTL

\* A stabled block extends genesis or a block that half a committee voted for.
THEOREM StableQuorum == Spec => []StableHasQuorum
<1>1. IInv => StableHasQuorum
  BY DEF IInv, VotesOK, StableHasQuorum
<1> QED
  BY <1>1, Invariance, PTL

\* The cached head is stabled, or the tree root, while it is in the store.
THEOREM HeadIsStable == Spec => []HeadStable
<1>1. IInv => HeadStable
  BY DEF IInv, VotesOK, HeadStable
<1> QED
  BY <1>1, Invariance, PTL

\* The step of ValidatedKept.
KeepsValidated ==
    \A r \in nodeByRoot \ nodeByRoot' : ~optimistic[r] => treeRootNode \notin nodeByRoot'

\* A prune that removes anything removes the tree root.
LEMMA ShrunkKeepsValidated ==
    ASSUME NEW nodes, NEW par, NEW fc, NEW opt,
           nodeByRoot \subseteq nodes, Shrunk(nodes, par, fc, opt)
    PROVE  KeepsValidated
BY DEF Shrunk, KeepsValidated

\* No step removes a validated node while the tree root stays.
LEMMA StepKeepsValidated == IInv /\ Next => KeepsValidated
<1> SUFFICES ASSUME IInv, Next PROVE KeepsValidated
  OBVIOUS
<1>1. TypeOK
      /\ TreeOK(nodeByRoot, parent, children, target, treeRootNode, optimistic)
  BY DEF IInv
<1>2. ASSUME NEW r \in Roots, InsertKnown(r, JC[r], FC[r]) PROVE KeepsValidated
  <2>1. Shrunk(nodeByRoot, parent, FC[r], optimistic)
    BY <1>1, <1>2, BlockCheckpoints, UpdateCheckpointsShrinks, Zenon DEF InsertKnown
  <2> QED
    BY <2>1, ShrunkKeepsValidated, Zenon
<1>3. ASSUME NEW r \in Roots, InsertOrphan(r, JC[r]) PROVE KeepsValidated
  BY <1>3 DEF InsertOrphan, KeepsValidated
<1>4. ASSUME NEW r \in Roots, unaliased(r), InsertLinked(r, JC[r], FC[r]) PROVE KeepsValidated
  <2> DEFINE p == ParentRoot[r]
             nodes == nodeByRoot \cup {r}
             par == [parent EXCEPT ![r] = p]
             ch == [children EXCEPT ![r] = {}, ![p] = children[p] \cup {r}]
             tgt == [target EXCEPT ![r] = targetOf(r, p)]
             opt == [optimistic EXCEPT ![r] = TRUE]
  <2>1. /\ r \notin nodeByRoot /\ p \in nodeByRoot
        /\ updateCheckpoints(JC[r], FC[r], nodes, par, ch, tgt)
    BY <1>4, Zenon DEF InsertLinked
  <2>2. tgt \in [Roots -> Nodes]
    BY <1>1, <2>1 DEF targetOf, Nodes, TypeOK
  <2>3. r # treeRootNode
    BY <1>4 DEF unaliased
  <2>4. TreeOK(nodes, par, ch, tgt, treeRootNode, opt)
    <3> HIDE DEF tgt
    <3> QED BY <2>1, <2>2, <2>3, LinkOK
  <2> HIDE DEF par, ch, tgt, opt
  <2>5. Shrunk(nodes, par, FC[r], opt)
    BY <1>1, <2>1, <2>4, BlockCheckpoints, UpdateCheckpointsShrinks, Zenon
  <2>6. nodeByRoot \subseteq nodes
    OBVIOUS
  <2> QED
    BY <2>5, <2>6, ShrunkKeepsValidated, Zenon
<1>5. CASE NewSlot
  <2>1. Shrunk(nodeByRoot, parent, finalizedCheckpoint, optimistic)
    BY <1>1, <1>5, PruneShrinks, Zenon DEF TypeOK, NewSlot
  <2> QED
    BY <2>1, ShrunkKeepsValidated, Zenon
<1>6. ASSUME NEW r \in Roots, NEW lastValidHash, SetOptimisticToInvalid(r, lastValidHash)
      PROVE  KeepsValidated
  <2>1. PICK m \in nodeByRoot : removeNode(m)
    BY <1>6, InvalidRemovesSubtree, Zenon
  <2>2. optimistic[m] /\ nodeByRoot' = nodeByRoot \ Subtree(children, m)
    BY <2>1, Zenon DEF removeNode, removable
  <2>3. CASE treeRootNode \in Subtree(children, m)
    BY <2>2, <2>3 DEF KeepsValidated
  <2>4. CASE treeRootNode \notin Subtree(children, m)
    <3>1. \A x \in Subtree(children, m) \cap nodeByRoot : optimistic[x]
      BY <2>2, <2>4, RemovedUnvalidated, Zenon
    <3> QED
      BY <2>2, <3>1 DEF KeepsValidated
  <2> QED
    BY <2>3, <2>4
<1>7. ASSUME UNCHANGED nodeByRoot PROVE KeepsValidated
  BY <1>7 DEF KeepsValidated
<1>8. CASE \E r \in Roots : ReceiveBlock(r) \/ InsertNode(r)
  <2>1. PICK r \in Roots : ReceiveBlock(r) \/ InsertNode(r)
    BY <1>8
  <2>2. CASE ReceiveBlock(r)
    BY <1>7, <2>2 DEF ReceiveBlock, tree
  <2>3. CASE InsertNode(r)
    BY <1>2, <1>3, <1>4, <2>3 DEF InsertNode, InsertLinked
  <2> QED
    BY <2>1, <2>2, <2>3
<1>9. CASE Head \/ Tick \/ \E r \in Roots : SetOptimisticToValid(r)
  BY <1>7, <1>9 DEF Head, Tick, SetOptimisticToValid, tree
<1>10. CASE \E s \in 0 .. MaxSlot : \E indices \in SUBSET Committee[s] \ {{}}, r \in Roots :
               ProcessAttestation(indices, r, s)
  BY <1>7, <1>10 DEF ProcessAttestation, tree
<1> QED
  BY <1>5, <1>6, <1>8, <1>9, <1>10 DEF Next, OnAttestation, handleBlockAttestations

\* As long as the tree root stays in the store, every validated block does: an INVALID
\* verdict removes unvalidated blocks only.
THEOREM ValidatedBlocksKept == Spec => ValidatedKept
<1>1. IInv /\ [Next]_vars =>
        [\A r \in nodeByRoot \ nodeByRoot' : ~optimistic[r] => treeRootNode \notin nodeByRoot']_vars
  BY StepKeepsValidated DEF KeepsValidated
<1> QED
  BY <1>1, Invariance, PTL DEF Spec, ValidatedKept
=============================================================================
