--------------------------- MODULE MCPendingBlocks ---------------------------
(***************************************************************************)
(* Instances of PendingBlocks for TLC.                                     *)
(***************************************************************************)
EXTENDS PendingBlocks

CONSTANTS g, a, b1, b2, c2, p1, p2

\* Two children of a in one slot, one with a child.
Tree == [blk \in {a, b1, b2, c2} |-> CASE blk = a -> g [] blk = c2 -> b2 [] OTHER -> a]
TreeSlots == [blk \in {a, b1, b2, c2} |-> CASE blk = a -> 1 [] blk = c2 -> 3 [] OTHER -> 2]
TreeProposers == [blk \in {a, b1, b2, c2} |-> IF blk = b2 THEN p2 ELSE p1]
=============================================================================
