------------------------- MODULE MCForkChoiceClaims -------------------------
(***************************************************************************)
(* ForkChoiceClaims on the block trees of MCForkChoice.                    *)
(***************************************************************************)
EXTENDS ForkChoiceClaims, MCForkChoice
=============================================================================
