------------------------ MODULE MCProposerProtection ------------------------
(***************************************************************************)
(* The instance of ProposerProtection for TLC: three epochs of two slots.  *)
(***************************************************************************)
EXTENDS ProposerProtection
=============================================================================
