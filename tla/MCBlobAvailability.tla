------------------------- MODULE MCBlobAvailability -------------------------
(***************************************************************************)
(* Instances of BlobAvailability for TLC.                                  *)
(***************************************************************************)
EXTENDS BlobAvailability, TLC

CONSTANTS i1, d1, d2, d3, d4

\* Two sidecars, each delivered twice.
TwoBlobs == {0, 1}
BothAgain == d1 :> 0 @@ d2 :> 1 @@ d3 :> 0 @@ d4 :> 1
=============================================================================
