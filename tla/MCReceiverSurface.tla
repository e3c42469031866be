------------------------- MODULE MCReceiverSurface -------------------------
(***************************************************************************)
(* The receiver and the surface it implements, on a small touchpad.        *)
(***************************************************************************)
EXTENDS ReceiverSurface, TLC

\* Identifiers are only ever compared with each other.
Symmetry == Permutations(Ids)
=============================================================================
