---------------------------- MODULE MCReceiver ----------------------------
(***************************************************************************)
(* The receiver on a small touchpad.                                       *)
(***************************************************************************)
EXTENDS Receiver, TLC

\* Identifiers are only ever compared with each other.
Symmetry == Permutations(Ids)
=============================================================================
