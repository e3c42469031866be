-------------------------- MODULE MCTouchSession --------------------------
(***************************************************************************)
(* The session alone, under every legal sequence of calls.                 *)
(***************************************************************************)
EXTENDS TouchSession, TLC

\* Identifiers are only ever compared with each other.
Symmetry == Permutations(Ids)
=============================================================================
