------------------------------ MODULE MCRouting ------------------------------
(***************************************************************************)
(* Routing for TLC: two users, one of them not an agent, and two requests  *)
(* beside the worker.                                                      *)
(***************************************************************************)
EXTENDS Routing, TLC

CONSTANTS u1, u2, s1, s2

\* The requests' sessions are interchangeable.
MCSymmetry == Permutations(Sessions)

=============================================================================
