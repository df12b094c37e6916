--------------------------- MODULE MCOrganisation ---------------------------
(***************************************************************************)
(* Organisation for TLC.  Requests and users are interchangeable.          *)
(***************************************************************************)
EXTENDS Organisation, TLC

CONSTANTS a, b, r1, r2, r3, r4

MCRequests == {r1, r2, r3, r4}

Symmetry == Permutations(MCRequests) \cup Permutations({a, b})

=============================================================================
