------------------------------ MODULE MCEmail ------------------------------
(***************************************************************************)
(* Instance of Email for TLC: two emails to one customer.                  *)
(***************************************************************************)
EXTENDS Email, TLC

CONSTANTS s1, s2, ann

MCSends == {s1, s2}
MCAddresses == {ann}
MCTo == [s \in MCSends |-> ann]

Symmetry == Permutations(MCSends)

=============================================================================
