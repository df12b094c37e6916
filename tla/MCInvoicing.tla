---------------------------- MODULE MCInvoicing -----------------------------
(***************************************************************************)
(* Invoicing for TLC: two sessions serve any sequence of requests, two at  *)
(* a time, on one invoice.                                                 *)
(***************************************************************************)
EXTENDS Invoicing, TLC

CONSTANTS s1, s2, k

MCAdjustments == {-1, 0}

\* Sessions are interchangeable, and only safety is checked.
MCSymmetry == Permutations(Sessions)

=============================================================================
