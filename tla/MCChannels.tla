----------------------------- MODULE MCChannels -----------------------------
(***************************************************************************)
(* Instance of Channels for TLC: of two connections with credentials and   *)
(* one for email two are made; two readers, and secrets that are rotated   *)
(* or deleted once.                                                        *)
(***************************************************************************)
EXTENDS Channels, TLC

CONSTANTS r1, r2, shared, nokey

MCConns == {1, 2, 3}
MCChannelOf == [c \in MCConns |-> IF c = 3 THEN "email" ELSE "whatsapp"]
MCReaders == {r1, r2}

\* Bounds: create_connection is called twice, and one secret is rotated or deleted.
MCNext ==
  /\ Next
  /\ Cardinality({c \in Conns : adm'[c] # "new"}) <= 2
  /\ Cardinality({k \in Keys : secret'[k] > 1}) <= 1

MCSpec == Init /\ [][MCNext]_vars

Symmetry == Permutations(MCReaders)

=============================================================================
