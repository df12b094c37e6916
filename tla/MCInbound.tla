------------------------------ MODULE MCInbound ------------------------------
(***************************************************************************)
(* Inbound for TLC: c1 carries the two messages of one customer; c2 is the *)
(* provider's retry of the first of them, together with a message of       *)
(* another customer.                                                       *)
(***************************************************************************)
EXTENDS Inbound

CONSTANTS c1, c2, i1, i2, i3, alice, bob

MCCalls == {c1, c2}

MCIds == {i1, i2, i3}

MCItems == [c \in MCCalls |-> IF c = c1 THEN <<i1, i2>> ELSE <<i1, i3>>]

MCSender == [i \in MCIds |-> IF i = i3 THEN bob ELSE alice]

=============================================================================
