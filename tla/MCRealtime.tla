----------------------------- MODULE MCRealtime -----------------------------
(***************************************************************************)
(* Realtime for TLC: streams of two users of one organisation, which share *)
(* its channel and have one of their own each, and queues of two.          *)
(***************************************************************************)
EXTENDS Realtime, TLC

CONSTANTS a, b, org, ua, ub

MCStreams == {a, b}

MCChannelsOf == (a :> {org, ua}) @@ (b :> {org, ub})

=============================================================================
