----------------------------- MODULE MCOutbound -----------------------------
(***************************************************************************)
(* Outbound for TLC: two requests that carry one Idempotency-Key, as a     *)
(* client's retry does.  The SDK may post the first one's row twice.       *)
(***************************************************************************)
EXTENDS Outbound

CONSTANTS r1, r2, p1, q1, p2, k

MCRequests == {r1, r2}

MCPosts == {p1, q1, p2}

MCRow == [p \in MCPosts |-> IF p = p2 THEN r2 ELSE r1]

MCDedupKey == [r \in MCRequests |-> k]

=============================================================================
