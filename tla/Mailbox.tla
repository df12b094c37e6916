------------------------------ MODULE Mailbox ------------------------------
(***************************************************************************)
(* What the outbound half promises a client of POST .../messages, without  *)
(* the queue's receives and timeouts, the worker's batches, crashes and    *)
(* requests: a kept reply is posted once, as one letter or as several when *)
(* the call that posts it is repeated; a letter costs at most MaxSends     *)
(* sends, only while it is posted, and leaves the mailbox in one of three  *)
(* ways; the status shown is one the sends and the provider account for,   *)
(* and once all its letters have left, only the provider's reports move it *)
(***************************************************************************)
EXTENDS Naturals

CONSTANTS
  Replies,   \* the rows of `messages` that replies insert
  Letters,   \* what may be posted for them
  Of,        \* the reply a letter carries
  MaxSends   \* how many sends one letter may cost

VARIABLES
  shown,     \* the status the inbox shows; "absent" while there is no row
  place,     \* where a letter is: none, posted, deleted, dropped (no connection) or dlq
  sends      \* how many of its sends the provider accepted

mailbox == <<shown, place, sends>>

\* The ladder of MessageStatus; "failed" is not on it.
Rank(s) ==
  CASE s = "queued" -> 1 [] s = "sent" -> 2 [] s = "delivered" -> 3
    [] s = "read" -> 4 [] OTHER -> 0

Init ==
  /\ shown = [r \in Replies |-> "absent"]
  /\ place = [l \in Letters |-> "none"]
  /\ sends = [l \in Letters |-> 0]

\* Something is known of the reply beyond its being queued.
Resolved(r) == shown[r] \notin {"absent", "queued"}

Keep(r) ==
  /\ shown[r] = "absent"
  /\ shown' = [shown EXCEPT ![r] = "queued"]
  /\ UNCHANGED <<place, sends>>

\* A reply is posted in one go: no letter follows the first ones later.
Post(S) ==
  /\ \E r \in Replies :
       /\ shown[r] # "absent"
       /\ \A l \in S : Of[l] = r
       /\ \A l \in Letters : Of[l] = r => place[l] = "none"
  /\ place' = [l \in Letters |-> IF l \in S THEN "posted" ELSE place[l]]
  /\ UNCHANGED <<shown, sends>>

Send(l, n) ==
  /\ place[l] = "posted" /\ n > sends[l] /\ n <= MaxSends
  /\ sends' = [sends EXCEPT ![l] = n]
  /\ UNCHANGED <<shown, place>>

ShowSent(l) ==
  /\ place[l] = "posted" /\ sends[l] > 0
  /\ shown' = [shown EXCEPT ![Of[l]] = "sent"]
  /\ UNCHANGED <<place, sends>>

ShowFailed(l) ==
  /\ place[l] = "posted"
  /\ shown' = [shown EXCEPT ![Of[l]] = "failed"]
  /\ UNCHANGED <<place, sends>>

Report(r, s) ==
  /\ \E l \in Letters : Of[l] = r /\ sends[l] > 0
  /\ Resolved(r)
  /\ s = "failed" \/ Rank(s) > Rank(shown[r])
  /\ shown' = [shown EXCEPT ![r] = s]
  /\ UNCHANGED <<place, sends>>

Settle(l) ==
  /\ place[l] = "posted" /\ sends[l] > 0 /\ Resolved(Of[l])
  /\ place' = [place EXCEPT ![l] = "deleted"]
  /\ UNCHANGED <<shown, sends>>

Drop(l) ==
  /\ place[l] = "posted"
  /\ place' = [place EXCEPT ![l] = "dropped"]
  /\ UNCHANGED <<shown, sends>>

\* Letters that used up their receives go to the dead-letter queue, for a human.
Abandon(S) ==
  /\ \A l \in S : place[l] = "posted"
  /\ place' = [l \in Letters |-> IF l \in S THEN "dlq" ELSE place[l]]
  /\ UNCHANGED <<shown, sends>>

Next ==
  \/ \E r \in Replies :
       \/ Keep(r)
       \/ \E s \in {"sent", "delivered", "read", "failed"} : Report(r, s)
  \/ \E l \in Letters :
       \/ ShowSent(l) \/ ShowFailed(l) \/ Settle(l) \/ Drop(l)
       \/ \E n \in 1..MaxSends : Send(l, n)
  \/ \E S \in SUBSET Letters : Post(S) \/ Abandon(S)

Spec == Init /\ [][Next]_mailbox

=============================================================================
