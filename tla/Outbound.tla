------------------------------ MODULE Outbound ------------------------------
(***************************************************************************)
(* The outbound half of the Omni-Channel service: an agent's reply goes    *)
(* from POST .../messages (handlers.send_reply) through the shared SQS     *)
(* queue (queues.py, with its dead-letter queue) to the one worker task    *)
(* (worker.process_outbound_batch), which calls the channel's provider;    *)
(* the provider's delivery statuses come back through the inbound queue    *)
(* and are applied by the same worker (worker._apply_delivery_status).     *)
(*                                                                         *)
(* A request and the row it inserts share one name: a request inserts at   *)
(* most one row of `messages`.  Everything that happens between two awaits *)
(* is one step; a step that raises (an AWS, Postgres or provider error)    *)
(* and a process crash may come between any two of them.                   *)
(*                                                                         *)
(* The SDK repeats an AWS call whose answer it did not get                 *)
(* (clients.py:41-45), so one send_message may leave several SQS messages  *)
(* for one row, each with a receive count of its own, and one send through *)
(* SES may be accepted several times.  A repeated receive_message loses    *)
(* what the first one handed out, which is ReceiveOutbound followed by     *)
(* IterationFailed; a repeated delete_message deletes nothing more.        *)
(***************************************************************************)
EXTENDS Naturals, FiniteSets

CONSTANTS
  Requests,         \* calls of send_reply, and the message rows they insert
  Posts,            \* the SQS messages that may be queued for them
  Row,              \* the row an SQS message names
  Keys,             \* values of the Idempotency-Key header
  NoKey,            \* the header is absent
  DedupKey,         \* the key each request carries
  None,             \* no message
  ProviderStatuses, \* the delivery statuses the channel's provider reports
  MaxReceiveCount,  \* config.SQS_MAX_RECEIVE_COUNT (5 in the code)
  MaxBatch,         \* messages per receive_outbound call (10 in the code)
  MaxAttempts       \* calls of the provider one send_outbound may make: the SDK's
                    \* attempts for an email, 1 for the HTTP providers

ASSUME OutboundAssumption ==
  /\ NoKey \notin Keys
  /\ None \notin Requests \cup Posts \cup (Posts \X Nat)
  /\ Row \in [Posts -> Requests]
  /\ DedupKey \in [Requests -> Keys \cup {NoKey}]
  /\ ProviderStatuses \subseteq {"sent", "delivered", "read", "failed"}
  /\ MaxReceiveCount \in Nat \ {0}
  /\ MaxBatch \in Nat \ {0}
  /\ MaxAttempts \in Nat \ {0}

VARIABLES
  req,         \* progress of each send_reply call
  answer,      \* the message each call returned to its client, or None
  status,      \* messages.status; "absent" while there is no row
  extId,       \* messages.external_message_id: None is the "pending:" placeholder,
               \* <<p, n>> the id of the n-th send for p that the provider accepted
  queue,       \* where an SQS message is: "deleted" when it was resolved,
               \* "dropped" when it was deleted for want of an active connection
  receives,    \* its ApproximateReceiveCount
  step,        \* what the worker does next
  cur,         \* the SQS message the worker is handling, or None
  batch,       \* received SQS messages the worker has not begun to handle
  accepted     \* history: how many sends for an SQS message the provider accepted

api == <<req, answer>>
row == <<status, extId>>
sqs == <<queue, receives>>
worker == <<step, cur, batch>>
vars == <<req, answer, status, extId, queue, receives, step, cur, batch,
          accepted>>

Ladder == {"queued", "sent", "delivered", "read"}

MessageStatus == Ladder \cup {"failed"}

(***************************************************************************)
(* _STATUS_RANK.get(s, -1), shifted up by one to stay in Nat: a status     *)
(* that is not on the ladder, "failed" among them, ranks below "queued".   *)
(***************************************************************************)
StatusRank(s) ==
  CASE s = "queued" -> 1 [] s = "sent" -> 2 [] s = "delivered" -> 3
    [] s = "read" -> 4 [] OTHER -> 0

Init ==
  /\ req = [r \in Requests |-> "new"]
  /\ answer = [r \in Requests |-> None]
  /\ status = [r \in Requests |-> "absent"]
  /\ extId = [r \in Requests |-> None]
  /\ queue = [p \in Posts |-> "none"]
  /\ receives = [p \in Posts |-> 0]
  /\ step = "idle"
  /\ cur = None
  /\ batch = {}
  /\ accepted = [p \in Posts |-> 0]

-----------------------------------------------------------------------------
(***************************************************************************)
(* send_reply.                                                             *)
(***************************************************************************)

\* Message m is the one an earlier request with r's Idempotency-Key inserted.
FindByDedupKey(r, m) ==
  /\ DedupKey[r] # NoKey
  /\ status[m] # "absent"
  /\ DedupKey[m] = DedupKey[r]

Answer(r, m) ==
  /\ req' = [req EXCEPT ![r] = "done"]
  /\ answer' = [answer EXCEPT ![r] = m]

\* The lookup before the send finds the key: the existing message is returned.
SendReplyReplay(r) ==
  /\ req[r] = "new"
  /\ \E m \in Requests : FindByDedupKey(r, m) /\ Answer(r, m)
  /\ UNCHANGED <<row, sqs, worker, accepted>>

\* The role, the conversation, the lookup and the rate limit all pass.
SendReplyChecked(r) ==
  /\ req[r] = "new"
  /\ \A m \in Requests : ~FindByDedupKey(r, m)
  /\ req' = [req EXCEPT ![r] = "checked"]
  /\ UNCHANGED <<answer, row, sqs, worker, accepted>>

\* Mutant: the unique index is gone and the INSERT always succeeds.
SendReplyCommitNoIndex(r) ==
  /\ req[r] = "checked"
  /\ status' = [status EXCEPT ![r] = "queued"]
  /\ req' = [req EXCEPT ![r] = "committed"]
  /\ UNCHANGED <<answer, extId, sqs, worker, accepted>>

\* The INSERT commits; uq_message_client_dedup lets no second row have the key.
SendReplyCommit(r) ==
  /\ req[r] = "checked"
  /\ \A m \in Requests : ~FindByDedupKey(r, m)
  /\ status' = [status EXCEPT ![r] = "queued"]
  /\ req' = [req EXCEPT ![r] = "committed"]
  /\ UNCHANGED <<answer, extId, sqs, worker, accepted>>

\* The INSERT violates the index: roll back and return the winner's message.
SendReplyLostRace(r) ==
  /\ req[r] = "checked"
  /\ \E m \in Requests : FindByDedupKey(r, m) /\ Answer(r, m)
  /\ UNCHANGED <<row, sqs, worker, accepted>>

\* send_message: every attempt that reached SQS left an SQS message, and the
\* session's retries (standard mode) make one call several attempts.
Enqueued(r) ==
  \E S \in SUBSET {p \in Posts : Row[p] = r} :
    /\ S # {}
    /\ queue' = [p \in Posts |-> IF p \in S THEN "visible" ELSE queue[p]]

\* enqueue_outbound succeeds and the new message is returned.
SendReplyEnqueue(r) ==
  /\ req[r] = "committed"
  /\ Enqueued(r)
  /\ Answer(r, r)
  /\ UNCHANGED <<receives, row, worker, accepted>>

\* send_message took effect, but no response ever reached the process.
SendReplyEnqueueUnacknowledged(r) ==
  /\ req[r] = "committed"
  /\ Enqueued(r)
  /\ req' = [req EXCEPT ![r] = "failed"]
  /\ UNCHANGED <<answer, receives, row, worker, accepted>>

\* A raise of Postgres or SQS.  One before (role, unknown conversation, rate limit)
\* has changed nothing: such a request is one that stays "new".
SendReplyRaises(r) ==
  /\ req[r] \in {"checked", "committed"}
  /\ req' = [req EXCEPT ![r] = "failed"]
  /\ UNCHANGED <<answer, row, sqs, worker, accepted>>

send_reply(r) ==
  \/ SendReplyReplay(r)
  \/ SendReplyChecked(r)
  \/ SendReplyCommit(r)
  \/ SendReplyLostRace(r)
  \/ SendReplyEnqueue(r)
  \/ SendReplyEnqueueUnacknowledged(r)
  \/ SendReplyRaises(r)

-----------------------------------------------------------------------------
(***************************************************************************)
(* One outbound iteration of run_forever: receive a batch, handle its      *)
(* messages one after the other, and end the iteration.  SQS promises no   *)
(* order, so the next message of the batch is any of them.                 *)
(***************************************************************************)

\* Mutant: one receive more than the queue's redrive policy allows.
ReceiveOutboundOneMore(S) ==
  /\ step = "idle"
  /\ S # {} /\ Cardinality(S) <= MaxBatch
  /\ \A p \in S : queue[p] = "visible"
  /\ LET exhausted == {p \in S : receives[p] > MaxReceiveCount}
     IN /\ queue' = [p \in Posts |-> IF p \in exhausted THEN "dlq"
                                     ELSE IF p \in S THEN "inflight" ELSE queue[p]]
        /\ receives' = [p \in Posts |->
                          IF p \in S \ exhausted THEN receives[p] + 1 ELSE receives[p]]
        /\ batch' = S \ exhausted
        /\ step' = IF S = exhausted THEN "idle" ELSE "next"
  /\ UNCHANGED <<api, row, cur, accepted>>

\* receive_message: SQS counts the receive, or moves a message that has been
\* received MaxReceiveCount times to the dead-letter queue instead.
ReceiveOutbound(S) ==
  /\ step = "idle"
  /\ S # {} /\ Cardinality(S) <= MaxBatch
  /\ \A p \in S : queue[p] = "visible"
  /\ LET exhausted == {p \in S : receives[p] >= MaxReceiveCount}
     IN /\ queue' = [p \in Posts |-> IF p \in exhausted THEN "dlq"
                                     ELSE IF p \in S THEN "inflight" ELSE queue[p]]
        /\ receives' = [p \in Posts |->
                          IF p \in S \ exhausted THEN receives[p] + 1 ELSE receives[p]]
        /\ batch' = S \ exhausted
        /\ step' = IF S = exhausted THEN "idle" ELSE "next"
  /\ UNCHANGED <<api, row, cur, accepted>>

\* The visibility timeout (SQS's default 30s) of a received message expires.
VisibilityTimeout(p) ==
  /\ queue[p] = "inflight"
  /\ queue' = [queue EXCEPT ![p] = "visible"]
  /\ UNCHANGED <<api, row, receives, worker, accepted>>

\* Mutant: the worker deletes the SQS message before it handles it.
LoadContextDeletesFirst(p, active) ==
  /\ step = "next" /\ p \in batch
  /\ cur' = p
  /\ batch' = batch \ {p}
  /\ step' = IF active THEN "send" ELSE "drop"
  /\ queue' = [queue EXCEPT ![p] = "deleted"]
  /\ UNCHANGED <<api, row, receives, accepted>>

\* Load the row and its context.  Rows are never deleted, so the row is there.
\* Without an active connection (_find_connection; agents disable and create them
\* at any time) the message counts as resolved: there is nothing to retry.
LoadContext(p, active) ==
  /\ step = "next" /\ p \in batch
  /\ cur' = p
  /\ batch' = batch \ {p}
  /\ step' = IF active THEN "send" ELSE "drop"
  /\ UNCHANGED <<api, row, sqs, accepted>>

\* The worker is done with cur: on to the next message, or the batch is over.
NextInBatch ==
  /\ cur' = None
  /\ step' = IF batch = {} THEN "idle" ELSE "next"
  /\ UNCHANGED batch

\* adapter.send_outbound returns the id of its last attempt; the ones before it, whose
\* answers were lost, may have been accepted too.
SendAccepted ==
  /\ step = "send"
  /\ \E k \in 1..MaxAttempts : accepted' = [accepted EXCEPT ![cur] = @ + k]
  /\ step' = "record"
  /\ UNCHANGED <<api, row, sqs, cur, batch>>

\* send_outbound raises ChannelAdapterError.  A timeout or a malformed 200 is
\* such an error too, so the provider may have accepted any of the attempts.
SendFailed ==
  /\ step = "send"
  /\ \E k \in 0..MaxAttempts : accepted' = [accepted EXCEPT ![cur] = @ + k]
  /\ IF receives[cur] >= MaxReceiveCount
       THEN step' = "fail" /\ UNCHANGED <<cur, batch>>
       ELSE NextInBatch
  /\ UNCHANGED <<api, row, sqs>>

\* Out of attempts: the row is marked failed, the SQS message is left alone.
MarkFailed ==
  /\ step = "fail"
  /\ status' = [status EXCEPT ![Row[cur]] = "failed"]
  /\ NextInBatch
  /\ UNCHANGED <<api, extId, sqs, accepted>>

\* Mutant: the provider's id is not stored with the status.
RecordSentWithoutId ==
  /\ step = "record"
  /\ status' = [status EXCEPT ![Row[cur]] = "sent"]
  /\ step' = "delete"
  /\ UNCHANGED <<api, extId, sqs, cur, batch, accepted>>

\* The send succeeded: store the provider's id and the status, commit.
RecordSent ==
  /\ step = "record"
  /\ extId' = [extId EXCEPT ![Row[cur]] = <<cur, accepted[cur]>>]
  /\ status' = [status EXCEPT ![Row[cur]] = "sent"]
  /\ step' = "delete"
  /\ UNCHANGED <<api, sqs, cur, batch, accepted>>

\* delete_outbound of a resolved message, after the publish_event and publish_update
\* of a send; a raise of any of the three is IterationFailed here.
DeleteOutbound ==
  /\ step \in {"delete", "drop"}
  /\ queue' = [queue EXCEPT ![cur] = IF step = "drop" THEN "dropped" ELSE "deleted"]
  /\ NextInBatch
  /\ UNCHANGED <<api, row, receives, accepted>>

\* Mutant: run_forever does not catch the exception, and the task is over.
IterationFailedForGood ==
  /\ step \in {"next", "send", "record", "fail", "delete", "drop"}
  /\ step' = "dead"
  /\ UNCHANGED <<api, row, sqs, cur, batch, accepted>>

\* An await of the iteration raises anything else (secrets, Postgres, SQS, the event
\* bus): _run_iteration logs it and drops the rest of the batch.  A send may raise so
\* after the provider took the message: a 200 whose body is not JSON, or an email
\* that SES accepted and send_email could not record.
IterationFailed ==
  /\ step # "idle"
  /\ \/ UNCHANGED accepted
     \/ /\ step = "send"
        /\ \E k \in 1..MaxAttempts : accepted' = [accepted EXCEPT ![cur] = @ + k]
  /\ step' = "idle" /\ cur' = None /\ batch' = {}
  /\ UNCHANGED <<api, row, sqs>>

process_outbound_batch ==
  \/ \E p \in Posts, active \in BOOLEAN : LoadContext(p, active)
  \/ SendAccepted
  \/ SendFailed
  \/ MarkFailed
  \/ RecordSent
  \/ DeleteOutbound

-----------------------------------------------------------------------------
(***************************************************************************)
(* Delivery statuses and crashes.                                          *)
(***************************************************************************)

\* Mutant: a status is applied whatever the rank of the row's own.
ApplyDeliveryStatusUnranked(m, s) ==
  /\ step = "idle"
  /\ extId[m] # None
  /\ status' = [status EXCEPT ![m] = s]
  /\ UNCHANGED <<api, extId, sqs, worker, accepted>>

\* _apply_delivery_status in an inbound iteration of the same worker: the provider
\* reports status s of the send whose id row m has (a report on any other id finds no
\* row).  Webhooks and the inbound queue delay, repeat, reorder and lose payloads, so
\* any report may come at any time.
ApplyDeliveryStatus(m, s) ==
  /\ step = "idle"
  /\ extId[m] # None
  /\ s = "failed" \/ StatusRank(s) > StatusRank(status[m])
  /\ status' = [status EXCEPT ![m] = s]
  /\ UNCHANGED <<api, extId, sqs, worker, accepted>>

\* The process dies and restarts: requests and the iteration are lost.
Crash ==
  /\ req' = [r \in Requests |-> IF req[r] \in {"checked", "committed"}
                                  THEN "failed" ELSE req[r]]
  /\ step' = "idle" /\ cur' = None /\ batch' = {}
  /\ UNCHANGED <<answer, row, sqs, accepted>>

Next ==
  \/ \E r \in Requests : send_reply(r)
  \/ \E S \in SUBSET Posts : ReceiveOutbound(S)
  \/ \E p \in Posts : VisibilityTimeout(p)
  \/ process_outbound_batch
  \/ IterationFailed
  \/ \E m \in Requests, s \in ProviderStatuses : ApplyDeliveryStatus(m, s)
  \/ Crash

(***************************************************************************)
(* The worker loop never ends (run_forever catches everything) and SQS     *)
(* makes a message visible again when its timeout expires.  Nothing is     *)
(* assumed of clients, of the provider, or of how often steps fail.        *)
(***************************************************************************)
Fairness ==
  /\ WF_vars(\E S \in SUBSET Posts : ReceiveOutbound(S))
  /\ WF_vars(process_outbound_batch)
  /\ \A p \in Posts : WF_vars(VisibilityTimeout(p))

Spec == Init /\ [][Next]_vars /\ Fairness

-----------------------------------------------------------------------------
TypeOK ==
  /\ req \in [Requests -> {"new", "checked", "committed", "done", "failed"}]
  /\ answer \in [Requests -> Requests \cup {None}]
  /\ status \in [Requests -> MessageStatus \cup {"absent"}]
  /\ extId \in [Requests -> (Posts \X Nat) \cup {None}]
  /\ queue \in [Posts -> {"none", "visible", "inflight", "deleted", "dropped", "dlq"}]
  /\ receives \in [Posts -> 0..MaxReceiveCount]
  /\ step \in {"idle", "next", "send", "record", "fail", "delete", "drop"}
  /\ cur \in Posts \cup {None}
  /\ batch \subseteq Posts
  /\ accepted \in [Posts -> Nat]

\* x is the id of a send of row m that the provider accepted.
IsSendOf(m, x) == x \in Posts \X Nat /\ Row[x[1]] = m /\ x[2] \in 1..accepted[x[1]]

(***************************************************************************)
(* Bounded retry: whatever fails and however often the process restarts,   *)
(* an SQS message costs at most MaxReceiveCount sends ("never blind        *)
(* infinite retry", worker.py:67), each of MaxAttempts at the provider.    *)
(***************************************************************************)
BoundedSends == \A p \in Posts : accepted[p] <= MaxReceiveCount * MaxAttempts

(***************************************************************************)
(* A row the inbox shows as sent, delivered or read is one the provider    *)
(* accepted, and it carries the id of an accepted send (worker.py:430).    *)
(***************************************************************************)
SentWasAccepted ==
  \A m \in Requests :
    status[m] \in {"sent", "delivered", "read"} => IsSendOf(m, extId[m])

(***************************************************************************)
(* The worker deletes an SQS message only when the row says what became of *)
(* it and the provider has it, except when it found no active connection   *)
(* (worker.py:364-372).                                                    *)
(***************************************************************************)
DeletedIsResolved ==
  \A p \in Posts :
    queue[p] = "deleted" => accepted[p] > 0 /\ status[Row[p]] \notin {"absent", "queued"}

(***************************************************************************)
(* The worker gives a send up only when SQS is about to: a row is failed   *)
(* only after MaxReceiveCount receives of one of its SQS messages, or      *)
(* because the provider reported on a send it accepted (worker.py:425).    *)
(***************************************************************************)
FailedIsExhaustedOrReported ==
  \A m \in Requests :
    status[m] = "failed" =>
      \/ \E p \in Posts : Row[p] = m /\ receives[p] = MaxReceiveCount
      \/ IsSendOf(m, extId[m])

(***************************************************************************)
(* What the inbox and the queue say of a reply is true: sent means the     *)
(* provider has it, deleted means it is resolved, and failed means that    *)
(* the attempts are used up or that the provider said so.                  *)
(***************************************************************************)
HonestStatus ==
  /\ SentWasAccepted
  /\ DeletedIsResolved
  /\ FailedIsExhaustedOrReported

(***************************************************************************)
(* Two requests with one Idempotency-Key are answered with one message,    *)
(* and only that message can ever be queued (handlers.py:62-68).           *)
(***************************************************************************)
IdempotentReplies ==
  /\ \A r, s \in Requests :
       /\ DedupKey[r] = DedupKey[s] /\ DedupKey[r] # NoKey
       /\ answer[r] # None /\ answer[s] # None
       => answer[r] = answer[s]
  /\ \A p, q \in Posts :
       /\ DedupKey[Row[p]] = DedupKey[Row[q]] /\ DedupKey[Row[p]] # NoKey
       /\ queue[p] # "none" /\ queue[q] # "none"
       => Row[p] = Row[q]

(***************************************************************************)
(* A status moves down the ladder only for a message that was sent twice:  *)
(* the provider accepted a send of it besides the one whose id the row     *)
(* has.  Late, repeated and reordered delivery webhooks never take a row   *)
(* back (worker.py:54-57, message-flow.md "advances monotonically").       *)
(***************************************************************************)
StatusRegressesOnlyOnResend ==
  [][\A m \in Requests :
       status[m] \in Ladder /\ status'[m] \in Ladder
         /\ StatusRank(status'[m]) < StatusRank(status[m])
       => \E p \in Posts : \E n \in 1..accepted[p] :
            Row[p] = m /\ <<p, n>> # extId[m]]_vars

(***************************************************************************)
(* Whatever fails and however often the process restarts, a queued reply   *)
(* leaves the queue: it is resolved, or it is in the DLQ for a human.      *)
(***************************************************************************)
EventuallyOffTheQueue ==
  \A p \in Posts :
    queue[p] \in {"visible", "inflight"} ~> queue[p] \in {"deleted", "dropped", "dlq"}

(***************************************************************************)
(* The pipeline implements the Mailbox: hide the requests, the receives,   *)
(* the timeouts and the worker, and every step is one a mailbox may take   *)
(* or no step.  A message SQS handed out is still posted: the worker sends *)
(* and records it before it deletes it (worker.py:364-436).                *)
(***************************************************************************)
Place ==
  [p \in Posts |->
     IF queue[p] \in {"visible", "inflight"} THEN "posted" ELSE queue[p]]

M == INSTANCE Mailbox WITH Replies <- Requests, Letters <- Posts, Of <- Row,
                           MaxSends <- MaxReceiveCount * MaxAttempts,
                           shown <- status, place <- Place, sends <- accepted

ImplementsMailbox == M!Spec

(***************************************************************************)
(* "Persists the Message as queued and enqueues it for the worker"         *)
(* (handlers.py:56): a message some client was given is in SQS, or the     *)
(* request that inserted it is about to put it there.                      *)
(***************************************************************************)
AnsweredIsEnqueued ==
  \A r \in Requests :
    answer[r] # None =>
      \/ \E p \in Posts : Row[p] = answer[r] /\ queue[p] # "none"
      \/ req[answer[r]] = "committed"

=============================================================================
