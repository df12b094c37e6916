------------------------------- MODULE Inbound -------------------------------
(***************************************************************************)
(* The inbound half of the Omni-Channel service: the provider calls our    *)
(* webhook (webhooks.handle_webhook), which queues the raw payload and     *)
(* answers at once; the one worker task receives payloads from SQS and     *)
(* stores the customer messages in them (worker.process_inbound_batch).    *)
(* A provider repeats a call it got no answer to, SQS redelivers what was  *)
(* not deleted, and a step that raises ends the worker's iteration.        *)
(*                                                                         *)
(* A webhook call and the SQS message it enqueues share one name: when the *)
(* SDK repeats a send_message whose answer was lost (clients.py:41-45),    *)
(* the second SQS message is that of one more call with the same payload.  *)
(* An announcement is a call of publish_event; the SDK may repeat the      *)
(* PutEvents in it, so the bus may carry one announcement twice.  What     *)
(* routing does with a new conversation is in Routing, what the delivery   *)
(* statuses of a payload do is in Outbound.                                *)
(***************************************************************************)
EXTENDS Naturals, FiniteSets, Sequences

CONSTANTS
  Calls,            \* webhook calls, retries of the provider included
  Ids,              \* external ids of customer messages
  Senders,          \* customers (channel identities)
  Items,            \* normalize_inbound: the messages in each call's payload
  Sender,           \* who sent each message
  None,             \* no call
  MaxReceiveCount,  \* aws_resources._MAX_RECEIVE_COUNT (5 in the code)
  MaxBatch          \* messages per receive_inbound call (10 in the code)

ASSUME InboundAssumption ==
  /\ None \notin Calls
  /\ Items \in [Calls -> Seq(Ids)]
  /\ Sender \in [Ids -> Senders]
  /\ MaxReceiveCount \in Nat \ {0}
  /\ MaxBatch \in Nat \ {0}

VARIABLES
  hook,          \* what became of each webhook call
  queue,         \* where the SQS message of a call is
  receives,      \* its ApproximateReceiveCount
  step,          \* what the worker does next
  cur,           \* the SQS message it is handling, or None
  todo,          \* the messages of cur it has not finished
  batch,         \* received SQS messages it has not begun to handle
  fresh,         \* conversation_is_new of the message in hand
  conversations, \* customers with committed identity and conversation rows
  stored,        \* committed rows of `messages`
  unread,        \* conversations.unread_count
  uploads,       \* times a message's attachments were put into S3
  routed,        \* history: times a conversation was auto-routed
  events,        \* history: message.received events published for a message
  interrupted    \* history: messages stored by an iteration that then failed

db == <<conversations, stored, unread>>
sqs == <<queue, receives>>
worker == <<step, cur, todo, batch, fresh>>
outside == <<uploads, routed, events>>
vars == <<hook, queue, receives, step, cur, todo, batch, fresh, conversations, stored,
          unread, uploads, routed, events, interrupted>>

Init ==
  /\ hook = [c \in Calls |-> "new"]
  /\ queue = [c \in Calls |-> "none"]
  /\ receives = [c \in Calls |-> 0]
  /\ step = "idle"
  /\ cur = None
  /\ todo = <<>>
  /\ batch = {}
  /\ fresh = FALSE
  /\ conversations = {}
  /\ stored = {}
  /\ unread = [s \in Senders |-> 0]
  /\ uploads = [i \in Ids |-> 0]
  /\ routed = [s \in Senders |-> 0]
  /\ events = [i \in Ids |-> 0]
  /\ interrupted = {}

-----------------------------------------------------------------------------
(***************************************************************************)
(* handle_webhook and SQS.                                                 *)
(***************************************************************************)

\* The connection and the signature are in order and the payload is enqueued.  The
\* provider gets the 200, or it does not and will call again.
HandleWebhook(c, answer) ==
  /\ hook[c] = "new"
  /\ hook' = [hook EXCEPT ![c] = answer]
  /\ queue' = [queue EXCEPT ![c] = "visible"]
  /\ UNCHANGED <<receives, worker, db, outside, interrupted>>

\* No such connection, a wrong signature, no JSON, or SQS out of reach.
HandleWebhookRaises(c) ==
  /\ hook[c] = "new"
  /\ hook' = [hook EXCEPT ![c] = "refused"]
  /\ UNCHANGED <<sqs, worker, db, outside, interrupted>>

\* receive_message: a message received MaxReceiveCount times goes to the DLQ instead.
ReceiveInbound(S) ==
  /\ step = "idle"
  /\ S # {} /\ Cardinality(S) <= MaxBatch
  /\ \A c \in S : queue[c] = "visible"
  /\ LET exhausted == {c \in S : receives[c] >= MaxReceiveCount}
     IN /\ queue' = [c \in Calls |-> IF c \in exhausted THEN "dlq"
                                     ELSE IF c \in S THEN "inflight" ELSE queue[c]]
        /\ receives' = [c \in Calls |->
                          IF c \in S \ exhausted THEN receives[c] + 1 ELSE receives[c]]
        /\ batch' = S \ exhausted
        /\ step' = IF S = exhausted THEN "idle" ELSE "next"
  /\ UNCHANGED <<hook, cur, todo, fresh, db, outside, interrupted>>

\* The visibility timeout of a received message expires.
VisibilityTimeout(c) ==
  /\ queue[c] = "inflight"
  /\ queue' = [queue EXCEPT ![c] = "visible"]
  /\ UNCHANGED <<hook, receives, worker, db, outside, interrupted>>

-----------------------------------------------------------------------------
(***************************************************************************)
(* One inbound iteration of run_forever.                                   *)
(***************************************************************************)

\* normalize_inbound of the next message of the batch.
BeginPayload(c) ==
  /\ step = "next" /\ c \in batch
  /\ cur' = c
  /\ todo' = Items[c]
  /\ batch' = batch \ {c}
  /\ step' = "item"
  /\ UNCHANGED <<hook, sqs, fresh, db, outside, interrupted>>

\* Mutant: the insert is not guarded by uq_message_idempotency.
InsertMessageNoIndex ==
  /\ step = "item" /\ todo # <<>>
  /\ fresh' = (Sender[Head(todo)] \notin conversations)
  /\ step' = "upload"
  /\ UNCHANGED <<hook, sqs, cur, todo, batch, db, outside, interrupted>>

\* Mutant: a duplicate ends the payload instead of being skipped.
InsertMessageReturn ==
  /\ step = "item" /\ todo # <<>>
  /\ IF Head(todo) \in stored
       THEN todo' = <<>> /\ UNCHANGED <<step, fresh>>
       ELSE /\ fresh' = (Sender[Head(todo)] \notin conversations)
            /\ step' = "upload" /\ UNCHANGED todo
  /\ UNCHANGED <<hook, sqs, cur, batch, db, outside, interrupted>>

\* Find or create identity and conversation and flush the message, all of it not yet
\* committed.  uq_message_idempotency refuses a duplicate: roll back and go on.
InsertMessage ==
  /\ step = "item" /\ todo # <<>>
  /\ IF Head(todo) \in stored
       THEN todo' = Tail(todo) /\ UNCHANGED <<step, fresh>>
       ELSE /\ fresh' = (Sender[Head(todo)] \notin conversations)
            /\ step' = "upload" /\ UNCHANGED todo
  /\ UNCHANGED <<hook, sqs, cur, batch, db, outside, interrupted>>

UploadAttachments ==
  /\ step = "upload"
  /\ uploads' = [uploads EXCEPT ![Head(todo)] = @ + 1]
  /\ step' = "commit"
  /\ UNCHANGED <<hook, sqs, cur, todo, batch, fresh, db, routed, events, interrupted>>

\* Message, attachments, identity, conversation and counter in one transaction.
CommitMessage ==
  LET i == Head(todo)
  IN /\ step = "commit"
     /\ stored' = stored \cup {i}
     /\ conversations' = conversations \cup {Sender[i]}
     /\ unread' = [unread EXCEPT ![Sender[i]] = @ + 1]
     /\ step' = IF fresh THEN "route" ELSE "publish"
     /\ UNCHANGED <<hook, sqs, cur, todo, batch, fresh, outside, interrupted>>

\* Mutant: a new conversation is routed and nothing else.
RouteConversationOnly ==
  /\ step = "route"
  /\ routed' = [routed EXCEPT ![Sender[Head(todo)]] = @ + 1]
  /\ todo' = Tail(todo)
  /\ step' = "item"
  /\ UNCHANGED <<hook, sqs, cur, batch, fresh, db, uploads, events, interrupted>>

\* apply_single_assignee_if_configured, for a new conversation.
RouteConversation ==
  /\ step = "route"
  /\ routed' = [routed EXCEPT ![Sender[Head(todo)]] = @ + 1]
  /\ step' = "publish"
  /\ UNCHANGED <<hook, sqs, cur, todo, batch, fresh, db, uploads, events, interrupted>>

\* The calls of publish_event and publish_update for message.received.
PublishReceived ==
  /\ step = "publish"
  /\ events' = [events EXCEPT ![Head(todo)] = @ + 1]
  /\ todo' = Tail(todo)
  /\ step' = "item"
  /\ UNCHANGED <<hook, sqs, cur, batch, fresh, db, uploads, routed, interrupted>>

\* The messages are done, the payload's delivery statuses are applied, and the SQS
\* message is deleted.
DeleteInbound ==
  /\ step = "item" /\ todo = <<>>
  /\ queue' = [queue EXCEPT ![cur] = "deleted"]
  /\ cur' = None
  /\ step' = IF batch = {} THEN "idle" ELSE "next"
  /\ UNCHANGED <<hook, receives, todo, batch, fresh, db, outside, interrupted>>

process_inbound_batch ==
  \/ \E c \in Calls : BeginPayload(c)
  \/ InsertMessage
  \/ UploadAttachments
  \/ CommitMessage
  \/ RouteConversation
  \/ PublishReceived
  \/ DeleteInbound

\* Mutant: run_forever does not catch the exception, and the task is over.
IterationFailedForGood ==
  /\ step # "idle"
  /\ step' = "dead"
  /\ UNCHANGED <<hook, sqs, cur, todo, batch, fresh, db, outside, interrupted>>

\* An await of the iteration raises, or the process dies and restarts: the transaction
\* is rolled back and the rest of the batch dropped.
IterationFailed ==
  /\ step # "idle"
  /\ step' = "idle" /\ cur' = None /\ todo' = <<>> /\ batch' = {} /\ fresh' = FALSE
  /\ interrupted' = IF step \in {"route", "publish"} THEN interrupted \cup {Head(todo)}
                                                     ELSE interrupted
  /\ UNCHANGED <<hook, sqs, db, outside>>

-----------------------------------------------------------------------------
Next ==
  \/ \E c \in Calls : \/ \E answer \in {"acked", "unanswered"} : HandleWebhook(c, answer)
                      \/ HandleWebhookRaises(c)
                      \/ VisibilityTimeout(c)
  \/ \E S \in SUBSET Calls : ReceiveInbound(S)
  \/ process_inbound_batch
  \/ IterationFailed

(***************************************************************************)
(* The worker loop never ends and SQS makes a message visible again when   *)
(* its timeout expires.  Nothing is assumed of the provider or of how      *)
(* often steps fail.                                                       *)
(***************************************************************************)
Fairness ==
  /\ WF_vars(\E S \in SUBSET Calls : ReceiveInbound(S))
  /\ WF_vars(process_inbound_batch)
  /\ \A c \in Calls : WF_vars(VisibilityTimeout(c))

Spec == Init /\ [][Next]_vars /\ Fairness

-----------------------------------------------------------------------------
TypeOK ==
  /\ hook \in [Calls -> {"new", "acked", "unanswered", "refused"}]
  /\ queue \in [Calls -> {"none", "visible", "inflight", "deleted", "dlq"}]
  /\ receives \in [Calls -> 0..MaxReceiveCount]
  /\ step \in {"idle", "next", "item", "upload", "commit", "route", "publish"}
  /\ cur \in Calls \cup {None}
  /\ todo \in Seq(Ids)
  /\ batch \subseteq Calls
  /\ fresh \in BOOLEAN
  /\ conversations \subseteq Senders
  /\ stored \subseteq Ids
  /\ unread \in [Senders -> Nat]
  /\ uploads \in [Ids -> Nat]
  /\ routed \in [Senders -> Nat]
  /\ events \in [Ids -> Nat]
  /\ interrupted \subseteq Ids

\* The messages of a payload are all stored.
AllStored(c) == \A n \in 1..Len(Items[c]) : Items[c][n] \in stored

(***************************************************************************)
(* No customer message is lost: a call the provider got its 200 for is     *)
(* still on the queue, in the dead-letter queue, or all its messages are   *)
(* stored, whatever duplicates came before it and whichever step failed    *)
(* (webhooks.py:87-93, worker.py:92-96); and what is stored is whole: its  *)
(* conversation is there and its attachments are in S3, so that no row     *)
(* points at nothing (worker.py:161-177).                                  *)
(***************************************************************************)
AckedIsKept ==
  /\ \A c \in Calls :
       /\ hook[c] = "acked" => queue[c] # "none"
       /\ queue[c] = "deleted" => AllStored(c)
  /\ \A i \in stored : Sender[i] \in conversations /\ uploads[i] > 0

(***************************************************************************)
(* However often the provider and SQS repeat a payload, unread_count       *)
(* counts every stored message once (worker.py:141-163, 177).              *)
(***************************************************************************)
CountedOnce ==
  \A s \in Senders : unread[s] = Cardinality({i \in stored : Sender[i] = s})

(***************************************************************************)
(* message.received is published by at most one call per message and only  *)
(* for a message other services can read; a conversation is auto-routed at *)
(* most once (worker.py:180-206).                                          *)
(***************************************************************************)
AnnouncedOnce ==
  /\ \A i \in Ids : events[i] <= 1 /\ (events[i] = 1 => i \in stored)
  /\ \A s \in Senders : routed[s] <= 1 /\ (routed[s] = 1 => s \in conversations)

(***************************************************************************)
(* The effects of a message happen once: it is counted once, announced at  *)
(* most once, and its conversation is routed at most once.                 *)
(***************************************************************************)
OnceEach == CountedOnce /\ AnnouncedOnce

(***************************************************************************)
(* The announcement of a stored message is only ever missed because the    *)
(* iteration that stored it failed between the commit and the event: the   *)
(* redelivery takes the message for a duplicate (worker.py:146-159).       *)
(***************************************************************************)
AnnouncedUnlessInterrupted ==
  \A i \in stored :
    \/ events[i] = 1
    \/ i \in interrupted
    \/ step \in {"route", "publish"} /\ Head(todo) = i

(***************************************************************************)
(* Every queued payload is dealt with in the end: its SQS message is       *)
(* deleted or in the dead-letter queue (worker.py:509-520).                *)
(***************************************************************************)
EventuallyOffTheQueue ==
  \A c \in Calls :
    queue[c] \in {"visible", "inflight"} ~> queue[c] \in {"deleted", "dlq"}

(***************************************************************************)
(* The pipeline implements the Intake: hide SQS's receives and timeouts,   *)
(* the worker and its failures, and every step is one an intake may take   *)
(* or no step.  The worker stores a payload's messages first to last and   *)
(* deletes it last, so that wherever an iteration fails the redelivery     *)
(* goes on where it stopped (worker.py:92-96, 122-163); it stores a        *)
(* message after its attachments, and with its conversation (161-177).     *)
(***************************************************************************)
\* What the agents can read: a row with its conversation and its attachments.
Whole == {i \in stored : Sender[i] \in conversations /\ uploads[i] > 0}

Place ==
  [c \in Calls |-> IF queue[c] \in {"visible", "inflight"} THEN "kept" ELSE queue[c]]

T == INSTANCE Intake WITH
       answer <- hook, place <- Place, inbox <- Whole,
       assigned <- {s \in Senders : routed[s] > 0},
       announced <- {i \in Ids : events[i] > 0}

ImplementsIntake == T!Spec

=============================================================================
