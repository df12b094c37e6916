---------------------------- MODULE InboundProofs ----------------------------
(***************************************************************************)
(* Proofs, for every set of webhook calls, payloads and customers, of the  *)
(* safety properties MCInbound checks, and that the pipeline implements    *)
(* the Intake.  PayloadInv says that what is still to do of the payload in *)
(* hand is its end, and that what comes before is stored, so that deleting *)
(* the SQS message loses nothing; HandInv what is known of the message in  *)
(* hand at each step of process_inbound_batch; QueueInv that the worker    *)
(* only has what is still on the queue.                                    *)
(***************************************************************************)
EXTENDS Inbound, FiniteSetTheorems, TLAPS

\* The worker holds a payload; it holds a message of it.
HasPayload == step \in {"item", "upload", "commit", "route", "publish"}
HasMessage == step \in {"upload", "commit", "route", "publish"}

\* How much of the payload in hand is done.
Done == Len(Items[cur]) - Len(todo)

\* What is done of the payload in hand is stored, and the rest is what is to do.
PayloadInv ==
  HasPayload => /\ cur \in Calls
                /\ Len(todo) <= Len(Items[cur])
                /\ \A n \in 1..Done : Items[cur][n] \in stored
                /\ \A n \in 1..Len(todo) : todo[n] = Items[cur][Done + n]

\* SQS has the call, visible or not.
Kept(c) == queue[c] \in {"visible", "inflight"}

\* The payload in hand and those of the batch are on the queue, and are different ones.
QueueInv ==
  /\ HasPayload => Kept(cur)
  /\ \A c \in batch : Kept(c) /\ (HasPayload => c # cur)

\* The message in hand.  Before the commit it is not stored, and `fresh` is still right
\* about its conversation; after it, nothing has been announced or routed yet.
HandInv ==
  /\ HasMessage => todo # <<>>
  /\ step \in {"upload", "commit"} =>
       /\ Head(todo) \notin stored
       /\ fresh <=> Sender[Head(todo)] \notin conversations
  /\ step = "commit" => uploads[Head(todo)] > 0
  /\ step \in {"route", "publish"} => Head(todo) \in stored /\ events[Head(todo)] = 0
  /\ step = "route" => routed[Sender[Head(todo)]] = 0

\* A call is on the queue exactly when it was taken in.
HookInv ==
  \A c \in Calls : /\ hook[c] = "acked" => queue[c] # "none"
                   /\ hook[c] = "new" => queue[c] = "none"

\* Nothing is deleted before all of it is stored.
DeletedInv == \A c \in Calls : queue[c] = "deleted" => AllStored(c)

\* A stored message has its conversation and its attachments.
WholeInv == \A i \in stored : Sender[i] \in conversations /\ uploads[i] > 0

\* There are finitely many rows, so that they can be counted.
CountInv == IsFiniteSet(stored) /\ CountedOnce

\* The inductive invariant.
IInv ==
  /\ TypeOK
  /\ PayloadInv
  /\ QueueInv
  /\ HandInv
  /\ HookInv
  /\ DeletedInv
  /\ WholeInv
  /\ CountInv
  /\ AnnouncedOnce
  /\ AnnouncedUnlessInterrupted

USE InboundAssumption

-----------------------------------------------------------------------------
(***************************************************************************)
(* Lemmas.                                                                 *)
(***************************************************************************)

\* The first of the messages still to do is one of the platform's messages.
LEMMA HeadOfTodo ==
  ASSUME NEW q \in Seq(Ids), q # <<>>
  PROVE  /\ Head(q) \in Ids /\ Sender[Head(q)] \in Senders
         /\ Tail(q) \in Seq(Ids)
  OBVIOUS

\* With the first message to do stored, it is one more that is done.
LEMMA Advance ==
  ASSUME TypeOK, PayloadInv, HasPayload, todo # <<>>, Head(todo) \in stored,
         todo' = Tail(todo), UNCHANGED <<cur, stored>>
  PROVE  PayloadInv'
  <1> DEFINE L == Len(Items[cur])
             N == Len(todo)
  <1>1. /\ cur \in Calls /\ todo \in Seq(Ids) /\ N \in Nat /\ N <= L
        /\ \A n \in 1..(L - N) : Items[cur][n] \in stored
        /\ \A n \in 1..N : todo[n] = Items[cur][L - N + n]
    BY DEF TypeOK, PayloadInv, Done
  <1>2. L \in Nat /\ N > 0 /\ Head(todo) = todo[1]
    BY <1>1
  <1>3. Len(Tail(todo)) = N - 1 /\ \A n \in 1..(N - 1) : Tail(todo)[n] = todo[n + 1]
    BY <1>1
  <1> HIDE DEF L, N
  <1>4. ASSUME NEW n \in 1..(L - (N - 1)) PROVE Items[cur][n] \in stored
    <2>1. CASE n \in 1..(L - N)
      BY <1>1, <2>1
    <2>2. CASE n = L - N + 1
      BY <1>1, <1>2, <2>2
    <2> QED  BY <1>1, <1>2, <2>1, <2>2
  <1>5. ASSUME NEW n \in 1..(N - 1) PROVE Tail(todo)[n] = Items[cur][L - (N - 1) + n]
    <2>1. n + 1 \in 1..N /\ L - N + (n + 1) = L - (N - 1) + n
      BY <1>1, <1>2
    <2> QED  BY <1>1, <1>3, <2>1
  <1>6. N - 1 <= L
    BY <1>1, <1>2
  <1> QED  BY <1>1, <1>3, <1>4, <1>5, <1>6 DEF PayloadInv, Done, L

\* A counter after one increment.
LEMMA OneMore ==
  ASSUME NEW S, NEW f \in [S -> Nat], NEW x \in S
  PROVE  LET g == [f EXCEPT ![x] = @ + 1]
         IN  /\ g \in [S -> Nat]
             /\ g[x] > 0
             /\ \A y \in S : g[y] >= f[y]
  OBVIOUS

\* Those of the messages that are from one customer.
From(S, s) == {j \in S : Sender[j] = s}

\* Storing one message more raises its sender's count by one and nobody else's.
LEMMA CountOneMore ==
  ASSUME NEW S \in SUBSET Ids, IsFiniteSet(S), NEW i \in Ids, i \notin S,
         NEW s \in Senders
  PROVE  Cardinality(From(S \cup {i}, s)) =
           IF Sender[i] = s THEN Cardinality(From(S, s)) + 1 ELSE Cardinality(From(S, s))
  <1>1. IsFiniteSet(From(S, s))
    <2>1. From(S, s) \subseteq S
      BY DEF From
    <2> QED  BY <2>1, FS_Subset
  <1>2. CASE Sender[i] = s
    <2>1. From(S \cup {i}, s) = From(S, s) \cup {i}
      BY <1>2 DEF From
    <2>2. i \notin From(S, s)
      BY DEF From
    <2>3. Cardinality(From(S, s) \cup {i}) = Cardinality(From(S, s)) + 1
      BY <1>1, <2>2, FS_AddElement
    <2> QED  BY <1>2, <2>1, <2>3
  <1>3. CASE Sender[i] # s
    <2>1. From(S \cup {i}, s) = From(S, s)
      BY <1>3 DEF From
    <2> QED  BY <1>3, <2>1
  <1> QED  BY <1>2, <1>3

\* A step that leaves the rows, the counter and the histories alone.
LEMMA RowsUntouched ==
  ASSUME IInv, UNCHANGED <<db, routed, events>>, uploads' \in [Ids -> Nat],
         \A i \in Ids : uploads'[i] >= uploads[i]
  PROVE  WholeInv' /\ CountInv' /\ AnnouncedOnce'
  <1>1. stored \subseteq Ids /\ uploads \in [Ids -> Nat]
    BY DEF IInv, TypeOK
  <1>2. WholeInv'
    BY <1>1 DEF IInv, WholeInv, db
  <1>3. CountInv'
    BY DEF IInv, CountInv, CountedOnce, db
  <1>4. AnnouncedOnce'
    BY DEF IInv, AnnouncedOnce, db
  <1> QED  BY <1>2, <1>3, <1>4

\* The initial state satisfies the invariant.
LEMMA InitIInv == Init => IInv
  <1> SUFFICES ASSUME Init PROVE IInv
    OBVIOUS
  <1>1. TypeOK
    <2>1. fresh \in BOOLEAN
      BY DEF Init
    <2>2. receives \in [Calls -> 0..MaxReceiveCount]
      BY DEF Init
    <2>3. todo \in Seq(Ids)
      BY DEF Init
    <2> QED  BY <2>1, <2>2, <2>3 DEF Init, TypeOK
  <1>2. PayloadInv /\ QueueInv /\ HandInv /\ HookInv /\ DeletedInv /\ WholeInv
    BY DEF Init, PayloadInv, QueueInv, HandInv, HookInv, DeletedInv, WholeInv, HasPayload, HasMessage
  <1>3. CountInv
    <2>1. \A s \in Senders : {i \in stored : Sender[i] = s} = {}
      BY DEF Init
    <2> QED  BY <2>1, FS_EmptySet DEF Init, CountInv, CountedOnce
  <1>4. AnnouncedOnce /\ AnnouncedUnlessInterrupted
    BY DEF Init, AnnouncedOnce, AnnouncedUnlessInterrupted
  <1> QED  BY <1>1, <1>2, <1>3, <1>4 DEF IInv

-----------------------------------------------------------------------------
(***************************************************************************)
(* The webhook and SQS: the worker and the rows stay as they are.          *)
(***************************************************************************)

LEMMA QueueStep ==
  ASSUME IInv, TypeOK', HookInv', DeletedInv', \A c \in Calls : Kept(c) => Kept(c)',
         UNCHANGED <<worker, db, outside, interrupted>>
  PROVE  IInv'
  <1>1. WholeInv' /\ CountInv' /\ AnnouncedOnce'
    BY RowsUntouched DEF IInv, TypeOK, outside
  <1>2. PayloadInv' /\ HandInv'
    BY DEF IInv, PayloadInv, HandInv, HasPayload, HasMessage, Done, worker, db, outside
  <1>4. QueueInv'
    BY DEF IInv, TypeOK, PayloadInv, QueueInv, HasPayload, worker
  <1>3. AnnouncedUnlessInterrupted'
    BY DEF IInv, AnnouncedUnlessInterrupted, worker, db, outside
  <1> QED  BY <1>1, <1>2, <1>3, <1>4 DEF IInv

LEMMA HandleWebhookIInv ==
  ASSUME IInv, NEW c \in Calls, NEW answer \in {"acked", "unanswered"},
         HandleWebhook(c, answer)
  PROVE  IInv'
  <1>1. TypeOK'
    BY DEF IInv, TypeOK, HandleWebhook, worker, db, outside
  <1>2. HookInv' /\ DeletedInv'
    BY DEF IInv, TypeOK, HookInv, DeletedInv, AllStored, HandleWebhook, db
  <1>3. \A d \in Calls : Kept(d) => Kept(d)'
    BY DEF IInv, TypeOK, Kept, HandleWebhook
  <1> QED  BY <1>1, <1>2, <1>3, QueueStep DEF HandleWebhook

LEMMA HandleWebhookRaisesIInv ==
  ASSUME IInv, NEW c \in Calls, HandleWebhookRaises(c)
  PROVE  IInv'
  <1>1. TypeOK'
    BY DEF IInv, TypeOK, HandleWebhookRaises, sqs, worker, db, outside
  <1>2. HookInv' /\ DeletedInv'
    BY DEF IInv, TypeOK, HookInv, DeletedInv, AllStored, HandleWebhookRaises, sqs, db
  <1>3. \A d \in Calls : Kept(d) => Kept(d)'
    BY DEF IInv, TypeOK, Kept, HandleWebhookRaises, sqs
  <1> QED  BY <1>1, <1>2, <1>3, QueueStep DEF HandleWebhookRaises

LEMMA VisibilityTimeoutIInv ==
  ASSUME IInv, NEW c \in Calls, VisibilityTimeout(c)
  PROVE  IInv'
  <1>1. TypeOK'
    BY DEF IInv, TypeOK, VisibilityTimeout, worker, db, outside
  <1>2. HookInv' /\ DeletedInv'
    BY DEF IInv, TypeOK, HookInv, DeletedInv, AllStored, VisibilityTimeout, db
  <1>3. \A d \in Calls : Kept(d) => Kept(d)'
    BY DEF IInv, TypeOK, Kept, VisibilityTimeout
  <1> QED  BY <1>1, <1>2, <1>3, QueueStep DEF VisibilityTimeout

LEMMA ReceiveInboundIInv ==
  ASSUME IInv, NEW S \in SUBSET Calls, ReceiveInbound(S)
  PROVE  IInv'
  <1>0. TypeOK
    BY DEF IInv
  <1>1. TypeOK'
    BY <1>0, SMTT(30) DEF TypeOK, ReceiveInbound, db, outside
  <1>2. HookInv'
    BY <1>0 DEF IInv, TypeOK, HookInv, ReceiveInbound
  <1>3. DeletedInv'
    BY <1>0 DEF IInv, TypeOK, DeletedInv, AllStored, ReceiveInbound, db
  <1>4. ~HasPayload /\ ~HasPayload' /\ ~HasMessage'
    BY DEF ReceiveInbound, HasPayload, HasMessage
  <1>5. PayloadInv' /\ HandInv'
    BY <1>4 DEF PayloadInv, HandInv, HasPayload, HasMessage
  <1>8. QueueInv'
    BY <1>0, <1>4 DEF TypeOK, QueueInv, Kept, ReceiveInbound
  <1>6. WholeInv' /\ CountInv' /\ AnnouncedOnce'
    BY <1>0, RowsUntouched DEF TypeOK, ReceiveInbound, outside
  <1>7. AnnouncedUnlessInterrupted'
    BY DEF IInv, AnnouncedUnlessInterrupted, ReceiveInbound, db, outside
  <1> QED  BY <1>1, <1>2, <1>3, <1>5, <1>6, <1>7, <1>8 DEF IInv

-----------------------------------------------------------------------------
(***************************************************************************)
(* The steps of process_inbound_batch.                                     *)
(***************************************************************************)

LEMMA BeginPayloadIInv ==
  ASSUME IInv, NEW c \in Calls, BeginPayload(c)
  PROVE  IInv'
  <1>0. TypeOK
    BY DEF IInv
  <1>1. TypeOK'
    BY <1>0 DEF TypeOK, BeginPayload, sqs, db, outside
  <1>2. HookInv' /\ DeletedInv'
    BY DEF IInv, HookInv, DeletedInv, AllStored, BeginPayload, sqs, db
  <1>3. PayloadInv' /\ QueueInv' /\ HandInv'
    <2>1. Len(Items[c]) \in Nat
      OBVIOUS
    <2>2. PayloadInv'
      BY <2>1 DEF PayloadInv, HasPayload, Done, BeginPayload
    <2>3. QueueInv'
      BY DEF IInv, QueueInv, HasPayload, Kept, BeginPayload, sqs
    <2> QED  BY <2>2, <2>3 DEF HandInv, HasMessage, BeginPayload
  <1>4. WholeInv' /\ CountInv' /\ AnnouncedOnce'
    BY <1>0, RowsUntouched DEF TypeOK, BeginPayload, outside
  <1>5. AnnouncedUnlessInterrupted'
    BY DEF IInv, AnnouncedUnlessInterrupted, BeginPayload, db, outside
  <1> QED  BY <1>1, <1>2, <1>3, <1>4, <1>5 DEF IInv

\* A duplicate leaves the list because it is stored; a new message stays on it.
LEMMA InsertMessageIInv ==
  ASSUME IInv, InsertMessage
  PROVE  IInv'
  <1>0. TypeOK /\ todo \in Seq(Ids) /\ todo # <<>>
    BY DEF IInv, TypeOK, InsertMessage
  <1>1. Head(todo) \in Ids /\ Tail(todo) \in Seq(Ids)
    BY <1>0, HeadOfTodo
  <1>2. fresh' \in BOOLEAN
    BY <1>0 DEF InsertMessage, TypeOK
  <1>3. TypeOK'
    BY <1>0, <1>1, <1>2 DEF TypeOK, InsertMessage, sqs, db, outside
  <1>4. HookInv' /\ DeletedInv'
    BY DEF IInv, HookInv, DeletedInv, AllStored, InsertMessage, sqs, db
  <1>5. PayloadInv' /\ QueueInv'
    <2>0. HasPayload /\ HasPayload' /\ UNCHANGED <<cur, stored, queue, batch>>
      BY DEF HasPayload, InsertMessage, db, sqs
    <2>1. CASE Head(todo) \in stored
      <3>1. todo' = Tail(todo)
        BY <2>1 DEF InsertMessage
      <3> QED  BY <1>0, <2>0, <2>1, <3>1, Advance DEF IInv, QueueInv, Kept
    <2>2. CASE Head(todo) \notin stored
      <3>1. todo' = todo
        BY <2>2 DEF InsertMessage
      <3> QED  BY <2>0, <3>1 DEF IInv, PayloadInv, QueueInv, Kept, Done
    <2> QED  BY <2>1, <2>2
  <1>6. HandInv'
    <2>1. CASE Head(todo) \in stored
      BY <2>1 DEF HandInv, HasMessage, InsertMessage
    <2>2. CASE Head(todo) \notin stored
      BY <1>0, <2>2 DEF HandInv, HasMessage, InsertMessage, db
    <2> QED  BY <2>1, <2>2
  <1>7. WholeInv' /\ CountInv' /\ AnnouncedOnce'
    BY <1>0, RowsUntouched DEF TypeOK, InsertMessage, outside
  <1>8. AnnouncedUnlessInterrupted'
    BY DEF IInv, AnnouncedUnlessInterrupted, InsertMessage, db, outside
  <1> QED  BY <1>3, <1>4, <1>5, <1>6, <1>7, <1>8 DEF IInv

LEMMA UploadAttachmentsIInv ==
  ASSUME IInv, UploadAttachments
  PROVE  IInv'
  <1>0. TypeOK /\ todo \in Seq(Ids) /\ todo # <<>>
    BY DEF IInv, TypeOK, HandInv, HasMessage, UploadAttachments
  <1>1. Head(todo) \in Ids
    BY <1>0, HeadOfTodo
  <1>2. /\ uploads' \in [Ids -> Nat]
        /\ \A i \in Ids : uploads'[i] >= uploads[i]
        /\ uploads'[Head(todo)] > 0
    BY <1>0, <1>1, OneMore, SMTT(30) DEF TypeOK, UploadAttachments
  <1>3. TypeOK'
    BY <1>0, <1>2 DEF TypeOK, UploadAttachments, sqs, db
  <1>4. HookInv' /\ DeletedInv'
    BY DEF IInv, HookInv, DeletedInv, AllStored, UploadAttachments, sqs, db
  <1>5. PayloadInv' /\ QueueInv'
    BY DEF IInv, PayloadInv, QueueInv, Kept, HasPayload, Done, UploadAttachments, sqs, db
  <1>6. HandInv'
    BY <1>0, <1>2 DEF IInv, HandInv, HasMessage, UploadAttachments, db
  <1>7. WholeInv' /\ CountInv' /\ AnnouncedOnce'
    BY <1>2, RowsUntouched DEF UploadAttachments
  <1>8. AnnouncedUnlessInterrupted'
    BY DEF IInv, AnnouncedUnlessInterrupted, UploadAttachments, db
  <1> QED  BY <1>3, <1>4, <1>5, <1>6, <1>7, <1>8 DEF IInv

\* The one step that stores: the message was not stored, so it is counted once, and it
\* was uploaded before.
LEMMA CommitMessageIInv ==
  ASSUME IInv, CommitMessage
  PROVE  IInv'
  <1> DEFINE i == Head(todo)
  <1>0. TypeOK /\ todo \in Seq(Ids) /\ todo # <<>>
    BY DEF IInv, TypeOK, HandInv, HasMessage, CommitMessage
  <1>1. i \in Ids /\ Sender[i] \in Senders
    BY <1>0, HeadOfTodo
  <1>2. /\ i \notin stored
        /\ fresh <=> Sender[i] \notin conversations
        /\ uploads[i] > 0
    BY DEF IInv, HandInv, CommitMessage
  <1>3. TypeOK'
    <2>1. unread' \in [Senders -> Nat]
      BY <1>0, <1>1, OneMore, SMTT(30) DEF TypeOK, CommitMessage
    <2> QED  BY <1>0, <1>1, <2>1 DEF TypeOK, CommitMessage, sqs, outside
  <1>4. HookInv' /\ DeletedInv'
    BY DEF IInv, HookInv, DeletedInv, AllStored, CommitMessage, sqs
  <1>5. PayloadInv' /\ QueueInv'
    BY DEF IInv, PayloadInv, QueueInv, Kept, HasPayload, Done, CommitMessage, sqs
  <1>6. events[i] = 0
    BY <1>0, <1>1, <1>2 DEF IInv, AnnouncedOnce, TypeOK
  <1>7. fresh => routed[Sender[i]] = 0
    BY <1>0, <1>1, <1>2 DEF IInv, AnnouncedOnce, TypeOK
  <1>8. HandInv'
    BY <1>0, <1>6, <1>7 DEF HandInv, HasMessage, CommitMessage, outside
  <1>9. WholeInv'
    BY <1>2 DEF IInv, WholeInv, CommitMessage, outside
  <1>10. CountInv'
    <2>1. IsFiniteSet(stored) /\ stored \in SUBSET Ids
      BY <1>0 DEF IInv, CountInv, TypeOK
    <2>2. IsFiniteSet(stored')
      BY <1>1, <2>1, FS_AddElement DEF CommitMessage
    <2>3. ASSUME NEW s \in Senders
          PROVE  unread'[s] = Cardinality({j \in stored' : Sender[j] = s})
      <3>1. unread[s] = Cardinality(From(stored, s))
        BY DEF IInv, CountInv, CountedOnce, From
      <3>2. /\ stored' = stored \cup {i}
            /\ unread'[s] = IF Sender[i] = s THEN unread[s] + 1 ELSE unread[s]
        BY <1>0, <1>1 DEF TypeOK, CommitMessage
      <3>3. i \in Ids /\ i \notin stored
        BY <1>1, <1>2
      <3> HIDE DEF i
      <3>4. Cardinality(From(stored \cup {i}, s)) =
              IF Sender[i] = s THEN Cardinality(From(stored, s)) + 1
                               ELSE Cardinality(From(stored, s))
        BY ONLY <2>1, <2>3, <3>3, CountOneMore
      <3>5. unread'[s] = Cardinality(From(stored', s))
        BY <3>1, <3>2, <3>4
      <3> QED  BY <3>5 DEF From
    <2> QED  BY <2>2, <2>3 DEF CountInv, CountedOnce
  <1>11. AnnouncedOnce'
    BY DEF IInv, AnnouncedOnce, CommitMessage, outside
  <1>12. AnnouncedUnlessInterrupted'
    BY DEF IInv, AnnouncedUnlessInterrupted, CommitMessage, outside
  <1> QED  BY <1>3, <1>4, <1>5, <1>8, <1>9, <1>10, <1>11, <1>12 DEF IInv

LEMMA RouteConversationIInv ==
  ASSUME IInv, RouteConversation
  PROVE  IInv'
  <1>0. TypeOK /\ todo \in Seq(Ids) /\ todo # <<>>
    BY DEF IInv, TypeOK, HandInv, HasMessage, RouteConversation
  <1>1. Head(todo) \in Ids /\ Sender[Head(todo)] \in Senders
    BY <1>0, HeadOfTodo
  <1>2. /\ Head(todo) \in stored /\ events[Head(todo)] = 0
        /\ routed[Sender[Head(todo)]] = 0
        /\ Sender[Head(todo)] \in conversations
    BY DEF IInv, HandInv, WholeInv, RouteConversation
  <1>3. TypeOK'
    <2>1. routed' \in [Senders -> Nat]
      BY <1>0, <1>1, OneMore, SMTT(30) DEF TypeOK, RouteConversation
    <2> QED  BY <1>0, <2>1 DEF TypeOK, RouteConversation, sqs, db
  <1>4. HookInv' /\ DeletedInv'
    BY DEF IInv, HookInv, DeletedInv, AllStored, RouteConversation, sqs, db
  <1>5. PayloadInv' /\ QueueInv'
    BY DEF IInv, PayloadInv, QueueInv, Kept, HasPayload, Done, RouteConversation, sqs, db
  <1>6. HandInv'
    BY <1>0, <1>2 DEF HandInv, HasMessage, RouteConversation, db
  <1>7. WholeInv'
    BY DEF IInv, WholeInv, RouteConversation, db
  <1>8. CountInv'
    BY DEF IInv, CountInv, CountedOnce, RouteConversation, db
  <1>9. AnnouncedOnce'
    BY <1>0, <1>1, <1>2 DEF IInv, TypeOK, AnnouncedOnce, RouteConversation, db
  <1>10. AnnouncedUnlessInterrupted'
    BY DEF IInv, AnnouncedUnlessInterrupted, RouteConversation, db
  <1> QED  BY <1>3, <1>4, <1>5, <1>6, <1>7, <1>8, <1>9, <1>10 DEF IInv

\* The message in hand is stored and was not announced, and it is done with afterwards.
LEMMA PublishReceivedIInv ==
  ASSUME IInv, PublishReceived
  PROVE  IInv'
  <1>0. TypeOK /\ todo \in Seq(Ids) /\ todo # <<>>
    BY DEF IInv, TypeOK, HandInv, HasMessage, PublishReceived
  <1>1. Head(todo) \in Ids /\ Tail(todo) \in Seq(Ids)
    BY <1>0, HeadOfTodo
  <1>2. Head(todo) \in stored /\ events[Head(todo)] = 0
    BY DEF IInv, HandInv, PublishReceived
  <1>3. TypeOK'
    <2>1. events' \in [Ids -> Nat]
      BY <1>0, <1>1, OneMore, SMTT(30) DEF TypeOK, PublishReceived
    <2> QED  BY <1>0, <1>1, <2>1 DEF TypeOK, PublishReceived, sqs, db
  <1>4. HookInv' /\ DeletedInv'
    BY DEF IInv, HookInv, DeletedInv, AllStored, PublishReceived, sqs, db
  <1>5. PayloadInv' /\ QueueInv'
    <2>1. /\ HasPayload /\ HasPayload' /\ UNCHANGED <<cur, stored, queue, batch>>
          /\ todo' = Tail(todo)
      BY DEF HasPayload, PublishReceived, db, sqs
    <2> QED  BY <1>0, <1>2, <2>1, Advance DEF IInv, QueueInv, Kept
  <1>6. HandInv'
    BY DEF HandInv, HasMessage, PublishReceived
  <1>7. WholeInv'
    BY DEF IInv, WholeInv, PublishReceived, db
  <1>8. CountInv'
    BY DEF IInv, CountInv, CountedOnce, PublishReceived, db
  <1>9. AnnouncedOnce'
    BY <1>0, <1>1, <1>2 DEF IInv, TypeOK, AnnouncedOnce, PublishReceived, db
  <1>10. AnnouncedUnlessInterrupted'
    BY <1>0, <1>1, <1>2 DEF IInv, TypeOK, AnnouncedUnlessInterrupted, PublishReceived, db
  <1> QED  BY <1>3, <1>4, <1>5, <1>6, <1>7, <1>8, <1>9, <1>10 DEF IInv

\* Nothing is left to do of the payload, so all of it is stored.
LEMMA DeleteInboundIInv ==
  ASSUME IInv, DeleteInbound
  PROVE  IInv'
  <1>0. TypeOK /\ cur \in Calls
    BY DEF IInv, PayloadInv, HasPayload, DeleteInbound
  <1>1. TypeOK'
    BY <1>0 DEF TypeOK, DeleteInbound, db, outside
  <1>2. AllStored(cur)
    <2>1. Len(Items[cur]) \in Nat /\ Len(todo) = 0
      BY <1>0 DEF DeleteInbound
    <2> QED  BY <2>1 DEF IInv, PayloadInv, HasPayload, Done, AllStored, DeleteInbound
  <1>3. HookInv' /\ DeletedInv'
    <2>1. Kept(cur)
      BY DEF IInv, QueueInv, HasPayload, DeleteInbound
    <2> QED
      BY <1>0, <1>2, <2>1 DEF IInv, TypeOK, HookInv, DeletedInv, AllStored, Kept, DeleteInbound, db
  <1>4. PayloadInv' /\ HandInv'
    BY DEF PayloadInv, HandInv, HasPayload, HasMessage, DeleteInbound
  <1>7. QueueInv'
    BY <1>0 DEF IInv, TypeOK, QueueInv, HasPayload, Kept, DeleteInbound
  <1>5. WholeInv' /\ CountInv' /\ AnnouncedOnce'
    BY <1>0, RowsUntouched DEF TypeOK, DeleteInbound, outside
  <1>6. AnnouncedUnlessInterrupted'
    BY DEF IInv, AnnouncedUnlessInterrupted, DeleteInbound, db, outside
  <1> QED  BY <1>1, <1>3, <1>4, <1>5, <1>6, <1>7 DEF IInv

\* A failure forgets the message in hand; if it was stored, it counts as interrupted.
LEMMA IterationFailedIInv ==
  ASSUME IInv, IterationFailed
  PROVE  IInv'
  <1>0. TypeOK
    BY DEF IInv
  <1>1. step \in {"route", "publish"} => Head(todo) \in Ids
    BY <1>0 DEF IInv, HandInv, TypeOK
  <1>2. TypeOK'
    <2>1. fresh' \in BOOLEAN
      BY DEF IterationFailed
    <2>2. todo' \in Seq(Ids)
      BY DEF IterationFailed
    <2>3. interrupted' \subseteq Ids
      BY <1>0, <1>1 DEF TypeOK, IterationFailed
    <2> QED  BY <1>0, <2>1, <2>2, <2>3 DEF TypeOK, IterationFailed, sqs, db, outside
  <1>3. HookInv' /\ DeletedInv'
    BY DEF IInv, HookInv, DeletedInv, AllStored, IterationFailed, sqs, db
  <1>4. PayloadInv' /\ QueueInv' /\ HandInv'
    BY DEF PayloadInv, QueueInv, HandInv, HasPayload, HasMessage, IterationFailed
  <1>5. WholeInv' /\ CountInv' /\ AnnouncedOnce'
    BY <1>0, RowsUntouched DEF TypeOK, IterationFailed, outside
  <1>6. AnnouncedUnlessInterrupted'
    BY DEF IInv, AnnouncedUnlessInterrupted, IterationFailed, db, outside
  <1> QED  BY <1>2, <1>3, <1>4, <1>5, <1>6 DEF IInv

\* Every step preserves the invariant.
LEMMA NextIInv == IInv /\ [Next]_vars => IInv'
  <1> SUFFICES ASSUME IInv, [Next]_vars PROVE IInv'
    OBVIOUS
  <1>1. CASE UNCHANGED vars
    <2>1. TypeOK' /\ HookInv' /\ DeletedInv'
      BY <1>1 DEF vars, IInv, TypeOK, HookInv, DeletedInv, AllStored
    <2>2. \A c \in Calls : Kept(c) => Kept(c)'
      BY <1>1 DEF vars, Kept
    <2> QED  BY <1>1, <2>1, <2>2, QueueStep DEF vars, worker, db, outside
  <1>2. CASE process_inbound_batch
    BY <1>2, BeginPayloadIInv, InsertMessageIInv, UploadAttachmentsIInv, CommitMessageIInv,
       RouteConversationIInv, PublishReceivedIInv, DeleteInboundIInv
    DEF process_inbound_batch
  <1>3. ASSUME NEW c \in Calls,
               \/ \E answer \in {"acked", "unanswered"} : HandleWebhook(c, answer)
               \/ HandleWebhookRaises(c)
               \/ VisibilityTimeout(c)
        PROVE  IInv'
    BY <1>3, HandleWebhookIInv, HandleWebhookRaisesIInv, VisibilityTimeoutIInv
  <1> QED  BY <1>1, <1>2, <1>3, ReceiveInboundIInv, IterationFailedIInv DEF Next

-----------------------------------------------------------------------------
(***************************************************************************)
(* The theorems.                                                           *)
(***************************************************************************)

\* The invariant holds in every behaviour.
THEOREM SpecIInv == Spec => []IInv
  BY InitIInv, NextIInv, PTL DEF Spec

\* Queue, worker and rows keep their types, and no message is received more often than
\* the queue's redrive policy allows.
THEOREM SpecTypeOK == Spec => []TypeOK
  <1>1. IInv => TypeOK
    BY DEF IInv
  <1> QED  BY <1>1, SpecIInv, PTL

\* No message the provider was told we have is lost, and no stored one is incomplete.
THEOREM SpecAckedIsKept == Spec => []AckedIsKept
  <1>1. IInv => AckedIsKept
    BY DEF IInv, HookInv, DeletedInv, WholeInv, AckedIsKept
  <1> QED  BY <1>1, SpecIInv, PTL

\* However often a payload is delivered, a message is counted once, announced at most
\* once, and its conversation is routed at most once.
THEOREM SpecOnceEach == Spec => []OnceEach
  <1>1. IInv => OnceEach
    BY DEF IInv, CountInv, OnceEach
  <1> QED  BY <1>1, SpecIInv, PTL

\* Only a failure between the commit and the event leaves a stored message unannounced.
THEOREM SpecAnnouncedUnlessInterrupted == Spec => []AnnouncedUnlessInterrupted
  <1>1. IInv => AnnouncedUnlessInterrupted
    BY DEF IInv
  <1> QED  BY <1>1, SpecIInv, PTL

\* The agents see every stored row, because every one is whole.
LEMMA WholeIsStored ==
  /\ WholeInv => Whole = stored
  /\ WholeInv' => Whole' = stored'
  BY DEF WholeInv, Whole

(***************************************************************************)
(* The pipeline implements the Intake: taking a call in, storing, routing, *)
(* announcing, deleting and giving up are steps of the call or message     *)
(* they are about, and everything else is hidden.  PayloadInv is what      *)
(* makes the commit legal: the message in hand is the next of its payload, *)
(* and QueueInv says that the payload is still kept.                       *)
(***************************************************************************)
LEMMA StepIsIntakeStep ==
  ASSUME IInv, IInv', [Next]_vars
  PROVE  T!Next \/ UNCHANGED T!intake
  <1> DEFINE Hidden == UNCHANGED <<hook, queue, stored, unread, routed, events>>
  <1>0. TypeOK /\ Whole = stored /\ Whole' = stored'
    BY WholeIsStored DEF IInv
  <1>1. Hidden => UNCHANGED T!intake
    BY <1>0 DEF T!intake, Place
  <1>2. ASSUME NEW c \in Calls, NEW a \in {"acked", "unanswered"}, HandleWebhook(c, a)
        PROVE  T!Accept(c)
    BY <1>0, <1>2 DEF IInv, TypeOK, HookInv, HandleWebhook, T!Accept, Place, db, outside
  <1>3. ASSUME NEW c \in Calls, HandleWebhookRaises(c) PROVE T!Refuse(c)
    BY <1>0, <1>3 DEF HandleWebhookRaises, T!Refuse, Place, sqs, db, outside
  <1>4. ASSUME NEW c \in Calls, VisibilityTimeout(c) PROVE UNCHANGED T!intake
    BY <1>0, <1>4 DEF TypeOK, VisibilityTimeout, T!intake, Place, db, outside
  <1>5. ASSUME NEW S \in SUBSET Calls, ReceiveInbound(S)
        PROVE  \E X \in SUBSET Calls : T!Abandon(X)
    <2> DEFINE X == {c \in S : receives[c] >= MaxReceiveCount}
    <2>1. T!Abandon(X)
      BY <1>0, <1>5 DEF TypeOK, ReceiveInbound, T!Abandon, Place, db, outside
    <2> QED  BY <2>1
  <1>6. CASE CommitMessage
    <2> DEFINE n == Done + 1
    <2>1. /\ cur \in Calls /\ todo \in Seq(Ids) /\ todo # <<>> /\ Kept(cur)
          /\ Head(todo) \notin stored
      BY <1>0, <1>6 DEF IInv, TypeOK, PayloadInv, QueueInv, HandInv, HasPayload, HasMessage,
                        CommitMessage
    <2>2. /\ n \in 1..Len(Items[cur]) /\ Items[cur][n] = Head(todo)
          /\ \A m \in 1..(n - 1) : Items[cur][m] \in stored
      <3>1. /\ Len(todo) <= Len(Items[cur])
            /\ \A m \in 1..Done : Items[cur][m] \in stored
            /\ \A m \in 1..Len(todo) : todo[m] = Items[cur][Done + m]
        BY <1>6 DEF IInv, PayloadInv, HasPayload, CommitMessage
      <3>2. /\ Len(todo) \in Nat /\ Len(todo) > 0 /\ Len(Items[cur]) \in Nat
            /\ Head(todo) = todo[1]
        BY <2>1
      <3> QED  BY <3>1, <3>2 DEF Done
    <2> HIDE DEF n
    <2>3. T!Store(cur, n)
      BY <1>0, <1>6, <2>1, <2>2 DEF TypeOK, CommitMessage, T!Store, Place, Kept, outside, sqs
    <2> QED  BY <2>1, <2>2, <2>3 DEF T!Next
  <1>7. CASE RouteConversation
    <2>1. /\ Head(todo) \in Ids /\ Sender[Head(todo)] \in Senders
          /\ Head(todo) \in stored /\ routed[Sender[Head(todo)]] = 0
      BY <1>0, <1>7, HeadOfTodo DEF IInv, TypeOK, HandInv, HasMessage, RouteConversation
    <2>2. {s \in Senders : routed'[s] > 0}
            = {s \in Senders : routed[s] > 0} \cup {Sender[Head(todo)]}
      BY <1>0, <1>7, <2>1 DEF TypeOK, RouteConversation
    <2>3. PICK i \in Ids : i = Head(todo)
      BY <2>1
    <2>4. T!Assign(i)
      BY <1>0, <1>7, <2>1, <2>2, <2>3 DEF RouteConversation, T!Assign, Place, db, sqs
    <2> QED  BY <2>4 DEF T!Next
  <1>8. CASE PublishReceived
    <2>1. /\ Head(todo) \in Ids /\ Head(todo) \in stored /\ events[Head(todo)] = 0
      BY <1>0, <1>8, HeadOfTodo DEF IInv, TypeOK, HandInv, HasMessage, PublishReceived
    <2>2. {i \in Ids : events'[i] > 0} = {i \in Ids : events[i] > 0} \cup {Head(todo)}
      BY <1>0, <1>8, <2>1 DEF TypeOK, PublishReceived
    <2>3. PICK i \in Ids : i = Head(todo)
      BY <2>1
    <2>4. T!Announce(i)
      BY <1>0, <1>8, <2>1, <2>2, <2>3 DEF PublishReceived, T!Announce, Place, db, sqs
    <2> QED  BY <2>4 DEF T!Next
  <1>9. CASE DeleteInbound
    <2>1. cur \in Calls /\ Kept(cur)
      BY <1>9 DEF IInv, PayloadInv, QueueInv, HasPayload, DeleteInbound
    <2>2. \A n \in 1..Len(Items[cur]) : Items[cur][n] \in stored
      <3>1. Len(Items[cur]) \in Nat /\ Len(todo) = 0
        BY <1>9, <2>1 DEF DeleteInbound
      <3> QED  BY <1>9, <3>1 DEF IInv, PayloadInv, HasPayload, Done, DeleteInbound
    <2>3. T!Settle(cur)
      BY <1>0, <1>9, <2>1, <2>2 DEF TypeOK, DeleteInbound, T!Settle, Place, Kept, db, outside
    <2> QED  BY <2>1, <2>3 DEF T!Next
  <1>10. CASE \/ \E c \in Calls : BeginPayload(c)
              \/ InsertMessage \/ UploadAttachments \/ IterationFailed \/ UNCHANGED vars
    <2>1. Hidden
      BY <1>10 DEF BeginPayload, InsertMessage, UploadAttachments, IterationFailed, vars,
                   db, sqs, outside
    <2> QED  BY <1>1, <2>1
  <1> QED
    BY <1>2, <1>3, <1>4, <1>5, <1>6, <1>7, <1>8, <1>9, <1>10
    DEF Next, process_inbound_batch, T!Next

\* The implementation theorem; liveness (EventuallyOffTheQueue) is TLC's.
THEOREM SpecImplementsIntake == Spec => ImplementsIntake
  <1>1. Init => T!Init
    BY DEF Init, T!Init, Place, Whole
  <1>2. IInv /\ IInv' /\ [Next]_vars => [T!Next]_(T!intake)
    BY StepIsIntakeStep
  <1> QED
    BY SpecIInv, <1>1, <1>2, PTL DEF Spec, ImplementsIntake, T!Spec

=============================================================================
