--------------------------- MODULE OutboundProofs ---------------------------
(***************************************************************************)
(* Proofs, for every set of requests, every assignment of Idempotency-Keys *)
(* and of SQS messages, every MaxReceiveCount and every number of attempts *)
(* of the SDK, of the safety properties MCOutbound checks on a small       *)
(* instance.  The induction needs to know what the worker's local state    *)
(* says about the message it handles (WorkerInv), that no two rows share a *)
(* key (KeyInv), that a row's id is of an accepted send (IdInv), and that  *)
(* a send uses up a receive (SendInv).                                     *)
(***************************************************************************)
EXTENDS Outbound, TLAPS

\* What n receives may cost at the provider.
Budget(n) == n * MaxAttempts

\* A request has a row once it committed, SQS messages once it enqueued it.
RequestInv ==
  /\ \A r \in Requests :
       /\ req[r] \in {"new", "checked"} => status[r] = "absent"
       /\ req[r] = "committed" => status[r] # "absent"
       /\ answer[r] # None => status[answer[r]] # "absent"
       /\ answer[r] # None => answer[r] = r \/ DedupKey[answer[r]] = DedupKey[r]
  /\ \A p \in Posts :
       /\ req[Row[p]] \in {"new", "checked", "committed"} => queue[p] = "none"
       /\ queue[p] # "none" => status[Row[p]] # "absent"

\* uq_message_client_dedup.
KeyInv ==
  \A r, s \in Requests :
    /\ DedupKey[r] = DedupKey[s] /\ DedupKey[r] # NoKey
    /\ status[r] # "absent" /\ status[s] # "absent"
    => r = s

\* Every accepted send was paid for with a receive.
SendInv == \A p \in Posts : accepted[p] <= Budget(receives[p])

\* The stored id is of an accepted send, and such a row is past "queued".
IdInv ==
  \A m \in Requests :
    extId[m] \in Posts \X Nat => IsSendOf(m, extId[m]) /\ status[m] \notin {"absent", "queued"}

\* SQS message p has a receive that was not spent on a send.
Unspent(p) == receives[p] > 0 /\ accepted[p] <= Budget(receives[p] - 1)

\* What the worker's position says about the batch and the message it handles.
WorkerInv ==
  /\ step = "idle" => batch = {}
  /\ cur = None <=> step \in {"idle", "next"}
  /\ cur \notin batch
  /\ \A p \in batch : queue[p] \in {"visible", "inflight"} /\ Unspent(p)
  /\ cur # None => queue[cur] \in {"visible", "inflight"}
  /\ step = "send" => Unspent(cur)
  /\ step = "record" => accepted[cur] > 0 /\ extId[Row[cur]] # <<cur, accepted[cur]>>
  /\ step = "fail" => receives[cur] = MaxReceiveCount
  /\ step = "delete" => accepted[cur] > 0 /\ status[Row[cur]] \notin {"absent", "queued"}

\* The inductive invariant.
IInv ==
  /\ TypeOK
  /\ RequestInv
  /\ KeyInv
  /\ SendInv
  /\ IdInv
  /\ WorkerInv
  /\ SentWasAccepted
  /\ DeletedIsResolved
  /\ FailedIsExhaustedOrReported

USE OutboundAssumption

\* One receive more pays for MaxAttempts calls of the provider more.
LEMMA BudgetSteps ==
  /\ Budget(0) = 0
  /\ \A n \in Nat : Budget(n) \in Nat /\ Budget(n + 1) = Budget(n) + MaxAttempts
  /\ \A n \in Nat : n > 0 => Budget(n) = Budget(n - 1) + MaxAttempts
  /\ \A n \in Nat : n <= MaxReceiveCount => Budget(n) <= MaxReceiveCount * MaxAttempts
  BY SMT DEF Budget

\* The initial states satisfy it.
LEMMA InitIInv == Init => IInv
  BY BudgetSteps DEF Init, IInv, TypeOK, RequestInv, KeyInv, SendInv, IdInv, WorkerInv,
         SentWasAccepted, DeletedIsResolved, FailedIsExhaustedOrReported, MessageStatus, Ladder

\* What a send_message leaves behind, as a set of new SQS messages of the row.
LEMMA EnqueuedStep ==
  ASSUME NEW r \in Requests, Enqueued(r)
  PROVE  \E S \in SUBSET {p \in Posts : Row[p] = r} :
           queue' = [p \in Posts |-> IF p \in S THEN "visible" ELSE queue[p]]
  BY Zenon DEF Enqueued

(***************************************************************************)
(* A send for cur leaves the ids of its row and the budget in order: more  *)
(* accepted sends than before, and no more than the receives paid for.     *)
(***************************************************************************)
LEMMA SendStep ==
  ASSUME IInv, step = "send", NEW k \in 0..MaxAttempts,
         accepted' = [accepted EXCEPT ![cur] = @ + k],
         UNCHANGED <<row, sqs>>
  PROVE  /\ cur \in Posts /\ accepted' \in [Posts -> Nat]
         /\ accepted'[cur] = accepted[cur] + k
         /\ \A p \in Posts : p # cur => accepted'[p] = accepted[p]
         /\ SendInv' /\ IdInv' /\ SentWasAccepted' /\ DeletedIsResolved'
         /\ FailedIsExhaustedOrReported'
         /\ k > 0 => extId[Row[cur]] # <<cur, accepted'[cur]>>
  <1> USE DEF IInv, TypeOK, row, sqs
  <1>1. cur \in Posts /\ accepted[cur] \in Nat /\ receives[cur] \in Nat /\ k \in Nat
    BY DEF WorkerInv
  <1>2. /\ accepted' \in [Posts -> Nat]
        /\ accepted'[cur] = accepted[cur] + k
        /\ \A p \in Posts : p # cur => accepted'[p] = accepted[p]
    BY <1>1
  <1>3. \A p \in Posts : accepted[p] <= accepted'[p]
    BY <1>1, <1>2
  <1>4. \A m \in Requests, x \in Posts \X Nat : IsSendOf(m, x) => IsSendOf(m, x)'
    BY <1>2, <1>3 DEF IsSendOf
  <1>5. \A m \in Requests : IsSendOf(m, extId[m]) => IsSendOf(m, extId[m])'
    <2> SUFFICES ASSUME NEW m \in Requests, IsSendOf(m, extId[m])
                 PROVE  IsSendOf(m, extId[m])'
      OBVIOUS
    <2>1. extId'[m] = extId[m]
      OBVIOUS
    <2> QED  BY <1>2, <1>3, <2>1 DEF IsSendOf
  <1>6. SendInv'
    <2>1. accepted[cur] <= Budget(receives[cur] - 1) /\ receives[cur] > 0
      BY DEF WorkerInv, Unspent
    <2>2. accepted'[cur] <= Budget(receives[cur])
      <3>1. Budget(receives[cur]) = Budget(receives[cur] - 1) + MaxAttempts
        BY <1>1, <2>1, BudgetSteps
      <3>2. Budget(receives[cur] - 1) \in Nat
        BY <1>1, <2>1, BudgetSteps
      <3> QED  BY <1>1, <1>2, <2>1, <3>1, <3>2
    <2>3. receives' = receives
      OBVIOUS
    <2> QED  BY <1>2, <2>2, <2>3 DEF SendInv
  <1>7. k > 0 => extId[Row[cur]] # <<cur, accepted'[cur]>>
    <2> SUFFICES ASSUME k > 0, extId[Row[cur]] = <<cur, accepted'[cur]>> PROVE FALSE
      OBVIOUS
    <2>1. Row[cur] \in Requests /\ extId[Row[cur]] \in Posts \X Nat
      BY <1>1, <1>2
    <2>2. IsSendOf(Row[cur], extId[Row[cur]])
      BY <2>1 DEF IdInv
    <2>3. accepted'[cur] \in 1..accepted[cur]
      BY <2>2 DEF IsSendOf
    <2> QED  BY <1>1, <1>2, <2>3
  <1>8. IdInv' /\ SentWasAccepted'
    BY <1>5 DEF IdInv, SentWasAccepted
  <1>9. DeletedIsResolved'
    BY <1>1, <1>2, <1>3 DEF DeletedIsResolved
  <1>10. FailedIsExhaustedOrReported'
    BY <1>5 DEF FailedIsExhaustedOrReported
  <1> QED  BY <1>1, <1>2, <1>6, <1>7, <1>8, <1>9, <1>10

(***************************************************************************)
(* Every step preserves the inductive invariant, one action at a time.     *)
(***************************************************************************)
LEMMA NextIInv == IInv /\ [Next]_vars => IInv'
  <1> SUFFICES ASSUME IInv, [Next]_vars PROVE IInv'
    OBVIOUS
  <1> USE DEF IInv, api, row, sqs, worker, TypeOK, RequestInv, KeyInv, SendInv, IdInv,
              WorkerInv, SentWasAccepted, DeletedIsResolved, FailedIsExhaustedOrReported,
              MessageStatus, Ladder, Unspent, IsSendOf
  <1>1. ASSUME NEW r \in Requests, SendReplyReplay(r) PROVE IInv'
    BY <1>1 DEF SendReplyReplay, FindByDedupKey, Answer
  <1>2. ASSUME NEW r \in Requests, SendReplyChecked(r) PROVE IInv'
    BY <1>2 DEF SendReplyChecked
  <1>3. ASSUME NEW r \in Requests, SendReplyCommit(r) PROVE IInv'
    <2>1. RequestInv'
      BY <1>3 DEF SendReplyCommit, FindByDedupKey
    <2>2. KeyInv'
      BY <1>3 DEF SendReplyCommit, FindByDedupKey
    <2>3. IdInv'
      BY <1>3 DEF SendReplyCommit
    <2>4. WorkerInv'
      BY <1>3 DEF SendReplyCommit
    <2> QED
      BY <1>3, <2>1, <2>2, <2>3, <2>4 DEF SendReplyCommit
  <1>4. ASSUME NEW r \in Requests, SendReplyLostRace(r) PROVE IInv'
    BY <1>4 DEF SendReplyLostRace, FindByDedupKey, Answer
  <1>5. ASSUME NEW r \in Requests, SendReplyEnqueue(r) \/ SendReplyEnqueueUnacknowledged(r)
        PROVE  IInv'
    <2>0. Enqueued(r)
      BY <1>5 DEF SendReplyEnqueue, SendReplyEnqueueUnacknowledged
    <2>1. PICK S \in SUBSET {p \in Posts : Row[p] = r} :
            queue' = [p \in Posts |-> IF p \in S THEN "visible" ELSE queue[p]]
      BY <2>0, EnqueuedStep, Zenon
    <2>2. /\ req[r] = "committed" /\ req'[r] \in {"done", "failed"}
          /\ req' \in [Requests -> {"new", "checked", "committed", "done", "failed"}]
          /\ \A t \in Requests : t # r => req'[t] = req[t]
          /\ UNCHANGED <<receives, row, worker, accepted>>
      BY <1>5 DEF SendReplyEnqueue, SendReplyEnqueueUnacknowledged, Answer
    <2>3. /\ answer' \in [Requests -> Requests \cup {None}]
          /\ \A t \in Requests : answer'[t] = answer[t] \/ (t = r /\ answer'[t] = r)
      BY <1>5 DEF SendReplyEnqueue, SendReplyEnqueueUnacknowledged, Answer
    <2>4. \A p \in Posts : queue'[p] = queue[p] \/ (Row[p] = r /\ queue'[p] = "visible")
      BY <2>1
    <2>5. TypeOK'
      BY <2>1, <2>2, <2>3
    <2>6. RequestInv'
      BY <2>2, <2>3, <2>4
    <2>7. WorkerInv'
      BY <2>2, <2>4
    <2>8. DeletedIsResolved'
      BY <2>2, <2>4
    <2> QED
      BY <2>2, <2>5, <2>6, <2>7, <2>8
  <1>6. ASSUME NEW r \in Requests, SendReplyRaises(r) PROVE IInv'
    BY <1>6 DEF SendReplyRaises
  <1>7. ASSUME NEW S \in SUBSET Posts, ReceiveOutbound(S) PROVE IInv'
    <2>1. TypeOK'
      BY <1>7 DEF ReceiveOutbound
    <2>2. \A p \in Posts :
            \/ receives'[p] = receives[p] /\ p \notin batch'
            \/ receives'[p] = receives[p] + 1
      BY <1>7 DEF ReceiveOutbound
    <2>3. SendInv'
      BY <1>7, <2>2, BudgetSteps DEF ReceiveOutbound
    <2>4. \A p \in batch' : Unspent(p)'
      <3> SUFFICES ASSUME NEW p \in batch' PROVE Unspent(p)'
        BY Zenon
      <3>1. p \in Posts /\ receives'[p] = receives[p] + 1
        BY <1>7, <2>2 DEF ReceiveOutbound
      <3>2. receives[p] \in Nat /\ accepted[p] <= Budget(receives[p]) /\ accepted' = accepted
        BY <1>7, <3>1 DEF ReceiveOutbound
      <3> QED  BY <3>1, <3>2
    <2>5. WorkerInv'
      <3>1. /\ cur' = None /\ step' \in {"idle", "next"}
            /\ step' = "idle" => batch' = {}
            /\ \A p \in batch' : queue'[p] = "inflight"
        BY <1>7 DEF ReceiveOutbound
      <3>2. cur' \notin batch'
        BY <2>1, <3>1
      <3> QED  BY <2>4, <3>1, <3>2
    <2>6. FailedIsExhaustedOrReported'
      BY <1>7 DEF ReceiveOutbound
    <2> QED
      BY <1>7, <2>1, <2>3, <2>5, <2>6 DEF ReceiveOutbound
  <1>8. ASSUME NEW p \in Posts, VisibilityTimeout(p) PROVE IInv'
    BY <1>8 DEF VisibilityTimeout
  <1>9. ASSUME NEW p \in Posts, NEW active \in BOOLEAN, LoadContext(p, active) PROVE IInv'
    BY <1>9 DEF LoadContext
  <1>10. ASSUME step = "send", NEW k \in 0..MaxAttempts,
                accepted' = [accepted EXCEPT ![cur] = @ + k],
                UNCHANGED <<api, row, sqs>>,
                \/ step' = "record" /\ k > 0 /\ UNCHANGED <<cur, batch>>
                \/ receives[cur] >= MaxReceiveCount /\ step' = "fail" /\ UNCHANGED <<cur, batch>>
                \/ NextInBatch
                \/ step' = "idle" /\ cur' = None /\ batch' = {}
         PROVE  IInv'
    <2>1. /\ cur \in Posts /\ accepted' \in [Posts -> Nat]
          /\ accepted'[cur] = accepted[cur] + k
          /\ \A p \in Posts : p # cur => accepted'[p] = accepted[p]
          /\ SendInv' /\ IdInv' /\ SentWasAccepted' /\ DeletedIsResolved'
          /\ FailedIsExhaustedOrReported'
          /\ k > 0 => extId[Row[cur]] # <<cur, accepted'[cur]>>
      BY <1>10, SendStep
    <2>2. TypeOK'
      BY <1>10, <2>1 DEF NextInBatch
    <2>3. \A p \in batch : p \in Posts /\ p # cur /\ Unspent(p)'
      BY <1>10, <2>1
    <2>4. WorkerInv'
      <3>1. /\ step' = "idle" => batch' = {}
            /\ cur' = None <=> step' \in {"idle", "next"}
            /\ cur' \notin batch'
            /\ batch' \subseteq batch
            /\ cur' \in {cur, None}
            /\ step' \in {"record", "fail", "idle", "next"}
        BY <1>10, <2>1 DEF NextInBatch
      <3>2. step' = "record" =>
              accepted'[cur'] > 0 /\ extId'[Row[cur']] # <<cur', accepted'[cur']>>
        BY <1>10, <2>1 DEF NextInBatch
      <3>3. step' = "fail" => receives'[cur'] = MaxReceiveCount
        <4>1. receives[cur] \in 0..MaxReceiveCount /\ receives' = receives
          BY <1>10, <2>1
        <4> QED  BY <1>10, <4>1 DEF NextInBatch
      <3> QED  BY <1>10, <2>3, <3>1, <3>2, <3>3
    <2>5. RequestInv' /\ KeyInv'
      BY <1>10
    <2> QED  BY <2>1, <2>2, <2>4, <2>5
  <1>11. CASE SendAccepted
    <2>1. PICK k \in 1..MaxAttempts : accepted' = [accepted EXCEPT ![cur] = @ + k]
      BY <1>11 DEF SendAccepted
    <2>2. k \in 0..MaxAttempts /\ k > 0
      BY <2>1
    <2> QED  BY <1>10, <1>11, <2>1, <2>2 DEF SendAccepted
  <1>12. CASE SendFailed
    <2>1. PICK k \in 0..MaxAttempts : accepted' = [accepted EXCEPT ![cur] = @ + k]
      BY <1>12 DEF SendFailed
    <2> QED  BY <1>10, <1>12, <2>1 DEF SendFailed
  <1>13. CASE MarkFailed
    <2>1. WorkerInv'
      BY <1>13 DEF MarkFailed, NextInBatch
    <2>2. FailedIsExhaustedOrReported'
      BY <1>13 DEF MarkFailed, NextInBatch
    <2>3. RequestInv' /\ KeyInv'
      BY <1>13 DEF MarkFailed, NextInBatch
    <2>4. IdInv' /\ SentWasAccepted' /\ DeletedIsResolved'
      BY <1>13 DEF MarkFailed, NextInBatch
    <2> QED
      BY <1>13, <2>1, <2>2, <2>3, <2>4 DEF MarkFailed, NextInBatch
  <1>14. CASE RecordSent
    <2>1. /\ cur \in Posts /\ Row[cur] \in Requests /\ accepted[cur] \in Nat
          /\ accepted[cur] > 0 /\ queue[cur] # "none"
      BY <1>14 DEF RecordSent
    <2>2. /\ status' = [status EXCEPT ![Row[cur]] = "sent"]
          /\ extId' = [extId EXCEPT ![Row[cur]] = <<cur, accepted[cur]>>]
          /\ step' = "delete"
          /\ UNCHANGED <<api, sqs, cur, batch, accepted>>
      BY <1>14 DEF RecordSent
    <2>3. TypeOK'
      BY <2>1, <2>2
    <2>4. IsSendOf(Row[cur], <<cur, accepted[cur]>>)
      BY <2>1
    <2>5. /\ \A m \in Requests : m # Row[cur] => extId'[m] = extId[m] /\ status'[m] = status[m]
          /\ extId'[Row[cur]] = <<cur, accepted[cur]>> /\ status'[Row[cur]] = "sent"
      BY <2>1, <2>2
    <2>6. IdInv' /\ SentWasAccepted' /\ FailedIsExhaustedOrReported'
      BY <2>2, <2>4, <2>5
    <2>7. DeletedIsResolved'
      BY <2>1, <2>2, <2>5
    <2>8. WorkerInv'
      BY <2>1, <2>2, <2>5
    <2>9. RequestInv' /\ KeyInv'
      BY <2>1, <2>2, <2>5
    <2>10. SendInv'
      BY <2>2
    <2> QED
      BY <2>3, <2>6, <2>7, <2>8, <2>9, <2>10
  <1>15. CASE DeleteOutbound
    <2>1. WorkerInv'
      BY <1>15 DEF DeleteOutbound, NextInBatch
    <2>2. DeletedIsResolved'
      BY <1>15 DEF DeleteOutbound, NextInBatch
    <2> QED
      BY <1>15, <2>1, <2>2 DEF DeleteOutbound, NextInBatch
  <1>16. CASE IterationFailed
    <2>1. CASE UNCHANGED accepted
      BY <1>16, <2>1 DEF IterationFailed
    <2>2. CASE step = "send" /\ \E k \in 1..MaxAttempts : accepted' = [accepted EXCEPT ![cur] = @ + k]
      <3>1. PICK k \in 1..MaxAttempts : accepted' = [accepted EXCEPT ![cur] = @ + k]
        BY <2>2
      <3>2. k \in 0..MaxAttempts /\ UNCHANGED <<api, row, sqs>>
            /\ step' = "idle" /\ cur' = None /\ batch' = {}
        BY <1>16, <3>1 DEF IterationFailed
      <3> QED  BY <1>10, <2>2, <3>1, <3>2, Zenon
    <2> QED
      BY <1>16, <2>1, <2>2 DEF IterationFailed
  <1>17. ASSUME NEW m \in Requests, NEW s \in ProviderStatuses, ApplyDeliveryStatus(m, s)
         PROVE  IInv'
    <2>1. WorkerInv'
      BY <1>17 DEF ApplyDeliveryStatus
    <2>2. IdInv' /\ SentWasAccepted'
      BY <1>17 DEF ApplyDeliveryStatus
    <2>3. DeletedIsResolved'
      BY <1>17 DEF ApplyDeliveryStatus, StatusRank
    <2>4. FailedIsExhaustedOrReported'
      BY <1>17 DEF ApplyDeliveryStatus
    <2>5. RequestInv' /\ KeyInv'
      BY <1>17 DEF ApplyDeliveryStatus
    <2> QED
      BY <1>17, <2>1, <2>2, <2>3, <2>4, <2>5 DEF ApplyDeliveryStatus
  <1>18. CASE Crash
    BY <1>18 DEF Crash
  <1>19. CASE UNCHANGED vars
    BY <1>19 DEF vars
  <1> HIDE DEF IInv, api, row, sqs, worker, TypeOK, RequestInv, KeyInv, SendInv, IdInv,
               WorkerInv, SentWasAccepted, DeletedIsResolved, FailedIsExhaustedOrReported,
               MessageStatus, Ladder, Unspent, IsSendOf
  <1> QED
    BY <1>1, <1>2, <1>3, <1>4, <1>5, <1>6, <1>7, <1>8, <1>9,
       <1>11, <1>12, <1>13, <1>14, <1>15, <1>16, <1>17, <1>18, <1>19
    DEF Next, send_reply, process_outbound_batch

\* Every reachable state satisfies the inductive invariant.
THEOREM SpecIInv == Spec => []IInv
  BY InitIInv, NextIInv, PTL DEF Spec

\* Type correctness of the pipeline's state.
THEOREM SpecTypeOK == Spec => []TypeOK
  <1>1. IInv => TypeOK
    BY DEF IInv
  <1> QED  BY SpecIInv, <1>1, PTL

(***************************************************************************)
(* Bounded retry (worker.py:67): a send uses up a receive, SQS hands an    *)
(* SQS message out at most MaxReceiveCount times, and the SDK makes at     *)
(* most MaxAttempts calls of one send, whatever fails in between.          *)
(***************************************************************************)
THEOREM SpecBoundedSends == Spec => []BoundedSends
  <1>1. IInv => BoundedSends
    <2> SUFFICES ASSUME IInv, NEW p \in Posts
                 PROVE  accepted[p] <= MaxReceiveCount * MaxAttempts
      BY DEF BoundedSends
    <2>1. receives[p] \in Nat /\ receives[p] <= MaxReceiveCount /\ accepted[p] \in Nat
      BY DEF IInv, TypeOK
    <2>2. /\ accepted[p] <= Budget(receives[p])
          /\ Budget(receives[p]) \in Nat
          /\ Budget(receives[p]) <= MaxReceiveCount * MaxAttempts
      BY <2>1, BudgetSteps DEF IInv, SendInv
    <2>3. MaxReceiveCount * MaxAttempts \in Nat
      OBVIOUS
    <2> QED  BY <2>1, <2>2, <2>3
  <1> QED  BY SpecIInv, <1>1, PTL

(***************************************************************************)
(* Sent means accepted by the provider, deleted means resolved, and failed *)
(* means out of receives or reported by the provider.                      *)
(***************************************************************************)
THEOREM SpecHonestStatus == Spec => []HonestStatus
  <1>1. IInv => HonestStatus
    BY DEF IInv, HonestStatus
  <1> QED  BY SpecIInv, <1>1, PTL

(***************************************************************************)
(* Requests with one Idempotency-Key share one message, even when both     *)
(* pass the lookup before either commits (handlers.py:62-68).              *)
(***************************************************************************)
THEOREM SpecIdempotentReplies == Spec => []IdempotentReplies
  <1>1. IInv => IdempotentReplies
    <2> SUFFICES ASSUME IInv PROVE IdempotentReplies
      OBVIOUS
    <2>1. ASSUME NEW r \in Requests, NEW s \in Requests,
                 DedupKey[r] = DedupKey[s], DedupKey[r] # NoKey,
                 answer[r] # None, answer[s] # None
          PROVE  answer[r] = answer[s]
      <3>1. /\ answer[r] \in Requests /\ status[answer[r]] # "absent"
            /\ answer[s] \in Requests /\ status[answer[s]] # "absent"
        BY <2>1 DEF IInv, TypeOK, RequestInv
      <3>2. DedupKey[answer[r]] = DedupKey[r] /\ DedupKey[answer[s]] = DedupKey[s]
        BY <2>1 DEF IInv, RequestInv
      <3> QED  BY <2>1, <3>1, <3>2 DEF IInv, KeyInv
    <2>2. ASSUME NEW p \in Posts, NEW q \in Posts,
                 DedupKey[Row[p]] = DedupKey[Row[q]], DedupKey[Row[p]] # NoKey,
                 queue[p] # "none", queue[q] # "none"
          PROVE  Row[p] = Row[q]
      <3>1. Row[p] \in Requests /\ Row[q] \in Requests
        OBVIOUS
      <3> QED  BY <2>2, <3>1 DEF IInv, RequestInv, KeyInv
    <2> QED  BY <2>1, <2>2 DEF IdempotentReplies
  <1> QED  BY SpecIInv, <1>1, PTL

(***************************************************************************)
(* Delivery webhooks in any order never take a row down the ladder: only a *)
(* second send of the same message does (worker.py:53-56, 430).            *)
(***************************************************************************)
THEOREM SpecStatusRegressesOnlyOnResend == Spec => StatusRegressesOnlyOnResend
  <1> DEFINE Regress(m) == /\ status[m] \in Ladder /\ status'[m] \in Ladder
                           /\ StatusRank(status'[m]) < StatusRank(status[m])
             Resent(m) == \E p \in Posts : \E n \in 1..accepted[p] :
                            Row[p] = m /\ <<p, n>> # extId[m]
  <1>1. ASSUME IInv, Next, NEW m \in Requests, Regress(m)
        PROVE  Resent(m)
    <2>1. \/ \E r \in Requests : SendReplyCommit(r)
          \/ MarkFailed
          \/ RecordSent
          \/ \E x \in Requests, s \in ProviderStatuses : ApplyDeliveryStatus(x, s)
          \/ UNCHANGED status
      BY <1>1 DEF Next, send_reply, process_outbound_batch, row, SendReplyReplay,
         SendReplyChecked, SendReplyLostRace, SendReplyEnqueue,
         SendReplyEnqueueUnacknowledged, SendReplyRaises, ReceiveOutbound,
         VisibilityTimeout, LoadContext, SendAccepted, SendFailed,
         DeleteOutbound, IterationFailed, Crash
    <2>2. ASSUME NEW r \in Requests, SendReplyCommit(r) PROVE FALSE
      BY <1>1, <2>2 DEF SendReplyCommit, IInv, TypeOK, RequestInv, Ladder, StatusRank
    <2>3. CASE MarkFailed
      BY <1>1, <2>3 DEF MarkFailed, IInv, TypeOK, WorkerInv, Ladder, StatusRank
    <2>4. CASE RecordSent
      <3>1. /\ cur \in Posts /\ accepted[cur] \in Nat /\ accepted[cur] > 0
            /\ extId[Row[cur]] # <<cur, accepted[cur]>>
            /\ status' = [status EXCEPT ![Row[cur]] = "sent"]
        BY <2>4, <1>1 DEF RecordSent, IInv, TypeOK, WorkerInv
      <3>2. m = Row[cur]
        BY <1>1, <3>1 DEF IInv, TypeOK, StatusRank
      <3>3. accepted[cur] \in 1..accepted[cur]
        BY <3>1
      <3> QED  BY <3>1, <3>2, <3>3
    <2>5. ASSUME NEW x \in Requests, NEW s \in ProviderStatuses, ApplyDeliveryStatus(x, s)
          PROVE  FALSE
      <3>1. status' = [status EXCEPT ![x] = s] /\ (s = "failed" \/ StatusRank(s) > StatusRank(status[x]))
        BY <2>5 DEF ApplyDeliveryStatus
      <3>2. m = x /\ status'[m] = s
        BY <1>1, <3>1 DEF IInv, TypeOK, StatusRank
      <3> QED  BY <1>1, <3>1, <3>2 DEF StatusRank, Ladder
    <2>6. CASE UNCHANGED status
      BY <1>1, <2>6 DEF StatusRank
    <2> QED  BY <2>1, <2>2, <2>3, <2>4, <2>5, <2>6
  <1>2. IInv /\ [Next]_vars =>
          [\A m \in Requests :
             status[m] \in Ladder /\ status'[m] \in Ladder
               /\ StatusRank(status'[m]) < StatusRank(status[m])
             => \E p \in Posts : \E n \in 1..accepted[p] :
                  Row[p] = m /\ <<p, n>> # extId[m]]_vars
    BY <1>1
  <1> QED
    BY SpecIInv, <1>2, PTL DEF Spec, StatusRegressesOnlyOnResend

(***************************************************************************)
(* The pipeline implements the Mailbox: every step of a request, of SQS,   *)
(* of the worker or of the provider is one step of the reply it is about,  *)
(* or hidden.  WorkerInv is what makes the worker's steps legal: the       *)
(* message in hand is still posted and has a receive to spend.             *)
(***************************************************************************)
LEMMA StepIsMailboxStep ==
  ASSUME IInv, [Next]_vars
  PROVE  M!Next \/ UNCHANGED M!mailbox
  <1> USE DEF api, row, sqs, worker, IInv, TypeOK, MessageStatus, Ladder
  <1> DEFINE Hidden == UNCHANGED M!mailbox
  <1>1. ASSUME NEW r \in Requests, send_reply(r)
        PROVE  M!Keep(r) \/ (\E S \in SUBSET Posts : M!Post(S)) \/ Hidden
    <2>1. CASE SendReplyCommit(r)
      BY <2>1 DEF SendReplyCommit, RequestInv, M!Keep, Place
    <2>2. CASE SendReplyEnqueue(r) \/ SendReplyEnqueueUnacknowledged(r)
      <3>0. /\ Enqueued(r) /\ req[r] = "committed"
            /\ UNCHANGED <<status, accepted>>
        BY <2>2 DEF SendReplyEnqueue, SendReplyEnqueueUnacknowledged
      <3>1. PICK S \in SUBSET {p \in Posts : Row[p] = r} :
              queue' = [p \in Posts |-> IF p \in S THEN "visible" ELSE queue[p]]
        BY <3>0, EnqueuedStep, Zenon
      <3>2. /\ status[r] # "absent"
            /\ \A p \in Posts : Row[p] = r => queue[p] = "none"
        BY <3>0 DEF RequestInv
      <3>3. M!Post(S)
        BY <3>0, <3>1, <3>2 DEF M!Post, Place
      <3>4. S \in SUBSET Posts
        BY <3>1
      <3> QED  BY <3>3, <3>4
    <2> QED
      BY <1>1, <2>1, <2>2 DEF send_reply, SendReplyReplay, SendReplyChecked,
         SendReplyLostRace, SendReplyRaises, M!mailbox, Place
  <1>2. ASSUME NEW S \in SUBSET Posts, ReceiveOutbound(S)
        PROVE  \E T \in SUBSET Posts : M!Abandon(T)
    <2> DEFINE T == {p \in S : receives[p] >= MaxReceiveCount}
    <2>1. M!Abandon(T)
      BY <1>2 DEF ReceiveOutbound, M!Abandon, Place
    <2> QED  BY <2>1
  <1>3. ASSUME NEW p \in Posts, VisibilityTimeout(p) PROVE Hidden
    BY <1>3 DEF VisibilityTimeout, M!mailbox, Place
  <1>4. CASE SendAccepted \/ SendFailed \/ IterationFailed
    <2>1. /\ UNCHANGED <<status, queue, receives, extId>>
          /\ \/ UNCHANGED accepted
             \/ /\ step = "send"
                /\ \E k \in 0..MaxAttempts : accepted' = [accepted EXCEPT ![cur] = @ + k]
      BY <1>4 DEF SendAccepted, SendFailed, IterationFailed, WorkerInv
    <2>2. CASE UNCHANGED accepted
      BY <2>1, <2>2 DEF M!mailbox, Place
    <2>3. ASSUME step = "send", NEW k \in 0..MaxAttempts,
                 accepted' = [accepted EXCEPT ![cur] = @ + k]
          PROVE  M!Next \/ Hidden
      <3>1. /\ cur \in Posts /\ accepted'[cur] = accepted[cur] + k
            /\ accepted[cur] \in Nat /\ SendInv'
        BY <2>1, <2>3, SendStep
      <3>2. CASE k = 0
        <4>1. accepted' = accepted
          BY <2>3, <3>1, <3>2
        <4> QED  BY <2>1, <4>1 DEF M!mailbox, Place
      <3>3. CASE k > 0
        <4> DEFINE n == accepted[cur] + k
        <4>1. receives[cur] \in Nat /\ receives[cur] <= MaxReceiveCount /\ receives' = receives
          BY <2>1, <3>1
        <4>2. /\ n <= Budget(receives[cur]) /\ Budget(receives[cur]) \in Nat
              /\ Budget(receives[cur]) <= MaxReceiveCount * MaxAttempts
          BY <3>1, <4>1, BudgetSteps DEF SendInv
        <4>3. MaxReceiveCount * MaxAttempts \in Nat
          OBVIOUS
        <4>4. n > accepted[cur] /\ n <= MaxReceiveCount * MaxAttempts
              /\ n \in 1..(MaxReceiveCount * MaxAttempts)
          BY <3>1, <3>3, <4>2, <4>3
        <4>5. queue[cur] \in {"visible", "inflight"}
          BY <2>3, <3>1 DEF WorkerInv
        <4>6. accepted' = [accepted EXCEPT ![cur] = n]
          BY <2>3, <3>1
        <4>7. M!Send(cur, n)
          BY <2>1, <3>1, <4>4, <4>5, <4>6 DEF M!Send, Place
        <4> QED  BY <3>1, <4>4, <4>7 DEF M!Next
      <3> QED  BY <3>2, <3>3
    <2> QED  BY <2>1, <2>2, <2>3
  <1>5. CASE MarkFailed
    <2>1. cur \in Posts /\ M!ShowFailed(cur)
      BY <1>5 DEF MarkFailed, WorkerInv, M!ShowFailed, Place
    <2> QED  BY <2>1 DEF M!Next
  <1>6. CASE RecordSent
    <2>1. cur \in Posts /\ M!ShowSent(cur)
      BY <1>6 DEF RecordSent, WorkerInv, M!ShowSent, Place
    <2> QED  BY <2>1 DEF M!Next
  <1>7. CASE DeleteOutbound
    <2>1. /\ cur \in Posts /\ queue[cur] \in {"visible", "inflight"}
          /\ step = "delete" => accepted[cur] > 0 /\ M!Resolved(Row[cur])
      BY <1>7 DEF DeleteOutbound, WorkerInv, M!Resolved
    <2>2. /\ UNCHANGED <<status, accepted>>
          /\ \/ step = "delete" /\ queue' = [queue EXCEPT ![cur] = "deleted"]
             \/ step = "drop" /\ queue' = [queue EXCEPT ![cur] = "dropped"]
      BY <1>7 DEF DeleteOutbound
    <2>3. CASE step = "delete" /\ queue' = [queue EXCEPT ![cur] = "deleted"]
      <3>1. Place' = [Place EXCEPT ![cur] = "deleted"]
        BY <2>1, <2>3 DEF Place
      <3>2. M!Settle(cur)
        BY <2>1, <2>2, <2>3, <3>1 DEF M!Settle, Place
      <3> QED  BY <2>1, <3>2 DEF M!Next
    <2>4. CASE step = "drop" /\ queue' = [queue EXCEPT ![cur] = "dropped"]
      <3>1. Place' = [Place EXCEPT ![cur] = "dropped"]
        BY <2>1, <2>4 DEF Place
      <3>2. M!Drop(cur)
        BY <2>1, <2>2, <3>1 DEF M!Drop, Place
      <3> QED  BY <2>1, <3>2 DEF M!Next
    <2> QED  BY <2>2, <2>3, <2>4
  <1>8. ASSUME NEW m \in Requests, NEW s \in ProviderStatuses, ApplyDeliveryStatus(m, s)
        PROVE  s \in {"sent", "delivered", "read", "failed"} /\ M!Report(m, s)
    <2>1. /\ extId[m] \in Posts \X Nat
          /\ s = "failed" \/ StatusRank(s) > StatusRank(status[m])
          /\ status' = [status EXCEPT ![m] = s]
          /\ UNCHANGED <<queue, accepted>>
      BY <1>8 DEF ApplyDeliveryStatus
    <2>2. /\ IsSendOf(m, extId[m])
          /\ status[m] \notin {"absent", "queued"}
      BY <2>1 DEF IdInv
    <2>3. extId[m][1] \in Posts /\ Row[extId[m][1]] = m /\ accepted[extId[m][1]] > 0
      BY <2>1, <2>2 DEF IsSendOf
    <2>4. StatusRank(s) = M!Rank(s) /\ StatusRank(status[m]) = M!Rank(status[m])
      BY DEF StatusRank, M!Rank
    <2>5. M!Report(m, s)
      BY <2>1, <2>2, <2>3, <2>4 DEF M!Report, M!Resolved, Place
    <2> QED  BY <2>5
  <1>9. CASE \/ \E p \in Posts, active \in BOOLEAN : LoadContext(p, active)
             \/ Crash
             \/ UNCHANGED vars
    BY <1>9 DEF LoadContext, Crash, vars, M!mailbox, Place
  <1> QED
    BY <1>1, <1>2, <1>3, <1>4, <1>5, <1>6, <1>7, <1>8, <1>9
    DEF Next, process_outbound_batch, M!Next

\* The implementation theorem; liveness (EventuallyOffTheQueue) is TLC's.
THEOREM SpecImplementsMailbox == Spec => ImplementsMailbox
  <1>1. Init => M!Init
    BY DEF Init, M!Init, Place
  <1>2. IInv /\ [Next]_vars => [M!Next]_(M!mailbox)
    BY StepIsMailboxStep
  <1> QED
    BY SpecIInv, <1>1, <1>2, PTL DEF Spec, ImplementsMailbox, M!Spec

=============================================================================
