----------------------------- MODULE EmailProofs -----------------------------
(***************************************************************************)
(* Proofs, for every set of calls and recipients, with and without an SNS  *)
(* topic, of the properties MCEmail checks.  SuppressedInv relates what    *)
(* the webhook has reported to the suppression list, ProgressInv how far a *)
(* call is to what SES and email_events know of it.                        *)
(***************************************************************************)
EXTENDS Email, TLAPS

\* A hook past _suppress, an acknowledged report and a call begun after one all mean
\* that the address is on the list, unless the suppression was lifted meanwhile; for a
\* call in `late` every read finds it there.
SuppressedInv ==
  /\ \A s \in Sends : hook[s] \in {"mark", "announce"} /\ s \notin lifted =>
       suppression[To[s]] # "no"
  /\ \A a \in reported : suppression[a] # "no"
  /\ \A s \in late :
       /\ suppression[To[s]] # "no" /\ Settled(To[s])
       /\ pc[s] \in {"create", "attach", "check", "raised"}

\* Before the send SES has no message; before _record_event there is no row, and while
\* it repeats itself there is.
ProgressInv ==
  \A s \in Sends :
    /\ pc[s] \in {"new", "create", "attach", "check", "send"} => accepted[s] = 0
    /\ pc[s] \in {"new", "create", "attach", "check", "send", "record"} =>
         event[s] = "absent"
    /\ pc[s] = "repeat" => event[s] # "absent"

\* Whoever is past the set-up, or takes it for done, has the destination.
TrackedInv ==
  TopicArn =>
    /\ confirmed => destination
    /\ \A s \in Sends : pc[s] \in {"check", "send"} => destination

\* The inductive invariant.
IInv ==
  /\ TypeOK
  /\ SuppressedInv
  /\ ProgressInv
  /\ TrackedInv
  /\ NoMailToReported
  /\ SendsAreTracked

USE EmailAssumption DEF InSend, Reasons, list

-----------------------------------------------------------------------------
\* The initial state satisfies the invariant.
LEMMA InitIInv == Init => IInv
  <1> SUFFICES ASSUME Init PROVE IInv
    OBVIOUS
  <1>1. configSet \in BOOLEAN /\ destination \in BOOLEAN /\ confirmed \in BOOLEAN
    BY Zenon DEF Init
  <1>2. subscribed \in BOOLEAN
    BY Zenon DEF Init
  <1>3. TypeOK
    BY <1>1, <1>2 DEF Init, TypeOK
  <1>4. SuppressedInv /\ ProgressInv /\ NoMailToReported /\ SendsAreTracked
    BY DEF Init, SuppressedInv, ProgressInv, NoMailToReported, SendsAreTracked
  <1>5. TrackedInv
    BY DEF Init, TrackedInv
  <1> QED  BY <1>3, <1>4, <1>5 DEF IInv

(***************************************************************************)
(* The set-up of the configuration set: pc of one call moves on before its *)
(* suppression check.                                                      *)
(***************************************************************************)

LEMMA SendBeginIInv ==
  ASSUME IInv, NEW s \in Sends, SendBegin(s)
  PROVE  IInv'
  <1>0. TypeOK
    BY DEF IInv
  <1>1. TypeOK'
    BY <1>0 DEF TypeOK, SendBegin, notices
  <1>2. SuppressedInv'
    BY <1>0 DEF IInv, TypeOK, SuppressedInv, Settled, SendBegin
  <1>3. ProgressInv'
    BY <1>0 DEF IInv, TypeOK, ProgressInv, SendBegin
  <1>4. TrackedInv' /\ SendsAreTracked'
    BY <1>0 DEF IInv, TypeOK, TrackedInv, SendsAreTracked, SendBegin
  <1>5. NoMailToReported'
    BY DEF IInv, ProgressInv, NoMailToReported, SendBegin
  <1> QED  BY <1>1, <1>2, <1>3, <1>4, <1>5 DEF IInv

LEMMA CreateConfigSetIInv ==
  ASSUME IInv, NEW s \in Sends, CreateConfigSet(s)
  PROVE  IInv'
  <1>0. TypeOK
    BY DEF IInv
  <1>1. configSet' \in BOOLEAN
    BY <1>0 DEF TypeOK, CreateConfigSet
  <1>2. TypeOK'
    BY <1>0, <1>1 DEF TypeOK, CreateConfigSet, notices, history
  <1>3. SuppressedInv' /\ ProgressInv'
    BY <1>0 DEF IInv, TypeOK, SuppressedInv, Settled, ProgressInv, CreateConfigSet, history
  <1>4. TrackedInv' /\ SendsAreTracked' /\ NoMailToReported'
    BY <1>0 DEF IInv, TypeOK, TrackedInv, SendsAreTracked, NoMailToReported,
                CreateConfigSet, history
  <1> QED  BY <1>2, <1>3, <1>4 DEF IInv

LEMMA AttachDestinationIInv ==
  ASSUME IInv, NEW s \in Sends, AttachDestination(s)
  PROVE  IInv'
  <1>0. TypeOK
    BY DEF IInv
  <1>1. destination' \in BOOLEAN /\ confirmed' \in BOOLEAN
    BY Zenon DEF AttachDestination
  <1>2. (destination => destination') /\ (TopicArn => destination')
    BY Zenon DEF AttachDestination
  <1>3. TypeOK'
    BY <1>0, <1>1 DEF TypeOK, AttachDestination, notices, history
  <1>4. SuppressedInv' /\ ProgressInv'
    BY <1>0 DEF IInv, TypeOK, SuppressedInv, Settled, ProgressInv, AttachDestination, history
  <1>5. TrackedInv' /\ SendsAreTracked'
    BY <1>2 DEF TrackedInv, SendsAreTracked
  <1>6. NoMailToReported'
    BY DEF IInv, NoMailToReported, AttachDestination, history
  <1> QED  BY <1>3, <1>4, <1>5, <1>6 DEF IInv

(***************************************************************************)
(* The rest of send_email.  A suppressed address does not get past the     *)
(* check, so a call that began after the report never reaches SES.         *)
(***************************************************************************)

LEMMA CheckSuppressionIInv ==
  ASSUME IInv, NEW s \in Sends, CheckSuppression(s)
  PROVE  IInv'
  <1>0. TypeOK
    BY DEF IInv
  <1>1. TypeOK'
    BY <1>0 DEF TypeOK, CheckSuppression, notices, history
  <1>2. SuppressedInv' /\ ProgressInv'
    BY <1>0 DEF IInv, TypeOK, SuppressedInv, Settled, ProgressInv, CheckSuppression, history
  <1>3. TrackedInv' /\ SendsAreTracked' /\ NoMailToReported'
    BY <1>0 DEF IInv, TypeOK, TrackedInv, SendsAreTracked, NoMailToReported,
                CheckSuppression, history
  <1> QED  BY <1>1, <1>2, <1>3 DEF IInv

LEMMA SesSendIInv ==
  ASSUME IInv, NEW s \in Sends, NEW k \in 1..MaxAttempts, NEW answered \in BOOLEAN,
         SesSend(s, k, answered)
  PROVE  IInv'
  <1>0. TypeOK
    BY DEF IInv
  <1>1. pc' \in [Sends -> InSend \cup {"new", "done", "raised"}]
    BY <1>0 DEF TypeOK, SesSend
  <1>2. s \notin late
    BY <1>0 DEF IInv, SuppressedInv, Settled, SesSend
  <1>3. TypeOK'
    BY <1>0, <1>1 DEF TypeOK, SesSend, notices, history
  <1>4. SuppressedInv'
    BY <1>0, <1>2 DEF IInv, TypeOK, SuppressedInv, Settled, SesSend, history
  <1>5. ProgressInv'
    BY <1>0 DEF IInv, TypeOK, ProgressInv, SesSend
  <1>6. TrackedInv'
    BY <1>0 DEF IInv, TypeOK, TrackedInv, SesSend
  <1>7. SendsAreTracked'
    BY DEF IInv, TrackedInv, SendsAreTracked, SesSend
  <1>8. NoMailToReported'
    BY <1>2 DEF IInv, NoMailToReported, SesSend, history
  <1> QED  BY <1>3, <1>4, <1>5, <1>6, <1>7, <1>8 DEF IInv

LEMMA RestOfSendIInv ==
  ASSUME IInv, NEW s \in Sends, RecordEvent(s) \/ SendReturn(s) \/ SendRaises(s)
  PROVE  IInv'
  <1>0. TypeOK
    BY DEF IInv
  <1> USE DEF RecordEvent, SendReturn, SendRaises
  <1>1. TypeOK'
    BY <1>0 DEF TypeOK, notices, history
  <1>2. s \in late => pc'[s] = "raised"
    BY <1>0 DEF IInv, TypeOK, SuppressedInv, Settled
  <1>3. SuppressedInv'
    BY <1>0, <1>2 DEF IInv, TypeOK, SuppressedInv, Settled, history
  <1>4. ProgressInv'
    BY <1>0 DEF IInv, TypeOK, ProgressInv
  <1>5. TrackedInv' /\ SendsAreTracked' /\ NoMailToReported'
    BY <1>0 DEF IInv, TypeOK, TrackedInv, SendsAreTracked, NoMailToReported, history
  <1> QED  BY <1>1, <1>3, <1>4, <1>5 DEF IInv

(***************************************************************************)
(* SES, SNS and the webhook.                                               *)
(***************************************************************************)

\* Notices that are raised, posted or dropped, an expiring row, a confirmed subscription
\* and reads that catch up change neither a call nor the suppression list.
LEMMA NoticeIInv ==
  ASSUME IInv,
         \/ \E s \in Sends : \/ \E kind \in {"Bounce", "Complaint"} : SesReports(s, kind)
                             \/ SnsDelivers(s)
                             \/ SnsGivesUp(s)
                             \/ ExpireEvent(s)
         \/ ConfirmSubscription
         \/ \E a \in Addresses : Converge(a)
  PROVE  IInv'
  <1>0. TypeOK
    BY DEF IInv
  <1> USE DEF SesReports, SnsDelivers, SnsGivesUp, ExpireEvent, ConfirmSubscription,
              Converge, calls, notices, history
  <1>1. subscribed' \in BOOLEAN
    BY <1>0, Zenon DEF TypeOK
  <1>2. sns' \in [Sends -> {"none", "pending", "acked", "dropped"}]
    BY <1>0 DEF TypeOK
  <1>3. TypeOK'
    BY <1>0, <1>1, <1>2 DEF TypeOK
  <1>4. SuppressedInv' /\ ProgressInv'
    BY <1>0 DEF IInv, TypeOK, SuppressedInv, Settled, ProgressInv
  <1>5. TrackedInv' /\ SendsAreTracked' /\ NoMailToReported'
    BY DEF IInv, TrackedInv, SendsAreTracked, NoMailToReported
  <1> QED  BY <1>3, <1>4, <1>5 DEF IInv

\* Suppress puts the address on the list before Announce reports it; nothing in the hook
\* creates a row.
LEMMA HookIInv ==
  ASSUME IInv, NEW s \in Sends, ses_notifications(s)
  PROVE  IInv'
  <1>0. TypeOK
    BY DEF IInv
  <1>1. /\ UNCHANGED <<calls, late, lifted>>
        /\ event' = event \/ SetEventStatus(s)
    BY DEF ses_notifications, ResolveOrg, Suppress, SetEventStatus, Announce, HookRaises,
           history
  <1>2. \A t \in Sends : event'[t] # event[t] => event[t] # "absent" /\ event'[t] # "absent"
    <2>1. event \in [Sends -> {"absent", "sent", "bounced", "complained"}]
      BY <1>0 DEF TypeOK
    <2>2. CASE SetEventStatus(s)
      BY <2>1, <2>2 DEF SetEventStatus, ReportedStatus
    <2> QED  BY <1>1, <2>2
  <1>3. ProgressInv'
    <2>1. UNCHANGED <<pc, accepted>>
      BY <1>1 DEF calls
    <2> QED  BY <1>2, <2>1 DEF IInv, ProgressInv
  <1>4. TrackedInv' /\ SendsAreTracked' /\ NoMailToReported'
    BY <1>1 DEF IInv, TrackedInv, SendsAreTracked, NoMailToReported, calls
  <1>5. CASE ResolveOrg(s)
    <2>1. TypeOK'
      BY <1>0, <1>5 DEF TypeOK, ResolveOrg, Acknowledge, calls, history
    <2>2. SuppressedInv'
      BY <1>0, <1>5 DEF IInv, TypeOK, SuppressedInv, Settled, ResolveOrg, Acknowledge, calls, history
    <2> QED  BY <1>3, <1>4, <2>1, <2>2 DEF IInv
  <1>6. CASE Suppress(s)
    <2>1. TypeOK'
      BY <1>0, <1>6 DEF TypeOK, Suppress, Write, calls, notices, history
    <2>2. SuppressedInv'
      BY <1>0, <1>6 DEF IInv, TypeOK, SuppressedInv, Settled, Suppress, Write, calls, history
    <2> QED  BY <1>3, <1>4, <2>1, <2>2 DEF IInv
  <1>7. CASE SetEventStatus(s)
    <2>1. TypeOK'
      BY <1>0, <1>7 DEF TypeOK, SetEventStatus, ReportedStatus, calls, notices, history
    <2>2. SuppressedInv'
      BY <1>0, <1>7 DEF IInv, TypeOK, SuppressedInv, Settled, SetEventStatus, calls, history
    <2> QED  BY <1>3, <1>4, <2>1, <2>2 DEF IInv
  <1>8. CASE Announce(s)
    <2>1. TypeOK'
      BY <1>0, <1>8 DEF TypeOK, Announce, Acknowledge, calls
    <2>2. SuppressedInv'
      BY <1>0, <1>8 DEF IInv, TypeOK, SuppressedInv, Settled, Announce, Acknowledge, calls
    <2> QED  BY <1>3, <1>4, <2>1, <2>2 DEF IInv
  <1>9. CASE HookRaises(s)
    <2>1. TypeOK'
      BY <1>0, <1>9 DEF TypeOK, HookRaises, calls, notices, history
    <2>2. SuppressedInv'
      BY <1>0, <1>9 DEF IInv, TypeOK, SuppressedInv, Settled, HookRaises, calls, history
    <2> QED  BY <1>3, <1>4, <2>1, <2>2 DEF IInv
  <1> QED  BY <1>5, <1>6, <1>7, <1>8, <1>9 DEF ses_notifications

\* Whatever rested on the suppression of the address is forgotten with it.
LEMMA UnsuppressIInv ==
  ASSUME IInv, NEW a \in Addresses, unsuppress_email(a)
  PROVE  IInv'
  <1>0. TypeOK
    BY DEF IInv
  <1>1. TypeOK'
    BY <1>0 DEF TypeOK, unsuppress_email, Write, calls, notices
  <1>2. SuppressedInv'
    BY <1>0 DEF IInv, TypeOK, SuppressedInv, Settled, unsuppress_email, Write, calls
  <1>3. ProgressInv'
    BY DEF IInv, ProgressInv, unsuppress_email, Write, calls
  <1>4. TrackedInv' /\ SendsAreTracked'
    BY DEF IInv, TrackedInv, SendsAreTracked, unsuppress_email, Write, calls
  <1>5. NoMailToReported'
    BY DEF IInv, NoMailToReported, unsuppress_email, Write, calls
  <1> QED  BY <1>1, <1>2, <1>3, <1>4, <1>5 DEF IInv

LEMMA CrashIInv ==
  ASSUME IInv, Crash
  PROVE  IInv'
  <1>0. TypeOK
    BY DEF IInv
  <1>1. confirmed' \in BOOLEAN
    BY DEF Crash
  <1>2. TypeOK'
    BY <1>0, <1>1 DEF TypeOK, Crash, notices, history
  <1>3. SuppressedInv' /\ ProgressInv'
    BY <1>0 DEF IInv, TypeOK, SuppressedInv, Settled, ProgressInv, Crash, history
  <1>4. TrackedInv' /\ SendsAreTracked' /\ NoMailToReported'
    BY <1>0 DEF IInv, TypeOK, TrackedInv, SendsAreTracked, NoMailToReported, Crash, history
  <1> QED  BY <1>2, <1>3, <1>4 DEF IInv

\* Every step preserves the invariant.
LEMMA NextIInv == IInv /\ [Next]_vars => IInv'
  <1> SUFFICES ASSUME IInv, [Next]_vars PROVE IInv'
    OBVIOUS
  <1>1. CASE UNCHANGED vars
    BY <1>1 DEF vars, IInv, TypeOK, SuppressedInv, Settled, ProgressInv,
                TrackedInv, NoMailToReported, SendsAreTracked
  <1>2. ASSUME NEW s \in Sends, send_email(s) PROVE IInv'
    BY <1>2, SendBeginIInv, CreateConfigSetIInv, AttachDestinationIInv,
       CheckSuppressionIInv, SesSendIInv, RestOfSendIInv
    DEF send_email
  <1> QED  BY <1>1, <1>2, NoticeIInv, HookIInv, UnsuppressIInv, CrashIInv DEF Next

-----------------------------------------------------------------------------
(***************************************************************************)
(* The theorems.                                                           *)
(***************************************************************************)

\* The invariant holds in every behaviour.
THEOREM SpecIInv == Spec => []IInv
  BY InitIInv, NextIInv, PTL DEF Spec

\* Calls, rows, notifications and histories keep their types.
THEOREM SpecTypeOK == Spec => []TypeOK
  <1>1. IInv => TypeOK
    BY DEF IInv
  <1> QED  BY <1>1, SpecIInv, PTL

\* No call begun after a handled bounce or complaint that all reads can see reaches SES
\* for that address.
THEOREM SpecNoMailToReported == Spec => []NoMailToReported
  <1>1. IInv => NoMailToReported
    BY DEF IInv
  <1> QED  BY <1>1, SpecIInv, PTL

\* Nothing is sent before the bounces of the configuration set are reported to us.
THEOREM SpecSendsAreTracked == Spec => []SendsAreTracked
  <1>1. IInv => SendsAreTracked
    BY DEF IInv
  <1> QED  BY <1>1, SpecIInv, PTL

\* Only the send itself creates a row, and only its own repeated put_item makes a bounced
\* email look sent.
THEOREM SpecEventLifecycle == Spec => EventLifecycle
  <1>1. IInv /\ [Next]_vars =>
          [\A s \in Sends :
             event'[s] # event[s] =>
               \/ event[s] = "absent" /\ event'[s] = "sent" /\ pc[s] = "record"
               \/ event[s] # "absent" /\ event'[s] # "sent"
               \/ event[s] # "absent" /\ pc[s] = "repeat"]_vars
    <2> SUFFICES ASSUME IInv, Next, NEW s \in Sends, event'[s] # event[s]
                 PROVE  \/ event[s] = "absent" /\ event'[s] = "sent" /\ pc[s] = "record"
                        \/ event[s] # "absent" /\ event'[s] # "sent"
                        \/ event[s] # "absent" /\ pc[s] = "repeat"
      OBVIOUS
    <2>0. event \in [Sends -> {"absent", "sent", "bounced", "complained"}]
      BY DEF IInv, TypeOK
    <2>1. \E t \in Sends : RecordEvent(t) \/ SetEventStatus(t) \/ ExpireEvent(t)
      BY DEF Next, send_email, SendBegin, CreateConfigSet, AttachDestination,
             CheckSuppression, SesSend, SendReturn, SendRaises, SesReports, SnsDelivers,
             ses_notifications, ResolveOrg, Suppress, Announce, HookRaises, SnsGivesUp,
             ConfirmSubscription, unsuppress_email, Converge,
             Crash
    <2>2. PICK t \in Sends : RecordEvent(t) \/ SetEventStatus(t) \/ ExpireEvent(t)
      BY <2>1
    <2>3. CASE RecordEvent(t)
      BY <2>0, <2>3 DEF RecordEvent, IInv, ProgressInv
    <2>4. CASE SetEventStatus(t)
      BY <2>0, <2>4 DEF SetEventStatus, ReportedStatus
    <2>5. CASE ExpireEvent(t)
      BY <2>0, <2>5 DEF ExpireEvent
    <2> QED  BY <2>2, <2>3, <2>4, <2>5
  <1> QED  BY <1>1, SpecIInv, PTL DEF Spec, EventLifecycle

=============================================================================
