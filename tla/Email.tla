------------------------------- MODULE Email -------------------------------
(***************************************************************************)
(* Core email (core/email.py) and the SES notification webhook             *)
(* (routers/ses_notifications.py) for one organisation and one service:    *)
(* send_email with its configuration set, suppression check and event row, *)
(* against the bounces and complaints that SNS delivers late, repeatedly   *)
(* or not at all, unsuppress_email, the expiry of event rows, and crashes. *)
(*                                                                         *)
(* A call of send_email, the SES message whose id it returns, its event    *)
(* row and the one notification SES may raise for it share a name.         *)
(* Everything between two awaits is one step.  Content, sender and MIME    *)
(* are left out.                                                           *)
(*                                                                         *)
(* boto3 repeats a request whose answer is lost (clients.py:41-45): a      *)
(* write that has been made is made again, also after others.  The reads   *)
(* of the suppression list are eventually consistent.                      *)
(***************************************************************************)
EXTENDS Naturals, FiniteSets

CONSTANTS
  Sends,       \* calls of send_email
  Addresses,   \* recipients
  To,          \* the recipient of each call
  TopicArn,    \* whether ses_notifications_topic_arn is configured
  MaxAttempts  \* requests the SDK makes of one call

ASSUME EmailAssumption ==
  /\ To \in [Sends -> Addresses]
  /\ TopicArn \in BOOLEAN
  /\ MaxAttempts \in Nat \ {0}

VARIABLES
  pc,           \* progress of each send_email call
  configSet,    \* SES has the configuration set
  destination,  \* the set has the bounce/complaint -> SNS destination
  confirmed,    \* the set's name is in _config_sets_confirmed of this process
  accepted,     \* how often SES has accepted the email of each call
  event,        \* status of each row of email_events; "absent" without a row
  suppression,  \* reason on the suppression list of each address, or "no"
  readable,     \* what an eventually consistent read of it may still return
  subscribed,   \* the webhook's SNS subscription is confirmed
  report,       \* what SES reports of a message: "none", "Bounce", "Complaint"
  sns,          \* state of the report's notification at SNS
  hook,         \* progress of the webhook call that handles it
  reported,     \* history: addresses with a handled report since the last unsuppress
  lifted,       \* history: hooks during which their address was unsuppressed
  late          \* history: calls begun while their address was in `reported` and
                \* no read could miss it any more

list == <<suppression, readable>>
calls == <<pc, configSet, destination, confirmed, accepted>>
notices == <<subscribed, report, sns>>
history == <<reported, lifted, late>>
vars == <<pc, configSet, destination, confirmed, accepted, event, suppression,
          readable, subscribed, report, sns, hook, reported, lifted, late>>

InSend == {"create", "attach", "check", "send", "record", "repeat", "audit"}

Reasons == {"bounce", "complaint"}

Init ==
  /\ pc = [s \in Sends |-> "new"]
  /\ configSet = FALSE /\ destination = FALSE /\ confirmed = FALSE
  /\ accepted = [s \in Sends |-> 0]
  /\ event = [s \in Sends |-> "absent"]
  /\ suppression = [a \in Addresses |-> "no"]
  /\ readable = [a \in Addresses |-> {"no"}]
  /\ subscribed = FALSE
  /\ report = [s \in Sends |-> "none"]
  /\ sns = [s \in Sends |-> "none"]
  /\ hook = [s \in Sends |-> "idle"]
  /\ reported = {} /\ lifted = {} /\ late = {}

-----------------------------------------------------------------------------
(***************************************************************************)
(* send_email.                                                             *)
(***************************************************************************)

\* No read of the list misses that the address is on it, if it is.
Settled(a) == suppression[a] # "no" => readable[a] \subseteq Reasons

\* The address is valid, the settings are read; a known set needs no set-up.
SendBegin(s) ==
  /\ pc[s] = "new"
  /\ pc' = [pc EXCEPT ![s] = IF confirmed THEN "check" ELSE "create"]
  /\ late' = IF To[s] \in reported /\ Settled(To[s]) THEN late \cup {s} ELSE late
  /\ UNCHANGED <<configSet, destination, confirmed, accepted, event, list, notices, hook, reported, lifted>>

\* Mutant: the set is remembered as soon as it exists.
CreateConfigSetConfirms(s) ==
  /\ pc[s] = "create"
  /\ configSet' = TRUE /\ confirmed' = TRUE
  /\ pc' = [pc EXCEPT ![s] = "attach"]
  /\ UNCHANGED <<destination, accepted, event, list, notices, hook, history>>

\* create_configuration_set; any ClientError is logged and tolerated.
CreateConfigSet(s) ==
  /\ pc[s] = "create"
  /\ configSet' \in {TRUE, configSet}
  /\ pc' = [pc EXCEPT ![s] = "attach"]
  /\ UNCHANGED <<destination, confirmed, accepted, event, list, notices,
                 hook, history>>

\* _ensure_event_destination: made or already there, or skipped without a topic.
\* Only then is the set remembered.  SES refuses a destination for no set.
AttachDestination(s) ==
  /\ pc[s] = "attach"
  /\ TopicArn => configSet
  /\ destination' = (destination \/ TopicArn)
  /\ confirmed' = TRUE
  /\ pc' = [pc EXCEPT ![s] = "check"]
  /\ UNCHANGED <<configSet, accepted, event, list, notices, hook, history>>

\* _is_suppressed: SuppressionListError for a suppressed address, as far as a get_item
\* without ConsistentRead can tell.
CheckSuppression(s) ==
  /\ pc[s] = "check"
  /\ \E reason \in readable[To[s]] :
       pc' = [pc EXCEPT ![s] = IF reason = "no" THEN "send" ELSE "raised"]
  /\ UNCHANGED <<configSet, destination, confirmed, accepted, event, list, notices, hook, history>>

\* The rate limit admits the call and SES accepts the message, which it does only
\* under an existing set.  Of the SDK's attempts k may have been accepted, each under
\* an id of its own; the call knows the last one's, or raises when that is lost too.
SesSend(s, k, answered) ==
  /\ pc[s] = "send"
  /\ configSet
  /\ accepted' = [accepted EXCEPT ![s] = k]
  /\ pc' = [pc EXCEPT ![s] = IF answered THEN "record" ELSE "raised"]
  /\ UNCHANGED <<configSet, destination, confirmed, event, list, notices, hook, history>>

\* _record_event: put_item of the whole row, whatever there is, once or repeatedly.
RecordEvent(s) ==
  /\ pc[s] \in {"record", "repeat"}
  /\ event' = [event EXCEPT ![s] = "sent"]
  /\ \E next \in {"repeat", "audit"} : pc' = [pc EXCEPT ![s] = next]
  /\ UNCHANGED <<configSet, destination, confirmed, accepted, list, notices, hook,
                 history>>

\* log_audit, and the result is returned.
SendReturn(s) ==
  /\ pc[s] = "audit"
  /\ pc' = [pc EXCEPT ![s] = "done"]
  /\ UNCHANGED <<configSet, destination, confirmed, accepted, event, list, notices, hook, history>>

\* Any raise: an invalid address, the rate limit, SES, DynamoDB.
SendRaises(s) ==
  /\ pc[s] \in InSend \cup {"new"}
  /\ pc' = [pc EXCEPT ![s] = "raised"]
  /\ UNCHANGED <<configSet, destination, confirmed, accepted, event, list, notices, hook, history>>

send_email(s) ==
  \/ SendBegin(s)
  \/ CreateConfigSet(s)
  \/ AttachDestination(s)
  \/ CheckSuppression(s)
  \/ \E k \in 1..MaxAttempts, answered \in BOOLEAN : SesSend(s, k, answered)
  \/ RecordEvent(s)
  \/ SendReturn(s)
  \/ SendRaises(s)

-----------------------------------------------------------------------------
(***************************************************************************)
(* SES, SNS and the webhook.                                               *)
(***************************************************************************)

\* SubscriptionConfirmation: the signature and the host check out, and the
\* SubscribeURL is fetched.  Anything else leaves SNS to ask again.
ConfirmSubscription ==
  /\ ~subscribed
  /\ subscribed' = TRUE
  /\ UNCHANGED <<calls, event, list, report, sns, hook, history>>

\* A message bounces or its recipient complains; SES tells SNS if it has where to,
\* and SNS keeps nothing for a subscription that is not confirmed.  What it reports
\* of a message under another id than the call's is acknowledged by ResolveOrg.
SesReports(s, kind) ==
  /\ accepted[s] > 0 /\ report[s] = "none" /\ destination
  /\ report' = [report EXCEPT ![s] = kind]
  /\ sns' = [sns EXCEPT ![s] = IF subscribed THEN "pending" ELSE "dropped"]
  /\ UNCHANGED <<calls, event, list, subscribed, hook, history>>

\* SNS posts the notification, also one it has posted before; the signature verifies.
SnsDelivers(s) ==
  /\ sns[s] \in {"pending", "acked"}
  /\ hook[s] = "idle"
  /\ hook' = [hook EXCEPT ![s] = "resolve"]
  /\ lifted' = lifted \ {s}
  /\ UNCHANGED <<calls, event, list, notices, reported, late>>

\* The hook is through: 200.
Acknowledge(s) ==
  /\ hook' = [hook EXCEPT ![s] = "idle"]
  /\ sns' = [sns EXCEPT ![s] = "acked"]

\* resolve_org_for_message: without a row the message is not ours, or too old.
ResolveOrg(s) ==
  /\ hook[s] = "resolve"
  /\ IF event[s] = "absent"
       THEN Acknowledge(s)
       ELSE hook' = [hook EXCEPT ![s] = "suppress"] /\ UNCHANGED sns
  /\ UNCHANGED <<calls, event, list, subscribed, report, history>>

\* The address of s goes on the list, or off it; some reads still miss that.
Write(a, reason) ==
  /\ suppression' = [suppression EXCEPT ![a] = reason]
  /\ readable' = [readable EXCEPT ![a] = @ \cup {reason}]

\* Mutant: a complaint is recorded, but the address goes on getting mail.
SuppressBouncesOnly(s) ==
  /\ hook[s] = "suppress"
  /\ IF report[s] = "Bounce" THEN Write(To[s], "bounce") ELSE UNCHANGED list
  /\ hook' = [hook EXCEPT ![s] = "mark"]
  /\ UNCHANGED <<calls, event, notices, history>>

\* _suppress: put_item, whatever was there before, once or repeatedly.
Suppress(s) ==
  /\ hook[s] = "suppress"
  /\ Write(To[s], IF report[s] = "Bounce" THEN "bounce" ELSE "complaint")
  /\ \E next \in {"suppress", "mark"} : hook' = [hook EXCEPT ![s] = next]
  /\ UNCHANGED <<calls, event, notices, history>>

ReportedStatus(s) == IF report[s] = "Bounce" THEN "bounced" ELSE "complained"

\* Mutant: the update has no condition and creates the row it does not find.
SetEventStatusUpsert(s) ==
  /\ hook[s] = "mark"
  /\ event' = [event EXCEPT ![s] = ReportedStatus(s)]
  /\ hook' = [hook EXCEPT ![s] = "announce"]
  /\ UNCHANGED <<calls, list, notices, history>>

\* _set_event_status: only an existing row, once or repeatedly, and any ClientError is
\* swallowed.
SetEventStatus(s) ==
  /\ hook[s] = "mark"
  /\ \/ event[s] # "absent" /\ event' = [event EXCEPT ![s] = ReportedStatus(s)]
     \/ UNCHANGED event
  /\ \E next \in {"mark", "announce"} : hook' = [hook EXCEPT ![s] = next]
  /\ UNCHANGED <<calls, list, notices, history>>

\* log_audit and publish_event of email.bounced or email.complained, then 200.
Announce(s) ==
  /\ hook[s] = "announce"
  /\ Acknowledge(s)
  /\ reported' = IF s \in lifted THEN reported ELSE reported \cup {To[s]}
  /\ UNCHANGED <<calls, event, list, subscribed, report, lifted, late>>

\* A certificate that cannot be fetched (403) or an AWS error (500): no 2xx.
HookRaises(s) ==
  /\ hook[s] # "idle"
  /\ hook' = [hook EXCEPT ![s] = "idle"]
  /\ UNCHANGED <<calls, event, list, notices, history>>

ses_notifications(s) ==
  \/ ResolveOrg(s)
  \/ Suppress(s)
  \/ SetEventStatus(s)
  \/ Announce(s)
  \/ HookRaises(s)

\* SNS's retry policy is exhausted.
SnsGivesUp(s) ==
  /\ sns[s] = "pending" /\ hook[s] = "idle"
  /\ sns' = [sns EXCEPT ![s] = "dropped"]
  /\ UNCHANGED <<calls, event, list, subscribed, report, hook, history>>

\* The last write to the list has reached every replica.
Converge(a) ==
  /\ readable' = [readable EXCEPT ![a] = {suppression[a]}]
  /\ UNCHANGED <<calls, event, suppression, notices, hook, history>>

\* unsuppress_email(org_id, a); the SDK's repeat of it is another step of this kind.
unsuppress_email(a) ==
  /\ suppression[a] # "no"
  /\ Write(a, "no")
  /\ reported' = reported \ {a}
  /\ lifted' = lifted \cup {s \in Sends : To[s] = a /\ hook[s] # "idle"}
  /\ late' = {s \in late : To[s] # a}
  /\ UNCHANGED <<calls, event, notices, hook>>

\* DynamoDB deletes the row 90 days after the send.
ExpireEvent(s) ==
  /\ event[s] # "absent" /\ pc[s] \in {"done", "raised"}
  /\ event' = [event EXCEPT ![s] = "absent"]
  /\ UNCHANGED <<calls, list, notices, hook, history>>

\* The process restarts: calls and hooks are gone, and so is what it remembered.
Crash ==
  /\ pc' = [s \in Sends |-> IF pc[s] \in InSend THEN "raised" ELSE pc[s]]
  /\ hook' = [s \in Sends |-> "idle"]
  /\ confirmed' = FALSE
  /\ UNCHANGED <<configSet, destination, accepted, event, list, notices, history>>

Next ==
  \/ \E s \in Sends :
       \/ send_email(s)
       \/ \E kind \in {"Bounce", "Complaint"} : SesReports(s, kind)
       \/ SnsDelivers(s)
       \/ ses_notifications(s)
       \/ SnsGivesUp(s)
       \/ ExpireEvent(s)
  \/ ConfirmSubscription
  \/ \E a \in Addresses : unsuppress_email(a) \/ Converge(a)
  \/ Crash

Spec == Init /\ [][Next]_vars

-----------------------------------------------------------------------------
TypeOK ==
  /\ pc \in [Sends -> InSend \cup {"new", "done", "raised"}]
  /\ configSet \in BOOLEAN /\ destination \in BOOLEAN /\ confirmed \in BOOLEAN
  /\ accepted \in [Sends -> Nat]
  /\ event \in [Sends -> {"absent", "sent", "bounced", "complained"}]
  /\ suppression \in [Addresses -> Reasons \cup {"no"}]
  /\ readable \in [Addresses -> SUBSET (Reasons \cup {"no"})]
  /\ subscribed \in BOOLEAN
  /\ report \in [Sends -> {"none", "Bounce", "Complaint"}]
  /\ sns \in [Sends -> {"none", "pending", "acked", "dropped"}]
  /\ hook \in [Sends -> {"idle", "resolve", "suppress", "mark", "announce"}]
  /\ reported \subseteq Addresses
  /\ lifted \subseteq Sends /\ late \subseteq Sends

(***************************************************************************)
(* Once a bounce or complaint has been handled and acknowledged, and reads *)
(* of the suppression list have caught up with it, no email whose          *)
(* send_email begins reaches SES for that address until somebody lifts the *)
(* suppression: neither the other steps of the hook nor its repetitions,   *)
(* nor other hooks or crashes take the address off the list again.  A call *)
(* already past its check may slip through, and one whose get_item is not  *)
(* consistent yet (email.py:172-178, 218-219, 484-498).                    *)
(***************************************************************************)
NoMailToReported == \A s \in late : accepted[s] = 0

(***************************************************************************)
(* Every message SES accepts is sent under a configuration set that        *)
(* reports its bounces, also when two calls set it up at once and one of   *)
(* them fails half way (email.py:139-168: "sends would work but bounces    *)
(* would go untracked").                                                   *)
(***************************************************************************)
SendsAreTracked == TopicArn /\ (\E s \in Sends : accepted[s] > 0) => destination

(***************************************************************************)
(* A row of email_events appears once, whole, from the send itself; late   *)
(* and repeated notifications only change its status, never bring back an  *)
(* expired row.  A bounced email looks sent again in one case alone: the   *)
(* put_item that made the row is repeated by the SDK after the hook has    *)
(* been at it, since it has no condition (email.py:403-425, 501-514).      *)
(***************************************************************************)
EventLifecycle ==
  [][\A s \in Sends :
       event'[s] # event[s] =>
         \/ event[s] = "absent" /\ event'[s] = "sent" /\ pc[s] = "record"
         \/ event[s] # "absent" /\ event'[s] # "sent"
         \/ event[s] # "absent" /\ pc[s] = "repeat"]_vars

=============================================================================
