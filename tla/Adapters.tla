------------------------------ MODULE Adapters ------------------------------
(***************************************************************************)
(* The channel adapters (services/omnichannel/adapters) as the worker uses *)
(* them: both parsers on every inbound payload, send_outbound on every     *)
(* reply.  A payload is what the walks look at: for the Meta channels a    *)
(* sequence of entries, each a sequence of changes (WhatsApp) or events    *)
(* (Messenger, Instagram); for email the keys of the SQS body and what     *)
(* mime.walk() yields of the MIME message.  Texts are abstracted to where  *)
(* they are from, and charsets are ones that Python knows.                 *)
(***************************************************************************)
EXTENDS Naturals, FiniteSets, SequencesExt

CONSTANTS
  ChannelType,   \* models.ChannelType
  Contacts,      \* addresses of customers
  Ids,           \* ids of messages, as the channels give them out; "" may be one
  Missing,       \* a key the payload does not have
  Payloads(_),   \* payloads of a channel
  NoJob          \* nothing handled yet

\* What a change (WhatsApp), an event (Messenger, Instagram) and an email consist of.
\* contacts are the wa_ids of a change's contacts.  parts are what mime.walk() yields
\* below the message itself, in its order: the containers too, and what is in them.
Message == [from : Contacts \cup {Missing}, id : Ids \cup {Missing}, type : STRING]
Status == [id : Ids \cup {Missing}, status : {Missing} \cup STRING]
Change == [contacts : SUBSET (Contacts \cup {Missing}), messages : Seq(Message),
           statuses : Seq(Status)]
Event == [kind : STRING, from : Contacts \cup {Missing}, id : Ids \cup {Missing},
          body : STRING, mids : Seq(Ids)]
Part == [multipart : BOOLEAN, attachment : BOOLEAN, type : STRING]
Email == [external_message_id : Ids \cup {Missing}, from : Contacts,
          mime : [multipart : BOOLEAN, parts : Seq(Part)] \cup {Missing},
          message_id : Ids \cup {Missing}, status : {Missing} \cup STRING]

ASSUME AdaptersAssumption ==
  /\ Missing \notin Contacts \cup Ids \cup Part
  /\ Payloads("whatsapp") \subseteq Seq(Seq(Change))
  /\ \A ch \in {"messenger", "instagram"} : Payloads(ch) \subseteq Seq(Seq(Event))
  /\ Payloads("email") \subseteq Email

VARIABLES
  job,      \* the last thing the worker gave to an adapter
  outcome   \* what came of it

adapters == <<job, outcome>>

-----------------------------------------------------------------------------
(***************************************************************************)
(* Results: the loops append to a list, and an exception loses the list.   *)
(***************************************************************************)
Raises == [raised |-> TRUE, items |-> <<>>]
Returns(s) == [raised |-> FALSE, items |-> s]

\* NormalizedInboundMessage, and DeliveryStatusUpdate.
Normalized(from, id, body, files) ==
  [external_id |-> from, external_message_id |-> id, body |-> body, attachments |-> files]
Update(id, status) == [external_message_id |-> id, status |-> status]

\* for entry in ...: for unit in entry: ...append of each item of the unit.
Walk(payload, Items(_)) ==
  FlattenSeq([e \in DOMAIN payload |->
    FlattenSeq([u \in DOMAIN payload[e] |-> Items(payload[e][u])])])

-----------------------------------------------------------------------------
(***************************************************************************)
(* WhatsApp: change.value has contacts[], messages[] and statuses[].  A    *)
(* contact without `wa_id` is a KeyError, and a message without `from` or  *)
(* `id`; media become a placeholder.                                       *)
(***************************************************************************)
ContactsRaise(payload) ==
  \E e \in DOMAIN payload : \E u \in DOMAIN payload[e] : Missing \in payload[e][u].contacts

NormalizeMessage(m) ==
  Normalized(m.from, m.id, IF m.type = "text" THEN "text" ELSE "placeholder", <<>>)

WhatsAppNormalize(payload) ==
  LET found == Walk(payload, LAMBDA change : change.messages)
      out == [i \in DOMAIN found |-> NormalizeMessage(found[i])]
  IN IF \/ ContactsRaise(payload)
        \/ \E i \in DOMAIN out : Missing \in {out[i].external_id, out[i].external_message_id}
       THEN Raises
       ELSE Returns(out)

WhatsAppInterpret(payload) ==
  LET found == Walk(payload, LAMBDA change : change.statuses)
  IN IF \E i \in DOMAIN found : Missing \in {found[i].id, found[i].status}
       THEN Raises
       ELSE Returns([i \in DOMAIN found |-> Update(found[i].id, found[i].status)])

(***************************************************************************)
(* Messenger and Instagram: one list of events that are messages, echoes   *)
(* of the page's own, delivery receipts with message ids, or read          *)
(* receipts, which name no message and are ignored.  An event without a    *)
(* sender or an id, or with an empty one, is skipped.                      *)
(***************************************************************************)
Nameless(event) == {Missing, ""} \cap {event.from, event.id} # {}

\* Mutant: echoes of the organisation's own messages are taken for the customer's.
NormalizeEventWithEchoes(event) ==
  IF event.kind \notin {"message", "echo"} \/ Nameless(event) THEN <<>>
  ELSE <<Normalized(event.from, event.id, event.body, <<>>)>>

NormalizeEvent(event) ==
  IF event.kind # "message" \/ Nameless(event) THEN <<>>
  ELSE <<Normalized(event.from, event.id,
                    IF event.body = "text" THEN "text" ELSE "placeholder", <<>>)>>

MessengerNormalize(payload) == Returns(Walk(payload, NormalizeEvent))

MessengerInterpret(payload) ==
  Returns(Walk(payload, LAMBDA event :
    IF event.kind # "delivery" THEN <<>>
    ELSE [i \in DOMAIN event.mids |-> Update(event.mids[i], "delivered")]))

(***************************************************************************)
(* Email: one MIME message from S3 or inline, or a delivery event of Core. *)
(***************************************************************************)
EmailStatusMap(s) == IF s = "delivered" THEN "delivered" ELSE "failed"

\* A round of the walk in _extract_body takes a part for a file or for a text: a
\* container is skipped whatever it says of itself, a forwarded message among them.
IsFile(part) == ~part.multipart /\ part.attachment
IsText(part) ==
  ~part.multipart /\ ~part.attachment /\ part.type \in {"text/plain", "text/html"}

\* A file is added to the attachments, the first text is the body.
AddPart(acc, part) ==
  CASE IsFile(part) -> [acc EXCEPT !.files = Append(@, part)]
    [] IsText(part) /\ acc.body = Missing -> [acc EXCEPT !.body = part]
    [] OTHER -> acc

\* for part in mime.walk().
WalkParts(parts) ==
  LET upTo[n \in 0..Len(parts)] ==
        IF n = 0 THEN [body |-> Missing, files |-> <<>>] ELSE AddPart(upTo[n - 1], parts[n])
  IN upTo[Len(parts)]

\* A message of one part is its body, whatever that part is.
ExtractBody(mime) ==
  IF mime.multipart THEN WalkParts(mime.parts) ELSE [body |-> mime.parts[1], files |-> <<>>]

\* The id is indexed before anything else; the bytes are inline or an object of the org.
EmailNormalize(payload) ==
  IF payload.external_message_id = Missing \/ payload.mime = Missing THEN Raises
  ELSE LET x == ExtractBody(payload.mime)
       IN Returns(<<Normalized(payload.from, payload.external_message_id, x.body, x.files)>>)

EmailInterpret(payload) ==
  IF Missing \in {payload.message_id, payload.status} THEN Returns(<<>>)
  ELSE Returns(<<Update(payload.message_id, EmailStatusMap(payload.status))>>)

(***************************************************************************)
(* SMS: written, but not in the registry.  Missing keys become "".         *)
(***************************************************************************)
OrEmpty(x) == IF x = Missing THEN "" ELSE x

SmsNormalize(payload) ==
  Returns(<<Normalized(OrEmpty(payload.from), OrEmpty(payload.id), "text", <<>>)>>)

SmsInterpret(payload) ==
  CASE payload.status = "SUCCESS" -> Returns(<<Update(OrEmpty(payload.id), "delivered")>>)
    [] payload.status = "FAILURE" -> Returns(<<Update(OrEmpty(payload.id), "failed")>>)
    [] OTHER -> Returns(<<>>)

-----------------------------------------------------------------------------
Registry == {"email", "whatsapp", "messenger", "instagram"}

MetaChannels == {"whatsapp", "messenger", "instagram"}

normalize_inbound(ch, payload) ==
  CASE ch = "whatsapp" -> WhatsAppNormalize(payload)
    [] ch \in {"messenger", "instagram"} -> MessengerNormalize(payload)
    [] ch = "email" -> EmailNormalize(payload)
    [] ch = "sms" -> SmsNormalize(payload)

interpret_delivery_webhook(ch, payload) ==
  CASE ch = "whatsapp" -> WhatsAppInterpret(payload)
    [] ch \in {"messenger", "instagram"} -> MessengerInterpret(payload)
    [] ch = "email" -> EmailInterpret(payload)
    [] ch = "sms" -> SmsInterpret(payload)

(***************************************************************************)
(* send_outbound.  What the provider does: "id" answers with an id, "odd"  *)
(* with JSON of another shape, "garbled" with 2xx and no JSON, "error" is  *)
(* a refusal or a timeout.  For email it is how core.send_email ends: "id" *)
(* is its result, "error" a CoreError, and "odd" and "garbled" any other   *)
(* exception, such as one of recording or auditing what SES has accepted.  *)
(***************************************************************************)
Answers == {"id", "odd", "garbled", "error"}
Bundle == {"org_id", "token", "account"}

\* extract_send_id, on what post_graph_api returns or raises.
ExtractSendId(answer) ==
  CASE answer = "id" -> "sent"
    [] answer \in {"odd", "error"} -> "ChannelAdapterError"
    [] answer = "garbled" -> "escapes"

\* The Meta channels: check, post, and take the id out of the answer.
MetaSend(bundle, text, answer) ==
  IF bundle # Bundle \/ ~text THEN "ChannelAdapterError" ELSE ExtractSendId(answer)

\* Email: core.send_email's CoreErrors are translated, anything else escapes.
EmailSend(bundle, answer) ==
  IF "org_id" \notin bundle THEN "ChannelAdapterError"
  ELSE CASE answer = "id" -> "sent"
         [] answer = "error" -> "ChannelAdapterError"
         [] answer \in {"odd", "garbled"} -> "escapes"

\* SMS: a ClientError is returned as a failed SendResult, which the worker, looking
\* only at the exception it does not get, records as sent.
SmsSend(answer) == IF answer \in {"id", "error"} THEN "sent" ELSE "escapes"

send_outbound(ch, bundle, text, answer) ==
  CASE ch \in MetaChannels -> MetaSend(bundle, text, answer)
    [] ch = "email" -> EmailSend(bundle, answer)
    [] ch = "sms" -> SmsSend(answer)

-----------------------------------------------------------------------------
AdaptersInit == job = NoJob /\ outcome = NoJob

\* _process_inbound_message: the messages first, and if that went well the statuses.
Parsed(ch, payload) ==
  LET messages == normalize_inbound(ch, payload)
      updates == interpret_delivery_webhook(ch, payload)
  IN [raised |-> messages.raised \/ updates.raised,
      messages |-> messages.items,
      updates |-> IF messages.raised THEN <<>> ELSE updates.items]

\* Without an adapter for the channel, get_adapter raises and nothing is parsed.
ProcessInbound(ch, payload) ==
  /\ job = NoJob /\ ch \in Registry
  /\ job' = [kind |-> "inbound", channel |-> ch, payload |-> payload]
  /\ outcome' = Parsed(ch, payload)

\* _process_outbound_message: the bundle is org_id and, where needed, the secret.
BundleOf(ch, secret) == {"org_id"} \cup IF ch = "email" THEN {} ELSE secret

ProcessOutbound(ch, secret, text, answer) ==
  /\ job = NoJob /\ ch \in Registry
  /\ job' = [kind |-> "outbound", channel |-> ch, secret |-> secret, text |-> text,
             answer |-> answer]
  /\ outcome' = send_outbound(ch, BundleOf(ch, secret), text, answer)

\* On to the next message of the batch.
Finish == job # NoJob /\ job' = NoJob /\ outcome' = NoJob

AdaptersNext ==
  \/ Finish
  \/ \E ch \in ChannelType :
       \/ \E payload \in Payloads(ch) : ProcessInbound(ch, payload)
       \/ \E secret \in SUBSET {"token", "account"}, text \in BOOLEAN, answer \in Answers :
            ProcessOutbound(ch, secret, text, answer)

AdaptersSpec == AdaptersInit /\ [][AdaptersNext]_adapters

-----------------------------------------------------------------------------
(***************************************************************************)
(* Reference: where in a Meta payload the customers' messages and the      *)
(* receipts are, as <<entry, unit, index in the unit>>.                    *)
(***************************************************************************)
Positions(payload, Where(_)) ==
  UNION {UNION {{<<e, u, i>> : i \in Where(payload[e][u])}
    : u \in DOMAIN payload[e]} : e \in DOMAIN payload}

MessagesIn(ch, unit) ==
  IF ch = "whatsapp" THEN DOMAIN unit.messages
  ELSE IF unit.kind = "message" /\ ~Nameless(unit) THEN {1} ELSE {}

ReceiptsIn(ch, unit) ==
  IF ch = "whatsapp" THEN DOMAIN unit.statuses
  ELSE IF unit.kind = "delivery" THEN DOMAIN unit.mids ELSE {}

MessageAt(ch, unit, i) == IF ch = "whatsapp" THEN unit.messages[i] ELSE unit
ReceiptAt(ch, unit, i) ==
  IF ch = "whatsapp" THEN unit.statuses[i] ELSE [id |-> unit.mids[i], status |-> "delivered"]

Earlier(p, q) ==
  \/ p[1] < q[1]
  \/ p[1] = q[1] /\ p[2] < q[2]
  \/ p[1] = q[1] /\ p[2] = q[2] /\ p[3] < q[3]

\* What is at the positions ps comes out exactly once, in their order.
OnceInOrder(out, ps, Before(_, _), Same(_, _)) ==
  /\ Len(out) = Cardinality(ps)
  /\ \A p \in ps : Same(out[1 + Cardinality({q \in ps : Before(q, p)})], p)

\* The first text of a MIME message, at whatever depth.
FirstText(parts) ==
  LET texts == {i \in DOMAIN parts : IsText(parts[i])}
  IN IF texts = {} THEN Missing ELSE parts[Min(texts)]

InboundJob == job # NoJob /\ job.kind = "inbound"

\* A Meta payload: each customer's message, and each receipt for one of ours.
MetaOnceInOrder(ch, payload) ==
  /\ OnceInOrder(outcome.messages,
       Positions(payload, LAMBDA unit : MessagesIn(ch, unit)), Earlier,
       LAMBDA m, p : LET x == MessageAt(ch, payload[p[1]][p[2]], p[3])
                     IN m.external_id = x.from /\ m.external_message_id = x.id)
  /\ OnceInOrder(outcome.updates,
       Positions(payload, LAMBDA unit : ReceiptsIn(ch, unit)), Earlier,
       LAMBDA m, p : LET x == ReceiptAt(ch, payload[p[1]][p[2]], p[3])
                     IN m.external_message_id = x.id /\ m.status = x.status)

\* A multipart email: each attached file, and the first text.
EmailOnceInOrder(parts) ==
  /\ OnceInOrder(outcome.messages[1].attachments,
       {i \in DOMAIN parts : IsFile(parts[i])}, <, LAMBDA file, i : file = parts[i])
  /\ outcome.messages[1].body = FirstText(parts)

(***************************************************************************)
(* Of a Meta payload that does not raise, every message of a customer and  *)
(* every delivery receipt comes out exactly once and in order, whatever it *)
(* is batched with, and no echo or read receipt does; of a multipart email *)
(* every attached file and the first text do, the contents of a forwarded  *)
(* message among them, though not that message as a file; and every        *)
(* message has an id, if perhaps an empty one: WhatsApp and email pass ""  *)
(* through (worker.py:105-115, messenger.py:172-202, email.py:208-228,     *)
(* whatsapp.py:154).                                                       *)
(***************************************************************************)
MessagesOnceInOrder ==
  InboundJob /\ ~outcome.raised =>
    /\ job.channel \in MetaChannels => MetaOnceInOrder(job.channel, job.payload)
    /\ job.channel = "email" /\ job.payload.mime.multipart =>
         EmailOnceInOrder(job.payload.mime.parts)
    /\ \A i \in DOMAIN outcome.messages : outcome.messages[i].external_message_id # Missing

=============================================================================
