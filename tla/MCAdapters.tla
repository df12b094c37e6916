----------------------------- MODULE MCAdapters -----------------------------
(***************************************************************************)
(* Instance of Adapters for TLC: every payload of up to two entries of up  *)
(* to two changes or events, every MIME message of up to three parts.  An  *)
(* empty id and a contact without its wa_id are among them.                *)
(***************************************************************************)
EXTENDS Adapters

CONSTANTS ann, bob, m1, m2, Gone, Nothing

MCChannelType == {"email", "whatsapp", "messenger", "instagram", "sms"}

WhatsAppMessages ==
  {[from |-> ann, id |-> m1, type |-> "text"], [from |-> bob, id |-> m2, type |-> "image"],
   [from |-> ann, id |-> "", type |-> "text"], [from |-> ann, id |-> Missing, type |-> "text"]}
WhatsAppStatuses == {[id |-> m1, status |-> "read"], [id |-> Missing, status |-> "sent"]}
WhatsAppChanges ==
  [contacts : {{ann}}, messages : BoundedSeq(WhatsAppMessages, 2),
   statuses : BoundedSeq(WhatsAppStatuses, 1)]
    \cup [contacts : {{bob, Missing}}, messages : {<<>>}, statuses : {<<>>}]

MessengerEvents ==
  [kind : {"message"}, from : {ann}, id : {m1, "", Missing}, body : {"text"}, mids : {<<>>}]
    \cup [kind : {"message"}, from : {bob, Missing}, id : {m2}, body : {"image"}, mids : {<<>>}]
    \cup [kind : {"echo", "read"}, from : {bob}, id : {m1}, body : {"text"}, mids : {<<>>}]
    \cup [kind : {"delivery"}, from : {ann}, id : {Missing}, body : {"text"},
          mids : {<<>>, <<m1, m2>>}]

\* A forwarded message is a container, and a container has something in it.
Leaves == [multipart : {FALSE}, attachment : BOOLEAN,
           type : {"text/plain", "text/html", "image/png"}]
Containers == [multipart : {TRUE}, attachment : BOOLEAN, type : {"message/rfc822"}]
Walked == {s \in BoundedSeq(Leaves \cup Containers, 3) : s # <<>> => ~Last(s).multipart}
Mime ==
  [multipart : {TRUE}, parts : Walked]
    \cup [multipart : {FALSE}, parts : [1..1 -> Leaves]]

MCPayloads(ch) ==
  CASE ch = "whatsapp" ->
         BoundedSeq(BoundedSeq(WhatsAppChanges, 1), 2)
           \cup [1..1 -> [1..2 -> WhatsAppChanges]]
    [] ch \in {"messenger", "instagram"} -> BoundedSeq(BoundedSeq(MessengerEvents, 2), 2)
    [] ch = "email" ->
         [external_message_id : {m1, "", Missing}, from : {ann}, mime : Mime \cup {Missing},
          message_id : {Missing}, status : {Missing}]
           \cup [external_message_id : {Missing}, from : {ann}, mime : {Missing},
                 message_id : {m1}, status : {"delivered", "bounced"}]
    [] ch = "sms" -> [from : {ann, Missing}, id : {m1, Missing}, status : {"SUCCESS", Missing}]

=============================================================================
