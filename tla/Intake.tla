-------------------------------- MODULE Intake --------------------------------
(***************************************************************************)
(* What the inbound half promises the provider and the agents, without     *)
(* SQS's receives and timeouts, batches, transactions and crashes: a call  *)
(* that was taken in is kept until every message in it is in the inbox, or *)
(* is given up for a human; a message enters the inbox once, out of a call *)
(* that is kept, after those before it in that call, and is then counted;  *)
(* only what is in the inbox is announced, and only once.                  *)
(***************************************************************************)
EXTENDS Naturals, Sequences

CONSTANTS
  Calls,     \* webhook calls
  Ids,       \* customer messages
  Senders,   \* customers
  Items,     \* the messages of each call
  Sender     \* who sent each message

VARIABLES
  answer,      \* what the provider was told of each call
  place,       \* none, kept, deleted (dealt with) or dlq
  inbox,       \* messages the agents can read
  unread,      \* how many of each customer's they have not
  assigned,    \* customers whose conversation was given to the assignee
  announced    \* messages other services were told of

intake == <<answer, place, inbox, unread, assigned, announced>>

Init ==
  /\ answer = [c \in Calls |-> "new"]
  /\ place = [c \in Calls |-> "none"]
  /\ inbox = {}
  /\ unread = [s \in Senders |-> 0]
  /\ assigned = {}
  /\ announced = {}

\* The provider may not hear of it, and call again.
Accept(c) ==
  /\ answer[c] = "new" /\ place[c] = "none"
  /\ \E a \in {"acked", "unanswered"} : answer' = [answer EXCEPT ![c] = a]
  /\ place' = [place EXCEPT ![c] = "kept"]
  /\ UNCHANGED <<inbox, unread, assigned, announced>>

Refuse(c) ==
  /\ answer[c] = "new"
  /\ answer' = [answer EXCEPT ![c] = "refused"]
  /\ UNCHANGED <<place, inbox, unread, assigned, announced>>

Store(c, n) ==
  LET i == Items[c][n]
  IN /\ place[c] = "kept"
     /\ i \notin inbox
     /\ \A m \in 1..(n - 1) : Items[c][m] \in inbox
     /\ inbox' = inbox \cup {i}
     /\ unread' = [unread EXCEPT ![Sender[i]] = @ + 1]
     /\ UNCHANGED <<answer, place, assigned, announced>>

Assign(i) ==
  /\ i \in inbox /\ Sender[i] \notin assigned
  /\ assigned' = assigned \cup {Sender[i]}
  /\ UNCHANGED <<answer, place, inbox, unread, announced>>

Announce(i) ==
  /\ i \in inbox /\ i \notin announced
  /\ announced' = announced \cup {i}
  /\ UNCHANGED <<answer, place, inbox, unread, assigned>>

Settle(c) ==
  /\ place[c] = "kept"
  /\ \A n \in 1..Len(Items[c]) : Items[c][n] \in inbox
  /\ place' = [place EXCEPT ![c] = "deleted"]
  /\ UNCHANGED <<answer, inbox, unread, assigned, announced>>

\* Calls SQS has handed out too often.
Abandon(S) ==
  /\ \A c \in S : place[c] = "kept"
  /\ place' = [c \in Calls |-> IF c \in S THEN "dlq" ELSE place[c]]
  /\ UNCHANGED <<answer, inbox, unread, assigned, announced>>

Next ==
  \/ \E c \in Calls :
       \/ Accept(c) \/ Refuse(c) \/ Settle(c)
       \/ \E n \in 1..Len(Items[c]) : Store(c, n)
  \/ \E i \in Ids : Assign(i) \/ Announce(i)
  \/ \E S \in SUBSET Calls : Abandon(S)

Spec == Init /\ [][Next]_intake

=============================================================================
