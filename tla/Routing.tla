------------------------------- MODULE Routing -------------------------------
(***************************************************************************)
(* One conversation of the shared inbox: who it is assigned to, how many   *)
(* messages are unread, and its assignment history.  The worker creates it *)
(* with the first message, counts the messages in and may auto-assign it   *)
(* (worker.py, routing.apply_single_assignee_if_configured) while agents   *)
(* claim, reassign and read it (routing.py, inbox.mark_read).  Every       *)
(* request has a database session of its own, the worker another; see Orm  *)
(* for what a commit writes.                                               *)
(*                                                                         *)
(* The worker's session outlives a message: it serves a whole iteration    *)
(* (worker.py:562) and does not expire what it holds at a commit           *)
(* (db.py:33), so the next message of the same customer finds the object   *)
(* of the one before it, whatever others have committed since.             *)
(*                                                                         *)
(* A handler is a load step, a commit step and, for an assignment, the     *)
(* audit entry, event and realtime updates that follow the commit.         *)
(***************************************************************************)
EXTENDS Integers, Sequences, Orm

CONSTANTS
  Users,        \* members of the organisation
  Agents,       \* those whose role may claim (access.NON_VIEWER_ROLES)
  None,         \* nobody
  Sessions,     \* sessions of the API, one request at a time each
  Worker,       \* the session of the inbound worker
  MaxMessages,  \* bound: inbound messages
  MaxHistory    \* bound: assignments begun

ASSUME RoutingAssumption ==
  /\ None \notin Users
  /\ Agents \subseteq Users
  /\ Worker \notin Sessions
  /\ {MaxMessages, MaxHistory} \subseteq Nat

VARIABLES
  row,         \* conversations: assigned_user_id and unread_count
  created,     \* the row exists
  history,     \* conversation_assignments, in commit order
  designated,  \* the org's single assignee; None for the strategy "manual"
  task,        \* what each session has in hand
  writes,      \* the column values it will write
  hand,        \* the assignment it will record
  feed,        \* the assignment the live inboxes were told of last
  held,        \* the worker's session still has the conversation's object
  copy,        \* that object
  received,    \* history: messages committed
  sinceRead,   \* history: of those, the ones after the last mark_read
  overlapped,  \* history: two handlers were in progress at one time
  crossed      \* history: a mark_read was in progress while the worker was

ghosts == <<received, sinceRead, overlapped, crossed>>
vars == <<row, created, history, designated, task, writes, hand, feed, held, copy,
          ghosts>>

Reasons == {"claim", "reassign", "single_assignee"}

Assignment == [user: Users \cup {None}, reason: Reasons \cup {"none"}]

NoAssignment == [user |-> None, reason |-> "none"]

Conversation == [assigned: Users \cup {None}, unread: Nat]

NewConversation == [assigned |-> None, unread |-> 0]

Tasks == Sessions \cup {Worker}

Init ==
  /\ row = NewConversation
  /\ created = FALSE
  /\ history = <<>>
  /\ designated = None
  /\ task = [s \in Tasks |-> "none"]
  /\ writes = [s \in Tasks |-> Nothing]
  /\ hand = [s \in Tasks |-> NoAssignment]
  /\ feed = None
  /\ held = FALSE
  /\ copy = NewConversation
  /\ received = 0
  /\ sinceRead = 0
  /\ overlapped = FALSE
  /\ crossed = FALSE

-----------------------------------------------------------------------------
\* Session s is at work; the worker is until it lets go of the conversation.
Busy(s) == task[s] # "none" \/ (s = Worker /\ held)

\* Session s begins task k on the row as it has it (old) and will write the columns
\* in which new differs.
Load(s, k, old, new) ==
  /\ task[s] = "none"
  /\ task' = [task EXCEPT ![s] = k]
  /\ writes' = [writes EXCEPT ![s] = Dirty(old, new)]
  /\ overlapped' = (overlapped \/ \E t \in Tasks \ {s} : Busy(t))
  /\ crossed' = (crossed \/ (k = "read" /\ Busy(Worker))
                         \/ (k = "inbound" /\ \E t \in Sessions : task[t] = "read"))
  /\ UNCHANGED <<row, created, history, designated, feed, received, sinceRead>>

Done(s) ==
  /\ task' = [task EXCEPT ![s] = "none"]
  /\ writes' = [writes EXCEPT ![s] = Nothing]
  /\ hand' = [hand EXCEPT ![s] = NoAssignment]

\* The worker's session no longer has the object.
LetGo == held' = FALSE /\ copy' = NewConversation

\* The handler raises, its commit fails, or the process dies.
Raise(s) ==
  /\ task[s] # "none"
  /\ Done(s)
  /\ IF s = Worker THEN LetGo ELSE UNCHANGED <<held, copy>>
  /\ UNCHANGED <<row, created, history, designated, feed, ghosts>>

-----------------------------------------------------------------------------
(***************************************************************************)
(* _record_assignment.                                                     *)
(***************************************************************************)

\* Mutant: the history row is left to a transaction of its own, which may fail.
AssignCommitRowOnly(s) ==
  /\ task[s] = "assign"
  /\ row' = Flush(row, writes[s])
  /\ task' = [task EXCEPT ![s] = "publish"]
  /\ writes' = [writes EXCEPT ![s] = Nothing]
  /\ UNCHANGED <<created, history, designated, hand, feed, held, copy, ghosts>>

\* Assignee and history row in one transaction.
AssignCommit(s) ==
  /\ task[s] = "assign"
  /\ row' = Flush(row, writes[s])
  /\ history' = Append(history, hand[s])
  /\ task' = [task EXCEPT ![s] = "publish"]
  /\ writes' = [writes EXCEPT ![s] = Nothing]
  /\ UNCHANGED <<created, designated, hand, feed, held, copy, ghosts>>

\* log_audit, publish_event and the two publish_update calls.
PublishAssignment(s) ==
  /\ task[s] = "publish"
  /\ feed' = hand[s].user
  /\ Done(s)
  /\ UNCHANGED <<row, created, history, designated, held, copy, ghosts>>

\* claim: of an unassigned conversation.  One that is u's already is returned as it
\* is, and one that is somebody else's is refused.
ClaimLoad(s, u) ==
  /\ created
  /\ u \in Agents
  /\ row.assigned = None
  /\ Len(history) < MaxHistory
  /\ Load(s, "assign", row, [row EXCEPT !.assigned = u])
  /\ hand' = [hand EXCEPT ![s] = [user |-> u, reason |-> "claim"]]
  /\ UNCHANGED <<held, copy>>

\* reassign: an owner or admin gives the conversation to any member.
ReassignLoad(s, u) ==
  /\ created
  /\ Len(history) < MaxHistory
  /\ Load(s, "assign", row, [row EXCEPT !.assigned = u])
  /\ hand' = [hand EXCEPT ![s] = [user |-> u, reason |-> "reassign"]]
  /\ UNCHANGED <<held, copy>>

\* set_routing_config: the strategy "manual" (None) or "single_assignee".
SetRoutingConfig(u) ==
  /\ designated' = u
  /\ UNCHANGED <<row, created, history, task, writes, hand, feed, held, copy, ghosts>>

-----------------------------------------------------------------------------
(***************************************************************************)
(* The worker's handling of one new message, and mark_read.                *)
(***************************************************************************)

\* The conversation is found, or added to the session with nothing unread.  An object
\* the session still has is returned as it is: the query does not refresh it.
InboundLoad ==
  /\ received < MaxMessages
  /\ LET old == IF held THEN copy ELSE row
     IN /\ Load(Worker, "inbound", old, [old EXCEPT !.unread = @ + 1])
        /\ copy' = [old EXCEPT !.unread = @ + 1]
  /\ held' = TRUE
  /\ UNCHANGED hand

\* The payload ends, a message of another customer follows, or a duplicate rolls the
\* session back: the next message of this one reads the row again.
InboundLetGo ==
  /\ task[Worker] = "none" /\ held
  /\ LetGo
  /\ UNCHANGED <<row, created, history, designated, task, writes, hand, feed, ghosts>>

\* Mutant: every message of an unassigned conversation is auto-routed, not the first.
InboundCommitAlwaysRoute ==
  /\ task[Worker] = "inbound"
  /\ row' = Flush(row, writes[Worker])
  /\ created' = TRUE
  /\ received' = received + 1
  /\ sinceRead' = sinceRead + 1
  /\ task' = [task EXCEPT ![Worker] = "route"]
  /\ writes' = [writes EXCEPT ![Worker] = Nothing]
  /\ UNCHANGED <<history, designated, hand, feed, held, copy, overlapped, crossed>>

\* Message and counter are committed; a new conversation is routed next.
InboundCommit ==
  /\ task[Worker] = "inbound"
  /\ row' = Flush(row, writes[Worker])
  /\ created' = TRUE
  /\ received' = received + 1
  /\ sinceRead' = sinceRead + 1
  /\ task' = [task EXCEPT ![Worker] = IF created THEN "none" ELSE "route"]
  /\ writes' = [writes EXCEPT ![Worker] = Nothing]
  /\ UNCHANGED <<history, designated, hand, feed, held, copy, overlapped, crossed>>

\* apply_single_assignee_if_configured reads the settings.  The worker still holds the
\* conversation as it created it, unassigned.
RouteSingleAssignee ==
  /\ task[Worker] = "route"
  /\ designated # None => Len(history) < MaxHistory
  /\ IF designated = None
       THEN /\ task' = [task EXCEPT ![Worker] = "none"]
            /\ UNCHANGED <<writes, hand, copy>>
       ELSE /\ task' = [task EXCEPT ![Worker] = "assign"]
            /\ copy' = [copy EXCEPT !.assigned = designated]
            /\ writes' = [writes EXCEPT ![Worker] = [assigned |-> designated]]
            /\ hand' = [hand EXCEPT ![Worker] = [user |-> designated,
                                                 reason |-> "single_assignee"]]
  /\ UNCHANGED <<row, created, history, designated, feed, held, ghosts>>

\* Mutant: mark_read takes one message off the counter.
MarkReadLoadOne(s) ==
  /\ created
  /\ Load(s, "read", row, [row EXCEPT !.unread = @ - 1])
  /\ UNCHANGED <<hand, held, copy>>

MarkReadLoad(s) ==
  /\ created
  /\ Load(s, "read", row, [row EXCEPT !.unread = 0])
  /\ UNCHANGED <<hand, held, copy>>

MarkReadCommit(s) ==
  /\ task[s] = "read"
  /\ row' = Flush(row, writes[s])
  /\ sinceRead' = 0
  /\ Done(s)
  /\ UNCHANGED <<created, history, designated, feed, held, copy, received, overlapped,
                 crossed>>

-----------------------------------------------------------------------------
Next ==
  \/ InboundLoad
  \/ InboundCommit
  \/ InboundLetGo
  \/ RouteSingleAssignee
  \/ \E u \in Users \cup {None} : SetRoutingConfig(u)
  \/ \E s \in Sessions :
       \/ \E u \in Users : ClaimLoad(s, u) \/ ReassignLoad(s, u)
       \/ MarkReadLoad(s)
       \/ MarkReadCommit(s)
  \/ \E s \in Tasks : AssignCommit(s) \/ PublishAssignment(s) \/ Raise(s)

Spec == Init /\ [][Next]_vars

-----------------------------------------------------------------------------
TypeOK ==
  /\ row \in Conversation
  /\ created \in BOOLEAN
  /\ history \in Seq(Assignment)
  /\ designated \in Users \cup {None}
  /\ task \in [Tasks -> {"none", "inbound", "route", "read", "assign", "publish"}]
  /\ DOMAIN writes = Tasks
  /\ \A s \in Tasks :
       /\ DOMAIN writes[s] \subseteq {"assigned", "unread"}
       /\ "assigned" \in DOMAIN writes[s] => writes[s].assigned \in Users \cup {None}
       /\ "unread" \in DOMAIN writes[s] => writes[s].unread \in Nat
  /\ hand \in [Tasks -> Assignment]
  /\ feed \in Users \cup {None}
  /\ held \in BOOLEAN
  /\ copy \in Conversation
  /\ received \in Nat
  /\ sinceRead \in Nat
  /\ overlapped \in BOOLEAN
  /\ crossed \in BOOLEAN

\* User u was assigned the conversation at some time.
WasAssigned(u) == \E i \in 1..Len(history) : history[i].user = u

(***************************************************************************)
(* "Every assignment ... writes an append-only ConversationAssignment row" *)
(* (routing.py:8-10): whoever has the conversation, and whoever the live   *)
(* inboxes show as having it, is in the history, whatever failed between   *)
(* the steps of an assignment.                                             *)
(***************************************************************************)
AssigneeInHistory ==
  /\ row.assigned # None => WasAssigned(row.assigned)
  /\ feed # None => WasAssigned(feed)

(***************************************************************************)
(* A conversation somebody has is never dropped back into the shared       *)
(* inbox, whatever the worker and other requests write to the same row     *)
(* from an older copy of it.                                               *)
(***************************************************************************)
NeverUnassigned == [][row.assigned # None => row'.assigned # None]_vars

(***************************************************************************)
(* The badge is lit while there is a message newer than the last mark_read *)
(* and never counts more than what arrived (inbox.py:404-406), even if the *)
(* worker counts on from a stale object (worker.py:177).  It counts        *)
(* exactly the messages since mark_read as long as no mark_read ran while  *)
(* the worker was at work on the conversation, whatever else did: claims,  *)
(* reassignments and routing write the same row.                           *)
(***************************************************************************)
UnreadCovers ==
  /\ sinceRead > 0 => row.unread > 0
  /\ row.unread <= received
  /\ ~crossed => row.unread = sinceRead

(***************************************************************************)
(* Without overlapping handlers the conversation is with the user of the   *)
(* last history row, and it only moves from one user to another by         *)
(* reassign: a claim never takes it from somebody and auto-routing never   *)
(* overrides a claim (routing.py:113-115, worker.py:180-182).              *)
(***************************************************************************)
SerialAssignment ==
  ~overlapped =>
    /\ row.assigned = IF history = <<>> THEN None ELSE history[Len(history)].user
    /\ \A i \in 2..Len(history) : history[i].reason = "reassign"

=============================================================================
