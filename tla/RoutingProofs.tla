---------------------------- MODULE RoutingProofs ----------------------------
(***************************************************************************)
(* Proofs, for every number of users, sessions and messages, of the        *)
(* properties MCRouting checks.  PendingInv says what a session may be     *)
(* about to write although the row has moved on, CopyInv what the worker's *)
(* object may be although it is stale; SerialInv says that, while no two   *)
(* handlers have overlapped, a session writes what follows from the row,   *)
(* and CountInv that the count does while no mark_read crossed the worker. *)
(***************************************************************************)
EXTENDS Routing, TLAPS

PendingInv ==
  \A s \in Tasks :
    /\ "assigned" \in DOMAIN writes[s] =>
         task[s] = "assign" /\ writes[s].assigned = hand[s].user
    /\ "unread" \in DOMAIN writes[s] =>
         \/ task[s] = "inbound" /\ writes[s].unread > 0 /\ writes[s].unread <= received + 1
         \/ task[s] = "read" /\ writes[s].unread = 0
    /\ task[s] = "inbound" => "unread" \in DOMAIN writes[s]
    /\ task[s] \in {"inbound", "route"} => s = Worker
    /\ task[s] = "read" => s # Worker
    /\ task[s] \in {"assign", "publish"} => hand[s].user # None
    /\ task[s] = "publish" => WasAssigned(hand[s].user)

\* The worker's object: it is at work on one, and has counted no more than arrived.
CopyInv ==
  /\ task[Worker] # "none" => held
  /\ task[Worker] = "inbound" => copy.unread = writes[Worker].unread
  /\ held /\ task[Worker] # "inbound" => copy.unread <= received

\* Until a mark_read crosses the worker, object and UPDATE follow from the row.
CountInv ==
  ~crossed =>
    /\ held => \A t \in Sessions : task[t] # "read"
    /\ held /\ task[Worker] # "inbound" => copy.unread = row.unread
    /\ task[Worker] = "inbound" => writes[Worker].unread = row.unread + 1
    /\ \A t \in Sessions :
         task[t] = "read" /\ "unread" \notin DOMAIN writes[t] => row.unread = 0

\* Every history row names somebody.
HistoryInv == \A i \in 1..Len(history) : history[i].user # None

\* Before the first message is committed only the worker is active.
CreatedInv ==
  ~created =>
    /\ history = <<>>
    /\ \A s \in Sessions : task[s] = "none"
    /\ task[Worker] \in {"none", "inbound"}

SerialInv ==
  ~overlapped =>
    /\ SerialAssignment
    /\ \A s \in Tasks : task[s] # "none" =>
         /\ \A t \in Tasks \ {s} : task[t] = "none"
         /\ task[s] = "route" => history = <<>>
         /\ task[s] = "assign" =>
              /\ "assigned" \notin DOMAIN writes[s] => row.assigned = hand[s].user
              /\ history # <<>> => hand[s].reason = "reassign"

\* The inductive invariant.
IInv ==
  /\ TypeOK
  /\ AssigneeInHistory
  /\ UnreadCovers
  /\ HistoryInv
  /\ PendingInv
  /\ CopyInv
  /\ CountInv
  /\ CreatedInv
  /\ SerialInv

USE RoutingAssumption DEF Tasks

\* Column by column, what an UPDATE writes.
LEMMA DirtyColumns ==
  ASSUME NEW old \in Conversation, NEW new \in Conversation
  PROVE  /\ DOMAIN Dirty(old, new) \subseteq {"assigned", "unread"}
         /\ "assigned" \in DOMAIN Dirty(old, new) <=> new.assigned # old.assigned
         /\ "assigned" \in DOMAIN Dirty(old, new) => Dirty(old, new).assigned = new.assigned
         /\ "unread" \in DOMAIN Dirty(old, new) <=> new.unread # old.unread
         /\ "unread" \in DOMAIN Dirty(old, new) => Dirty(old, new).unread = new.unread
  BY DEF Dirty, Conversation

\* Column by column, the row after an UPDATE.
LEMMA FlushColumns ==
  ASSUME NEW r \in Conversation, NEW w,
         DOMAIN w \subseteq {"assigned", "unread"},
         "assigned" \in DOMAIN w => w.assigned \in Users \cup {None},
         "unread" \in DOMAIN w => w.unread \in Nat
  PROVE  /\ Flush(r, w) \in Conversation
         /\ Flush(r, w).assigned = IF "assigned" \in DOMAIN w THEN w.assigned ELSE r.assigned
         /\ Flush(r, w).unread = IF "unread" \in DOMAIN w THEN w.unread ELSE r.unread
  BY DEF Flush, Conversation

\* The initial state satisfies the invariant.
LEMMA InitIInv == Init => IInv
  <1> SUFFICES ASSUME Init PROVE IInv
    OBVIOUS
  <1>1. TypeOK
    <2>1. row \in Conversation /\ history \in Seq(Assignment)
      BY DEF Init, NewConversation, Conversation
    <2>2. hand \in [Tasks -> Assignment]
      BY DEF Init, NoAssignment, Assignment
    <2>3. \A s \in Tasks : DOMAIN writes[s] = {}
      BY DEF Init, Nothing
    <2> QED  BY <2>1, <2>2, <2>3 DEF Init, TypeOK, NewConversation, Conversation
  <1>2. AssigneeInHistory /\ UnreadCovers
    <2>1. row.assigned = None /\ row.unread = 0
      BY DEF Init, NewConversation
    <2> QED  BY <2>1 DEF Init, AssigneeInHistory, UnreadCovers
  <1>3. HistoryInv
    BY DEF Init, HistoryInv
  <1>4. PendingInv
    BY DEF Init, PendingInv, Nothing
  <1>5. CreatedInv
    BY DEF Init, CreatedInv
  <1>6. SerialInv
    BY DEF Init, SerialInv, SerialAssignment, NewConversation
  <1>7. CopyInv /\ CountInv
    BY DEF Init, CopyInv, CountInv
  <1> QED  BY <1>1, <1>2, <1>3, <1>4, <1>5, <1>6, <1>7 DEF IInv

(***************************************************************************)
(* A handler loads the row.                                                *)
(***************************************************************************)
LEMMA LoadStep ==
  ASSUME IInv, NEW s \in Tasks, NEW k \in {"inbound", "read", "assign"},
         NEW old \in Conversation, NEW new \in Conversation, Load(s, k, old, new),
         hand' \in [Tasks -> Assignment],
         \A t \in Tasks \ {s} : hand'[t] = hand[t],
         k = "inbound" => /\ s = Worker /\ old = (IF held THEN copy ELSE row)
                          /\ new = [old EXCEPT !.unread = old.unread + 1]
                          /\ copy' = new /\ held' = TRUE,
         k # "inbound" => s \in Sessions /\ created /\ old = row /\ UNCHANGED <<held, copy>>,
         k = "read" => new = [row EXCEPT !.unread = 0],
         k = "assign" => /\ new = [row EXCEPT !.assigned = hand'[s].user]
                         /\ hand'[s].user # None
                         /\ row.assigned # None => hand'[s].reason = "reassign"
  PROVE  IInv'
  <1>1. /\ task' = [task EXCEPT ![s] = k]
        /\ writes' = [writes EXCEPT ![s] = Dirty(old, new)]
        /\ overlapped' = (overlapped \/ \E t \in Tasks \ {s} : Busy(t))
        /\ crossed' = (crossed \/ (k = "read" /\ Busy(Worker))
                               \/ (k = "inbound" /\ \E t \in Sessions : task[t] = "read"))
        /\ UNCHANGED <<row, created, history, designated, feed, received, sinceRead>>
        /\ task[s] = "none"
    BY DEF Load
  <1>2. /\ \A t \in Tasks \ {s} : task'[t] = task[t] /\ writes'[t] = writes[t]
        /\ task'[s] = k /\ writes'[s] = Dirty(old, new) /\ DOMAIN writes' = Tasks
    BY <1>1 DEF IInv, TypeOK
  <1>3. /\ DOMAIN writes'[s] \subseteq {"assigned", "unread"}
        /\ "assigned" \in DOMAIN writes'[s] <=> new.assigned # old.assigned
        /\ "assigned" \in DOMAIN writes'[s] => writes'[s].assigned = new.assigned
        /\ "unread" \in DOMAIN writes'[s] <=> new.unread # old.unread
        /\ "unread" \in DOMAIN writes'[s] => writes'[s].unread = new.unread
    BY <1>2, DirtyColumns DEF IInv, TypeOK
  <1>4. /\ old.assigned \in Users \cup {None} /\ old.unread \in Nat
        /\ row.assigned \in Users \cup {None} /\ row.unread \in Nat
        /\ received \in Nat /\ copy.unread \in Nat
        /\ new.assigned \in Users \cup {None} /\ new.unread \in Nat
        /\ k = "inbound" => new.assigned = old.assigned /\ new.unread = old.unread + 1
        /\ k = "read" => new.assigned = old.assigned /\ new.unread = 0
        /\ k = "assign" => new.assigned = hand'[s].user /\ new.unread = old.unread
    BY DEF IInv, TypeOK, Conversation
  <1>11. k = "inbound" => old.unread <= received /\ "unread" \in DOMAIN writes'[s]
    <2>1. k = "inbound" /\ held => copy.unread <= received
      BY <1>1 DEF IInv, CopyInv
    <2>2. row.unread <= received
      BY DEF IInv, UnreadCovers
    <2> QED  BY <1>3, <1>4, <2>1, <2>2
  <1>5. TypeOK'
    <2>1. overlapped' \in BOOLEAN
      BY <1>1, Zenon
    <2>4. crossed' \in BOOLEAN
      BY <1>1, Zenon
    <2>5. held' \in BOOLEAN /\ copy' \in Conversation
      BY DEF IInv, TypeOK
    <2>2. \A t \in Tasks :
            /\ DOMAIN writes'[t] \subseteq {"assigned", "unread"}
            /\ "assigned" \in DOMAIN writes'[t] => writes'[t].assigned \in Users \cup {None}
            /\ "unread" \in DOMAIN writes'[t] => writes'[t].unread \in Nat
      BY <1>2, <1>3, <1>4 DEF IInv, TypeOK
    <2>3. task' \in [Tasks -> {"none", "inbound", "route", "read", "assign", "publish"}]
      BY <1>1 DEF IInv, TypeOK
    <2> QED  BY <1>1, <1>2, <2>1, <2>2, <2>3, <2>4, <2>5 DEF IInv, TypeOK
  <1>6. AssigneeInHistory'
    BY <1>1 DEF IInv, AssigneeInHistory, WasAssigned
  <1>7. UnreadCovers' /\ HistoryInv'
    <2>1. crossed => crossed'
      BY <1>1
    <2> QED  BY <1>1, <2>1 DEF IInv, UnreadCovers, HistoryInv
  <1>8. PendingInv'
    <2> SUFFICES ASSUME NEW t \in Tasks
                 PROVE  /\ "assigned" \in DOMAIN writes'[t] =>
                             task'[t] = "assign" /\ writes'[t].assigned = hand'[t].user
                        /\ "unread" \in DOMAIN writes'[t] =>
                             \/ /\ task'[t] = "inbound" /\ writes'[t].unread > 0
                                /\ writes'[t].unread <= received + 1
                             \/ task'[t] = "read" /\ writes'[t].unread = 0
                        /\ task'[t] = "inbound" => "unread" \in DOMAIN writes'[t]
                        /\ task'[t] \in {"inbound", "route"} => t = Worker
                        /\ task'[t] = "read" => t # Worker
                        /\ task'[t] \in {"assign", "publish"} => hand'[t].user # None
                        /\ task'[t] = "publish" => WasAssigned(hand'[t].user)
      BY <1>1 DEF PendingInv, WasAssigned
    <2>1. CASE t = s
      BY <1>2, <1>3, <1>4, <1>11, <2>1
    <2>2. CASE t # s
      BY <1>2, <2>2 DEF IInv, PendingInv
    <2> QED  BY <2>1, <2>2
  <1>9. CreatedInv'
    BY <1>1, <1>2 DEF IInv, CreatedInv
  <1>10. SerialInv'
    <2> SUFFICES ASSUME ~overlapped' PROVE SerialInv'
      BY DEF SerialInv
    <2>1. ~overlapped /\ SerialAssignment /\ \A t \in Tasks \ {s} : task'[t] = "none"
      BY <1>1, <1>2 DEF IInv, SerialInv, Busy
    <2>2. SerialAssignment'
      BY <1>1, <2>1 DEF SerialAssignment
    <2>3. k = "assign" /\ history # <<>> => hand'[s].reason = "reassign"
      <3>1. history # <<>> => row.assigned # None
        <4>1. SUFFICES ASSUME history # <<>> PROVE row.assigned # None
          OBVIOUS
        <4> QED  BY <2>1, <4>1 DEF SerialAssignment, IInv, TypeOK, HistoryInv
      <3> QED  BY <3>1
    <2> QED  BY <1>1, <1>2, <1>3, <1>4, <2>1, <2>2, <2>3 DEF SerialInv
  <1>12. CopyInv'
    <2>1. CASE k = "inbound"
      BY <1>1, <1>2, <1>3, <1>11, <2>1 DEF CopyInv
    <2>2. CASE k # "inbound"
      <3>1. s # Worker /\ UNCHANGED <<held, copy>>
        BY <2>2
      <3> QED  BY <1>1, <1>2, <3>1 DEF IInv, CopyInv
    <2> QED  BY <2>1, <2>2
  <1>13. CountInv'
    <2> SUFFICES ASSUME ~crossed' PROVE CountInv'
      BY DEF CountInv
    <2>1. ~crossed /\ (k = "read" => ~Busy(Worker))
          /\ (k = "inbound" => \A t \in Sessions : task[t] # "read")
      BY <1>1
    <2>2. /\ held => \A t \in Sessions : task[t] # "read"
          /\ held /\ task[Worker] # "inbound" => copy.unread = row.unread
          /\ task[Worker] = "inbound" => writes[Worker].unread = row.unread + 1
          /\ \A t \in Sessions :
               task[t] = "read" /\ "unread" \notin DOMAIN writes[t] => row.unread = 0
      BY <2>1 DEF IInv, CountInv
    <2>3. CASE k = "inbound"
      <3>1. s = Worker /\ old.unread = row.unread
        BY <1>1, <2>2, <2>3
      <3>2. \A t \in Sessions : task'[t] = task[t] /\ task[t] # "read"
        BY <1>2, <2>1, <2>3, <3>1
      <3> QED  BY <1>1, <1>2, <1>3, <1>4, <1>11, <2>3, <3>1, <3>2 DEF CountInv
    <2>4. CASE k = "read"
      <3>1. s # Worker /\ ~held /\ held' = held /\ task[Worker] = "none"
        BY <2>1, <2>4 DEF Busy
      <3>2. "unread" \notin DOMAIN writes'[s] => row.unread = 0
        BY <1>3, <1>4, <2>4
      <3> QED  BY <1>1, <1>2, <2>2, <3>1, <3>2 DEF CountInv
    <2>5. CASE k = "assign"
      <3>1. s # Worker /\ UNCHANGED <<held, copy>>
        BY <2>5
      <3> QED  BY <1>1, <1>2, <2>2, <2>5, <3>1 DEF CountInv
    <2> QED  BY <2>3, <2>4, <2>5
  <1> QED  BY <1>5, <1>6, <1>7, <1>8, <1>9, <1>10, <1>12, <1>13 DEF IInv

(***************************************************************************)
(* Every step preserves the invariant.                                     *)
(***************************************************************************)
LEMMA NextIInv == IInv /\ [Next]_vars => IInv'
  <1> SUFFICES ASSUME IInv, [Next]_vars PROVE IInv'
    OBVIOUS
  <1>0. /\ row \in Conversation /\ row.assigned \in Users \cup {None} /\ row.unread \in Nat
        /\ DOMAIN writes = Tasks /\ DOMAIN task = Tasks /\ DOMAIN hand = Tasks
        /\ history \in Seq(Assignment) /\ received \in Nat /\ sinceRead \in Nat
        /\ copy \in Conversation /\ copy.unread \in Nat
    BY DEF IInv, TypeOK, Conversation
  <1>1. ASSUME InboundLoad PROVE IInv'
    <2> DEFINE old == IF held THEN copy ELSE row
               new == [old EXCEPT !.unread = old.unread + 1]
    <2>1. old \in Conversation /\ new \in Conversation
      BY <1>0 DEF Conversation
    <2>2. /\ Load(Worker, "inbound", old, new) /\ UNCHANGED hand
          /\ copy' = new /\ held' = TRUE
      BY <1>1 DEF InboundLoad
    <2>3. hand' \in [Tasks -> Assignment] /\ \A t \in Tasks \ {Worker} : hand'[t] = hand[t]
      BY <2>2 DEF IInv, TypeOK
    <2>4. old = (IF held THEN copy ELSE row) /\ new = [old EXCEPT !.unread = old.unread + 1]
      OBVIOUS
    <2> HIDE DEF old, new
    <2> QED  BY <2>1, <2>2, <2>3, <2>4, LoadStep
  <1>2. ASSUME NEW s \in Sessions, NEW u \in Users, NEW reason \in {"claim", "reassign"},
               created, row.assigned # None => reason = "reassign",
               Load(s, "assign", row, [row EXCEPT !.assigned = u]), UNCHANGED <<held, copy>>,
               hand' = [hand EXCEPT ![s] = [user |-> u, reason |-> reason]]
        PROVE  IInv'
    <2>1. [row EXCEPT !.assigned = u] \in Conversation
      BY <1>0 DEF Conversation
    <2>2. /\ hand' \in [Tasks -> Assignment] /\ \A t \in Tasks \ {s} : hand'[t] = hand[t]
          /\ hand'[s].user = u /\ hand'[s].reason = reason
      BY <1>2 DEF IInv, TypeOK, Assignment, Reasons
    <2> QED  BY <1>0, <1>2, <2>1, <2>2, LoadStep
  <1>3. ASSUME NEW s \in Sessions, MarkReadLoad(s) PROVE IInv'
    <2>1. [row EXCEPT !.unread = 0] \in Conversation
      BY <1>0 DEF Conversation
    <2>2. /\ created /\ Load(s, "read", row, [row EXCEPT !.unread = 0])
          /\ UNCHANGED <<hand, held, copy>>
      BY <1>3 DEF MarkReadLoad
    <2>3. hand' \in [Tasks -> Assignment] /\ \A t \in Tasks \ {s} : hand'[t] = hand[t]
      BY <2>2 DEF IInv, TypeOK
    <2> QED  BY <1>0, <2>1, <2>2, <2>3, LoadStep
  <1>4. ASSUME NEW u \in Users \cup {None}, SetRoutingConfig(u) PROVE IInv'
    BY <1>4 DEF SetRoutingConfig, ghosts, IInv, TypeOK, AssigneeInHistory, WasAssigned,
                UnreadCovers, HistoryInv, PendingInv, CopyInv, CountInv, CreatedInv, SerialInv,
                SerialAssignment
  <1>15. ASSUME InboundLetGo PROVE IInv'
    <2>1. /\ task[Worker] = "none" /\ held' = FALSE /\ copy' = NewConversation
          /\ UNCHANGED <<row, created, history, designated, task, writes, hand, feed,
                         received, sinceRead, overlapped, crossed>>
      BY <1>15 DEF InboundLetGo, LetGo, ghosts
    <2>2. copy' \in Conversation
      BY <2>1 DEF NewConversation, Conversation
    <2>3. TypeOK'
      BY <2>1, <2>2 DEF IInv, TypeOK
    <2>4. AssigneeInHistory' /\ UnreadCovers' /\ HistoryInv' /\ PendingInv'
      BY <2>1 DEF IInv, AssigneeInHistory, WasAssigned, UnreadCovers, HistoryInv, PendingInv
    <2>5. CopyInv' /\ CountInv'
      BY <2>1 DEF IInv, CopyInv, CountInv
    <2>6. CreatedInv' /\ SerialInv'
      BY <2>1 DEF IInv, CreatedInv, SerialInv, SerialAssignment
    <2> QED  BY <2>3, <2>4, <2>5, <2>6 DEF IInv
  <1>5. ASSUME NEW s \in Tasks
        PROVE  /\ Flush(row, writes[s]) \in Conversation
               /\ Flush(row, writes[s]).assigned =
                    IF "assigned" \in DOMAIN writes[s] THEN writes[s].assigned ELSE row.assigned
               /\ Flush(row, writes[s]).unread =
                    IF "unread" \in DOMAIN writes[s] THEN writes[s].unread ELSE row.unread
    BY <1>0, <1>5, FlushColumns DEF IInv, TypeOK
  <1>6. ASSUME InboundCommit PROVE IInv'
    <2>1. /\ task[Worker] = "inbound" /\ row' = Flush(row, writes[Worker]) /\ created' = TRUE
          /\ received' = received + 1 /\ sinceRead' = sinceRead + 1
          /\ task' = [task EXCEPT ![Worker] = IF created THEN "none" ELSE "route"]
          /\ writes' = [writes EXCEPT ![Worker] = Nothing]
          /\ UNCHANGED <<history, designated, hand, feed, held, copy, overlapped, crossed>>
      BY <1>6 DEF InboundCommit
    <2>2. /\ row' \in Conversation /\ row'.assigned = row.assigned /\ row'.unread > 0
          /\ row'.unread <= received + 1 /\ row'.unread = writes[Worker].unread
      BY <1>0, <1>5, <2>1 DEF IInv, PendingInv
    <2>3. /\ \A t \in Tasks \ {Worker} : task'[t] = task[t] /\ writes'[t] = writes[t]
          /\ task'[Worker] = (IF created THEN "none" ELSE "route") /\ writes'[Worker] = Nothing
      BY <1>0, <2>1
    <2>4. TypeOK'
      BY <2>1, <2>2, <2>3 DEF IInv, TypeOK, Nothing
    <2>5. AssigneeInHistory' /\ HistoryInv'
      BY <2>1, <2>2 DEF IInv, AssigneeInHistory, WasAssigned, HistoryInv
    <2>6. /\ ~crossed => row'.unread = row.unread + 1
          /\ ~overlapped => \A t \in Sessions : task[t] = "none"
      BY <2>1, <2>2 DEF IInv, SerialInv, CountInv
    <2>7. UnreadCovers'
      BY <1>0, <2>1, <2>2, <2>6 DEF IInv, UnreadCovers, Conversation
    <2>11. held /\ copy.unread = row'.unread
      BY <2>1, <2>2 DEF IInv, CopyInv
    <2>12. CopyInv'
      BY <1>0, <2>1, <2>2, <2>3, <2>11 DEF CopyInv
    <2>13. CountInv'
      <3>1. ~crossed => \A t \in Sessions : task'[t] # "read"
        BY <2>3, <2>11 DEF IInv, CountInv
      <3> QED  BY <2>1, <2>3, <2>11, <3>1 DEF CountInv
    <2>8. PendingInv'
      <3>1. \A t \in Tasks : "unread" \in DOMAIN writes[t] => writes[t].unread \in Nat
        BY DEF IInv, TypeOK
      <3> QED  BY <1>0, <2>1, <2>3, <3>1 DEF IInv, PendingInv, WasAssigned, Nothing
    <2>9. CreatedInv'
      BY <2>1 DEF CreatedInv
    <2>10. SerialInv'
      <3> SUFFICES ASSUME ~overlapped PROVE SerialInv'
        BY <2>1 DEF SerialInv
      <3>1. SerialAssignment'
        BY <2>1, <2>2 DEF IInv, SerialInv, SerialAssignment
      <3>2. \A t \in Tasks \ {Worker} : task'[t] = "none"
        BY <2>3, <2>6
      <3>3. task'[Worker] = "route" => history' = <<>>
        BY <2>1, <2>3 DEF IInv, CreatedInv
      <3> QED  BY <2>3, <3>1, <3>2, <3>3 DEF SerialInv
    <2> QED  BY <2>4, <2>5, <2>7, <2>8, <2>9, <2>10, <2>12, <2>13 DEF IInv
  <1>7. ASSUME RouteSingleAssignee PROVE IInv'
    <2>1. /\ task[Worker] = "route"
          /\ UNCHANGED <<row, created, history, designated, feed, held, received, sinceRead,
                         overlapped, crossed>>
      BY <1>7 DEF RouteSingleAssignee, ghosts
    <2>2. AssigneeInHistory' /\ HistoryInv' /\ UnreadCovers' /\ (SerialAssignment => SerialAssignment')
      BY <2>1 DEF IInv, AssigneeInHistory, WasAssigned, HistoryInv, UnreadCovers, SerialAssignment
    <2>3. CreatedInv'
      BY <2>1 DEF IInv, CreatedInv
    <2>4. CASE /\ task' = [task EXCEPT ![Worker] = "none"]
               /\ UNCHANGED <<writes, hand, copy>>
      <3>1. TypeOK' /\ PendingInv'
        BY <2>1, <2>4 DEF IInv, TypeOK, PendingInv, WasAssigned
      <3>3. CopyInv' /\ CountInv'
        BY <2>1, <2>4 DEF IInv, TypeOK, CopyInv, CountInv
      <3>2. SerialInv'
        BY <2>1, <2>2, <2>4 DEF IInv, TypeOK, SerialInv
      <3> QED  BY <2>2, <2>3, <3>1, <3>2, <3>3 DEF IInv
    <2>5. CASE /\ designated # None
               /\ task' = [task EXCEPT ![Worker] = "assign"]
               /\ copy' = [copy EXCEPT !.assigned = designated]
               /\ writes' = [writes EXCEPT ![Worker] = [assigned |-> designated]]
               /\ hand' = [hand EXCEPT ![Worker] = [user |-> designated,
                                                    reason |-> "single_assignee"]]
      <3>1. /\ \A t \in Tasks \ {Worker} : /\ task'[t] = task[t] /\ writes'[t] = writes[t]
                                           /\ hand'[t] = hand[t]
            /\ task'[Worker] = "assign" /\ DOMAIN writes'[Worker] = {"assigned"}
            /\ writes'[Worker].assigned = designated /\ hand'[Worker].user = designated
            /\ hand'[Worker] \in Assignment
        BY <1>0, <2>5 DEF IInv, TypeOK, Assignment, Reasons
      <3>5. copy' \in Conversation /\ copy'.unread = copy.unread
        BY <1>0, <2>5 DEF IInv, TypeOK, Conversation
      <3>2. TypeOK'
        BY <2>1, <2>5, <3>1, <3>5 DEF IInv, TypeOK
      <3>6. CopyInv' /\ CountInv'
        BY <2>1, <3>1, <3>5 DEF IInv, CopyInv, CountInv
      <3>3. PendingInv'
        BY <2>1, <2>5, <3>1 DEF IInv, PendingInv, WasAssigned
      <3>4. SerialInv'
        BY <2>1, <2>2, <3>1 DEF IInv, SerialInv
      <3> QED  BY <2>2, <2>3, <3>2, <3>3, <3>4, <3>6 DEF IInv
    <2> QED  BY <1>7, <2>4, <2>5 DEF RouteSingleAssignee
  <1>8. ASSUME NEW s \in Tasks, AssignCommit(s) PROVE IInv'
    <2>1. /\ task[s] = "assign" /\ row' = Flush(row, writes[s])
          /\ history' = Append(history, hand[s])
          /\ task' = [task EXCEPT ![s] = "publish"]
          /\ writes' = [writes EXCEPT ![s] = Nothing]
          /\ UNCHANGED <<created, designated, hand, feed, held, copy, received, sinceRead,
                         overlapped, crossed>>
      BY <1>8 DEF AssignCommit, ghosts
    <2>2. /\ row' \in Conversation /\ row'.unread = row.unread
          /\ row'.assigned = row.assigned \/ row'.assigned = hand[s].user
      BY <1>5, <2>1 DEF IInv, PendingInv
    <2>3. /\ \A t \in Tasks \ {s} : task'[t] = task[t] /\ writes'[t] = writes[t]
          /\ task'[s] = "publish" /\ writes'[s] = Nothing /\ hand[s] \in Assignment
          /\ hand[s].user # None
      BY <1>0, <2>1 DEF IInv, TypeOK, PendingInv
    <2>4. /\ history' \in Seq(Assignment) /\ Len(history') = Len(history) + 1
          /\ \A i \in 1..Len(history) : history'[i] = history[i]
          /\ history'[Len(history')] = hand[s] /\ Len(history) \in Nat
          /\ history' # <<>>
      BY <1>0, <2>1, <2>3
    <2>5. \A u : WasAssigned(u) => WasAssigned(u)'
      BY <2>4 DEF WasAssigned
    <2>6. WasAssigned(hand[s].user)'
      BY <2>1, <2>4 DEF WasAssigned
    <2>7. TypeOK'
      BY <2>1, <2>2, <2>3, <2>4 DEF IInv, TypeOK, Nothing
    <2>8. AssigneeInHistory' /\ HistoryInv'
      <3>1. AssigneeInHistory'
        BY <2>1, <2>2, <2>5, <2>6 DEF IInv, AssigneeInHistory, WasAssigned
      <3>2. HistoryInv'
        BY <2>3, <2>4 DEF IInv, HistoryInv
      <3> QED  BY <3>1, <3>2
    <2>9. UnreadCovers'
      BY <2>1, <2>2 DEF IInv, UnreadCovers
    <2>10. PendingInv'
      <3> SUFFICES ASSUME NEW t \in Tasks
                   PROVE  /\ "assigned" \in DOMAIN writes'[t] =>
                               task'[t] = "assign" /\ writes'[t].assigned = hand[t].user
                          /\ "unread" \in DOMAIN writes'[t] =>
                               \/ /\ task'[t] = "inbound" /\ writes'[t].unread > 0
                                  /\ writes'[t].unread <= received + 1
                               \/ task'[t] = "read" /\ writes'[t].unread = 0
                          /\ task'[t] = "inbound" => "unread" \in DOMAIN writes'[t]
                          /\ task'[t] \in {"inbound", "route"} => t = Worker
                          /\ task'[t] = "read" => t # Worker
                          /\ task'[t] \in {"assign", "publish"} => hand[t].user # None
                          /\ task'[t] = "publish" => WasAssigned(hand[t].user)'
        BY <2>1 DEF PendingInv, WasAssigned
      <3>1. CASE t = s
        BY <2>3, <2>6, <3>1 DEF Nothing
      <3>2. CASE t # s
        <4>1. task[t] = "publish" => WasAssigned(hand[t].user)'
          BY <2>1, <2>4 DEF IInv, PendingInv, WasAssigned
        <4> QED  BY <2>3, <3>2, <4>1 DEF IInv, PendingInv
      <3> QED  BY <3>1, <3>2
    <2>11. CreatedInv'
      BY <2>1 DEF IInv, CreatedInv
    <2>12. SerialInv'
      <3> SUFFICES ASSUME ~overlapped PROVE SerialInv'
        BY <2>1 DEF SerialInv
      <3>1. row'.assigned = hand[s].user /\ (history # <<>> => hand[s].reason = "reassign")
        BY <1>5, <2>1 DEF IInv, PendingInv, SerialInv
      <3>2. SerialAssignment'
        BY <1>0, <2>1, <2>4, <3>1 DEF IInv, SerialInv, SerialAssignment
      <3>3. \A t \in Tasks \ {s} : task'[t] = "none"
        BY <2>1, <2>3 DEF IInv, SerialInv
      <3> QED  BY <2>3, <3>2, <3>3 DEF SerialInv
    <2>13. CopyInv' /\ CountInv'
      BY <2>1, <2>2, <2>3 DEF IInv, CopyInv, CountInv
    <2> QED  BY <2>7, <2>8, <2>9, <2>10, <2>11, <2>12, <2>13 DEF IInv
  <1>9. ASSUME NEW s \in Tasks, task[s] # "none", Done(s), row' \in Conversation,
               row'.assigned = row.assigned,
               UNCHANGED <<created, history, designated, received, overlapped, crossed>>,
               held' \in BOOLEAN, copy' \in Conversation, CopyInv', CountInv',
               feed' = feed \/ WasAssigned(feed'), feed' \in Users \cup {None},
               sinceRead' \in Nat, UnreadCovers'
        PROVE  IInv'
    <2>1. /\ \A t \in Tasks \ {s} : /\ task'[t] = task[t] /\ writes'[t] = writes[t]
                                    /\ hand'[t] = hand[t]
          /\ task'[s] = "none" /\ writes'[s] = Nothing /\ hand'[s] = NoAssignment
      BY <1>0, <1>9 DEF Done
    <2>2. TypeOK'
      BY <1>9, <2>1 DEF IInv, TypeOK, Done, Nothing, NoAssignment, Assignment
    <2>3. AssigneeInHistory' /\ HistoryInv'
      BY <1>9 DEF IInv, AssigneeInHistory, WasAssigned, HistoryInv
    <2>4. PendingInv'
      BY <1>9, <2>1 DEF IInv, PendingInv, WasAssigned, Nothing
    <2>5. CreatedInv'
      BY <1>9, <2>1 DEF IInv, CreatedInv
    <2>6. SerialInv'
      <3> SUFFICES ASSUME ~overlapped PROVE SerialInv'
        BY <1>9 DEF SerialInv
      <3>1. \A t \in Tasks : task'[t] = "none"
        BY <1>9, <2>1 DEF IInv, SerialInv
      <3>2. SerialAssignment'
        BY <1>9 DEF IInv, SerialInv, SerialAssignment
      <3> QED  BY <3>1, <3>2 DEF SerialInv
    <2> QED  BY <1>9, <2>2, <2>3, <2>4, <2>5, <2>6 DEF IInv
  <1>10. ASSUME NEW s \in Tasks, PublishAssignment(s) PROVE IInv'
    <2>1. /\ task[s] = "publish" /\ feed' = hand[s].user /\ Done(s)
          /\ UNCHANGED <<row, created, history, designated, held, copy, received, sinceRead,
                         overlapped, crossed>>
      BY <1>10 DEF PublishAssignment, ghosts
    <2>2. WasAssigned(feed') /\ feed' \in Users \cup {None}
      BY <1>0, <2>1 DEF IInv, TypeOK, PendingInv, Assignment
    <2>3. UnreadCovers'
      BY <2>1 DEF IInv, UnreadCovers
    <2>4. /\ \A t \in Tasks \ {s} : task'[t] = task[t] /\ writes'[t] = writes[t]
          /\ task'[s] = "none"
      BY <1>0, <2>1 DEF Done
    <2>5. CopyInv' /\ CountInv'
      BY <2>1, <2>4 DEF IInv, CopyInv, CountInv
    <2>6. held' \in BOOLEAN /\ copy' \in Conversation
      BY <2>1 DEF IInv, TypeOK
    <2> QED  BY <1>0, <1>9, <2>1, <2>2, <2>3, <2>5, <2>6
  <1>11. ASSUME NEW s \in Tasks, Raise(s) PROVE IInv'
    <2>1. /\ task[s] # "none" /\ Done(s)
          /\ UNCHANGED <<row, created, history, designated, feed, received, sinceRead,
                         overlapped, crossed>>
          /\ IF s = Worker THEN held' = FALSE /\ copy' = NewConversation
                           ELSE UNCHANGED <<held, copy>>
      BY <1>11 DEF Raise, LetGo, ghosts
    <2>2. UnreadCovers' /\ feed' \in Users \cup {None}
      BY <2>1 DEF IInv, TypeOK, UnreadCovers
    <2>3. held' \in BOOLEAN /\ copy' \in Conversation
      <3>1. NewConversation \in Conversation
        BY DEF NewConversation, Conversation
      <3>2. held \in BOOLEAN /\ copy \in Conversation
        BY DEF IInv, TypeOK
      <3> QED  BY <2>1, <3>1, <3>2
    <2>4. /\ \A t \in Tasks \ {s} : task'[t] = task[t] /\ writes'[t] = writes[t]
          /\ task'[s] = "none"
      BY <1>0, <2>1 DEF Done
    <2>5. CopyInv' /\ CountInv'
      BY <2>1, <2>4 DEF IInv, CopyInv, CountInv
    <2> QED  BY <1>0, <1>9, <2>1, <2>2, <2>3, <2>5
  <1>12. ASSUME NEW s \in Sessions, MarkReadCommit(s) PROVE IInv'
    <2>1. /\ task[s] = "read" /\ row' = Flush(row, writes[s]) /\ sinceRead' = 0 /\ Done(s)
          /\ UNCHANGED <<created, history, designated, feed, held, copy, received, overlapped,
                         crossed>>
      BY <1>12 DEF MarkReadCommit
    <2>2. /\ row' \in Conversation /\ row'.assigned = row.assigned
          /\ row'.unread = 0 \/ row'.unread = row.unread
          /\ ~crossed => row'.unread = 0 /\ ~held
      BY <1>0, <1>5, <2>1 DEF IInv, PendingInv, CountInv
    <2>3. UnreadCovers'
      BY <1>0, <2>1, <2>2 DEF IInv, UnreadCovers
    <2>4. feed' \in Users \cup {None} /\ held' \in BOOLEAN /\ copy' \in Conversation
      BY <2>1 DEF IInv, TypeOK
    <2>5. /\ \A t \in Tasks \ {s} : task'[t] = task[t] /\ writes'[t] = writes[t]
          /\ task'[s] = "none"
      BY <1>0, <2>1 DEF Done
    <2>6. CopyInv' /\ CountInv'
      BY <2>1, <2>2, <2>5 DEF IInv, CopyInv, CountInv
    <2> QED  BY <1>9, <2>1, <2>2, <2>3, <2>4, <2>6
  <1>13. CASE UNCHANGED vars
    BY <1>13 DEF vars, ghosts, CopyInv, CountInv, IInv, TypeOK, AssigneeInHistory, WasAssigned, UnreadCovers, HistoryInv,
                 PendingInv, CreatedInv, SerialInv, SerialAssignment
  <1>14. ASSUME NEW s \in Sessions, NEW u \in Users, ClaimLoad(s, u) \/ ReassignLoad(s, u)
         PROVE  IInv'
    BY <1>2, <1>14 DEF ClaimLoad, ReassignLoad
  <1> QED
    BY <1>1, <1>3, <1>4, <1>6, <1>7, <1>8, <1>10, <1>11, <1>12, <1>13, <1>14, <1>15 DEF Next

-----------------------------------------------------------------------------
(***************************************************************************)
(* The theorems.                                                           *)
(***************************************************************************)

\* The invariant holds in every behaviour.
THEOREM SpecIInv == Spec => []IInv
  BY InitIInv, NextIInv, PTL DEF Spec

\* The row and what the sessions hold keep their types; unread_count is no negative.
THEOREM SpecTypeOK == Spec => []TypeOK
  <1>1. IInv => TypeOK
    BY DEF IInv
  <1> QED  BY <1>1, SpecIInv, PTL

\* Whoever has, or is shown as having, the conversation is in its history.
THEOREM SpecAssigneeInHistory == Spec => []AssigneeInHistory
  <1>1. IInv => AssigneeInHistory
    BY DEF IInv
  <1> QED  BY <1>1, SpecIInv, PTL

\* The unread badge is lit while a message is newer than the last mark_read.
THEOREM SpecUnreadCovers == Spec => []UnreadCovers
  <1>1. IInv => UnreadCovers
    BY DEF IInv
  <1> QED  BY <1>1, SpecIInv, PTL

\* Without overlap, row and history agree and only reassign moves a conversation.
THEOREM SpecSerialAssignment == Spec => []SerialAssignment
  <1>1. IInv => SerialAssignment
    BY DEF IInv, SerialInv, SerialAssignment
  <1> QED  BY <1>1, SpecIInv, PTL

\* An assigned conversation is never dropped back into the shared inbox.
THEOREM SpecNeverUnassigned == Spec => NeverUnassigned
  <1>1. IInv /\ [Next]_vars => [row.assigned # None => row'.assigned # None]_vars
    <2> SUFFICES ASSUME IInv, Next PROVE row.assigned # None => row'.assigned # None
      OBVIOUS
    <2>1. CASE row' = row
      BY <2>1
    <2>2. ASSUME NEW s \in Tasks, row' = Flush(row, writes[s])
          PROVE  row.assigned # None => row'.assigned # None
      <3>1. row'.assigned =
              IF "assigned" \in DOMAIN writes[s] THEN writes[s].assigned ELSE row.assigned
        BY <2>2, FlushColumns DEF IInv, TypeOK
      <3> QED  BY <3>1 DEF IInv, PendingInv
    <2>3. ASSUME NEW s \in Tasks, AssignCommit(s) \/ MarkReadCommit(s)
          PROVE  row' = Flush(row, writes[s])
      BY <2>3 DEF AssignCommit, MarkReadCommit
    <2>4. InboundCommit => row' = Flush(row, writes[Worker])
      BY DEF InboundCommit
    <2>5. InboundLoad \/ RouteSingleAssignee => row' = row
      BY DEF InboundLoad, Load, RouteSingleAssignee
    <2>8. InboundLetGo => row' = row
      BY DEF InboundLetGo
    <2>6. \A u \in Users \cup {None} : SetRoutingConfig(u) => row' = row
      BY DEF SetRoutingConfig
    <2>7. \A s \in Tasks :
            /\ \A u \in Users : ClaimLoad(s, u) \/ ReassignLoad(s, u) => row' = row
            /\ MarkReadLoad(s) \/ PublishAssignment(s) \/ Raise(s) => row' = row
      BY DEF ClaimLoad, ReassignLoad, MarkReadLoad, Load, PublishAssignment, Raise
    <2> QED
      BY <2>1, <2>2, <2>3, <2>4, <2>5, <2>6, <2>7, <2>8 DEF Next
  <1> QED  BY <1>1, SpecIInv, PTL DEF Spec, NeverUnassigned

=============================================================================
