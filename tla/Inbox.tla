-------------------------------- MODULE Inbox --------------------------------
(***************************************************************************)
(* The conversation list of the shared inbox (omnichannel/inbox.py): a     *)
(* client walks through it page by page with list_conversations, handing   *)
(* each page's next_cursor back, while new messages and new conversations  *)
(* keep changing the order underneath it.                                  *)
(*                                                                         *)
(* The conversations are the ones the walk's filters select; their ids are *)
(* numbers, since only their order matters.  last_message_at is a number,  *)
(* and Never stands for NULL.                                              *)
(***************************************************************************)
EXTENDS Naturals, FiniteSets, Sequences

CONSTANTS
  Conversations,  \* ids; UUIDs in the code, so no relation to time
  Limits,         \* what clients ask for as the page size
  DefaultLimit,   \* DEFAULT_CONVERSATION_LIMIT
  MaxLimit,       \* MAX_LIMIT
  MaxTime         \* bound: timestamps

ASSUME InboxAssumption ==
  /\ Conversations \subseteq Nat
  /\ IsFiniteSet(Conversations)
  /\ Limits \subseteq Nat
  /\ MaxLimit \in Nat \ {0}
  /\ DefaultLimit \in 1..MaxLimit
  /\ MaxTime \in Nat

VARIABLES
  known,    \* the conversation rows there are
  last,     \* last_message_at
  now,      \* the worker's clock
  walk,     \* "new", "open" while there is a next_cursor, "done" after the last page
  desc,     \* sort = "-last_message_at"
  cursor,   \* next_cursor of the last page
  pages,    \* the pages the client got
  present,  \* history: the conversations there were when the walk began
  touched   \* history: the ones that were created or got a message since

vars == <<known, last, now, walk, desc, cursor, pages, present, touched>>

Never == 0

Cursor == [ts: Nat, id: Nat]

\* The table may hold any rows, conversations without a message among them, and the
\* client may ask for either order.
Init ==
  /\ known \in SUBSET Conversations
  /\ now \in 0..MaxTime
  /\ last \in [Conversations -> 0..now]
  /\ \A c \in Conversations \ known : last[c] = Never
  /\ walk = "new"
  /\ desc \in BOOLEAN
  /\ cursor = [ts |-> 0, id |-> 0]
  /\ pages = <<>>
  /\ present = {}
  /\ touched = {}

-----------------------------------------------------------------------------
(***************************************************************************)
(* The query.                                                              *)
(***************************************************************************)

\* _clamp: a limit of nothing is the default, and none exceeds the maximum.
Clamp(limit) ==
  IF limit = 0 THEN DefaultLimit ELSE IF limit > MaxLimit THEN MaxLimit ELSE limit

\* Mutant: nullslast() is missing, and NULL counts as the largest value.
BeforeNullsLarge(c, d) ==
  LET greater(x, y) == IF x = Never THEN y # Never ELSE y # Never /\ x > y
  IN IF last[c] = last[d] THEN (IF desc THEN c > d ELSE c < d)
     ELSE IF desc THEN greater(last[c], last[d]) ELSE greater(last[d], last[c])

\* ORDER BY last_message_at NULLS LAST, id, both of them descending or ascending.
Before(c, d) ==
  \/ last[c] # Never /\ last[d] = Never
  \/ last[c] # Never /\ last[d] # Never
       /\ IF desc THEN last[c] > last[d] ELSE last[c] < last[d]
  \/ last[c] = last[d] /\ IF desc THEN c > d ELSE c < d

\* Mutant: the id does not break ties between equal timestamps.
CursorPredicateNoTies(c) ==
  LET ts == cursor.ts
      id == cursor.id
  IN IF ts = Never THEN last[c] = Never /\ (IF desc THEN c < id ELSE c > id)
     ELSE IF desc THEN last[c] < ts ELSE last[c] # Never /\ last[c] > ts

\* _cursor_predicate.  A comparison with NULL is not true, so the descending branch
\* names NULL rows; the ascending one does not.
CursorPredicate(c) ==
  LET ts == cursor.ts
      id == cursor.id
  IN IF ts = Never THEN last[c] = Never /\ (IF desc THEN c < id ELSE c > id)
     ELSE IF desc
       THEN \/ last[c] # Never /\ (last[c] < ts \/ (last[c] = ts /\ c < id))
            \/ last[c] = Never
       ELSE last[c] # Never /\ (last[c] > ts \/ (last[c] = ts /\ c > id))

\* The rows p are the first `size` of rest.
IsPage(p, rest, size) ==
  /\ p \subseteq rest
  /\ \A c \in p, d \in rest \ p : Before(c, d)
  /\ Cardinality(p) <= size
  /\ p = rest \/ Cardinality(p) = size

-----------------------------------------------------------------------------
\* The page p is returned.  One row too many was asked for: if there was one, the last
\* row of the page makes the next cursor.
ReturnPage(p, rest) ==
  /\ pages' = Append(pages, p)
  /\ IF p = rest
       THEN walk' = "done" /\ UNCHANGED cursor
       ELSE /\ walk' = "open"
            /\ \E c \in p :
                 /\ \A d \in p \ {c} : Before(d, c)
                 /\ cursor' = [ts |-> last[c], id |-> c]

\* list_conversations without a cursor.
FirstPage(limit) ==
  /\ walk = "new"
  /\ \E p \in SUBSET known : IsPage(p, known, Clamp(limit)) /\ ReturnPage(p, known)
  /\ present' = known
  /\ UNCHANGED <<known, last, now, desc, touched>>

\* list_conversations with the cursor of the page before.
NextPage(limit) ==
  LET rest == {c \in known : CursorPredicate(c)}
  IN /\ walk = "open"
     /\ \E p \in SUBSET rest : IsPage(p, rest, Clamp(limit)) /\ ReturnPage(p, rest)
     /\ UNCHANGED <<known, last, now, desc, present, touched>>

list_conversations(limit) == FirstPage(limit) \/ NextPage(limit)

\* The worker stores a message at time t, of a new conversation perhaps.
MessageArrives(c, t) ==
  /\ walk = "open"
  /\ t >= now
  /\ now' = t
  /\ last' = [last EXCEPT ![c] = t]
  /\ known' = known \cup {c}
  /\ touched' = touched \cup {c}
  /\ UNCHANGED <<walk, desc, cursor, pages, present>>

Next ==
  \/ \E limit \in Limits : list_conversations(limit)
  \/ \E c \in Conversations, t \in 1..MaxTime : MessageArrives(c, t)

Spec == Init /\ [][Next]_vars

-----------------------------------------------------------------------------
TypeOK ==
  /\ known \subseteq Conversations
  /\ now \in Nat
  /\ last \in [Conversations -> Nat]
  /\ walk \in {"new", "open", "done"}
  /\ desc \in BOOLEAN
  /\ cursor \in Cursor
  /\ pages \in Seq(SUBSET Conversations)
  /\ \A n \in 1..Len(pages) : Cardinality(pages[n]) <= MaxLimit
  /\ present \subseteq Conversations
  /\ touched \subseteq Conversations

Returned == UNION {pages[n] : n \in 1..Len(pages)}

\* No conversation is shown twice, but for one that got a message meanwhile and that
\* an oldest-first walk meets again at its new place.
ShownOnce ==
  \A m, n \in 1..Len(pages) : m < n =>
    \A c \in pages[m] \cap pages[n] : ~desc /\ c \in touched

\* What nothing happened to comes in the order of the list, NULLs at the very end.
ListOrder ==
  \A m, n \in 1..Len(pages) : m < n =>
    \A c \in pages[m] \ touched, d \in pages[n] \ touched :
      \/ last[d] = Never
      \/ last[c] # Never /\ (IF desc THEN last[c] >= last[d] ELSE last[c] <= last[d])

(***************************************************************************)
(* A walk goes through the list once: no page holds what belongs on an     *)
(* earlier one or was shown there, ties of timestamps, conversations that  *)
(* move and changes of the page size included (inbox.py:183-187, 264-270). *)
(***************************************************************************)
PagesInOrder == ShownOnce /\ ListOrder

(***************************************************************************)
(* A walk that has come to its end showed every conversation that was      *)
(* there all the time and got no message meanwhile, except that one        *)
(* oldest first may leave out those that never had any (inbox.py:276-282). *)
(***************************************************************************)
WalkComplete ==
  walk = "done" =>
    \A c \in present \ touched : c \in Returned \/ (~desc /\ last[c] = Never)

=============================================================================
