----------------------------- MODULE InboxProofs -----------------------------
(***************************************************************************)
(* Proofs, for any conversations, messages, timestamps and page sizes, of  *)
(* what Inbox and Thread check on small tables.  In both the cursor        *)
(* divides the rows: what the client has seen lies at or before it, what   *)
(* it has yet to see lies after it.  The conversation list comes first,    *)
(* the thread and its signed URLs after it.                                *)
(***************************************************************************)
EXTENDS Inbox, Thread, FiniteSetTheorems, TLAPS

\* Conversation c comes no later in the order than the cursor.
AtOrBefore(c) ==
  LET ts == cursor.ts
      id == cursor.id
  IN IF ts = Never THEN last[c] # Never \/ (IF desc THEN c >= id ELSE c <= id)
     ELSE /\ last[c] # Never
          /\ IF desc THEN last[c] > ts \/ (last[c] = ts /\ c >= id)
                     ELSE last[c] < ts \/ (last[c] = ts /\ c <= id)

\* The order of ListOrder: c may stand on an earlier page than d.
InOrder(c, d) ==
  \/ last[d] = Never
  \/ last[c] # Never /\ (IF desc THEN last[c] >= last[d] ELSE last[c] <= last[d])

\* An oldest-first walk does not get to c.
Skipped(c) == ~desc /\ last[c] = Never

\* An oldest-first walk may meet c again.
Moved(c) == ~desc /\ c \in touched

TimeInv ==
  /\ \A c \in Conversations : last[c] <= now
  /\ cursor.ts <= now

WalkInv ==
  /\ walk = "new" => pages = <<>> /\ touched = {}
  /\ present \subseteq known

SeenInv ==
  walk = "open" =>
    \A n \in 1..Len(pages) : \A c \in pages[n] : AtOrBefore(c) \/ Moved(c)

AheadInv ==
  walk = "open" =>
    \A c \in present \ touched : c \in Returned \/ CursorPredicate(c) \/ Skipped(c)

\* The inductive invariant.
IInv ==
  /\ TypeOK
  /\ TimeInv
  /\ WalkInv
  /\ SeenInv
  /\ AheadInv
  /\ ShownOnce
  /\ WalkComplete
  /\ ListOrder

USE InboxAssumption

-----------------------------------------------------------------------------
(***************************************************************************)
(* The order and the cursor.                                               *)
(***************************************************************************)

\* Ids are numbers.
LEMMA ConversationNat == \A c \in Conversations : c \in Nat
  OBVIOUS

\* _clamp keeps a page within the maximum.
LEMMA ClampBound == ASSUME NEW limit \in Limits PROVE Clamp(limit) \in 1..MaxLimit
  BY DEF Clamp

\* What lies at or before the cursor is not selected by it.
LEMMA BehindIsNotAhead ==
  ASSUME TypeOK, NEW c \in Conversations, AtOrBefore(c)
  PROVE  ~CursorPredicate(c)
  <1>1. c \in Nat /\ last[c] \in Nat /\ cursor.ts \in Nat /\ cursor.id \in Nat
    BY ConversationNat DEF TypeOK, Cursor
  <1>2. CASE desc
    BY <1>1, <1>2 DEF AtOrBefore, CursorPredicate, Never
  <1>3. CASE ~desc
    BY <1>1, <1>3 DEF AtOrBefore, CursorPredicate, Never
  <1> QED  BY <1>2, <1>3

\* What lies at or before the cursor goes before what the cursor selects.
LEMMA BehindBeforeAhead ==
  ASSUME TypeOK, NEW c \in Conversations, NEW d \in Conversations,
         AtOrBefore(c), CursorPredicate(d)
  PROVE  InOrder(c, d)
  <1>1. /\ c \in Nat /\ last[c] \in Nat /\ d \in Nat /\ last[d] \in Nat
        /\ cursor.ts \in Nat /\ cursor.id \in Nat
    BY ConversationNat DEF TypeOK, Cursor
  <1>2. CASE desc
    BY <1>1, <1>2 DEF AtOrBefore, CursorPredicate, InOrder, Never
  <1>3. CASE ~desc
    BY <1>1, <1>3 DEF AtOrBefore, CursorPredicate, InOrder, Never
  <1> QED  BY <1>2, <1>3

\* A page leaves its rows at or before the cursor made of the last of them.
LEMMA PageBehind ==
  ASSUME TypeOK, NEW c \in Conversations, NEW d \in Conversations,
         cursor' = [ts |-> last[c], id |-> c], UNCHANGED <<last, desc>>,
         d = c \/ Before(d, c)
  PROVE  AtOrBefore(d)'
  <1>1. /\ c \in Nat /\ last[c] \in Nat /\ d \in Nat /\ last[d] \in Nat
        /\ cursor'.ts = last[c] /\ cursor'.id = c /\ last' = last /\ desc' = desc
    BY ConversationNat DEF TypeOK
  <1>2. CASE desc
    BY <1>1, <1>2 DEF AtOrBefore, Before, Never
  <1>3. CASE ~desc
    BY <1>1, <1>3 DEF AtOrBefore, Before, Never
  <1> QED  BY <1>2, <1>3

\* And what comes after the last row of the page is selected by that cursor, but for
\* the NULL rows of an oldest-first walk.
LEMMA RestAhead ==
  ASSUME TypeOK, NEW c \in Conversations, NEW d \in Conversations,
         cursor' = [ts |-> last[c], id |-> c], UNCHANGED <<last, desc>>,
         Before(c, d)
  PROVE  CursorPredicate(d)' \/ Skipped(d)'
  <1>1. /\ c \in Nat /\ last[c] \in Nat /\ d \in Nat /\ last[d] \in Nat
        /\ cursor'.ts = last[c] /\ cursor'.id = c /\ last' = last /\ desc' = desc
    BY ConversationNat DEF TypeOK
  <1>2. CASE desc
    BY <1>1, <1>2 DEF CursorPredicate, Skipped, Before, Never
  <1>3. CASE ~desc
    BY <1>1, <1>3 DEF CursorPredicate, Skipped, Before, Never
  <1> QED  BY <1>2, <1>3

\* The cursor only moves on.
LEMMA StillBehind ==
  ASSUME TypeOK, NEW b \in Conversations, NEW c \in Conversations,
         cursor' = [ts |-> last[c], id |-> c], UNCHANGED <<last, desc>>,
         AtOrBefore(b), CursorPredicate(c)
  PROVE  AtOrBefore(b)'
  <1>1. /\ c \in Nat /\ last[c] \in Nat /\ b \in Nat /\ last[b] \in Nat
        /\ cursor.ts \in Nat /\ cursor.id \in Nat
        /\ cursor'.ts = last[c] /\ cursor'.id = c /\ last' = last /\ desc' = desc
    BY ConversationNat DEF TypeOK, Cursor
  <1>2. CASE desc
    BY <1>1, <1>2 DEF CursorPredicate, AtOrBefore, Never
  <1>3. CASE ~desc
    BY <1>1, <1>3 DEF CursorPredicate, AtOrBefore, Never
  <1> QED  BY <1>2, <1>3

-----------------------------------------------------------------------------
(***************************************************************************)
(* The invariant.                                                          *)
(***************************************************************************)

\* The initial states satisfy the invariant.
LEMMA InitIInv == Init => IInv
  <1> SUFFICES ASSUME Init PROVE IInv
    OBVIOUS
  <1> USE DEF Init
  <1>1. TypeOK
    BY DEF TypeOK, Cursor, Never
  <1>2. TimeInv
    BY DEF TimeInv
  <1>3. WalkInv /\ SeenInv /\ AheadInv /\ ShownOnce /\ WalkComplete /\ ListOrder
    BY DEF WalkInv, SeenInv, AheadInv, ShownOnce, WalkComplete, ListOrder
  <1> QED  BY <1>1, <1>2, <1>3 DEF IInv

\* A page keeps the invariant, if its rows come from where the walk has not been and
\* nothing that was to be seen is left out.
LEMMA ReturnPageIInv ==
  ASSUME IInv, NEW limit \in Limits, NEW rest \in SUBSET known, NEW p \in SUBSET rest,
         IsPage(p, rest, Clamp(limit)), ReturnPage(p, rest),
         UNCHANGED <<known, last, now, desc, touched>>,
         present' \in SUBSET known,
         \A n \in 1..Len(pages) : \A c \in pages[n], d \in rest :
           /\ c = d => Moved(c)
           /\ c \notin touched /\ d \notin touched => InOrder(c, d)
           /\ cursor' = [ts |-> last[d], id |-> d] => AtOrBefore(c)' \/ Moved(c),
         \A c \in present' \ touched : c \in Returned \/ c \in rest \/ Skipped(c)
  PROVE  IInv'
  <1> USE DEF IInv
  <1>0. /\ known \subseteq Conversations
        /\ p \subseteq Conversations
        /\ pages \in Seq(SUBSET Conversations)
        /\ pages' = Append(pages, p)
    BY DEF TypeOK, ReturnPage
  <1>1. /\ Len(pages') = Len(pages) + 1
        /\ \A n \in 1..Len(pages) : pages'[n] = pages[n]
        /\ pages'[Len(pages) + 1] = p
        /\ pages' \in Seq(SUBSET Conversations)
    BY <1>0
  <1>2. \A n \in 1..Len(pages') : n \in 1..Len(pages) \/ n = Len(pages) + 1
    BY <1>0, <1>1
  <1>3. Len(pages) \in Nat
    BY <1>0
  <1>4. TypeOK'
    <2>1. Cardinality(p) <= Clamp(limit) /\ Clamp(limit) \in 1..MaxLimit
      BY ClampBound DEF IsPage
    <2>2. \A n \in 1..Len(pages') : Cardinality(pages'[n]) <= MaxLimit
      <3>1. TAKE n \in 1..Len(pages')
      <3>2. CASE n \in 1..Len(pages)
        BY <3>2, <1>1 DEF TypeOK
      <3>3. CASE n = Len(pages) + 1
        <4>1. Cardinality(pages'[n]) <= Clamp(limit)
          BY <2>1, <3>3, <1>1
        <4>2. p = rest \/ Cardinality(p) = Clamp(limit)
          BY DEF IsPage
        <4>3. IsFiniteSet(p)
          BY <1>0, FS_Subset
        <4>4. Cardinality(p) \in Nat
          BY <4>3, FS_CardinalityType
        <4> QED  BY <2>1, <4>4, <3>3, <1>1
      <3> QED  BY <1>2, <3>2, <3>3
    <2>3. cursor' \in Cursor
      <3>1. CASE p = rest
        BY <3>1 DEF ReturnPage, TypeOK
      <3>2. CASE p # rest
        <4>1. PICK c \in p : cursor' = [ts |-> last[c], id |-> c]
          BY <3>2 DEF ReturnPage
        <4>2. c \in Nat /\ last[c] \in Nat
          BY <1>0, ConversationNat DEF TypeOK
        <4> QED  BY <4>1, <4>2 DEF Cursor
      <3> QED  BY <3>1, <3>2
    <2>4. walk' \in {"new", "open", "done"}
      BY DEF ReturnPage
    <2>5. desc' \in BOOLEAN
      BY DEF TypeOK
    <2> QED  BY <1>0, <1>1, <2>2, <2>3, <2>4, <2>5 DEF TypeOK
  <1>5. TimeInv'
    <2>1. CASE p = rest
      BY <2>1 DEF ReturnPage, TimeInv
    <2>2. CASE p # rest
      <3>1. PICK c \in p : cursor' = [ts |-> last[c], id |-> c]
        BY <2>2 DEF ReturnPage
      <3> QED  BY <3>1, <1>0 DEF TimeInv
    <2> QED  BY <2>1, <2>2
  <1>6. WalkInv'
    BY DEF WalkInv, ReturnPage
  <1>7. SeenInv'
    <2> SUFFICES ASSUME walk' = "open", NEW n \in 1..Len(pages'), NEW c \in pages'[n]
                 PROVE  AtOrBefore(c)' \/ Moved(c)'
      BY DEF SeenInv
    <2>1. p # rest
      BY DEF ReturnPage
    <2>2. PICK e \in p : /\ \A d \in p \ {e} : Before(d, e)
                         /\ cursor' = [ts |-> last[e], id |-> e]
      BY <2>1 DEF ReturnPage
    <2>3. CASE n \in 1..Len(pages)
      <3>1. c \in pages[n] /\ e \in rest
        BY <2>3, <1>1
      <3>2. AtOrBefore(c)' \/ Moved(c)
        BY <2>3, <3>1, <2>2
      <3> QED  BY <3>2 DEF Moved
    <2>4. CASE n = Len(pages) + 1
      <3>1. c \in p /\ (c = e \/ Before(c, e))
        BY <2>4, <1>1, <2>2
      <3> QED  BY <3>1, <2>2, <1>0, PageBehind
    <2> QED  BY <1>2, <2>3, <2>4
  <1>8. \A c : c \in Returned' <=> c \in Returned \/ c \in p
    <2>1. \A c : c \in Returned' <=> \E n \in 1..Len(pages') : c \in pages'[n]
      BY DEF Returned
    <2>2. \A c : c \in Returned <=> \E n \in 1..Len(pages) : c \in pages[n]
      BY DEF Returned
    <2>3. Len(pages) + 1 \in 1..Len(pages') /\ \A n \in 1..Len(pages) : n \in 1..Len(pages')
      BY <1>1, <1>3
    <2> QED  BY <2>1, <2>2, <2>3, <1>1, <1>2
  <1>9. AheadInv'
    <2> SUFFICES ASSUME walk' = "open", NEW c \in present' \ touched'
                 PROVE  c \in Returned' \/ CursorPredicate(c)' \/ Skipped(c)'
      BY DEF AheadInv
    <2>1. p # rest
      BY DEF ReturnPage
    <2>2. PICK e \in p : cursor' = [ts |-> last[e], id |-> e]
      BY <2>1 DEF ReturnPage
    <2>3. c \in Returned \/ c \in rest \/ Skipped(c)
      OBVIOUS
    <2>4. CASE c \in rest \ p
      <3>1. Before(e, c)
        BY <2>4 DEF IsPage
      <3>2. c \in Conversations /\ e \in Conversations
        BY <2>4, <1>0
      <3> QED  BY <3>1, <3>2, <2>2, RestAhead
    <2>5. CASE Skipped(c)
      BY <2>5 DEF Skipped
    <2> QED  BY <2>3, <2>4, <2>5, <1>8
  <1>10. ShownOnce'
    <2> SUFFICES ASSUME NEW m \in 1..Len(pages'), NEW n \in 1..Len(pages'), m < n,
                        NEW c \in pages'[m] \cap pages'[n]
                 PROVE  ~desc' /\ c \in touched'
      BY DEF ShownOnce
    <2>1. m \in 1..Len(pages)
      BY <1>1, <1>3
    <2>2. c \in pages[m]
      BY <2>1, <1>1
    <2>3. CASE n \in 1..Len(pages)
      BY <2>1, <2>2, <2>3, <1>1 DEF ShownOnce
    <2>4. CASE n = Len(pages) + 1
      <3>1. c \in rest
        BY <2>4, <1>1
      <3>2. Moved(c)
        BY <2>1, <2>2, <3>1
      <3> QED  BY <3>2 DEF Moved
    <2> QED  BY <1>2, <2>3, <2>4
  <1>11. WalkComplete'
    <2> SUFFICES ASSUME walk' = "done", NEW c \in present' \ touched'
                 PROVE  c \in Returned' \/ (~desc' /\ last'[c] = Never)
      BY DEF WalkComplete
    <2>1. p = rest
      BY DEF ReturnPage
    <2>2. c \in Returned \/ c \in rest \/ Skipped(c)
      OBVIOUS
    <2> QED  BY <2>1, <2>2, <1>8 DEF Skipped
  <1>12. ListOrder'
    <2> SUFFICES ASSUME NEW m \in 1..Len(pages'), NEW n \in 1..Len(pages'), m < n,
                        NEW c \in pages'[m] \ touched', NEW d \in pages'[n] \ touched'
                 PROVE  InOrder(c, d)'
      BY DEF ListOrder, InOrder
    <2>1. m \in 1..Len(pages)
      BY <1>1, <1>3
    <2>2. c \in pages[m] /\ c \notin touched /\ d \notin touched
      BY <2>1, <1>1
    <2>3. InOrder(c, d)
      <3>1. CASE n \in 1..Len(pages)
        BY <2>1, <2>2, <3>1, <1>1 DEF ListOrder, InOrder
      <3>2. CASE n = Len(pages) + 1
        <4>1. d \in rest
          BY <3>2, <1>1
        <4> QED  BY <2>1, <2>2, <4>1
      <3> QED  BY <1>2, <3>1, <3>2
    <2> QED  BY <2>3 DEF InOrder
  <1> QED  BY <1>4, <1>5, <1>6, <1>7, <1>9, <1>10, <1>11, <1>12

\* Nothing has been seen before the first page, and all rows are its candidates.
LEMMA FirstPageIInv ==
  ASSUME IInv, NEW limit \in Limits, FirstPage(limit)
  PROVE  IInv'
  <1>1. PICK p \in SUBSET known : IsPage(p, known, Clamp(limit)) /\ ReturnPage(p, known)
    BY DEF FirstPage
  <1>2. Len(pages) = 0
    BY DEF FirstPage, IInv, WalkInv
  <1>3. UNCHANGED <<known, last, now, desc, touched>> /\ present' = known
    BY DEF FirstPage
  <1>4. known \in SUBSET known /\ present' \in SUBSET known
    BY <1>3
  <1>5. 1..Len(pages) = {}
    BY <1>2
  <1> QED  BY <1>1, <1>3, <1>4, <1>5, ReturnPageIInv

\* The cursor selects what has not been seen.
LEMMA NextPageIInv ==
  ASSUME IInv, NEW limit \in Limits, NextPage(limit)
  PROVE  IInv'
  <1> DEFINE rest == {c \in known : CursorPredicate(c)}
  <1>1. PICK p \in SUBSET rest : IsPage(p, rest, Clamp(limit)) /\ ReturnPage(p, rest)
    BY DEF NextPage
  <1>2. /\ UNCHANGED <<known, last, now, desc, touched>>
        /\ UNCHANGED present
        /\ walk = "open"
    BY DEF NextPage
  <1>3. TypeOK /\ SeenInv /\ AheadInv /\ WalkInv
    BY DEF IInv
  <1>4. rest \in SUBSET known /\ present' \in SUBSET known
    BY <1>2, <1>3 DEF WalkInv
  <1>5. ASSUME NEW n \in 1..Len(pages), NEW c \in pages[n], NEW d \in rest
        PROVE  /\ c = d => Moved(c)
               /\ c \notin touched /\ d \notin touched => InOrder(c, d)
               /\ cursor' = [ts |-> last[d], id |-> d] => AtOrBefore(c)' \/ Moved(c)
    <2>1. c \in Conversations /\ d \in Conversations /\ CursorPredicate(d)
      BY <1>3 DEF TypeOK
    <2>2. AtOrBefore(c) \/ Moved(c)
      BY <1>2, <1>3 DEF SeenInv
    <2>3. CASE AtOrBefore(c)
      <3>1. ~CursorPredicate(c)
        BY <2>1, <2>3, <1>3, BehindIsNotAhead
      <3>2. InOrder(c, d)
        BY <2>1, <2>3, <1>3, BehindBeforeAhead
      <3>3. cursor' = [ts |-> last[d], id |-> d] => AtOrBefore(c)'
        BY <2>1, <2>3, <1>2, <1>3, StillBehind
      <3> QED  BY <3>1, <3>2, <3>3, <2>1
    <2>4. CASE Moved(c)
      BY <2>4 DEF Moved
    <2> QED  BY <2>2, <2>3, <2>4
  <1>6. \A c \in present' \ touched : c \in Returned \/ c \in rest \/ Skipped(c)
    BY <1>2, <1>3, <1>4 DEF AheadInv
  <1> HIDE DEF rest
  <1> QED  BY <1>1, <1>2, <1>4, <1>5, <1>6, ReturnPageIInv

\* A message moves a conversation to the recent end: newest first, that is where the
\* walk has been already.
LEMMA MessageArrivesIInv ==
  ASSUME IInv, NEW k \in Conversations, NEW t \in 1..MaxTime, MessageArrives(k, t)
  PROVE  IInv'
  <1> USE DEF IInv, MessageArrives
  <1>0. /\ k \in Nat /\ last \in [Conversations -> Nat] /\ now \in Nat /\ t \in Nat
        /\ cursor.ts \in Nat /\ cursor.id \in Nat
        /\ pages \in Seq(SUBSET Conversations)
        /\ t # 0 /\ t >= now
    BY ConversationNat DEF TypeOK, Cursor
  <1>1. /\ last'[k] = t
        /\ \A c \in Conversations : c # k => last'[c] = last[c]
        /\ last' \in [Conversations -> Nat]
    BY <1>0
  <1>2. TypeOK'
    BY <1>0, <1>1 DEF TypeOK
  <1>3. TimeInv'
    BY <1>0, <1>1 DEF TimeInv
  <1>4. WalkInv'
    BY DEF WalkInv
  <1>5. SeenInv'
    <2> SUFFICES ASSUME NEW n \in 1..Len(pages), NEW c \in pages[n]
                 PROVE  AtOrBefore(c)' \/ Moved(c)'
      BY DEF SeenInv
    <2>0. c \in Conversations /\ c \in Nat
      <3>1. pages[n] \subseteq Conversations
        BY <1>0
      <3> QED  BY <3>1, ConversationNat
    <2>1. AtOrBefore(c) \/ Moved(c)
      BY DEF SeenInv
    <2>2. CASE c # k
      <3>1. last'[c] = last[c]
        BY <2>0, <2>2, <1>1
      <3> QED  BY <3>1, <2>1 DEF AtOrBefore, Moved
    <2>3. CASE c = k /\ desc
      <3>1. AtOrBefore(c)
        BY <2>1, <2>3 DEF Moved
      <3>2. last'[c] = t /\ last[c] \in Nat /\ last[c] <= now /\ cursor.ts <= now
        BY <1>1, <2>3, <1>0, <2>0 DEF TimeInv
      <3> QED  BY <3>1, <3>2, <2>0, <2>3, <1>0 DEF AtOrBefore, Never
    <2>4. CASE c = k /\ ~desc
      BY <2>4 DEF Moved
    <2> QED  BY <2>2, <2>3, <2>4
  <1>6. AheadInv'
    <2> SUFFICES ASSUME NEW c \in present \ touched'
                 PROVE  c \in Returned' \/ CursorPredicate(c)' \/ Skipped(c)'
      BY DEF AheadInv
    <2>1. c # k /\ c \in Conversations /\ c \in present \ touched
      BY DEF TypeOK
    <2>2. last'[c] = last[c] /\ Returned' = Returned
      BY <2>1, <1>1 DEF Returned
    <2>3. c \in Returned \/ CursorPredicate(c) \/ Skipped(c)
      BY <2>1 DEF AheadInv
    <2> QED  BY <2>2, <2>3 DEF CursorPredicate, Skipped
  <1>7. ShownOnce'
    BY DEF ShownOnce
  <1>8. WalkComplete'
    BY DEF WalkComplete
  <1>9. ListOrder'
    <2> SUFFICES ASSUME NEW m \in 1..Len(pages), NEW n \in 1..Len(pages), m < n,
                        NEW c \in pages[m] \ touched', NEW d \in pages[n] \ touched'
                 PROVE  InOrder(c, d)'
      BY DEF ListOrder, InOrder
    <2>1. c # k /\ d # k /\ c \in Conversations /\ d \in Conversations
          /\ c \in pages[m] \ touched /\ d \in pages[n] \ touched
      BY DEF TypeOK
    <2>2. last'[c] = last[c] /\ last'[d] = last[d]
      BY <2>1, <1>1
    <2>3. InOrder(c, d)
      BY <2>1 DEF ListOrder, InOrder
    <2> QED  BY <2>2, <2>3 DEF InOrder
  <1> QED  BY <1>2, <1>3, <1>4, <1>5, <1>6, <1>7, <1>8, <1>9

\* Steps that change nothing keep the invariant.
LEMMA StutterIInv == ASSUME IInv, UNCHANGED vars PROVE IInv'
  <1>1. TypeOK' /\ TimeInv' /\ WalkInv'
    BY DEF IInv, vars, TypeOK, TimeInv, WalkInv
  <1>2. SeenInv' /\ AheadInv'
    BY DEF IInv, vars, SeenInv, AheadInv, AtOrBefore, Moved, Returned, CursorPredicate, Skipped
  <1>3. ShownOnce' /\ WalkComplete' /\ ListOrder'
    BY DEF IInv, vars, ShownOnce, WalkComplete, ListOrder, Returned
  <1> QED  BY <1>1, <1>2, <1>3 DEF IInv

-----------------------------------------------------------------------------
(***************************************************************************)
(* The invariant holds in every reachable state: the cursor divides the    *)
(* list into what was returned and what will be (inbox.py:172-188).        *)
(***************************************************************************)
THEOREM SpecIInv == Spec => []IInv
  <1>1. IInv /\ [Next]_vars => IInv'
    <2> SUFFICES ASSUME IInv, [Next]_vars PROVE IInv'
      OBVIOUS
    <2>1. CASE \E limit \in Limits : list_conversations(limit)
      BY <2>1, FirstPageIInv, NextPageIInv DEF list_conversations
    <2>2. CASE \E c \in Conversations, t \in 1..MaxTime : MessageArrives(c, t)
      BY <2>2, MessageArrivesIInv
    <2>3. CASE UNCHANGED vars
      BY <2>3, StutterIInv
    <2> QED  BY <2>1, <2>2, <2>3 DEF Next
  <1> QED  BY InitIInv, <1>1, PTL DEF Spec

(***************************************************************************)
(* No page exceeds the maximum size, whatever clients ask for.             *)
(***************************************************************************)
THEOREM SpecTypeOK == Spec => []TypeOK
  BY SpecIInv, PTL DEF IInv

(***************************************************************************)
(* A finished walk has shown what did not move, for tables of any size.    *)
(***************************************************************************)
THEOREM SpecWalkComplete == Spec => []WalkComplete
  BY SpecIInv, PTL DEF IInv

\* Pages come in the order of the list and show nothing twice.
THEOREM SpecPagesInOrder == Spec => []PagesInOrder
  <1>1. IInv => PagesInOrder
    BY DEF IInv, PagesInOrder
  <1> QED  BY <1>1, SpecIInv, PTL

-----------------------------------------------------------------------------
(***************************************************************************)
(* The thread: its invariant.                                              *)
(***************************************************************************)

USE ThreadAssumption

\* Only committed messages are ever read, and nothing has been before the first page.
ReadInv ==
  /\ \A n \in 1..Len(thread) : thread[n] \subseteq committed
  /\ atStart \subseteq committed
  /\ scroll = "new" => thread = <<>>

\* The cursor divides the thread: what was shown is not older than it, and what was
\* there at the start and was not shown is.
DividedInv ==
  scroll = "open" =>
    /\ \A n \in 1..Len(thread) : \A m \in thread[n] : ~OlderThanCursor(m)
    /\ \A m \in atStart : m \in Shown \/ OlderThanCursor(m)

\* A page that was read and not yet answered comes from beyond the cursor, and leaves
\* out only what is older still.
PageInv ==
  hand # NoPage =>
    /\ scroll # "done" /\ hand.messages \subseteq committed
    /\ scroll = "open" => \A m \in hand.messages : OlderThanCursor(m)
    /\ \A m \in atStart :
         \/ m \in Shown \cup hand.messages
         \/ hand.more /\ \A n \in hand.messages : Older(m, n)

\* The URL of m handed out last in this life is the one in the cache, which was signed
\* less than a TTL before it is handed out.
UrlInv ==
  \A m \in Messages :
    /\ IsHit(m) =>
         /\ urlCache[m].until = urlCache[m].url.signed + UrlTtl
         /\ urlCache[m].url.signed <= clock
    /\ \A u \in served[m] :
         /\ u.at <= clock /\ u.at < u.url.signed + UrlTtl /\ u.life <= life
         /\ u.life = life =>
              urlCache[m] = [url |-> u.url, until |-> u.url.signed + UrlTtl]
         /\ \A v \in served[m] : u = v

\* The inductive invariant of the thread.
ThreadIInv ==
  /\ ThreadTypeOK
  /\ ReadInv
  /\ DividedInv
  /\ PageInv
  /\ UrlInv
  /\ ThreadInOrder
  /\ ThreadComplete

\* The part of it that is about the walk.
WalkedInv == ReadInv /\ DividedInv /\ PageInv /\ ThreadInOrder /\ ThreadComplete

\* What the cursor selects is older than what it does not.
LEMMA CursorDivides ==
  ASSUME ThreadTypeOK, NEW m \in Messages, NEW o \in Messages,
         ~OlderThanCursor(m), OlderThanCursor(o)
  PROVE  Older(o, m)
  <1>1. /\ m \in Nat /\ o \in Nat /\ createdAt[m] \in Nat /\ createdAt[o] \in Nat
        /\ before.ts \in Nat /\ before.id \in Nat
    BY DEF ThreadTypeOK
  <1> QED  BY <1>1 DEF Older, OlderThanCursor

\* A cursor made of m selects what is older than m, and nothing that m is older than.
LEMMA CursorAt ==
  ASSUME ThreadTypeOK, NEW m \in Messages, NEW o \in Messages,
         before' = [ts |-> createdAt[m], id |-> m], UNCHANGED createdAt
  PROVE  /\ Older(o, m) => OlderThanCursor(o)'
         /\ o = m \/ Older(m, o) => ~OlderThanCursor(o)'
  <1>1. /\ m \in Nat /\ o \in Nat /\ createdAt[m] \in Nat /\ createdAt[o] \in Nat
        /\ before'.ts = createdAt[m] /\ before'.id = m /\ createdAt' = createdAt
    BY DEF ThreadTypeOK
  <1> QED  BY <1>1 DEF Older, OlderThanCursor

\* What is shown, page by page.
LEMMA InShown == \A m : m \in Shown <=> \E n \in 1..Len(thread) : m \in thread[n]
  BY DEF Shown

\* New messages, and a request that is cut off, leave the walk as it is.
LEMMA WalkKept ==
  ASSUME ThreadTypeOK, WalkedInv,
         \A m \in committed : createdAt'[m] = createdAt[m],
         committed \subseteq committed',
         hand' = hand \/ hand' = NoPage,
         UNCHANGED <<scroll, before, thread, atStart>>
  PROVE  WalkedInv'
  <1> USE DEF WalkedInv
  <1>1. \A m, n \in committed : Older(m, n)' <=> Older(m, n)
    BY DEF Older
  <1>2. \A m \in committed : OlderThanCursor(m)' <=> OlderThanCursor(m)
    BY DEF OlderThanCursor
  <1>3. Shown' = Shown
    BY DEF Shown
  <1>4. ReadInv'
    BY DEF ReadInv
  <1>5. DividedInv'
    BY <1>2, <1>3 DEF DividedInv, ReadInv
  <1>6. PageInv'
    BY <1>1, <1>2, <1>3 DEF PageInv, ReadInv
  <1>7. ThreadInOrder'
    BY <1>1 DEF ThreadInOrder, ReadInv
  <1>8. ThreadComplete'
    BY <1>3 DEF ThreadComplete
  <1> QED  BY <1>4, <1>5, <1>6, <1>7, <1>8

\* The initial states satisfy the invariant.
LEMMA InitThreadIInv == ThreadInit => ThreadIInv
  <1> SUFFICES ASSUME ThreadInit PROVE ThreadIInv
    OBVIOUS
  <1> USE DEF ThreadInit
  <1>1. ThreadTypeOK
    BY DEF ThreadTypeOK, NoUrls
  <1>2. ReadInv /\ DividedInv /\ PageInv /\ ThreadInOrder /\ ThreadComplete
    BY DEF ReadInv, DividedInv, PageInv, ThreadInOrder, ThreadComplete
  <1>3. UrlInv
    BY <1>1 DEF UrlInv, IsHit, NoUrls, ThreadTypeOK
  <1> QED  BY <1>1, <1>2, <1>3 DEF ThreadIInv

\* A page is read from beyond the cursor.
LEMMA ReadPageIInv ==
  ASSUME ThreadIInv, NEW limit \in PageLimits, ReadPage(limit)
  PROVE  ThreadIInv'
  <1> USE DEF ThreadIInv
  <1> DEFINE rest == IF scroll = "new" THEN committed
                     ELSE {m \in committed : OlderThanCursor(m)}
  <1>1. /\ scroll # "done" /\ hand = NoPage
        /\ atStart' = IF scroll = "new" THEN committed ELSE atStart
        /\ UNCHANGED <<writing, committed, createdAt, clock, scroll, before, thread,
                       urlCache, served, life>>
    BY DEF ReadPage, rows, urls
  <1>2. PICK p \in SUBSET rest : /\ IsTail(p, rest, PageSize(limit))
                                 /\ hand' = [messages |-> p, more |-> p # rest]
    BY DEF ReadPage
  <1>3. rest \subseteq committed /\ p \subseteq committed /\ committed \subseteq Messages
    BY <1>2 DEF ThreadTypeOK
  <1>4. ThreadTypeOK'
    BY <1>1, <1>2, <1>3 DEF ThreadTypeOK
  <1>5. Shown' = Shown
    BY <1>1 DEF Shown
  <1>6. \A m, n : (Older(m, n)' <=> Older(m, n)) /\ (OlderThanCursor(m)' <=> OlderThanCursor(m))
    BY <1>1 DEF Older, OlderThanCursor
  <1>7. ReadInv' /\ ThreadInOrder' /\ ThreadComplete'
    BY <1>1, <1>5, <1>6 DEF ReadInv, ThreadInOrder, ThreadComplete
  <1>8. DividedInv'
    BY <1>1, <1>5, <1>6 DEF DividedInv
  <1>9. PageInv'
    <2>1. hand'.messages = p /\ hand'.more = (p # rest)
      BY <1>2
    <2>2. scroll = "open" => \A m \in p : OlderThanCursor(m)
      BY <1>2
    <2>3. \A m \in atStart' : m \in Shown \/ m \in rest
      BY <1>1 DEF DividedInv, ReadInv, ThreadTypeOK
    <2>4. \A m \in rest \ p : \A n \in p : Older(m, n)
      BY <1>2 DEF IsTail
    <2> HIDE DEF rest
    <2> QED  BY <1>1, <1>3, <1>5, <1>6, <2>1, <2>2, <2>3, <2>4 DEF PageInv
  <1>10. UrlInv'
    BY <1>1 DEF UrlInv, IsHit
  <1> QED  BY <1>4, <1>7, <1>8, <1>9, <1>10

\* What the cache keeps, and what a client is given.
CachedUrls == [url : [signed : Nat, ends : Nat], until : Nat]
ServedUrls == [url : [signed : Nat, ends : Nat], at : Nat, life : Nat]

\* Signing: the cache and what is handed out change together.
LEMMA SignIInv ==
  ASSUME ThreadTypeOK, UrlInv, NEW S \in SUBSET Messages, SignUrls(S),
         UNCHANGED <<clock, life>>
  PROVE  /\ UrlInv'
         /\ urlCache' \in [Messages -> CachedUrls]
         /\ served' \in [Messages -> SUBSET ServedUrls]
  <1>0. PICK left \in Sessions :
          /\ urlCache' = [m \in Messages |->
               IF m \in S THEN Url(m, clock + left) ELSE urlCache[m]]
          /\ served' = [m \in Messages |->
               IF m \in S
                 THEN {[url |-> Url(m, clock + left).url, at |-> clock, life |-> life]}
                 ELSE served[m]]
    BY DEF SignUrls
  <1> DEFINE U(m) == Url(m, clock + left)
  <1>1. /\ clock \in Nat /\ life \in Nat /\ UrlTtl \in Nat /\ UrlTtl > 0
        /\ clock + left \in Nat
    BY DEF ThreadTypeOK
  <1>2. ASSUME NEW m \in Messages
        PROVE  /\ U(m) \in CachedUrls
               /\ U(m) = [url |-> U(m).url, until |-> U(m).url.signed + UrlTtl]
               /\ U(m).url.signed <= clock /\ clock < U(m).url.signed + UrlTtl
    <2>1. urlCache[m] \in CachedUrls
      BY DEF ThreadTypeOK, CachedUrls
    <2>2. CASE IsHit(m)
      <3>1. U(m) = urlCache[m]
        BY <2>2 DEF Url
      <3>2. /\ urlCache[m].until = urlCache[m].url.signed + UrlTtl
            /\ urlCache[m].url.signed <= clock
        BY <2>2 DEF UrlInv
      <3>3. urlCache[m] = [url |-> urlCache[m].url, until |-> urlCache[m].until]
        BY <2>1 DEF CachedUrls
      <3>4. clock < urlCache[m].until
        BY <2>2 DEF IsHit
      <3> QED  BY <2>1, <3>1, <3>2, <3>3, <3>4
    <2>3. CASE ~IsHit(m)
      BY <1>1, <2>3 DEF Url, Fresh, CachedUrls
    <2> QED  BY <2>2, <2>3
  <1>3. ASSUME NEW m \in S
        PROVE  /\ urlCache'[m] = U(m)
               /\ served'[m] = {[url |-> U(m).url, at |-> clock, life |-> life]}
    BY <1>0
  <1>4. ASSUME NEW m \in Messages \ S
        PROVE  urlCache'[m] = urlCache[m] /\ served'[m] = served[m]
    BY <1>0
  <1> HIDE DEF U
  <1>5. /\ urlCache' \in [Messages -> CachedUrls]
        /\ served' \in [Messages -> SUBSET ServedUrls]
    <2>1. \A m \in Messages : U(m) \in CachedUrls
      BY <1>2
    <2>2. \A m \in Messages : [url |-> U(m).url, at |-> clock, life |-> life] \in ServedUrls
      BY <1>1, <2>1 DEF CachedUrls, ServedUrls
    <2>3. \A m \in Messages : urlCache[m] \in CachedUrls /\ served[m] \in SUBSET ServedUrls
      BY DEF ThreadTypeOK, CachedUrls, ServedUrls
    <2>4. /\ \A m \in Messages : urlCache'[m] \in CachedUrls
          /\ \A m \in Messages : served'[m] \in SUBSET ServedUrls
      BY <1>3, <1>4, <2>1, <2>2, <2>3
    <2>5. DOMAIN urlCache' = Messages /\ DOMAIN served' = Messages
      BY <1>0
    <2>6. urlCache' = [m \in Messages |-> urlCache'[m]] /\ served' = [m \in Messages |-> served'[m]]
      BY <1>0
    <2> QED  BY <2>4, <2>6
  <1>6. UrlInv'
    <2> SUFFICES ASSUME NEW m \in Messages
                 PROVE  /\ IsHit(m)' =>
                             /\ urlCache'[m].until = urlCache'[m].url.signed + UrlTtl
                             /\ urlCache'[m].url.signed <= clock'
                        /\ \A u \in served'[m] :
                             /\ u.at <= clock' /\ u.at < u.url.signed + UrlTtl
                             /\ u.life <= life'
                             /\ u.life = life' =>
                                  urlCache'[m] = [url |-> u.url, until |-> u.url.signed + UrlTtl]
                             /\ \A v \in served'[m] : u = v
      BY DEF UrlInv
    <2>1. CASE m \in S
      <3>1. /\ U(m) = [url |-> U(m).url, until |-> U(m).url.signed + UrlTtl]
            /\ U(m).url.signed <= clock /\ clock < U(m).url.signed + UrlTtl
        BY <1>2
      <3> QED  BY <1>1, <1>3, <2>1, <3>1
    <2>2. CASE m \notin S
      <3>1. IsHit(m)' <=> IsHit(m)
        BY <1>4, <2>2 DEF IsHit
      <3> QED  BY <1>4, <2>2, <3>1 DEF UrlInv
    <2> QED  BY <2>1, <2>2
  <1> QED  BY <1>5, <1>6

\* The page is shown, and the cursor made of its oldest message.
LEMMA AnswerPageIInv ==
  ASSUME ThreadIInv, AnswerPage
  PROVE  ThreadIInv'
  <1> USE DEF ThreadIInv
  <1>0. /\ hand # NoPage /\ SignUrls(hand.messages \cap Attached)
        /\ thread' = Append(thread, hand.messages) /\ hand' = NoPage
        /\ UNCHANGED <<writing, committed, createdAt, clock, atStart, life>>
    BY DEF AnswerPage, rows
  <1>1. /\ hand.messages \in SUBSET Messages /\ hand.messages \subseteq committed
        /\ hand.more \in BOOLEAN
        /\ thread \in Seq(SUBSET Messages) /\ Len(thread) \in Nat
    BY <1>0 DEF ThreadTypeOK, PageInv
  <1>2. /\ Len(thread') = Len(thread) + 1
        /\ \A n \in 1..Len(thread) : thread'[n] = thread[n]
        /\ thread'[Len(thread) + 1] = hand.messages
        /\ thread' \in Seq(SUBSET Messages)
    BY <1>0, <1>1
  <1>3. \A n \in 1..Len(thread') : n \in 1..Len(thread) \/ n = Len(thread) + 1
    BY <1>1, <1>2
  <1>4. \A m : m \in Shown' <=> m \in Shown \/ m \in hand.messages
    <2>1. \A m : m \in Shown' <=> \E n \in 1..Len(thread') : m \in thread'[n]
      BY DEF Shown
    <2>2. Len(thread) + 1 \in 1..Len(thread') /\ \A n \in 1..Len(thread) : n \in 1..Len(thread')
      BY <1>1, <1>2
    <2> QED  BY <1>2, <1>3, <2>1, <2>2, InShown
  <1>5. \A m, n : Older(m, n)' <=> Older(m, n)
    BY <1>0 DEF Older
  <1>6. /\ UrlInv'
        /\ urlCache' \in [Messages -> CachedUrls]
        /\ served' \in [Messages -> SUBSET ServedUrls]
    <2>1. hand.messages \cap Attached \in SUBSET Messages
      BY <1>1
    <2> QED  BY <1>0, <2>1, SignIInv
  <1>7. ASSUME NEW k \in 1..Len(thread), NEW m \in thread[k], NEW o \in hand.messages
        PROVE  Older(o, m) /\ m \in Messages /\ o \in Messages
    <2>1. m \in Messages /\ o \in Messages
      BY <1>1
    <2>2. scroll = "open"
      BY <1>0, <1>7 DEF PageInv, ReadInv, ThreadTypeOK
    <2>3. ~OlderThanCursor(m) /\ OlderThanCursor(o)
      BY <1>0, <2>2 DEF PageInv, DividedInv
    <2> QED  BY <2>1, <2>3, CursorDivides
  <1>8. ThreadInOrder'
    <2> SUFFICES ASSUME NEW k \in 1..Len(thread'), NEW n \in 1..Len(thread'), k < n,
                        NEW m \in thread'[k], NEW o \in thread'[n]
                 PROVE  Older(o, m)
      BY <1>5 DEF ThreadInOrder
    <2>1. k \in 1..Len(thread) /\ m \in thread[k]
      BY <1>1, <1>2
    <2>2. CASE n \in 1..Len(thread)
      BY <1>2, <2>1, <2>2 DEF ThreadInOrder
    <2>3. CASE n = Len(thread) + 1
      BY <1>2, <1>7, <2>1, <2>3
    <2> QED  BY <1>3, <2>2, <2>3
  <1>9. CASE hand.more
    <2>1. scroll' = "open"
      BY <1>9 DEF AnswerPage
    <2>2. PICK m \in hand.messages : /\ \A n \in hand.messages \ {m} : Older(m, n)
                                     /\ before' = [ts |-> createdAt[m], id |-> m]
      BY <1>9 DEF AnswerPage
    <2>3. m \in Messages /\ m \in Nat /\ createdAt[m] \in Nat
      BY <1>1 DEF ThreadTypeOK
    <2>4. \A o \in Messages : /\ Older(o, m) => OlderThanCursor(o)'
                              /\ o = m \/ Older(m, o) => ~OlderThanCursor(o)'
      BY <1>0, <2>2, <2>3, CursorAt
    <2>5. ThreadTypeOK'
      BY <1>0, <1>1, <1>2, <1>6, <2>1, <2>2, <2>3
      DEF ThreadTypeOK, CachedUrls, ServedUrls
    <2>6. ASSUME NEW n \in 1..Len(thread'), NEW o \in thread'[n]
          PROVE  ~OlderThanCursor(o)'
      <3>1. CASE n \in 1..Len(thread)
        <4>1. Older(m, o) /\ o \in Messages
          BY <1>2, <1>7, <3>1
        <4> QED  BY <2>4, <4>1
      <3>2. CASE n = Len(thread) + 1
        <4>1. o \in Messages /\ (o = m \/ Older(m, o))
          BY <1>1, <1>2, <2>2, <3>2
        <4> QED  BY <2>4, <4>1
      <3> QED  BY <1>3, <3>1, <3>2
    <2>7. ASSUME NEW o \in atStart
          PROVE  o \in Shown' \/ OlderThanCursor(o)'
      <3>1. o \in Messages
        BY DEF ThreadTypeOK
      <3>2. o \in Shown \/ o \in hand.messages \/ \A n \in hand.messages : Older(o, n)
        BY <1>0 DEF PageInv
      <3> QED  BY <1>4, <2>4, <3>1, <3>2
    <2>8. DividedInv'
      BY <1>0, <2>6, <2>7 DEF DividedInv
    <2>9. ReadInv' /\ PageInv' /\ ThreadComplete'
      <3>1. ASSUME NEW n \in 1..Len(thread') PROVE thread'[n] \subseteq committed
        BY <1>1, <1>2, <1>3, <3>1 DEF ReadInv
      <3> QED  BY <1>0, <2>1, <3>1 DEF ReadInv, PageInv, ThreadComplete
    <2> QED  BY <1>6, <1>8, <2>5, <2>8, <2>9
  <1>10. CASE ~hand.more
    <2>1. scroll' = "done" /\ before' = before
      BY <1>10 DEF AnswerPage
    <2>2. ThreadTypeOK'
      BY <1>0, <1>2, <1>6, <2>1 DEF ThreadTypeOK, CachedUrls, ServedUrls
    <2>3. ThreadComplete'
      BY <1>0, <1>4, <1>10 DEF PageInv, ThreadComplete
    <2>4. ReadInv' /\ PageInv' /\ DividedInv'
      <3>1. ASSUME NEW n \in 1..Len(thread') PROVE thread'[n] \subseteq committed
        BY <1>1, <1>2, <1>3, <3>1 DEF ReadInv
      <3> QED  BY <1>0, <2>1, <3>1 DEF ReadInv, PageInv, DividedInv
    <2> QED  BY <1>6, <1>8, <2>2, <2>3, <2>4
  <1> QED  BY <1>1, <1>9, <1>10

\* Every step keeps the invariant.
LEMMA NextThreadIInv == ThreadIInv /\ [ThreadNext]_threadVars => ThreadIInv'
  <1> SUFFICES ASSUME ThreadIInv, [ThreadNext]_threadVars PROVE ThreadIInv'
    OBVIOUS
  <1>0. ThreadTypeOK /\ UrlInv /\ WalkedInv
    BY DEF ThreadIInv, WalkedInv
  <1>1. ASSUME ThreadTypeOK', UrlInv', WalkedInv' PROVE ThreadIInv'
    BY <1>1 DEF ThreadIInv, WalkedInv
  <1>2. CASE ReadRaises
    <2>1. WalkedInv'
      BY <1>0, <1>2, WalkKept DEF ReadRaises, rows
    <2>2. ThreadTypeOK' /\ UrlInv'
      BY <1>0, <1>2 DEF ReadRaises, rows, urls, ThreadTypeOK, UrlInv, IsHit
    <2> QED  BY <1>1, <2>1, <2>2
  <1>3. ASSUME NEW m \in Messages, AnotherReads(m) PROVE ThreadIInv'
    <2>1. WalkedInv'
      BY <1>0, <1>3, WalkKept DEF AnotherReads, rows, view
    <2>2. /\ UrlInv'
          /\ urlCache' \in [Messages -> CachedUrls]
          /\ served' \in [Messages -> SUBSET ServedUrls]
      <3>1. SignUrls({m}) /\ UNCHANGED <<clock, life>> /\ {m} \in SUBSET Messages
        BY <1>3 DEF AnotherReads
      <3> QED  BY <1>0, <3>1, SignIInv
    <2>3. ThreadTypeOK'
      BY <1>0, <1>3, <2>2
      DEF AnotherReads, rows, view, ThreadTypeOK, CachedUrls, ServedUrls
    <2> QED  BY <1>1, <2>1, <2>2, <2>3
  <1>4. ASSUME NEW m \in Messages, BeginMessage(m) PROVE ThreadIInv'
    <2>1. \A n \in committed : createdAt'[n] = createdAt[n]
      BY <1>0, <1>4 DEF BeginMessage, ThreadTypeOK
    <2>2. WalkedInv'
      BY <1>0, <1>4, <2>1, WalkKept DEF BeginMessage, view
    <2>3. UrlInv'
      BY <1>0, <1>4 DEF BeginMessage, urls, UrlInv, IsHit
    <2>4. /\ writing' \subseteq Messages /\ writing' \cap committed' = {}
          /\ createdAt' \in [Messages -> Nat]
      BY <1>0, <1>4 DEF BeginMessage, ThreadTypeOK
    <2>5. ThreadTypeOK'
      BY <1>0, <1>4, <2>4 DEF BeginMessage, view, urls, ThreadTypeOK
    <2> QED  BY <1>1, <2>2, <2>3, <2>5
  <1>5. ASSUME NEW m \in Messages, EndMessage(m) PROVE ThreadIInv'
    <2>1. committed \subseteq committed'
      BY <1>5 DEF EndMessage
    <2>2. WalkedInv'
      BY <1>0, <1>5, <2>1, WalkKept DEF EndMessage, view
    <2>3. UrlInv'
      BY <1>0, <1>5 DEF EndMessage, urls, UrlInv, IsHit
    <2>4. ThreadTypeOK'
      BY <1>0, <1>5 DEF EndMessage, view, urls, ThreadTypeOK
    <2> QED  BY <1>1, <2>2, <2>3, <2>4
  <1>6. CASE Pass
    <2>1. WalkedInv'
      BY <1>0, <1>6, WalkKept DEF Pass, rows, view
    <2>2. ThreadTypeOK'
      BY <1>0, <1>6 DEF Pass, rows, view, urls, ThreadTypeOK
    <2>3. UrlInv'
      <3>1. clock \in Nat /\ clock' = clock + 1 /\ UNCHANGED <<urlCache, served, life>>
        BY <1>0, <1>6 DEF Pass, urls, ThreadTypeOK
      <3>2. /\ urlCache \in [Messages -> CachedUrls]
            /\ served \in [Messages -> SUBSET ServedUrls]
        BY <1>0 DEF ThreadTypeOK, CachedUrls, ServedUrls
      <3> QED  BY <1>0, <3>1, <3>2 DEF UrlInv, IsHit, CachedUrls, ServedUrls
    <2> QED  BY <1>1, <2>1, <2>2, <2>3
  <1>7. CASE Restart
    <2>1. WalkedInv'
      BY <1>0, <1>7, WalkKept DEF Restart
    <2>2. ThreadTypeOK'
      BY <1>0, <1>7 DEF Restart, ThreadTypeOK, NoUrls
    <2>3. UrlInv'
      <3>1. /\ life \in Nat /\ life' = life + 1 /\ clock \in Nat
            /\ clock' = clock /\ served' = served /\ urlCache' = NoUrls
            /\ served \in [Messages -> SUBSET ServedUrls]
        BY <1>0, <1>7 DEF Restart, ThreadTypeOK, ServedUrls
      <3>2. ASSUME NEW m \in Messages PROVE ~IsHit(m)'
        <4>1. urlCache'[m].until = 0
          BY <3>1 DEF NoUrls
        <4> QED  BY <3>1, <4>1 DEF IsHit
      <3>3. ASSUME NEW m \in Messages, NEW u \in served[m]
            PROVE  u.life # life' /\ u.life <= life'
        <4>1. u \in ServedUrls
          BY <3>1
        <4>2. u.life \in Nat
          BY <4>1 DEF ServedUrls
        <4>3. u.life <= life
          BY <1>0 DEF UrlInv
        <4> QED  BY <3>1, <4>2, <4>3
      <3> QED  BY <1>0, <3>1, <3>2, <3>3 DEF UrlInv
    <2> QED  BY <1>1, <2>1, <2>2, <2>3
  <1>8. CASE UNCHANGED threadVars
    <2>1. UNCHANGED <<writing, committed, createdAt, clock, scroll, before, hand, thread,
                      atStart, urlCache, served, life>>
      BY <1>8 DEF threadVars, rows, view, urls
    <2>2. WalkedInv'
      BY <1>0, <2>1, WalkKept
    <2>3. ThreadTypeOK' /\ UrlInv'
      BY <1>0, <2>1 DEF ThreadTypeOK, UrlInv, IsHit
    <2> QED  BY <1>1, <2>2, <2>3
  <1> QED
    BY <1>2, <1>3, <1>4, <1>5, <1>6, <1>7, <1>8, ReadPageIInv, AnswerPageIInv
    DEF ThreadNext, get_conversation

\* The invariant holds in every behaviour.
LEMMA ThreadSpecIInv == ThreadSpec => []ThreadIInv
  BY InitThreadIInv, NextThreadIInv, PTL DEF ThreadSpec

\* Rows, pages and URLs keep their types.
THEOREM ThreadSpecTypeOK == ThreadSpec => []ThreadTypeOK
  <1>1. ThreadIInv => ThreadTypeOK
    BY DEF ThreadIInv
  <1> QED  BY <1>1, ThreadSpecIInv, PTL

\* Who scrolls back with get_conversation reads the thread in order and completely.
THEOREM SpecThreadIsRead == ThreadSpec => []ThreadIsRead
  <1>1. ThreadIInv => ThreadIsRead
    BY DEF ThreadIInv, ThreadIsRead
  <1> QED  BY <1>1, ThreadSpecIInv, PTL

\* A URL from signed_url_for_attachment is shared by all who ask within a TTL, and good
\* for the expiry less the TTL at least if the credentials that signed it are.
THEOREM SpecUrlsLastAndAreShared == ThreadSpec => []UrlsLastAndAreShared
  <1>1. ThreadIInv => UrlsLastAndAreShared
    <2> SUFFICES ASSUME ThreadIInv, NEW m \in Messages, NEW u \in served[m]
                 PROVE  UrlIsGood(u) /\ UrlIsShared(m, u)
      BY DEF UrlsLastAndAreShared
    <2>1. u \in ServedUrls /\ clock \in Nat
      BY DEF ThreadIInv, ThreadTypeOK, ServedUrls
    <2>2. /\ u.at < u.url.signed + UrlTtl
          /\ u.life = life =>
               urlCache[m] = [url |-> u.url, until |-> u.url.signed + UrlTtl]
      BY DEF ThreadIInv, UrlInv
    <2>3. UrlIsGood(u)
      BY <2>1, <2>2 DEF UrlIsGood, S3Takes, ServedUrls
    <2>4. UrlIsShared(m, u)
      BY <2>2 DEF UrlIsShared, IsHit
    <2> QED  BY <2>3, <2>4
  <1> QED  BY <1>1, ThreadSpecIInv, PTL

=============================================================================
