--------------------------- MODULE InvoicingProofs ---------------------------
(***************************************************************************)
(* Proofs, for every number of sessions and all amounts, of the properties *)
(* MCInvoicing checks for two sessions.  The invariant says what the       *)
(* columns a session is about to write can be, although the row may have   *)
(* changed since it was loaded (PendingInv), and, while no two requests    *)
(* have overlapped, that the pending UPDATE applies to the row it was      *)
(* computed from (SerialInv).                                              *)
(***************************************************************************)
EXTENDS Invoicing, TLAPS

\* What a session may have in hand, whatever the others have committed since.
PendingInv ==
  \A s \in Sessions :
    /\ "paid" \in DOMAIN writes[s] =>
         task[s] = "pay" /\ writes[s].paid <= ledger + payment[s].amount
    /\ "status" \in DOMAIN writes[s] => writes[s].status # "draft"
    /\ /\ "status" \in DOMAIN writes[s] /\ writes[s].status \in PaidTrack
       /\ task[s] # "send"
       => emails > 0
    /\ task[s] = "emailed" => emails > 0
    /\ task[s] = "pay" => emails > 0 /\ row.status # "draft"

\* The columns agree with the ledger l and the line items ls.
Consistent(r, l, ls) ==
  /\ r.paid = l
  /\ r.total = ComputeTotal(ls, r.adj)
  /\ r.pstatus = NextPaymentStatus(r.paid, r.total)
  /\ r.status = NextInvoiceStatus(r.status, r.pstatus)

\* While nothing overlapped: one session is active at most, and what it has in hand
\* leaves the row consistent with the tables and moves it along its life.
SerialInv ==
  ~overlapped =>
    /\ Consistent(row, ledger, lines)
    /\ \A s \in Sessions : task[s] # "none" =>
         /\ \A t \in Sessions \ {s} : task[t] = "none"
         /\ Consistent(Flush(row, writes[s]),
                       IF task[s] = "pay" THEN ledger + payment[s].amount ELSE ledger,
                       IF task[s] = "update" THEN (lines \ oldLines[s]) \cup newLines[s]
                                             ELSE lines)
         /\ row.status = "void" => Flush(row, writes[s]).status = "void"
         /\ row.status = "draft" => Flush(row, writes[s]).status \in {"draft", "sent", "void"}

\* The inductive invariant.
IInv ==
  /\ TypeOK
  /\ PaidWithinLedger
  /\ NoDoubleCount
  /\ CollectedWasEmailed
  /\ PendingInv
  /\ SerialInv

USE InvoicingAssumption

\* Writing back a modified row nobody else touched gives the modified row.
LEMMA FlushDirty ==
  ASSUME NEW old \in Invoice, NEW new \in Invoice
  PROVE  Flush(old, Dirty(old, new)) = new
  BY DEF Flush, Dirty, Invoice

\* Column by column, what an UPDATE writes.
LEMMA DirtyColumns ==
  ASSUME NEW old \in Invoice, NEW new \in Invoice
  PROVE  /\ DOMAIN Dirty(old, new) = {c \in DOMAIN Column : new[c] # old[c]}
         /\ \A c \in DOMAIN Dirty(old, new) :
              Dirty(old, new)[c] = new[c] /\ new[c] \in Column[c]
  BY DEF Dirty, Invoice, Column

\* An UPDATE of well-typed columns keeps the row well typed.
LEMMA FlushType ==
  ASSUME NEW r \in Invoice, NEW w, DOMAIN w \subseteq DOMAIN Column,
         \A c \in DOMAIN w : w[c] \in Column[c]
  PROVE  /\ Flush(r, w) \in Invoice
         /\ \A c \in DOMAIN Column :
              Flush(r, w)[c] = IF c \in DOMAIN w THEN w[c] ELSE r[c]
  BY DEF Flush, Invoice, Column

\* The initial states satisfy the invariant.
LEMMA InitIInv == Init => IInv
  <1> SUFFICES ASSUME Init PROVE IInv
    OBVIOUS
  <1>1. TypeOK
    <2>1. PICK amount \in Amounts, adj \in Adjustments :
            /\ lines = {<<0, amount>>}
            /\ ComputeTotal(lines, adj) \in Nat
            /\ row = [status |-> "draft", pstatus |-> "unpaid",
                      total |-> ComputeTotal(lines, adj), paid |-> 0, adj |-> adj,
                      deleted |-> FALSE]
      BY DEF Init
    <2>2. row \in Invoice /\ lines \subseteq Nat \X Nat
      BY <2>1 DEF Invoice, InvoiceStatus, PaymentStatus
    <2> QED
      BY <2>2 DEF Init, TypeOK, Nothing, NoPayment, Column
  <1>2. PaidWithinLedger /\ NoDoubleCount /\ CollectedWasEmailed
    BY DEF Init, PaidWithinLedger, NoDoubleCount, CollectedWasEmailed, PaidTrack
  <1>3. PendingInv
    BY DEF Init, PendingInv, Nothing
  <1>4. SerialInv
    BY DEF Init, SerialInv, Consistent, NextPaymentStatus, NextInvoiceStatus, PaidTrack
  <1> QED  BY <1>1, <1>2, <1>3, <1>4 DEF IInv

(***************************************************************************)
(* Every handler's load: it fixes an UPDATE from the row as it is now.     *)
(***************************************************************************)
LEMMA LoadStep ==
  ASSUME IInv, NEW s \in Sessions, NEW new \in Invoice,
         NEW k \in {"update", "pay", "send", "void", "delete"},
         Load(s, k),
         writes' = [writes EXCEPT ![s] = Dirty(row, new)],
         UNCHANGED <<row, lines, paidUnder, ledger, emails>>,
         edits' \in Nat,
         payment' \in [Sessions -> [amount: Nat, key: Keys \cup {NoKey}]],
         newLines' \in [Sessions -> SUBSET (Nat \X Nat)],
         oldLines' \in [Sessions -> SUBSET (Nat \X Nat)],
         \A t \in Sessions \ {s} : payment'[t] = payment[t],
         new.paid # row.paid => k = "pay" /\ new.paid <= ledger + payment'[s].amount,
         new.status # row.status => new.status # "draft",
         new.status # row.status /\ new.status \in PaidTrack /\ k # "send" => emails > 0,
         k = "pay" => emails > 0 /\ row.status # "draft",
         Consistent(row, ledger, lines) /\ ~overlapped =>
           /\ Consistent(new,
                IF k = "pay" THEN ledger + payment'[s].amount ELSE ledger,
                IF k = "update" THEN (lines \ oldLines'[s]) \cup newLines'[s] ELSE lines)
           /\ row.status = "void" => new.status = "void"
           /\ row.status = "draft" => new.status \in {"draft", "sent", "void"}
  PROVE  IInv'
  <1>1. /\ task' = [task EXCEPT ![s] = k]
        /\ overlapped' = (overlapped \/ \E t \in Sessions \ {s} : task[t] # "none")
    BY DEF Load
  <1>2. /\ writes'[s] = Dirty(row, new)
        /\ DOMAIN writes'[s] = {c \in DOMAIN Column : new[c] # row[c]}
        /\ \A c \in DOMAIN writes'[s] : writes'[s][c] = new[c] /\ new[c] \in Column[c]
    <2>1. writes'[s] = Dirty(row, new)
      BY DEF IInv, TypeOK
    <2>2. row \in Invoice
      BY DEF IInv, TypeOK
    <2>3. /\ DOMAIN Dirty(row, new) = {c \in DOMAIN Column : new[c] # row[c]}
          /\ \A c \in DOMAIN Dirty(row, new) :
               Dirty(row, new)[c] = new[c] /\ new[c] \in Column[c]
      BY <2>2, DirtyColumns, Zenon
    <2> QED  BY <2>1, <2>3, Zenon
  <1>3. \A t \in Sessions \ {s} : task'[t] = task[t] /\ writes'[t] = writes[t]
    BY <1>1 DEF IInv, TypeOK
  <1>4. TypeOK'
    <2>1. overlapped' \in BOOLEAN
      BY <1>1, Zenon
    <2>2. \A t \in Sessions : /\ DOMAIN writes'[t] \subseteq DOMAIN Column
                              /\ \A c \in DOMAIN writes'[t] : writes'[t][c] \in Column[c]
      BY <1>2, <1>3 DEF IInv, TypeOK
    <2>3. DOMAIN writes' = Sessions
      BY DEF IInv, TypeOK
    <2>4. task' \in [Sessions -> {"none", "update", "pay", "send", "emailed", "void", "delete"}]
      BY <1>1 DEF IInv, TypeOK
    <2> QED  BY <2>1, <2>2, <2>3, <2>4 DEF IInv, TypeOK
  <1>5. PaidWithinLedger' /\ NoDoubleCount' /\ CollectedWasEmailed'
    BY DEF IInv, PaidWithinLedger, NoDoubleCount, CollectedWasEmailed
  <1>6. PendingInv'
    <2> SUFFICES ASSUME NEW t \in Sessions
                 PROVE  /\ "paid" \in DOMAIN writes'[t] =>
                             task'[t] = "pay" /\ writes'[t].paid <= ledger + payment'[t].amount
                        /\ "status" \in DOMAIN writes'[t] => writes'[t].status # "draft"
                        /\ /\ "status" \in DOMAIN writes'[t]
                           /\ writes'[t].status \in PaidTrack
                           /\ task'[t] # "send"
                           => emails > 0
                        /\ task'[t] = "emailed" => emails > 0
                        /\ task'[t] = "pay" => emails > 0 /\ row.status # "draft"
      BY DEF PendingInv
    <2>1. CASE t = s
      BY <1>1, <1>2, <2>1 DEF IInv, TypeOK
    <2>2. CASE t # s
      BY <1>3, <2>2 DEF IInv, PendingInv
    <2> QED  BY <2>1, <2>2
  <1>7. SerialInv'
    <2> SUFFICES ASSUME ~overlapped' PROVE SerialInv'
      BY DEF SerialInv
    <2>1. /\ ~overlapped
          /\ \A t \in Sessions \ {s} : task'[t] = "none"
          /\ task'[s] = k
          /\ Consistent(row, ledger, lines)
      BY <1>1, <1>3 DEF IInv, TypeOK, SerialInv
    <2>2. Flush(row, writes'[s]) = new
      BY <1>2, FlushDirty DEF IInv, TypeOK
    <2> QED  BY <2>1, <2>2 DEF SerialInv
  <1> QED  BY <1>4, <1>5, <1>6, <1>7 DEF IInv

(***************************************************************************)
(* Every handler's commit: it applies its UPDATE to the row as it is then. *)
(***************************************************************************)
LEMMA CommitStep ==
  ASSUME IInv, NEW s \in Sessions,
         task[s] \notin {"none", "send"},
         row' = Flush(row, writes[s]),
         Done(s),
         UNCHANGED <<edits, emails, overlapped>>,
         ledger' = IF task[s] = "pay" THEN ledger + payment[s].amount ELSE ledger,
         lines' = IF task[s] = "update" THEN (lines \ oldLines[s]) \cup newLines[s]
                                        ELSE lines,
         paidUnder' \in [Keys -> Nat],
         NoDoubleCount'
  PROVE  IInv'
  <1>1. /\ row' \in Invoice
        /\ \A c \in DOMAIN Column :
             row'[c] = IF c \in DOMAIN writes[s] THEN writes[s][c] ELSE row[c]
    BY FlushType DEF IInv, TypeOK
  <1>2. /\ row'.paid = IF "paid" \in DOMAIN writes[s] THEN writes[s].paid ELSE row.paid
        /\ row'.status = IF "status" \in DOMAIN writes[s] THEN writes[s].status ELSE row.status
    BY <1>1 DEF Column
  <1>3. /\ \A t \in Sessions \ {s} : /\ task'[t] = task[t] /\ writes'[t] = writes[t]
                                     /\ payment'[t] = payment[t]
        /\ task'[s] = "none" /\ writes'[s] = Nothing /\ payment'[s] = NoPayment
    BY DEF Done, IInv, TypeOK
  <1>4. ledger' \in Nat /\ ledger' >= ledger
    BY DEF IInv, TypeOK
  <1>5. TypeOK'
    BY <1>1, <1>4 DEF IInv, TypeOK, Done, Nothing, NoPayment
  <1>6. PaidWithinLedger'
    BY <1>1, <1>2, <1>4 DEF IInv, TypeOK, Invoice, PaidWithinLedger, PendingInv
  <1>7. CollectedWasEmailed'
    BY <1>2, <1>4 DEF IInv, TypeOK, CollectedWasEmailed, PendingInv
  <1>8. PendingInv'
    <2> SUFFICES ASSUME NEW t \in Sessions
                 PROVE  /\ "paid" \in DOMAIN writes'[t] =>
                             task'[t] = "pay" /\ writes'[t].paid <= ledger' + payment'[t].amount
                        /\ "status" \in DOMAIN writes'[t] => writes'[t].status # "draft"
                        /\ /\ "status" \in DOMAIN writes'[t]
                           /\ writes'[t].status \in PaidTrack
                           /\ task'[t] # "send"
                           => emails > 0
                        /\ task'[t] = "emailed" => emails > 0
                        /\ task'[t] = "pay" => emails > 0 /\ row'.status # "draft"
      BY DEF PendingInv
    <2>1. CASE t = s
      BY <1>3, <2>1 DEF Nothing
    <2>2. CASE t # s
      <3>1. "paid" \in DOMAIN writes[t] => writes[t].paid \in Nat
        BY DEF IInv, TypeOK, Column
      <3> QED  BY <1>2, <1>3, <1>4, <2>2, <3>1 DEF IInv, TypeOK, PendingInv
    <2> QED  BY <2>1, <2>2
  <1>9. SerialInv'
    <2> SUFFICES ASSUME ~overlapped PROVE SerialInv'
      BY DEF SerialInv
    <2>1. \A t \in Sessions : task'[t] = "none"
      BY <1>3 DEF IInv, SerialInv
    <2>2. Consistent(row', ledger', lines')
      BY DEF IInv, SerialInv
    <2> QED  BY <2>1, <2>2 DEF SerialInv
  <1> QED  BY <1>5, <1>6, <1>7, <1>8, <1>9 DEF IInv

-----------------------------------------------------------------------------
(***************************************************************************)
(* Every step preserves the invariant: loads by LoadStep, commits by       *)
(* CommitStep.                                                             *)
(***************************************************************************)
LEMMA NextIInv == IInv /\ [Next]_vars => IInv'
  <1> SUFFICES ASSUME IInv, [Next]_vars PROVE IInv'
    OBVIOUS
  <1>1. ASSUME NEW s \in Sessions, NEW amount \in Amounts \cup {Keep},
               NEW adj \in Adjustments \cup {Keep}, UpdateLoad(s, amount, adj)
        PROVE  IInv'
    <2> DEFINE items == IF amount = Keep THEN lines ELSE {<<edits + 1, amount>>}
               a == IF adj = Keep THEN row.adj ELSE adj
               total == ComputeTotal(items, a)
               new == [Derived(row, row.paid, total) EXCEPT !.adj = a]
    <2>1. /\ total \in Nat /\ row.status # "void" /\ Load(s, "update")
          /\ writes' = [writes EXCEPT ![s] = Dirty(row, new)]
          /\ newLines' = [newLines EXCEPT ![s] = IF amount = Keep THEN {} ELSE items]
          /\ oldLines' = [oldLines EXCEPT ![s] = IF amount = Keep THEN {} ELSE lines]
          /\ edits' = IF amount = Keep THEN edits ELSE edits + 1
          /\ UNCHANGED <<row, lines, paidUnder, payment, ledger, emails>>
      BY <1>1 DEF UpdateLoad
    <2>2. a \in Int /\ items \subseteq Nat \X Nat
      BY DEF IInv, TypeOK, Invoice
    <2> HIDE DEF total, a, items
    <2>3. /\ new \in Invoice /\ new.paid = row.paid /\ new.total = total /\ new.adj = a
          /\ new.pstatus = NextPaymentStatus(row.paid, total)
          /\ new.status = NextInvoiceStatus(row.status, new.pstatus)
      BY <2>1, <2>2 DEF IInv, TypeOK, Invoice, Derived, NextPaymentStatus, NextInvoiceStatus,
                        InvoiceStatus, PaymentStatus, PaidTrack
    <2> HIDE DEF new
    <2>4. /\ newLines' \in [Sessions -> SUBSET (Nat \X Nat)]
          /\ oldLines' \in [Sessions -> SUBSET (Nat \X Nat)]
          /\ edits' \in Nat
          /\ (lines \ oldLines'[s]) \cup newLines'[s] = items
      BY <2>1, <2>2 DEF IInv, TypeOK, items
    <2>5. /\ new.status # row.status => row.status \in PaidTrack /\ new.status # "draft"
          /\ row.status = "draft" => new.status = "draft"
      BY <2>3 DEF NextInvoiceStatus, NextPaymentStatus, PaidTrack
    <2>6. Consistent(row, ledger, lines) => Consistent(new, ledger, items)
      <3>1. new.status = NextInvoiceStatus(new.status, new.pstatus)
        BY <2>3 DEF NextInvoiceStatus, NextPaymentStatus, PaidTrack
      <3> QED  BY <2>3, <3>1 DEF Consistent, total
    <2> QED
      BY <2>1, <2>3, <2>4, <2>5, <2>6, LoadStep, ZenonT(40) DEF IInv, TypeOK, CollectedWasEmailed
  <1>2. ASSUME NEW s \in Sessions, UpdateCommit(s) PROVE IInv'
    BY <1>2, CommitStep DEF UpdateCommit, IInv, TypeOK, NoDoubleCount
  <1>3. ASSUME NEW s \in Sessions, NEW amount \in Amounts, NEW key \in Keys \cup {NoKey},
               PaymentLoad(s, amount, key)
        PROVE  IInv'
    <2> DEFINE new == Derived(row, row.paid + amount, row.total)
    <2>1. /\ row.status \in PaidTrack /\ amount \in Nat /\ amount > 0 /\ Load(s, "pay")
          /\ writes' = [writes EXCEPT ![s] = Dirty(row, new)]
          /\ payment' = [payment EXCEPT ![s] = [amount |-> amount, key |-> key]]
          /\ UNCHANGED <<row, lines, edits, paidUnder, newLines, oldLines, ledger, emails>>
      BY <1>3 DEF PaymentLoad
    <2>2. /\ new \in Invoice /\ new.paid = row.paid + amount /\ new.total = row.total
          /\ new.adj = row.adj
          /\ new.pstatus = NextPaymentStatus(row.paid + amount, row.total)
          /\ new.status = NextInvoiceStatus(row.status, new.pstatus)
      <3>1. row \in Invoice /\ row.paid + amount \in Nat /\ row.total \in Nat
        BY <2>1 DEF IInv, TypeOK, Invoice
      <3>2. NextPaymentStatus(row.paid + amount, row.total) \in PaymentStatus
        BY DEF NextPaymentStatus, PaymentStatus
      <3>3. NextInvoiceStatus(row.status, NextPaymentStatus(row.paid + amount, row.total))
              \in InvoiceStatus
        BY <2>1 DEF NextInvoiceStatus, NextPaymentStatus, InvoiceStatus
      <3> QED  BY <3>1, <3>2, <3>3 DEF Derived, Invoice
    <2> HIDE DEF new
    <2>3. /\ payment' \in [Sessions -> [amount: Nat, key: Keys \cup {NoKey}]]
          /\ payment'[s].amount = amount
          /\ \A t \in Sessions \ {s} : payment'[t] = payment[t]
      BY <2>1 DEF IInv, TypeOK
    <2>4. row.status # "draft" /\ row.status # "void" /\ new.status # "draft" /\ emails > 0
      BY <2>1, <2>2 DEF NextInvoiceStatus, NextPaymentStatus, PaidTrack, IInv,
                        CollectedWasEmailed
    <2>5. new.paid <= ledger + payment'[s].amount
      BY <2>1, <2>2, <2>3 DEF IInv, TypeOK, Invoice, PaidWithinLedger
    <2>6. Consistent(row, ledger, lines) => Consistent(new, ledger + payment'[s].amount, lines)
      <3>1. new.status = NextInvoiceStatus(new.status, new.pstatus)
        BY <2>2 DEF NextInvoiceStatus, NextPaymentStatus, PaidTrack
      <3> QED  BY <2>2, <2>3, <3>1 DEF Consistent
    <2> QED
      BY <2>1, <2>2, <2>3, <2>4, <2>5, <2>6, LoadStep DEF IInv, TypeOK
  <1>4. ASSUME NEW s \in Sessions, PaymentCommit(s) PROVE IInv'
    <2>1. paidUnder' \in [Keys -> Nat] /\ NoDoubleCount'
      BY <1>4 DEF PaymentCommit, IInv, TypeOK, NoDoubleCount
    <2> QED  BY <1>4, <2>1, CommitStep DEF PaymentCommit
  <1>5. ASSUME NEW s \in Sessions, SendLoad(s) PROVE IInv'
    <2> DEFINE new == [row EXCEPT !.status = "sent"]
    <2>1. /\ row.status = "draft" /\ Load(s, "send")
          /\ writes' = [writes EXCEPT ![s] = Dirty(row, new)]
          /\ UNCHANGED <<row, lines, edits, paidUnder, payment, newLines, oldLines,
                         ledger, emails>>
      BY <1>5 DEF SendLoad
    <2>2. /\ new \in Invoice /\ new.paid = row.paid /\ new.total = row.total
          /\ new.adj = row.adj /\ new.pstatus = row.pstatus /\ new.status = "sent"
      BY DEF IInv, TypeOK, Invoice, InvoiceStatus
    <2> HIDE DEF new
    <2>3. Consistent(row, ledger, lines) => Consistent(new, ledger, lines)
      <3>1. ledger = 0
        BY <2>1 DEF IInv, CollectedWasEmailed
      <3> QED  BY <2>1, <2>2, <3>1 DEF Consistent, NextPaymentStatus, NextInvoiceStatus, PaidTrack
    <2> QED
      BY <2>1, <2>2, <2>3, LoadStep DEF IInv, TypeOK
  <1>6. ASSUME NEW s \in Sessions, SendEmail(s) PROVE IInv'
    <2>1. /\ task[s] = "send" /\ emails' = emails + 1
          /\ task' = [task EXCEPT ![s] = "emailed"]
          /\ UNCHANGED <<row, lines, edits, paidUnder, writes, payment, newLines, oldLines,
                         ledger, overlapped>>
      BY <1>6 DEF SendEmail
    <2>2. TypeOK' /\ emails' > 0
      BY <2>1 DEF IInv, TypeOK
    <2>3. PaidWithinLedger' /\ NoDoubleCount' /\ CollectedWasEmailed' /\ PendingInv'
      BY <2>1, <2>2 DEF IInv, TypeOK, PaidWithinLedger, NoDoubleCount, CollectedWasEmailed,
                        PendingInv
    <2>4. SerialInv'
      BY <2>1 DEF IInv, TypeOK, SerialInv
    <2> QED  BY <2>2, <2>3, <2>4 DEF IInv
  <1>7. ASSUME NEW s \in Sessions, SendCommit(s) PROVE IInv'
    BY <1>7, CommitStep DEF SendCommit, IInv, TypeOK, NoDoubleCount
  <1>8. ASSUME NEW s \in Sessions, VoidLoad(s) PROVE IInv'
    <2> DEFINE new == [row EXCEPT !.status = "void"]
    <2>1. /\ Load(s, "void")
          /\ writes' = [writes EXCEPT ![s] = Dirty(row, new)]
          /\ UNCHANGED <<row, lines, edits, paidUnder, payment, newLines, oldLines,
                         ledger, emails>>
      BY <1>8 DEF VoidLoad
    <2>2. /\ new \in Invoice /\ new.paid = row.paid /\ new.total = row.total
          /\ new.adj = row.adj /\ new.pstatus = row.pstatus /\ new.status = "void"
      BY DEF IInv, TypeOK, Invoice, InvoiceStatus
    <2> HIDE DEF new
    <2>3. Consistent(row, ledger, lines) => Consistent(new, ledger, lines)
      BY <2>2 DEF Consistent, NextInvoiceStatus, PaidTrack
    <2> QED
      BY <2>1, <2>2, <2>3, LoadStep DEF IInv, TypeOK, PaidTrack
  <1>9. ASSUME NEW s \in Sessions, DeleteLoad(s) PROVE IInv'
    <2> DEFINE new == [row EXCEPT !.deleted = TRUE]
    <2>1. /\ Load(s, "delete")
          /\ writes' = [writes EXCEPT ![s] = Dirty(row, new)]
          /\ UNCHANGED <<row, lines, edits, paidUnder, payment, newLines, oldLines,
                         ledger, emails>>
      BY <1>9 DEF DeleteLoad
    <2>2. /\ new \in Invoice /\ new.paid = row.paid /\ new.total = row.total
          /\ new.adj = row.adj /\ new.pstatus = row.pstatus /\ new.status = row.status
      BY DEF IInv, TypeOK, Invoice
    <2> HIDE DEF new
    <2>3. Consistent(row, ledger, lines) => Consistent(new, ledger, lines)
      BY <2>2 DEF Consistent
    <2> QED
      BY <2>1, <2>2, <2>3, LoadStep DEF IInv, TypeOK
  <1>10. ASSUME NEW s \in Sessions, VoidOrDeleteCommit(s) PROVE IInv'
    BY <1>10, CommitStep DEF VoidOrDeleteCommit, IInv, TypeOK, NoDoubleCount
  <1>11. ASSUME NEW s \in Sessions, Raise(s) PROVE IInv'
    <2>1. /\ UNCHANGED <<row, lines, edits, paidUnder, ledger, emails, overlapped>>
          /\ task[s] # "none"
          /\ task' = [task EXCEPT ![s] = "none"]
          /\ writes' = [writes EXCEPT ![s] = Nothing]
          /\ payment' = [payment EXCEPT ![s] = NoPayment]
          /\ newLines' = [newLines EXCEPT ![s] = {}]
          /\ oldLines' = [oldLines EXCEPT ![s] = {}]
      BY <1>11 DEF Raise, Done
    <2>2. /\ \A t \in Sessions \ {s} : /\ task'[t] = task[t] /\ writes'[t] = writes[t]
                                       /\ payment'[t] = payment[t]
                                       /\ newLines'[t] = newLines[t]
                                       /\ oldLines'[t] = oldLines[t]
          /\ task'[s] = "none" /\ writes'[s] = Nothing
      BY <2>1 DEF IInv, TypeOK
    <2>3. TypeOK'
      BY <2>1, <2>2 DEF IInv, TypeOK, Nothing, NoPayment
    <2>4. PaidWithinLedger' /\ NoDoubleCount' /\ CollectedWasEmailed'
      BY <2>1 DEF IInv, PaidWithinLedger, NoDoubleCount, CollectedWasEmailed
    <2>5. PendingInv'
      BY <2>1, <2>2 DEF IInv, PendingInv, Nothing
    <2>6. SerialInv'
      <3> SUFFICES ASSUME ~overlapped PROVE SerialInv'
        BY <2>1 DEF SerialInv
      <3>1. \A t \in Sessions : task'[t] = "none"
        BY <2>1, <2>2 DEF IInv, SerialInv
      <3>2. Consistent(row', ledger', lines')
        BY <2>1 DEF IInv, SerialInv
      <3> QED  BY <3>1, <3>2 DEF SerialInv
    <2> QED  BY <2>3, <2>4, <2>5, <2>6 DEF IInv
  <1>12. CASE UNCHANGED vars
    BY <1>12 DEF vars, IInv, TypeOK, PaidWithinLedger, NoDoubleCount, CollectedWasEmailed,
                 PendingInv, SerialInv
  <1> QED
    BY <1>1, <1>2, <1>3, <1>4, <1>5, <1>6, <1>7, <1>8, <1>9, <1>10, <1>11, <1>12 DEF Next
-----------------------------------------------------------------------------
(***************************************************************************)
(* The theorems.                                                           *)
(***************************************************************************)

\* The invariant holds in every behaviour.
THEOREM SpecIInv == Spec => []IInv
  BY InitIInv, NextIInv, PTL DEF Spec

\* The columns keep their types: in particular no total or running total is negative.
THEOREM SpecTypeOK == Spec => []TypeOK
  <1>1. IInv => TypeOK
    BY DEF IInv
  <1> QED  BY <1>1, SpecIInv, PTL

\* Neither the running total nor the ledger holds money nobody paid.
THEOREM SpecNoMoneyInvented == Spec => []NoMoneyInvented
  <1>1. IInv => NoMoneyInvented
    BY DEF IInv, NoMoneyInvented
  <1> QED  BY <1>1, SpecIInv, PTL

\* Nothing is collected on an invoice that was not emailed.
THEOREM SpecCollectedWasEmailed == Spec => []CollectedWasEmailed
  <1>1. IInv => CollectedWasEmailed
    BY DEF IInv
  <1> QED  BY <1>1, SpecIInv, PTL

\* Without overlapping requests the denormalised columns are right.
THEOREM SpecSerialConsistency == Spec => []SerialConsistency
  <1>1. IInv => SerialConsistency
    BY DEF IInv, SerialInv, Consistent, SerialConsistency
  <1> QED  BY <1>1, SpecIInv, PTL

(***************************************************************************)
(* Without overlapping requests void is terminal, no invoice returns to    *)
(* draft and a draft leaves that status only by being sent or voided.      *)
(***************************************************************************)
THEOREM SpecSerialLifecycle == Spec => SerialLifecycle
  <1>1. IInv /\ [Next]_vars =>
          [~overlapped' =>
             /\ row.status = "void" => row'.status = "void"
             /\ row'.status = "draft" => row.status = "draft"
             /\ row.status = "draft" => row'.status \in {"draft", "sent", "void"}]_vars
    <2> SUFFICES ASSUME IInv, Next, ~overlapped'
                 PROVE  /\ row.status = "void" => row'.status = "void"
                        /\ row'.status = "draft" => row.status = "draft"
                        /\ row.status = "draft" => row'.status \in {"draft", "sent", "void"}
      OBVIOUS
    <2>1. CASE row' = row
      BY <2>1
    <2>2. ASSUME NEW s \in Sessions, task[s] # "none", ~overlapped,
                 row' = Flush(row, writes[s])
          PROVE  /\ row.status = "void" => row'.status = "void"
                 /\ row'.status = "draft" => row.status = "draft"
                 /\ row.status = "draft" => row'.status \in {"draft", "sent", "void"}
      <3>1. row'.status = IF "status" \in DOMAIN writes[s] THEN writes[s].status ELSE row.status
        BY <2>2, FlushType DEF IInv, TypeOK, Column
      <3> QED  BY <2>2, <3>1 DEF IInv, SerialInv, PendingInv
    <2>3. ASSUME NEW s \in Sessions, UpdateCommit(s) \/ PaymentCommit(s) \/ SendCommit(s)
                                      \/ VoidOrDeleteCommit(s)
          PROVE  task[s] # "none" /\ ~overlapped /\ row' = Flush(row, writes[s])
      BY <2>3 DEF UpdateCommit, PaymentCommit, SendCommit, VoidOrDeleteCommit
    <2>4. ASSUME NEW s \in Sessions,
                 \/ \E amount \in Amounts \cup {Keep}, adj \in Adjustments \cup {Keep} :
                      UpdateLoad(s, amount, adj)
                 \/ \E amount \in Amounts, key \in Keys \cup {NoKey} : PaymentLoad(s, amount, key)
                 \/ SendLoad(s) \/ SendEmail(s) \/ VoidLoad(s) \/ DeleteLoad(s) \/ Raise(s)
          PROVE  row' = row
      BY <2>4 DEF UpdateLoad, PaymentLoad, SendLoad, SendEmail, VoidLoad, DeleteLoad, Raise
    <2> QED
      BY <2>1, <2>2, <2>3, <2>4 DEF Next
  <1> QED  BY <1>1, SpecIInv, PTL DEF Spec, SerialLifecycle

=============================================================================
