------------------------------ MODULE Invoicing ------------------------------
(***************************************************************************)
(* The life of one invoice (services/invoicing/service.py) under           *)
(* concurrent requests.  Every request has a database session of its own;  *)
(* Postgres runs READ COMMITTED and service.py takes no row lock when it   *)
(* reads, so a handler works on the row as it was when it loaded it.  The  *)
(* ORM then writes, at commit, the columns whose value the handler         *)
(* changed, and only those (Dirty, Flush).  A handler is therefore a load  *)
(* step, which fixes everything it will write, and a commit step;          *)
(* send_invoice also emails between the two.                               *)
(*                                                                         *)
(* Money is in cents.  tax_cents - discount_cents is one column, adj: both *)
(* enter the total in the same way.                                        *)
(***************************************************************************)
EXTENDS Integers, FiniteSets, FiniteSetsExt, Orm

CONSTANTS
  Sessions,     \* database sessions, one request at a time each
  Keys,         \* idempotency keys of record_payment
  NoKey,        \* the request carries none
  Amounts,      \* amounts of payments and of line-item lists
  Adjustments,  \* values of tax_cents - discount_cents
  Keep,         \* the update request leaves the field alone
  MaxLedger,    \* bound: cents of payments recorded
  MaxEmails,    \* bound: invoice emails sent
  MaxEdits      \* bound: times the line items are replaced

ASSUME InvoicingAssumption ==
  /\ NoKey \notin Keys
  /\ Amounts \subseteq Nat
  /\ Adjustments \subseteq Int
  /\ Keep \notin Int
  /\ {MaxLedger, MaxEmails, MaxEdits} \subseteq Nat

VARIABLES
  row,        \* the invoice row
  lines,      \* its line items: <<generation, amount>> per list that was stored
  edits,      \* generations of line items so far
  paidUnder,  \* number of payment rows with each idempotency key
  task,       \* what each session has in hand
  writes,     \* the column values each session will write
  payment,    \* the payment each session will insert
  newLines,   \* the line items each session will insert
  oldLines,   \* the line items each session will delete
  ledger,     \* history: sum of the payment rows
  emails,     \* history: invoice emails that went out
  overlapped  \* history: two requests were in progress at one time

vars == <<row, lines, edits, paidUnder, task, writes, payment, newLines, oldLines,
          ledger, emails, overlapped>>

InvoiceStatus == {"draft", "sent", "partially_paid", "paid", "void"}

PaymentStatus == {"unpaid", "partially_paid", "paid"}

PaidTrack == {"sent", "partially_paid", "paid"}

Invoice == [status: InvoiceStatus, pstatus: PaymentStatus, total: Nat, paid: Nat,
            adj: Int, deleted: BOOLEAN]

NoPayment == [amount |-> 0, key |-> NoKey]

-----------------------------------------------------------------------------
(***************************************************************************)
(* state_machine.py.                                                       *)
(***************************************************************************)

NextPaymentStatus(paid, total) ==
  IF paid <= 0 THEN "unpaid" ELSE IF paid >= total THEN "paid" ELSE "partially_paid"

NextInvoiceStatus(status, pstatus) ==
  IF status \notin PaidTrack THEN status
  ELSE IF pstatus = "unpaid" THEN "sent" ELSE pstatus

\* compute_totals: the sum of the lines plus tax minus discount.
ComputeTotal(items, adj) == MapThenSumSet(LAMBDA item : item[2], items) + adj

\* The row with its amounts replaced and both statuses derived from them.
Derived(r, paid, total) ==
  LET ps == NextPaymentStatus(paid, total)
  IN [r EXCEPT !.paid = paid, !.total = total, !.pstatus = ps,
               !.status = NextInvoiceStatus(r.status, ps)]

-----------------------------------------------------------------------------
(***************************************************************************)
(* Requests and their sessions.                                            *)
(***************************************************************************)

\* A session loads the invoice for handler k: it exists and is not deleted.
Load(s, k) ==
  /\ task[s] = "none"
  /\ ~row.deleted
  /\ task' = [task EXCEPT ![s] = k]
  /\ overlapped' = (overlapped \/ \E t \in Sessions \ {s} : task[t] # "none")

\* The request is over; the session forgets what it had in hand.
Done(s) ==
  /\ task' = [task EXCEPT ![s] = "none"]
  /\ writes' = [writes EXCEPT ![s] = Nothing]
  /\ payment' = [payment EXCEPT ![s] = NoPayment]
  /\ newLines' = [newLines EXCEPT ![s] = {}]
  /\ oldLines' = [oldLines EXCEPT ![s] = {}]

\* The handler raises, its commit fails, or the process dies: nothing is written.
Raise(s) ==
  /\ task[s] # "none"
  /\ Done(s)
  /\ UNCHANGED <<row, lines, edits, paidUnder, ledger, emails, overlapped>>

-----------------------------------------------------------------------------
(***************************************************************************)
(* update_invoice: new line items (an empty list is an amount of 0), a new *)
(* tax or discount, or both; other fields do not touch the state modelled. *)
(***************************************************************************)

\* Mutant: the statuses are not recomputed when the total changes.
UpdateLoadNoRecompute(s, amount, adj) ==
  LET items == IF amount = Keep THEN lines ELSE {<<edits + 1, amount>>}
      a == IF adj = Keep THEN row.adj ELSE adj
      total == ComputeTotal(items, a)
  IN /\ ~(amount = Keep /\ adj = Keep)
     /\ row.status # "void"
     /\ total \in Nat
     /\ edits < MaxEdits
     /\ Load(s, "update")
     /\ writes' = [writes EXCEPT ![s] = Dirty(row, [row EXCEPT !.adj = a, !.total = total])]
     /\ newLines' = [newLines EXCEPT ![s] = IF amount = Keep THEN {} ELSE items]
     /\ oldLines' = [oldLines EXCEPT ![s] = IF amount = Keep THEN {} ELSE lines]
     /\ edits' = IF amount = Keep THEN edits ELSE edits + 1
     /\ UNCHANGED <<row, lines, paidUnder, payment, ledger, emails>>

UpdateLoad(s, amount, adj) ==
  LET items == IF amount = Keep THEN lines ELSE {<<edits + 1, amount>>}
      a == IF adj = Keep THEN row.adj ELSE adj
      total == ComputeTotal(items, a)
  IN /\ ~(amount = Keep /\ adj = Keep)
     /\ row.status # "void"
     /\ total \in Nat
     /\ amount # Keep => edits < MaxEdits
     /\ Load(s, "update")
     /\ writes' = [writes EXCEPT ![s] =
                     Dirty(row, [Derived(row, row.paid, total) EXCEPT !.adj = a])]
     /\ newLines' = [newLines EXCEPT ![s] = IF amount = Keep THEN {} ELSE items]
     /\ oldLines' = [oldLines EXCEPT ![s] = IF amount = Keep THEN {} ELSE lines]
     /\ edits' = IF amount = Keep THEN edits ELSE edits + 1
     /\ UNCHANGED <<row, lines, paidUnder, payment, ledger, emails>>

UpdateCommit(s) ==
  /\ task[s] = "update"
  /\ row' = Flush(row, writes[s])
  /\ lines' = (lines \ oldLines[s]) \cup newLines[s]
  /\ Done(s)
  /\ UNCHANGED <<edits, paidUnder, ledger, emails, overlapped>>

(***************************************************************************)
(* record_payment.  A request whose key is already in the table returns    *)
(* the existing payment and changes nothing.                               *)
(***************************************************************************)

\* Mutant: a draft invoice takes payments too.
PaymentLoadAnyStatus(s, amount, key) ==
  /\ row.status # "void"
  /\ key # NoKey => paidUnder[key] = 0
  /\ ledger + amount <= MaxLedger
  /\ Load(s, "pay")
  /\ writes' = [writes EXCEPT ![s] = Dirty(row, Derived(row, row.paid + amount, row.total))]
  /\ payment' = [payment EXCEPT ![s] = [amount |-> amount, key |-> key]]
  /\ UNCHANGED <<row, lines, edits, paidUnder, newLines, oldLines, ledger, emails>>

PaymentLoad(s, amount, key) ==
  /\ row.status \in PaidTrack
  /\ key # NoKey => paidUnder[key] = 0
  /\ amount > 0
  /\ ledger + amount <= MaxLedger
  /\ Load(s, "pay")
  /\ writes' = [writes EXCEPT ![s] = Dirty(row, Derived(row, row.paid + amount, row.total))]
  /\ payment' = [payment EXCEPT ![s] = [amount |-> amount, key |-> key]]
  /\ UNCHANGED <<row, lines, edits, paidUnder, newLines, oldLines, ledger, emails>>

\* Mutant: uq_payments_org_idempotency_key is gone.
PaymentCommitNoIndex(s) ==
  LET p == payment[s]
  IN /\ task[s] = "pay"
     /\ row' = Flush(row, writes[s])
     /\ ledger' = ledger + p.amount
     /\ paidUnder' = IF p.key = NoKey THEN paidUnder
                     ELSE [paidUnder EXCEPT ![p.key] = @ + 1]
     /\ Done(s)
     /\ UNCHANGED <<lines, edits, emails, overlapped>>

\* Payment row and running total in one transaction.  The partial unique index
\* lets one payment have the key; the other request's commit raises.
PaymentCommit(s) ==
  LET p == payment[s]
  IN /\ task[s] = "pay"
     /\ p.key # NoKey => paidUnder[p.key] = 0
     /\ row' = Flush(row, writes[s])
     /\ ledger' = ledger + p.amount
     /\ paidUnder' = IF p.key = NoKey THEN paidUnder
                     ELSE [paidUnder EXCEPT ![p.key] = @ + 1]
     /\ Done(s)
     /\ UNCHANGED <<lines, edits, emails, overlapped>>

(***************************************************************************)
(* send_invoice: load a draft, email it, then mark it sent.                *)
(***************************************************************************)
\* Mutant: assert_can_send is not called.
SendLoadAnyStatus(s) ==
  /\ Load(s, "send")
  /\ writes' = [writes EXCEPT ![s] = Dirty(row, [row EXCEPT !.status = "sent"])]
  /\ UNCHANGED <<row, lines, edits, paidUnder, payment, newLines, oldLines, ledger, emails>>

SendLoad(s) ==
  /\ row.status = "draft"
  /\ Load(s, "send")
  /\ writes' = [writes EXCEPT ![s] = Dirty(row, [row EXCEPT !.status = "sent"])]
  /\ UNCHANGED <<row, lines, edits, paidUnder, payment, newLines, oldLines, ledger, emails>>

\* The PDF is stored and the email accepted by SES.
SendEmail(s) ==
  /\ task[s] = "send"
  /\ emails < MaxEmails
  /\ emails' = emails + 1
  /\ task' = [task EXCEPT ![s] = "emailed"]
  /\ UNCHANGED <<row, lines, edits, paidUnder, writes, payment, newLines, oldLines,
                 ledger, overlapped>>

SendCommit(s) ==
  /\ task[s] = "emailed"
  /\ row' = Flush(row, writes[s])
  /\ Done(s)
  /\ UNCHANGED <<lines, edits, paidUnder, ledger, emails, overlapped>>

(***************************************************************************)
(* void_invoice and soft_delete_invoice.                                   *)
(***************************************************************************)
VoidLoad(s) ==
  /\ row.status # "void"
  /\ Load(s, "void")
  /\ writes' = [writes EXCEPT ![s] = Dirty(row, [row EXCEPT !.status = "void"])]
  /\ UNCHANGED <<row, lines, edits, paidUnder, payment, newLines, oldLines, ledger, emails>>

DeleteLoad(s) ==
  /\ Load(s, "delete")
  /\ writes' = [writes EXCEPT ![s] = Dirty(row, [row EXCEPT !.deleted = TRUE])]
  /\ UNCHANGED <<row, lines, edits, paidUnder, payment, newLines, oldLines, ledger, emails>>

VoidOrDeleteCommit(s) ==
  /\ task[s] \in {"void", "delete"}
  /\ row' = Flush(row, writes[s])
  /\ Done(s)
  /\ UNCHANGED <<lines, edits, paidUnder, ledger, emails, overlapped>>

-----------------------------------------------------------------------------
\* A draft as create_invoice committed it.
Init ==
  /\ \E amount \in Amounts, adj \in Adjustments :
       /\ lines = {<<0, amount>>}
       /\ ComputeTotal(lines, adj) \in Nat
       /\ row = [status |-> "draft", pstatus |-> "unpaid", total |-> ComputeTotal(lines, adj),
                 paid |-> 0, adj |-> adj, deleted |-> FALSE]
  /\ edits = 0
  /\ paidUnder = [k \in Keys |-> 0]
  /\ task = [s \in Sessions |-> "none"]
  /\ writes = [s \in Sessions |-> Nothing]
  /\ payment = [s \in Sessions |-> NoPayment]
  /\ newLines = [s \in Sessions |-> {}]
  /\ oldLines = [s \in Sessions |-> {}]
  /\ ledger = 0
  /\ emails = 0
  /\ overlapped = FALSE

Next ==
  \E s \in Sessions :
    \/ \E amount \in Amounts \cup {Keep}, adj \in Adjustments \cup {Keep} :
         UpdateLoad(s, amount, adj)
    \/ UpdateCommit(s)
    \/ \E amount \in Amounts, key \in Keys \cup {NoKey} : PaymentLoad(s, amount, key)
    \/ PaymentCommit(s)
    \/ SendLoad(s)
    \/ SendEmail(s)
    \/ SendCommit(s)
    \/ VoidLoad(s)
    \/ DeleteLoad(s)
    \/ VoidOrDeleteCommit(s)
    \/ Raise(s)

Spec == Init /\ [][Next]_vars

-----------------------------------------------------------------------------
\* The type of each column.
Column == [status |-> InvoiceStatus, pstatus |-> PaymentStatus, total |-> Nat,
           paid |-> Nat, adj |-> Int, deleted |-> BOOLEAN]

TypeOK ==
  /\ row \in Invoice
  /\ lines \subseteq Nat \X Nat
  /\ edits \in Nat
  /\ paidUnder \in [Keys -> Nat]
  /\ task \in [Sessions -> {"none", "update", "pay", "send", "emailed", "void", "delete"}]
  /\ DOMAIN writes = Sessions
  /\ \A s \in Sessions : /\ DOMAIN writes[s] \subseteq DOMAIN Column
                         /\ \A c \in DOMAIN writes[s] : writes[s][c] \in Column[c]
  /\ payment \in [Sessions -> [amount: Nat, key: Keys \cup {NoKey}]]
  /\ newLines \in [Sessions -> SUBSET (Nat \X Nat)]
  /\ oldLines \in [Sessions -> SUBSET (Nat \X Nat)]
  /\ ledger \in Nat
  /\ emails \in Nat
  /\ overlapped \in BOOLEAN

(***************************************************************************)
(* However requests interleave and fail, the running total amount_paid     *)
(* never credits the customer with more than the payments on record        *)
(* (service.py:343): concurrent payments may be lost from it, never        *)
(* invented.                                                               *)
(***************************************************************************)
PaidWithinLedger == row.paid <= ledger

(***************************************************************************)
(* "a replay returns the existing payment instead of double-counting"      *)
(* (service.py:315), also when the replay overlaps the first request.      *)
(***************************************************************************)
NoDoubleCount == \A k \in Keys : paidUnder[k] <= 1

(***************************************************************************)
(* No money is invented, neither in the running total nor in the ledger.   *)
(***************************************************************************)
NoMoneyInvented == PaidWithinLedger /\ NoDoubleCount

(***************************************************************************)
(* Nothing collects money that was not emailed: once there is a payment or *)
(* a status of the paid track, an email went out, and money on record      *)
(* never hides behind a draft (state_machine.py:46-52, 71-81).             *)
(***************************************************************************)
CollectedWasEmailed ==
  /\ row.status \in PaidTrack \/ ledger > 0 => emails > 0
  /\ row.status = "draft" => ledger = 0

(***************************************************************************)
(* Without overlapping requests the denormalised columns agree with the    *)
(* tables they summarise: amount_paid is the sum of the payments, total    *)
(* the sum of the line items and adjustments, and both statuses follow     *)
(* from them (service.py:229-237, 343-350).                                *)
(***************************************************************************)
SerialConsistency ==
  ~overlapped =>
    /\ row.paid = ledger
    /\ row.total = ComputeTotal(lines, row.adj)
    /\ row.pstatus = NextPaymentStatus(row.paid, row.total)
    /\ row.status = NextInvoiceStatus(row.status, row.pstatus)

(***************************************************************************)
(* Without overlapping requests, void is terminal and a draft leaves that  *)
(* status only by being sent or voided (models.py:46-47).                  *)
(***************************************************************************)
SerialLifecycle ==
  [][~overlapped' =>
       /\ row.status = "void" => row'.status = "void"
       /\ row'.status = "draft" => row.status = "draft"
       /\ row.status = "draft" => row'.status \in {"draft", "sent", "void"}]_vars

=============================================================================
