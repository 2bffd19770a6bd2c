-------------------------------- MODULE Invoices --------------------------------
(***************************************************************************)
(* Invoices, their payments and what a payment does to the subscription.   *)
(*                                                                         *)
(* A handler loads the invoice, checks it and writes it back; nothing      *)
(* locks the row before the UPDATE, and the UPDATE names the columns whose *)
(* value differs from the LOADED one.  A payment goes on for a while after *)
(* its UPDATE, with the row locked: it loads the subscription, credits it, *)
(* notifies and commits.                                                   *)
(***************************************************************************)
EXTENDS Naturals, FiniteSets, Functions

CONSTANTS
    Invoices,  \* invoices
    Subs,      \* subscriptions
    NoSub,     \* an invoice that is not linked to a subscription
    NoInvoice, \* no invoice
    Totals,    \* the totals an invoice may have
    Payments,  \* the payments that administrators have to record
    NoPayment, \* no payment
    Pays,      \* [Payments -> Invoices]: the invoice a payment is for
    Amount,    \* [Payments -> Nat]: its amount, "gt=0"
    Requests,  \* API requests that may be in flight at once
    Ops,       \* the operations that requests may ask for
    Faults,    \* a notification may fail
    Crashes    \* API processes may die

AllOps == {"issue", "send", "pay", "cancel", "update", "delete", "update-overdue"}

ASSUME InvoicesAssumption ==
    /\ NoSub \notin Subs /\ NoInvoice \notin Invoices /\ NoPayment \notin Payments
    /\ Totals \subseteq Nat
    /\ Pays \in [Payments -> Invoices]
    /\ Amount \in [Payments -> Nat \ {0}]
    /\ Ops \subseteq AllOps
    /\ Faults \in BOOLEAN /\ Crashes \in BOOLEAN

ASSUME FinitePayments == IsFiniteSet(Payments)

VARIABLES
    invoice,   \* [Invoices -> Invoice]: the table invoices
    credit,    \* [Subs -> Nat]: vps_subscriptions.total_paid
    hold,      \* [Subs -> Hold]: suspended, and whether for non-payment
    req,       \* [Requests -> Request]: handlers in flight
    mailed,    \* the invoices that were e-mailed to their customer
    recorded,  \* history: how often each payment was committed
    answered   \* the payments whose request was answered with 200

vars == <<invoice, credit, hold, req, mailed, recorded, answered>>

-----------------------------------------------------------------------------
\* State.

Status == {"NONE", "DRAFT", "ISSUED", "SENT", "PAID", "PARTIALLY_PAID", "OVERDUE",
           "CANCELLED"}

Invoice == [status : Status, total : Totals \cup {0}, paid : Nat,
            sub : Subs \cup {NoSub}, deleted : BOOLEAN]

NoRow == [status |-> "NONE", total |-> 0, paid |-> 0, sub |-> NoSub, deleted |-> FALSE]

Hold == {"none", "payment", "other"}

\* "seen" is the invoice as the session holds it, "late" the work list of
\* update-overdue, "credit" the subscription's total_paid as loaded.
Request == [op : Ops \cup {"none"}, inv : Invoices \cup {NoInvoice},
            pay : Payments \cup {NoPayment}, pc : {"idle", "loaded", "flushed", "answer"},
            seen : Invoice, late : SUBSET Invoices, credit : Nat]

IdleRequest == [op |-> "none", inv |-> NoInvoice, pay |-> NoPayment, pc |-> "idle",
                seen |-> NoRow, late |-> {}, credit |-> 0]

Init ==
    /\ invoice = [i \in Invoices |-> NoRow]
    /\ credit = [s \in Subs |-> 0]
    /\ hold = [s \in Subs |-> "none"]
    /\ req = [r \in Requests |-> IdleRequest]
    /\ mailed = {}
    /\ recorded = [p \in Payments |-> 0]
    /\ answered = {}

Finish(r) == req' = [req EXCEPT ![r] = IdleRequest]

-----------------------------------------------------------------------------
(***************************************************************************)
(* First step: load the invoice and check it.                              *)
(***************************************************************************)
\* InvoiceService.create: a DRAFT with the computed total.
Create(i) ==
    /\ invoice[i].status = "NONE"
    /\ \E t \in Totals, s \in Subs \cup {NoSub} :
          invoice' = [invoice EXCEPT ![i] = [NoRow EXCEPT !.status = "DRAFT",
                                                          !.total = t, !.sub = s]]
    /\ UNCHANGED <<credit, hold, req, mailed, recorded, answered>>

Load(r, op, i) ==
    /\ op \in Ops
    /\ req[r].pc = "idle"
    /\ invoice[i].status # "NONE"
    /\ ~invoice[i].deleted
    /\ req' = [req EXCEPT ![r] = [IdleRequest EXCEPT !.op = op, !.inv = i,
                                     !.pc = "loaded", !.seen = invoice[i]]]
    /\ UNCHANGED <<invoice, credit, hold, mailed, recorded, answered>>

Issue(r, i) == invoice[i].status = "DRAFT" /\ Load(r, "issue", i)

Send(r, i) == invoice[i].status \in {"ISSUED", "DRAFT"} /\ Load(r, "send", i)

Cancel(r, i) == invoice[i].status # "PAID" /\ Load(r, "cancel", i)

\* Mutant: a paid invoice can be edited.
UpdateAny(r, i) == invoice[i].status # "CANCELLED" /\ Load(r, "update", i)

Update(r, i) == invoice[i].status \notin {"PAID", "CANCELLED"} /\ Load(r, "update", i)

Delete(r, i) == invoice[i].status # "PAID" /\ Load(r, "delete", i)

\* Mutant: the amount alone is compared with the total.
FitsAlone(i, amount) == amount <= invoice[i].total

Fits(i, amount) == invoice[i].paid + amount <= invoice[i].total

\* Mutant: a cancelled invoice can be paid.
PayableEver(i) == invoice[i].status \notin {"NONE", "DRAFT"} /\ ~invoice[i].deleted

Payable(i) ==
    invoice[i].status \notin {"NONE", "CANCELLED", "DRAFT"} /\ ~invoice[i].deleted

\* The administrator asks again when there was no answer, or not the 200.
Pay(r, p) ==
    LET i == Pays[p] IN
    /\ "pay" \in Ops
    /\ req[r].pc = "idle"
    /\ p \notin answered
    /\ \A r2 \in Requests : req[r2].pay # p
    /\ Payable(i)
    /\ Fits(i, Amount[p])
    /\ req' = [req EXCEPT ![r] = [IdleRequest EXCEPT !.op = "pay", !.inv = i, !.pay = p,
                                     !.pc = "loaded", !.seen = invoice[i]]]
    /\ UNCHANGED <<invoice, credit, hold, mailed, recorded, answered>>

\* get_overdue_invoices: some of the open invoices are past their due date.
UpdateOverdue(r) ==
    /\ "update-overdue" \in Ops
    /\ req[r].pc = "idle"
    /\ \E late \in SUBSET {i \in Invoices :
                              /\ invoice[i].status \in {"ISSUED", "SENT", "PARTIALLY_PAID"}
                              /\ ~invoice[i].deleted} :
          /\ late # {}
          /\ req' = [req EXCEPT ![r] = [IdleRequest EXCEPT !.op = "update-overdue",
                                           !.pc = "loaded", !.late = late]]
    /\ UNCHANGED <<invoice, credit, hold, mailed, recorded, answered>>

-----------------------------------------------------------------------------
(***************************************************************************)
(* Second step: the UPDATE.                                                *)
(***************************************************************************)
\* An UPDATE waits for the transaction that holds the row.
LockFree(i) == \A r \in Requests : req[r].pc = "flushed" => req[r].inv # i

\* The columns that differ from what was loaded are written, no other.
Merge(current, seen, new) ==
    [current EXCEPT !.status = IF new.status = seen.status THEN @ ELSE new.status,
                    !.total = IF new.total = seen.total THEN @ ELSE new.total,
                    !.paid = IF new.paid = seen.paid THEN @ ELSE new.paid,
                    !.deleted = IF new.deleted = seen.deleted THEN @ ELSE new.deleted]

Write(r, new) ==
    LET i == req[r].inv IN
    invoice' = [invoice EXCEPT ![i] = Merge(invoice[i], req[r].seen, new)]

Committing(r, op) ==
    /\ req[r].op = op
    /\ req[r].pc = "loaded"
    /\ LockFree(req[r].inv)

IssueCommit(r) ==
    /\ Committing(r, "issue")
    /\ Write(r, [req[r].seen EXCEPT !.status = "ISSUED"])
    /\ Finish(r)
    /\ UNCHANGED <<credit, hold, mailed, recorded, answered>>

\* The e-mail was not sent, or the customer does not want it.
SendCommit(r) ==
    /\ Committing(r, "send")
    /\ Write(r, [req[r].seen EXCEPT !.status = "SENT"])
    /\ Finish(r)
    /\ UNCHANGED <<credit, hold, mailed, recorded, answered>>

\* The e-mail was sent, and then the timeline event of the user "system", who
\* is not in the table users, violates its foreign key.
SendMails(r) ==
    /\ Committing(r, "send")
    /\ mailed' = mailed \cup {req[r].inv}
    /\ Finish(r)
    /\ UNCHANGED <<invoice, credit, hold, recorded, answered>>

CancelCommit(r) ==
    /\ Committing(r, "cancel")
    /\ Write(r, [req[r].seen EXCEPT !.status = "CANCELLED"])
    /\ Finish(r)
    /\ UNCHANGED <<credit, hold, mailed, recorded, answered>>

\* New items, tax or discount: another total, whatever is paid.
UpdateCommit(r) ==
    /\ Committing(r, "update")
    /\ \E t \in Totals : Write(r, [req[r].seen EXCEPT !.total = t])
    /\ Finish(r)
    /\ UNCHANGED <<credit, hold, mailed, recorded, answered>>

DeleteCommit(r) ==
    /\ Committing(r, "delete")
    /\ Write(r, [req[r].seen EXCEPT !.deleted = TRUE])
    /\ Finish(r)
    /\ UNCHANGED <<credit, hold, mailed, recorded, answered>>

OverdueCommit(r) ==
    /\ req[r].op = "update-overdue"
    /\ req[r].pc = "loaded"
    /\ \A i \in req[r].late : LockFree(i)
    /\ invoice' = [i \in Invoices |->
                      IF i \in req[r].late THEN [invoice[i] EXCEPT !.status = "OVERDUE"]
                      ELSE invoice[i]]
    /\ Finish(r)
    /\ UNCHANGED <<credit, hold, mailed, recorded, answered>>

-----------------------------------------------------------------------------
(***************************************************************************)
(* A payment from its UPDATE to its answer.                                *)
(***************************************************************************)
NewPaid(q) == q.seen.paid + Amount[q.pay]

Paid(q) ==
    [q.seen EXCEPT !.paid = NewPaid(q),
                   !.status = IF NewPaid(q) >= q.seen.total THEN "PAID" ELSE "PARTIALLY_PAID"]

\* The invoice as the UPDATE leaves it: process_payment_webhook is called ...
Triggers(row) == row.paid >= row.total /\ row.sub # NoSub

\* ... and gives up on an invoice that was deleted in between.
Credits(row) == Triggers(row) /\ ~row.deleted

\* The row is locked and loaded again, then the subscription is loaded.
PayFlush(r) ==
    LET q == req[r]
        row == Merge(invoice[q.inv], q.seen, Paid(q)) IN
    /\ Committing(r, "pay")
    /\ req' = [req EXCEPT ![r] = [q EXCEPT !.pc = "flushed", !.seen = row,
                                    !.credit = IF Credits(row) THEN credit[row.sub] ELSE 0]]
    /\ UNCHANGED <<invoice, credit, hold, mailed, recorded, answered>>

\* Mutant: the subscription is credited with the last instalment only.
CreditedInstalment(q) ==
    [s \in Subs |-> IF Credits(q.seen) /\ s = q.seen.sub THEN q.credit + Amount[q.pay]
                    ELSE credit[s]]

\* total_paid += total_amount, on the total_paid that was loaded.
Credited(q) ==
    [s \in Subs |-> IF Credits(q.seen) /\ s = q.seen.sub THEN q.credit + q.seen.total
                    ELSE credit[s]]

\* The suspension is looked at when the subscription's row is locked: if it is
\* for non-payment, the subscription is reactivated in the same transaction.
Lifted(q) ==
    [s \in Subs |-> IF Credits(q.seen) /\ s = q.seen.sub /\ hold[s] = "payment" THEN "none"
                    ELSE hold[s]]

PayCommit(r) ==
    LET q == req[r] IN
    /\ q.pc = "flushed"
    /\ invoice' = [invoice EXCEPT ![q.inv] = q.seen]
    /\ credit' = Credited(q)
    /\ hold' = Lifted(q)
    /\ recorded' = [recorded EXCEPT ![q.pay] = @ + 1]
    /\ req' = [req EXCEPT ![r].pc = "answer"]
    /\ UNCHANGED <<mailed, answered>>

\* Mutant: what the session held outlives it.
AnswerKeeps(r) ==
    /\ req[r].pc = "answer"
    /\ answered' = answered \cup {req[r].pay}
    /\ req' = [req EXCEPT ![r].pc = "idle"]
    /\ UNCHANGED <<invoice, credit, hold, mailed, recorded>>

Answer(r) ==
    /\ req[r].pc = "answer"
    /\ answered' = answered \cup {req[r].pay}
    /\ Finish(r)
    /\ UNCHANGED <<invoice, credit, hold, mailed, recorded>>

\* Mutant: the UPDATE is committed before the notification.
NotifyFailsLate(r) ==
    /\ Faults
    /\ req[r].pc = "flushed" /\ ~Triggers(req[r].seen)
    /\ invoice' = [invoice EXCEPT ![req[r].inv] = req[r].seen]
    /\ Finish(r)
    /\ UNCHANGED <<credit, hold, mailed, recorded, answered>>

\* The payment's SMS fails, and so does the handler of that failure: "logger" is
\* a local name there, assigned only when the webhook has failed.  It comes
\* before the commit, except where the webhook has committed already.
NotifyFails(r) ==
    /\ Faults
    /\ \/ req[r].pc = "flushed" /\ ~Triggers(req[r].seen)
       \/ req[r].pc = "answer" /\ Credits(req[r].seen)
    /\ Finish(r)
    /\ UNCHANGED <<invoice, credit, hold, mailed, recorded, answered>>

\* What was not committed is rolled back, what was is not answered.
RequestDies(r) ==
    /\ Crashes
    /\ req[r].pc # "idle"
    /\ Finish(r)
    /\ UNCHANGED <<invoice, credit, hold, mailed, recorded, answered>>

\* Outside this module: an administrator suspends the subscription.
Suspend(s) ==
    /\ hold' \in {[hold EXCEPT ![s] = "payment"], [hold EXCEPT ![s] = "other"]}
    /\ UNCHANGED <<invoice, credit, req, mailed, recorded, answered>>

-----------------------------------------------------------------------------
Serve(r) ==
    \/ \E i \in Invoices : \/ Issue(r, i) \/ Send(r, i) \/ Cancel(r, i)
                           \/ Update(r, i) \/ Delete(r, i)
    \/ \E p \in Payments : Pay(r, p)
    \/ UpdateOverdue(r)

Continue(r) ==
    \/ IssueCommit(r) \/ SendCommit(r) \/ SendMails(r) \/ CancelCommit(r)
    \/ UpdateCommit(r) \/ DeleteCommit(r) \/ OverdueCommit(r)
    \/ PayFlush(r) \/ PayCommit(r) \/ Answer(r) \/ NotifyFails(r)

Next ==
    \/ \E i \in Invoices : Create(i)
    \/ \E r \in Requests : Serve(r) \/ Continue(r) \/ RequestDies(r)
    \/ \E s \in Subs : Suspend(s)

Spec == Init /\ [][Next]_vars

-----------------------------------------------------------------------------
\* Properties.

\* Every variable has its type, and an idle request holds nothing.
TypeOK ==
    /\ invoice \in [Invoices -> Invoice]
    /\ credit \in [Subs -> Nat]
    /\ hold \in [Subs -> Hold]
    /\ req \in [Requests -> Request]
    /\ \A r \in Requests : req[r].pc = "idle" => req[r] = IdleRequest
    /\ mailed \subseteq Invoices
    /\ recorded \in [Payments -> Nat]
    /\ answered \subseteq Payments

\* An invoice is never paid beyond its total as long as nobody edits it,
\* whatever payments, retries, cancellations and reminders overlap: a payment
\* that was checked against stale data also overwrites with it.  record_payment
\* says "Payment amount exceeds invoice total" without a condition, but an edit
\* takes no account of what is paid.
NeverOverpaid == \A i \in Invoices : invoice[i].paid <= invoice[i].total

\* A PAID invoice was paid in full: no edit, late payment or reminder changes
\* the total or the paid amount under it.
PaidInFull == \A i \in Invoices : invoice[i].status = "PAID" =>
                                      invoice[i].paid = invoice[i].total

PaidOf(s) == {i \in Invoices : invoice[i].sub = s /\ invoice[i].status = "PAID"}

\* A subscription's total_paid is the sum of its PAID invoices, through crashes
\* and repeated requests.
SubscriptionCredited ==
    \A s \in Subs :
        credit[s] = SumFunctionOnSet([i \in Invoices |-> invoice[i].total], PaidOf(s))

RecordedFor(i) ==
    SumFunctionOnSet([p \in Payments |-> recorded[p] * Amount[p]],
                     {p \in Payments : Pays[p] = i})

\* An invoice never shows more as paid than was recorded for it: a payment that is
\* rolled back, because a notification fails or the process dies after its UPDATE,
\* leaves nothing behind, not even in a payment that overlaps it. (It may show less:
\* the second of two overlapping payments overwrites the first.)
PaidIsRecorded == \A i \in Invoices : invoice[i].paid <= RecordedFor(i)

\* The invoice as the routes present it: an atomic ledger.
Phase == [st \in Status |->
             CASE st = "NONE" -> "none"
               [] st = "DRAFT" -> "draft"
               [] st = "PAID" -> "settled"
               [] st = "CANCELLED" -> "void"
               [] OTHER -> "open"]

Ledger == INSTANCE InvoiceLedger WITH
    bill <- [i \in Invoices |-> [phase |-> Phase[invoice[i].status],
                                 total |-> invoice[i].total,
                                 paid |-> invoice[i].paid,
                                 sub |-> invoice[i].sub]]

\* When requests are served one after the other, the invoices are that ledger,
\* for all the crashes, unanswered requests and repetitions.
ImplementsLedger == Ledger!Spec

\* routes.py, record_payment: "Payment is recorded with idempotency to prevent
\* duplicates".  A request that was committed and not answered is repeated.
RecordedOnce == \A p \in Payments : recorded[p] <= 1

Quiet(i) == \A r \in Requests : req[r].inv # i /\ i \notin req[r].late

\* cancel_invoice: "Cannot cancel paid invoice".
PaidStaysPaid ==
    [][\A i \in Invoices : invoice[i].status = "PAID" => invoice'[i].status = "PAID"]_vars

\* send_invoice: "Send invoice to customer".  The invoice that was mailed is
\* still to be sent.
MailedIsSent ==
    \A i \in mailed : Quiet(i) => invoice[i].status \notin {"DRAFT", "ISSUED"}

=============================================================================
