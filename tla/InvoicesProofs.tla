----------------------------- MODULE InvoicesProofs -----------------------------
(***************************************************************************)
(* Proofs about Invoices, for any number of invoices, payments and         *)
(* requests.                                                               *)
(***************************************************************************)
EXTENDS Invoices, SumLemmas, TLAPS

-----------------------------------------------------------------------------
(***************************************************************************)
(* Type correctness.  The types alone are not inductive: what a payment    *)
(* writes depends on the payment that its request holds.                   *)
(***************************************************************************)
Holding ==
    \A r \in Requests :
        /\ req[r].pc \in {"flushed", "answer"} => req[r].op = "pay"
        /\ req[r].op = "pay" => req[r].pay \in Payments
        /\ req[r].pc # "idle" /\ req[r].op # "update-overdue" =>
              req[r].inv \in Invoices /\ invoice[req[r].inv].status # "NONE"
        /\ req[r].pc = "flushed" => req[r].seen.status # "NONE"

Inv == TypeOK /\ Holding

LEMMA ConstantTypes ==
    /\ NoRow \in Invoice
    /\ IdleRequest \in Request /\ IdleRequest.pc = "idle" /\ IdleRequest.op = "none"
<1>1. NoRow \in Invoice
    BY DEF NoRow, Invoice, Status
<1> QED
    BY <1>1 DEF IdleRequest, Request

LEMMA TotalType ==
    ASSUME NEW row \in Invoice
    PROVE  row.total \in Nat
<1>1. \A t \in Totals : t \in Nat
    BY InvoicesAssumption
<1>2. row.total \in Totals \/ row.total = 0
    BY DEF Invoice
<1> QED
    BY <1>1, <1>2

\* An UPDATE gives a column its new value or leaves it.
LEMMA MergeType ==
    ASSUME NEW current \in Invoice, NEW seen \in Invoice, NEW new \in Invoice
    PROVE  LET m == Merge(current, seen, new)
           IN  /\ m \in Invoice
               /\ m.status = IF new.status = seen.status THEN current.status ELSE new.status
               /\ m.total = IF new.total = seen.total THEN current.total ELSE new.total
               /\ m.paid = IF new.paid = seen.paid THEN current.paid ELSE new.paid
               /\ m.sub = current.sub
BY DEF Merge, Invoice

\* Only the request's invoice is written.
LEMMA WriteType ==
    ASSUME TypeOK, NEW r \in Requests, req[r].inv \in Invoices,
           NEW new \in Invoice, new.status \notin {"NONE"} \ {req[r].seen.status}, Write(r, new)
    PROVE  /\ invoice' \in [Invoices -> Invoice]
           /\ invoice'[req[r].inv] = Merge(invoice[req[r].inv], req[r].seen, new)
           /\ \A i \in Invoices \ {req[r].inv} : invoice'[i] = invoice[i]
           /\ \A i \in Invoices : invoice[i].status # "NONE" => invoice'[i].status # "NONE"
<1> DEFINE i == req[r].inv
           m == Merge(invoice[i], req[r].seen, new)
<1>1. invoice[i] \in Invoice /\ req[r].seen \in Invoice
    BY DEF TypeOK, Request
<1>2. /\ m \in Invoice
      /\ m.status = IF new.status = req[r].seen.status THEN invoice[i].status ELSE new.status
    BY <1>1, MergeType
<1>3. invoice' = [invoice EXCEPT ![i] = m]
    BY DEF Write
<1> HIDE DEF m
<1>4. invoice' \in [Invoices -> Invoice]
    BY <1>2, <1>3 DEF TypeOK
<1>5. invoice'[i] = m
    BY <1>3 DEF TypeOK
<1>6. \A j \in Invoices \ {i} : invoice'[j] = invoice[j]
    BY <1>3 DEF TypeOK
<1>7. invoice[i].status # "NONE" => m.status # "NONE"
    BY <1>2
<1> QED
    BY <1>4, <1>5, <1>6, <1>7 DEF m

\* A request comes to its end.
LEMMA FinishStep ==
    ASSUME Inv, NEW r \in Requests, Finish(r),
           invoice' \in [Invoices -> Invoice],
           \A i \in Invoices : invoice[i].status # "NONE" => invoice'[i].status # "NONE",
           UNCHANGED <<credit, hold, recorded>>,
           mailed' \subseteq Invoices, answered' \subseteq Payments
    PROVE  Inv'
<1>1. TypeOK'
    BY ConstantTypes DEF Finish, Inv, TypeOK
<1>2. \A r2 \in Requests : req'[r2] = IF r2 = r THEN IdleRequest ELSE req[r2]
    BY DEF Finish, Inv, TypeOK
<1>3. Holding'
    BY <1>2, ConstantTypes DEF Inv, Holding
<1> QED
    BY <1>1, <1>3 DEF Inv

\* A request takes up an operation.
LEMMA TakeUp ==
    ASSUME Inv, NEW r \in Requests, NEW q \in Request,
           req' = [req EXCEPT ![r] = q], q.pc = "loaded",
           q.op = "pay" => q.pay \in Payments,
           q.op # "update-overdue" => q.inv \in Invoices /\ invoice[q.inv].status # "NONE",
           UNCHANGED <<invoice, credit, hold, mailed, recorded, answered>>
    PROVE  Inv'
<1>1. \A r2 \in Requests : req'[r2] = IF r2 = r THEN q ELSE req[r2]
    BY DEF Inv, TypeOK
<1>2. TypeOK'
    BY <1>1 DEF Inv, TypeOK
<1>3. Holding'
    BY <1>1 DEF Inv, Holding
<1> QED
    BY <1>2, <1>3 DEF Inv

LEMMA LoadStep ==
    ASSUME Inv, NEW r \in Requests, NEW i \in Invoices, NEW op \in Ops \ {"pay"}, Load(r, op, i)
    PROVE  Inv'
<1> DEFINE q == [IdleRequest EXCEPT !.op = op, !.inv = i, !.pc = "loaded", !.seen = invoice[i]]
<1>1. q \in Request /\ q.pc = "loaded" /\ q.op = op /\ q.inv = i
    BY ConstantTypes DEF Load, Inv, TypeOK, Request, IdleRequest
<1>2. /\ req' = [req EXCEPT ![r] = q] /\ invoice[i].status # "NONE"
      /\ UNCHANGED <<invoice, credit, hold, mailed, recorded, answered>>
    BY DEF Load
<1> QED
    BY <1>1, <1>2, TakeUp

LEMMA PayStep ==
    ASSUME Inv, NEW r \in Requests, NEW p \in Payments, Pay(r, p)
    PROVE  Inv'
<1> DEFINE q == [IdleRequest EXCEPT !.op = "pay", !.inv = Pays[p], !.pay = p,
                                    !.pc = "loaded", !.seen = invoice[Pays[p]]]
<1>1. Pays[p] \in Invoices
    BY InvoicesAssumption
<1>2. q \in Request /\ q.pc = "loaded" /\ q.op = "pay" /\ q.inv = Pays[p] /\ q.pay = p
    BY <1>1, ConstantTypes DEF Pay, Inv, TypeOK, Request, IdleRequest
<1>3. /\ req' = [req EXCEPT ![r] = q] /\ invoice[Pays[p]].status # "NONE"
      /\ UNCHANGED <<invoice, credit, hold, mailed, recorded, answered>>
    BY DEF Pay, Payable
<1> QED
    BY <1>1, <1>2, <1>3, TakeUp

LEMMA UpdateOverdueStep ==
    ASSUME Inv, NEW r \in Requests, UpdateOverdue(r)
    PROVE  Inv'
<1>1. PICK late \in SUBSET Invoices :
          req' = [req EXCEPT ![r] = [IdleRequest EXCEPT !.op = "update-overdue",
                                        !.pc = "loaded", !.late = late]]
    BY DEF UpdateOverdue
<1> DEFINE q == [IdleRequest EXCEPT !.op = "update-overdue", !.pc = "loaded", !.late = late]
<1>2. q \in Request /\ q.pc = "loaded" /\ q.op = "update-overdue"
    BY ConstantTypes DEF UpdateOverdue, Request, IdleRequest
<1> HIDE DEF q
<1>3. UNCHANGED <<invoice, credit, hold, mailed, recorded, answered>>
    BY DEF UpdateOverdue
<1>4. req' = [req EXCEPT ![r] = q]
    BY <1>1 DEF q
<1> QED
    BY <1>2, <1>3, <1>4, TakeUp

\* The commits that write one invoice.
LEMMA CommitStep ==
    ASSUME Inv, NEW r \in Requests, NEW op \in AllOps \ {"update-overdue"}, Committing(r, op),
           NEW new \in Invoice, new.status \notin {"NONE"} \ {req[r].seen.status},
           Write(r, new), Finish(r),
           UNCHANGED <<credit, hold, mailed, recorded, answered>>
    PROVE  Inv'
<1>1. req[r].inv \in Invoices
    BY DEF Committing, Inv, Holding
<1> QED
    BY <1>1, WriteType, FinishStep DEF Inv, TypeOK

\* What a handler loaded is an invoice, and so is what it writes.
LEMMA SeenType ==
    ASSUME TypeOK, NEW r \in Requests
    PROVE  /\ req[r].seen \in Invoice
           /\ \A st \in Status : [req[r].seen EXCEPT !.status = st] \in Invoice
           /\ \A t \in Totals : [req[r].seen EXCEPT !.total = t] \in Invoice
           /\ [req[r].seen EXCEPT !.deleted = TRUE] \in Invoice
<1>1. req[r].seen \in Invoice
    BY DEF TypeOK, Request
<1> QED
    BY <1>1 DEF Invoice

\* The five commits that write one invoice.
LEMMA CommitSteps ==
    ASSUME Inv, NEW r \in Requests,
           \/ IssueCommit(r) \/ SendCommit(r) \/ CancelCommit(r)
           \/ UpdateCommit(r) \/ DeleteCommit(r)
    PROVE  Inv'
<1>1. CASE IssueCommit(r)
    <2>1. /\ Committing(r, "issue") /\ Finish(r)
          /\ Write(r, [req[r].seen EXCEPT !.status = "ISSUED"])
          /\ UNCHANGED <<credit, hold, mailed, recorded, answered>>
        BY <1>1 DEF IssueCommit
    <2>2. [req[r].seen EXCEPT !.status = "ISSUED"] \in Invoice
        BY SeenType DEF Inv, Status
    <2>3. ([req[r].seen EXCEPT !.status = "ISSUED"]).status \notin {"NONE"} \ {req[r].seen.status}
        BY SeenType DEF Inv, Invoice
    <2> QED
        BY <2>1, <2>2, <2>3, CommitStep DEF AllOps
<1>2. CASE SendCommit(r)
    <2>1. /\ Committing(r, "send") /\ Finish(r)
          /\ Write(r, [req[r].seen EXCEPT !.status = "SENT"])
          /\ UNCHANGED <<credit, hold, mailed, recorded, answered>>
        BY <1>2 DEF SendCommit
    <2>2. [req[r].seen EXCEPT !.status = "SENT"] \in Invoice
        BY SeenType DEF Inv, Status
    <2>3. ([req[r].seen EXCEPT !.status = "SENT"]).status \notin {"NONE"} \ {req[r].seen.status}
        BY SeenType DEF Inv, Invoice
    <2> QED
        BY <2>1, <2>2, <2>3, CommitStep DEF AllOps
<1>3. CASE CancelCommit(r)
    <2>1. /\ Committing(r, "cancel") /\ Finish(r)
          /\ Write(r, [req[r].seen EXCEPT !.status = "CANCELLED"])
          /\ UNCHANGED <<credit, hold, mailed, recorded, answered>>
        BY <1>3 DEF CancelCommit
    <2>2. [req[r].seen EXCEPT !.status = "CANCELLED"] \in Invoice
        BY SeenType DEF Inv, Status
    <2>3. ([req[r].seen EXCEPT !.status = "CANCELLED"]).status \notin {"NONE"} \ {req[r].seen.status}
        BY SeenType DEF Inv, Invoice
    <2> QED
        BY <2>1, <2>2, <2>3, CommitStep DEF AllOps
<1>4. CASE DeleteCommit(r)
    <2>1. /\ Committing(r, "delete") /\ Finish(r)
          /\ Write(r, [req[r].seen EXCEPT !.deleted = TRUE])
          /\ UNCHANGED <<credit, hold, mailed, recorded, answered>>
        BY <1>4 DEF DeleteCommit
    <2>2. [req[r].seen EXCEPT !.deleted = TRUE] \in Invoice
        BY SeenType DEF Inv, Status
    <2>3. ([req[r].seen EXCEPT !.deleted = TRUE]).status \notin {"NONE"} \ {req[r].seen.status}
        BY SeenType DEF Inv, Invoice
    <2> QED
        BY <2>1, <2>2, <2>3, CommitStep DEF AllOps
<1>5. CASE UpdateCommit(r)
    <2>1. PICK t \in Totals : Write(r, [req[r].seen EXCEPT !.total = t])
        BY <1>5 DEF UpdateCommit
    <2>2. /\ Committing(r, "update") /\ Finish(r)
          /\ UNCHANGED <<credit, hold, mailed, recorded, answered>>
        BY <1>5 DEF UpdateCommit
    <2>3. [req[r].seen EXCEPT !.total = t] \in Invoice
        BY SeenType DEF Inv
    <2>4. ([req[r].seen EXCEPT !.total = t]).status \notin {"NONE"} \ {req[r].seen.status}
        BY SeenType DEF Inv, Invoice
    <2> QED
        BY <2>1, <2>2, <2>3, <2>4, CommitStep DEF AllOps
<1> QED
    BY <1>1, <1>2, <1>3, <1>4, <1>5

LEMMA OverdueCommitStep ==
    ASSUME Inv, NEW r \in Requests, OverdueCommit(r)
    PROVE  Inv'
<1>1. /\ invoice' \in [Invoices -> Invoice]
      /\ \A i \in Invoices : invoice[i].status # "NONE" => invoice'[i].status # "NONE"
    <2>1. \A i \in Invoices : [invoice[i] EXCEPT !.status = "OVERDUE"] \in Invoice
        BY DEF Inv, TypeOK, Invoice, Status
    <2> QED
        BY <2>1 DEF OverdueCommit, Inv, TypeOK, Invoice
<1>2. Finish(r) /\ UNCHANGED <<credit, hold, mailed, recorded, answered>>
    BY DEF OverdueCommit
<1> QED
    BY <1>1, <1>2, FinishStep DEF Inv, TypeOK

\* What a payment computes, and what its UPDATE leaves of the invoice.
LEMMA PayTypes ==
    ASSUME Inv, NEW r \in Requests, req[r].op = "pay", req[r].pc = "loaded"
    PROVE  LET q == req[r]
               row == Merge(invoice[q.inv], q.seen, Paid(q))
           IN  /\ row \in Invoice
               /\ row.status # "NONE"
               /\ row.total = invoice[q.inv].total
               /\ row.paid = NewPaid(q)
<1> DEFINE q == req[r]
           old == invoice[q.inv]
<1>1. q.seen \in Invoice /\ q.inv \in Invoices /\ old \in Invoice /\ old.status # "NONE"
    BY DEF Inv, TypeOK, Request, Holding
<1>2. Amount[q.pay] \in Nat \ {0}
    BY InvoicesAssumption DEF Inv, Holding
<1>3. q.seen.paid \in Nat
    BY <1>1 DEF Invoice
<1>4. NewPaid(q) \in Nat /\ NewPaid(q) # q.seen.paid
    BY <1>2, <1>3 DEF NewPaid
<1>5. /\ Paid(q) \in Invoice /\ Paid(q).status # "NONE"
      /\ Paid(q).total = q.seen.total /\ Paid(q).paid = NewPaid(q)
    <2> DEFINE st == IF NewPaid(q) >= q.seen.total THEN "PAID" ELSE "PARTIALLY_PAID"
    <2>1. st \in Status /\ st # "NONE"
        BY DEF Status
    <2> HIDE DEF st
    <2>2. Paid(q) = [q.seen EXCEPT !.paid = NewPaid(q), !.status = st]
        BY DEF Paid, st
    <2> QED
        BY <1>1, <1>4, <2>1, <2>2 DEF Invoice
<1> HIDE DEF q, old
<1> QED
    BY <1>1, <1>4, <1>5, MergeType DEF q, old

\* A payment goes on, with what it holds.
LEMMA GoOn ==
    ASSUME Inv, NEW r \in Requests, req[r].op = "pay", req[r].pc # "idle",
           NEW pc \in {"flushed", "answer"}, NEW c \in Nat,
           NEW row \in Invoice, row.status # "NONE",
           req' = [req EXCEPT ![r] = [req[r] EXCEPT !.pc = pc, !.seen = row, !.credit = c]],
           invoice' \in [Invoices -> Invoice],
           \A i \in Invoices : invoice[i].status # "NONE" => invoice'[i].status # "NONE",
           credit' \in [Subs -> Nat], hold' \in [Subs -> Hold],
           recorded' \in [Payments -> Nat], UNCHANGED <<mailed, answered>>
    PROVE  Inv'
<1> DEFINE q == [req[r] EXCEPT !.pc = pc, !.seen = row, !.credit = c]
<1>1. /\ q \in Request /\ q.pc = pc /\ q.op = "pay" /\ q.pay = req[r].pay
      /\ q.inv = req[r].inv /\ q.seen = row
    BY DEF Inv, TypeOK, Request
<1>2. req' = [req EXCEPT ![r] = q]
    OBVIOUS
<1> HIDE DEF q
<1>3. req' \in [Requests -> Request]
    BY <1>1, <1>2 DEF Inv, TypeOK
<1>4. \A r2 \in Requests : req'[r2] = IF r2 = r THEN q ELSE req[r2]
    BY <1>2 DEF Inv, TypeOK
<1>5. TypeOK'
    BY <1>1, <1>3, <1>4 DEF Inv, TypeOK
<1>6. Holding'
    <2> SUFFICES ASSUME NEW r2 \in Requests
                 PROVE  /\ req'[r2].pc \in {"flushed", "answer"} => req'[r2].op = "pay"
                        /\ req'[r2].op = "pay" => req'[r2].pay \in Payments
                        /\ req'[r2].pc # "idle" /\ req'[r2].op # "update-overdue" =>
                              /\ req'[r2].inv \in Invoices
                              /\ invoice'[req'[r2].inv].status # "NONE"
                        /\ req'[r2].pc = "flushed" => req'[r2].seen.status # "NONE"
        BY DEF Holding
    <2>1. CASE r2 = r
        <3>1. req[r].pay \in Payments /\ req[r].inv \in Invoices
              /\ invoice[req[r].inv].status # "NONE"
            BY DEF Inv, Holding
        <3> QED
            BY <2>1, <3>1, <1>1, <1>4
    <2>2. CASE r2 # r
        BY <2>2, <1>4 DEF Inv, Holding
    <2> QED
        BY <2>1, <2>2
<1> QED
    BY <1>5, <1>6 DEF Inv

LEMMA PayFlushStep ==
    ASSUME Inv, NEW r \in Requests, PayFlush(r)
    PROVE  Inv'
<1> DEFINE row == Merge(invoice[req[r].inv], req[r].seen, Paid(req[r]))
           c == IF Credits(row) THEN credit[row.sub] ELSE 0
<1>1. req[r].op = "pay" /\ req[r].pc = "loaded"
    BY DEF PayFlush, Committing
<1>2. row \in Invoice /\ row.status # "NONE"
    BY <1>1, PayTypes
<1>3. /\ req' = [req EXCEPT ![r] = [req[r] EXCEPT !.pc = "flushed", !.seen = row, !.credit = c]]
      /\ UNCHANGED <<invoice, credit, hold, mailed, recorded, answered>>
    BY DEF PayFlush
<1> HIDE DEF row
<1>4. c \in Nat
    <2>1. Credits(row) => row.sub \in Subs
        BY <1>2 DEF Credits, Triggers, Invoice
    <2> QED
        BY <2>1 DEF Inv, TypeOK
<1> HIDE DEF c
<1> QED
    BY <1>1, <1>2, <1>3, <1>4, GoOn DEF Inv, TypeOK

LEMMA PayCommitStep ==
    ASSUME Inv, NEW r \in Requests, PayCommit(r)
    PROVE  Inv'
<1> DEFINE q == req[r]
<1>1. /\ q.op = "pay" /\ q.pc = "flushed" /\ q.inv \in Invoices /\ q.pay \in Payments
      /\ q.seen.status # "NONE"
    BY DEF PayCommit, Inv, Holding
<1>2. q \in Request /\ q.seen \in Invoice /\ q.credit \in Nat
    BY DEF Inv, TypeOK, Request
<1>3. /\ invoice' \in [Invoices -> Invoice]
      /\ \A i \in Invoices : invoice[i].status # "NONE" => invoice'[i].status # "NONE"
    BY <1>1, <1>2 DEF PayCommit, Inv, TypeOK
<1>4. credit' \in [Subs -> Nat]
    <2>1. q.seen.total \in Nat
        BY <1>2, TotalType
    <2> QED
        BY <1>2, <2>1 DEF PayCommit, Credited, Inv, TypeOK
<1>5. hold' \in [Subs -> Hold]
    BY DEF PayCommit, Lifted, Inv, TypeOK, Hold
<1>6. recorded' \in [Payments -> Nat]
    <2>1. recorded[q.pay] + 1 \in Nat
        BY <1>1 DEF Inv, TypeOK
    <2>2. recorded' = [recorded EXCEPT ![q.pay] = recorded[q.pay] + 1]
        BY DEF PayCommit
    <2> QED
        BY <2>1, <2>2 DEF Inv, TypeOK
<1>7. req' = [req EXCEPT ![r] = [q EXCEPT !.pc = "answer", !.seen = q.seen, !.credit = q.credit]]
    <2>1. [q EXCEPT !.pc = "answer", !.seen = q.seen, !.credit = q.credit]
              = [q EXCEPT !.pc = "answer"]
        BY <1>2 DEF Request
    <2> QED
        BY <2>1 DEF PayCommit, Inv, TypeOK
<1>8. UNCHANGED <<mailed, answered>>
    BY DEF PayCommit
<1> QED
    BY <1>1, <1>2, <1>3, <1>4, <1>5, <1>6, <1>7, <1>8, GoOn

\* The steps that end a request without a write.
LEMMA EndSteps ==
    ASSUME Inv, NEW r \in Requests,
           SendMails(r) \/ Answer(r) \/ NotifyFails(r) \/ RequestDies(r)
    PROVE  Inv'
<1>1. CASE SendMails(r)
    BY <1>1, FinishStep DEF SendMails, Committing, Inv, TypeOK, Holding
<1>2. CASE Answer(r)
    BY <1>2, FinishStep DEF Answer, Inv, TypeOK, Holding
<1>3. CASE NotifyFails(r)
    BY <1>3, FinishStep DEF NotifyFails, Inv, TypeOK
<1>4. CASE RequestDies(r)
    BY <1>4, FinishStep DEF RequestDies, Inv, TypeOK
<1> QED
    BY <1>1, <1>2, <1>3, <1>4

LEMMA CreateStep ==
    ASSUME Inv, NEW i \in Invoices, Create(i)
    PROVE  Inv'
<1>1. PICK t \in Totals, s \in Subs \cup {NoSub} :
          invoice' = [invoice EXCEPT ![i] = [NoRow EXCEPT !.status = "DRAFT",
                                                          !.total = t, !.sub = s]]
    BY DEF Create
<1>2. [NoRow EXCEPT !.status = "DRAFT", !.total = t, !.sub = s] \in Invoice
    BY DEF NoRow, Invoice, Status
<1>3. TypeOK'
    BY <1>1, <1>2 DEF Create, Inv, TypeOK
<1>4. Holding'
    BY <1>1 DEF Create, NoRow, Inv, TypeOK, Holding
<1> QED
    BY <1>3, <1>4 DEF Inv

LEMMA SuspendStep ==
    ASSUME Inv, NEW s \in Subs, Suspend(s)
    PROVE  Inv'
BY DEF Suspend, Inv, TypeOK, Holding, Hold

LEMMA ServeStep ==
    ASSUME Inv, NEW r \in Requests, Serve(r)
    PROVE  Inv'
<1>1. CASE \E i \in Invoices : \/ Issue(r, i) \/ Send(r, i) \/ Cancel(r, i)
                                \/ Update(r, i) \/ Delete(r, i)
    <2>1. PICK i \in Invoices, op \in {"issue", "send", "cancel", "update", "delete"} :
              Load(r, op, i)
        BY <1>1 DEF Issue, Send, Cancel, Update, Delete
    <2>2. op \in Ops \ {"pay"}
        BY <2>1 DEF Load
    <2> QED
        BY <2>1, <2>2, LoadStep
<1>2. CASE \E p \in Payments : Pay(r, p)
    BY <1>2, PayStep
<1>3. CASE UpdateOverdue(r)
    BY <1>3, UpdateOverdueStep
<1> QED
    BY <1>1, <1>2, <1>3 DEF Serve

\* The invariant holds at the start and every step keeps it.
LEMMA InvInductive == Init => Inv
BY ConstantTypes, InvoicesAssumption DEF Init, Inv, TypeOK, Holding, Hold

LEMMA InvStep ==
    ASSUME Inv, [Next]_vars
    PROVE  Inv'
<1>1. CASE \E i \in Invoices : Create(i)
    BY <1>1, CreateStep
<1>2. ASSUME NEW r \in Requests, Serve(r) PROVE Inv'
    BY <1>2, ServeStep
<1>3. ASSUME NEW r \in Requests, Continue(r) PROVE Inv'
    BY <1>3, CommitSteps, OverdueCommitStep, PayFlushStep, PayCommitStep, EndSteps
       DEF Continue
<1>4. ASSUME NEW r \in Requests, RequestDies(r) PROVE Inv'
    BY <1>4, EndSteps
<1>5. CASE \E s \in Subs : Suspend(s)
    BY <1>5, SuspendStep
<1>6. CASE UNCHANGED vars
    BY <1>6 DEF vars, Inv, TypeOK, Holding
<1> QED
    BY <1>1, <1>2, <1>3, <1>4, <1>5, <1>6 DEF Next

\* Every variable keeps its type, and what a payment writes stays a number,
\* however requests overlap.
THEOREM InvoicesTypeCorrect == Spec => []TypeOK
<1>1. Inv /\ [Next]_vars => Inv'
    BY InvStep
<1>2. Inv => TypeOK
    BY DEF Inv
<1> QED
    BY InvInductive, <1>1, <1>2, PTL DEF Spec

-----------------------------------------------------------------------------
(***************************************************************************)
(* No invoice is overpaid where nobody edits totals.  The bound is not     *)
(* inductive: a payment writes what it computed from the invoice it loaded,*)
(* so what it computed has to fit the total that is in force when it       *)
(* writes.                                                                 *)
(***************************************************************************)
Paying(r) == req[r].op = "pay" /\ req[r].pc \in {"loaded", "flushed"}

PaysUpTo(q) == IF q.pc = "loaded" THEN NewPaid(q) ELSE q.seen.paid

Fitting ==
    \A r \in Requests :
        Paying(r) => /\ req[r].seen.total = invoice[req[r].inv].total
                     /\ PaysUpTo(req[r]) <= req[r].seen.total

Bounded == Inv /\ NeverOverpaid /\ Fitting

\* A step that keeps the totals and takes up no payment.
LEMMA TotalsKept ==
    ASSUME Bounded, Inv',
           \A i \in Invoices : invoice'[i].paid <= invoice'[i].total,
           \A i \in Invoices : invoice[i].status # "NONE" => invoice'[i].total = invoice[i].total,
           \A r \in Requests : Paying(r)' => Paying(r) /\ req'[r] = req[r]
    PROVE  Bounded'
<1>1. Fitting'
    <2> SUFFICES ASSUME NEW r \in Requests, Paying(r)'
                 PROVE  /\ req'[r].seen.total = invoice'[req'[r].inv].total
                        /\ PaysUpTo(req'[r]) <= req'[r].seen.total
        BY DEF Fitting
    <2>1. Paying(r) /\ req'[r] = req[r]
        OBVIOUS
    <2>2. /\ req[r].seen.total = invoice[req[r].inv].total
          /\ PaysUpTo(req[r]) <= req[r].seen.total
        BY <2>1 DEF Bounded, Fitting
    <2>3. req[r].inv \in Invoices /\ invoice[req[r].inv].status # "NONE"
        BY <2>1 DEF Paying, Bounded, Inv, Holding
    <2>4. invoice'[req[r].inv].total = invoice[req[r].inv].total
        BY <2>3
    <2> QED
        BY <2>1, <2>2, <2>4
<1>2. NeverOverpaid'
    BY DEF NeverOverpaid
<1> QED
    BY <1>1, <1>2 DEF Bounded

\* What the end of a request leaves of the payments.
LEMMA FinishedPays ==
    ASSUME TypeOK, NEW r \in Requests, Finish(r)
    PROVE  \A r2 \in Requests : Paying(r2)' => Paying(r2) /\ req'[r2] = req[r2]
<1>1. \A r2 \in Requests : req'[r2] = IF r2 = r THEN IdleRequest ELSE req[r2]
    BY DEF Finish, TypeOK
<1> QED
    BY <1>1, ConstantTypes DEF Paying

\* An UPDATE that keeps the total, and the paid amount within it.
LEMMA WriteKeeps ==
    ASSUME TypeOK, NeverOverpaid, NEW r \in Requests, req[r].inv \in Invoices,
           NEW new \in Invoice, Write(r, new), new.total = req[r].seen.total,
           new.paid = req[r].seen.paid \/ new.paid <= invoice[req[r].inv].total
    PROVE  /\ \A i \in Invoices : invoice'[i].paid <= invoice'[i].total
           /\ \A i \in Invoices : invoice'[i].total = invoice[i].total
<1> DEFINE i == req[r].inv
           m == Merge(invoice[i], req[r].seen, new)
<1>1. invoice[i] \in Invoice /\ req[r].seen \in Invoice
    BY DEF TypeOK, Request
<1>2. /\ m.total = invoice[i].total
      /\ m.paid = IF new.paid = req[r].seen.paid THEN invoice[i].paid ELSE new.paid
    BY <1>1, MergeType
<1>3. invoice' = [invoice EXCEPT ![i] = m]
    BY DEF Write
<1> HIDE DEF m
<1>4. \A j \in Invoices : invoice'[j] = IF j = i THEN m ELSE invoice[j]
    BY <1>3 DEF TypeOK
<1>5. m.paid <= m.total
    BY <1>2 DEF NeverOverpaid
<1> QED
    BY <1>2, <1>4, <1>5 DEF NeverOverpaid

\* The commits that write one invoice, without an edit.
LEMMA CommitsBounded ==
    ASSUME Bounded, Inv', NEW r \in Requests,
           IssueCommit(r) \/ SendCommit(r) \/ CancelCommit(r) \/ DeleteCommit(r)
    PROVE  Bounded'
<1>1. /\ Finish(r) /\ req[r].inv \in Invoices
    BY DEF IssueCommit, SendCommit, CancelCommit, DeleteCommit, Committing, Bounded, Inv,
           Holding
<1>2. PICK new \in Invoice : /\ Write(r, new)
                              /\ new.total = req[r].seen.total
                              /\ new.paid = req[r].seen.paid
    <2> DEFINE seen == req[r].seen
    <2>1. seen \in Invoice
        BY DEF Bounded, Inv, TypeOK, Request
    <2> HIDE DEF seen
    <2>2. \A st \in Status : LET new == [seen EXCEPT !.status = st]
                             IN  new \in Invoice /\ new.total = seen.total /\ new.paid = seen.paid
        BY <2>1 DEF Invoice
    <2>3. LET new == [seen EXCEPT !.deleted = TRUE]
          IN  new \in Invoice /\ new.total = seen.total /\ new.paid = seen.paid
        BY <2>1 DEF Invoice
    <2>4. \/ \E st \in Status : Write(r, [seen EXCEPT !.status = st])
          \/ Write(r, [seen EXCEPT !.deleted = TRUE])
        BY DEF IssueCommit, SendCommit, CancelCommit, DeleteCommit, Status, seen
    <2> QED
        BY <2>2, <2>3, <2>4 DEF seen
<1> QED
    BY <1>1, <1>2, WriteKeeps, FinishedPays, TotalsKept DEF Bounded, Inv

LEMMA OverdueBounded ==
    ASSUME Bounded, Inv', NEW r \in Requests, OverdueCommit(r)
    PROVE  Bounded'
<1>1. \A i \in Invoices : /\ invoice'[i].total = invoice[i].total
                          /\ invoice'[i].paid = invoice[i].paid
    BY DEF OverdueCommit, Bounded, Inv, TypeOK, Invoice
<1>2. \A i \in Invoices : invoice'[i].paid <= invoice'[i].total
    BY <1>1 DEF Bounded, NeverOverpaid
<1>3. Finish(r)
    BY DEF OverdueCommit
<1> QED
    BY <1>1, <1>2, <1>3, FinishedPays, TotalsKept DEF Bounded, Inv

\* What a payment flushes fits the total that its row has from then on.
LEMMA PayFlushBounded ==
    ASSUME Bounded, Inv', NEW r \in Requests, PayFlush(r)
    PROVE  Bounded'
<1> DEFINE row == Merge(invoice[req[r].inv], req[r].seen, Paid(req[r]))
           c == IF Credits(row) THEN credit[row.sub] ELSE 0
           q == [req[r] EXCEPT !.pc = "flushed", !.seen = row, !.credit = c]
<1>1. req[r].op = "pay" /\ req[r].pc = "loaded" /\ UNCHANGED invoice
    BY DEF PayFlush, Committing
<1>2. row.total = invoice[req[r].inv].total /\ row.paid = NewPaid(req[r])
    BY <1>1, PayTypes DEF Bounded
<1>3. NewPaid(req[r]) <= row.total
    BY <1>1, <1>2 DEF Bounded, Fitting, Paying, PaysUpTo
<1>4. req' = [req EXCEPT ![r] = q]
    BY DEF PayFlush
<1>5. q.pc = "flushed" /\ q.seen = row /\ q.inv = req[r].inv
    BY DEF Bounded, Inv, TypeOK, Request
<1> HIDE DEF q, row
<1>6. \A r2 \in Requests : req'[r2] = IF r2 = r THEN q ELSE req[r2]
    BY <1>4 DEF Bounded, Inv, TypeOK
<1>7. Fitting'
    <2> SUFFICES ASSUME NEW r2 \in Requests, Paying(r2)'
                 PROVE  /\ req'[r2].seen.total = invoice'[req'[r2].inv].total
                        /\ PaysUpTo(req'[r2]) <= req'[r2].seen.total
        BY DEF Fitting
    <2>1. CASE r2 = r
        BY <2>1, <1>1, <1>2, <1>3, <1>5, <1>6 DEF PaysUpTo
    <2>2. CASE r2 # r
        BY <2>2, <1>1, <1>6 DEF Paying, Bounded, Fitting
    <2> QED
        BY <2>1, <2>2
<1> QED
    BY <1>1, <1>7 DEF Bounded, NeverOverpaid

LEMMA PayCommitBounded ==
    ASSUME Bounded, Inv', NEW r \in Requests, PayCommit(r)
    PROVE  Bounded'
<1> DEFINE q == req[r]
<1>1. q.op = "pay" /\ q.pc = "flushed" /\ q.inv \in Invoices
    BY DEF PayCommit, Bounded, Inv, Holding
<1>2. q.seen.total = invoice[q.inv].total /\ q.seen.paid <= q.seen.total
    BY <1>1 DEF Bounded, Fitting, Paying, PaysUpTo
<1>3. \A i \in Invoices : invoice'[i] = IF i = q.inv THEN q.seen ELSE invoice[i]
    BY DEF PayCommit, Bounded, Inv, TypeOK
<1>4. /\ \A i \in Invoices : invoice'[i].paid <= invoice'[i].total
      /\ \A i \in Invoices : invoice'[i].total = invoice[i].total
    BY <1>2, <1>3 DEF Bounded, NeverOverpaid
<1>5. \A r2 \in Requests \ {r} : req'[r2] = req[r2]
    BY DEF PayCommit, Bounded, Inv, TypeOK
<1>6. req'[r].pc = "answer"
    BY DEF PayCommit, Bounded, Inv, TypeOK, Request
<1>7. \A r2 \in Requests : Paying(r2)' => Paying(r2) /\ req'[r2] = req[r2]
    BY <1>5, <1>6 DEF Paying
<1> QED
    BY <1>4, <1>7, TotalsKept

\* The steps that end a request without a write.
LEMMA EndsBounded ==
    ASSUME Bounded, Inv', NEW r \in Requests,
           SendMails(r) \/ Answer(r) \/ NotifyFails(r) \/ RequestDies(r)
    PROVE  Bounded'
<1>1. Finish(r) /\ UNCHANGED invoice
    BY DEF SendMails, Answer, NotifyFails, RequestDies
<1> QED
    BY <1>1, FinishedPays, TotalsKept DEF Bounded, Inv, NeverOverpaid

\* What a request holds that takes up anything but a payment.
LEMMA LoadsNoPayment ==
    ASSUME NEW r \in Requests, Serve(r), \A p \in Payments : ~Pay(r, p)
    PROVE  \E q : req' = [req EXCEPT ![r] = q] /\ q.op # "pay"
<1>1. CASE UpdateOverdue(r)
    <2>1. PICK late : req' = [req EXCEPT ![r] = [IdleRequest EXCEPT
                          !.op = "update-overdue", !.pc = "loaded", !.late = late]]
        BY <1>1 DEF UpdateOverdue
    <2>2. ([IdleRequest EXCEPT !.op = "update-overdue", !.pc = "loaded",
                               !.late = late]).op # "pay"
        BY DEF IdleRequest
    <2> QED
        BY <2>1, <2>2
<1>2. CASE ~UpdateOverdue(r)
    <2>1. PICK i \in Invoices, op \in {"issue", "send", "cancel", "update", "delete"} :
              Load(r, op, i)
        BY <1>2 DEF Serve, Issue, Send, Cancel, Update, Delete
    <2>2. req' = [req EXCEPT ![r] = [IdleRequest EXCEPT !.op = op, !.inv = i,
                                        !.pc = "loaded", !.seen = invoice[i]]]
        BY <2>1 DEF Load
    <2>3. ([IdleRequest EXCEPT !.op = op, !.inv = i, !.pc = "loaded",
                               !.seen = invoice[i]]).op # "pay"
        BY DEF IdleRequest
    <2> QED
        BY <2>2, <2>3
<1> QED
    BY <1>1, <1>2

\* A request takes up an operation; a payment is checked against the invoice
\* it loads.
LEMMA ServeBounded ==
    ASSUME Bounded, Inv', NEW r \in Requests, Serve(r)
    PROVE  Bounded'
<1>1. UNCHANGED invoice
    BY DEF Serve, Issue, Send, Cancel, Update, Delete, Load, Pay, UpdateOverdue
<1>2. CASE \E p \in Payments : Pay(r, p)
    <2>1. PICK p \in Payments : Pay(r, p)
        BY <1>2
    <2> DEFINE q == [IdleRequest EXCEPT !.op = "pay", !.inv = Pays[p], !.pay = p,
                                        !.pc = "loaded", !.seen = invoice[Pays[p]]]
    <2>2. /\ q.op = "pay" /\ q.pc = "loaded" /\ q.inv = Pays[p] /\ q.pay = p
          /\ q.seen = invoice[Pays[p]]
        BY DEF IdleRequest
    <2>3. req' = [req EXCEPT ![r] = q]
        BY <2>1 DEF Pay
    <2> HIDE DEF q
    <2>4. \A r2 \in Requests : req'[r2] = IF r2 = r THEN q ELSE req[r2]
        BY <2>3 DEF Bounded, Inv, TypeOK
    <2>5. invoice[Pays[p]].paid + Amount[p] <= invoice[Pays[p]].total
        BY <2>1 DEF Pay, Fits
    <2>6. Fitting'
        <3> SUFFICES ASSUME NEW r2 \in Requests, Paying(r2)'
                     PROVE  /\ req'[r2].seen.total = invoice'[req'[r2].inv].total
                            /\ PaysUpTo(req'[r2]) <= req'[r2].seen.total
            BY DEF Fitting
        <3>1. CASE r2 = r
            BY <3>1, <1>1, <2>2, <2>4, <2>5 DEF NewPaid, PaysUpTo
        <3>2. CASE r2 # r
            BY <3>2, <1>1, <2>4 DEF Paying, Bounded, Fitting
        <3> QED
            BY <3>1, <3>2
    <2> QED
        BY <1>1, <2>6 DEF Bounded, NeverOverpaid
<1>3. CASE ~(\E p \in Payments : Pay(r, p))
    <2>1. PICK q : req' = [req EXCEPT ![r] = q] /\ q.op # "pay"
        BY <1>3, LoadsNoPayment
    <2>2. \A r2 \in Requests : req'[r2] = IF r2 = r THEN q ELSE req[r2]
        BY <2>1 DEF Bounded, Inv, TypeOK
    <2> QED
        BY <1>1, <2>1, <2>2, TotalsKept DEF Paying, Bounded, NeverOverpaid
<1> QED
    BY <1>2, <1>3

\* A new invoice has no payments.
LEMMA CreateBounded ==
    ASSUME Bounded, Inv', NEW i \in Invoices, Create(i)
    PROVE  Bounded'
<1>1. PICK t \in Totals, s \in Subs \cup {NoSub} :
          invoice' = [invoice EXCEPT ![i] = [NoRow EXCEPT !.status = "DRAFT",
                                                          !.total = t, !.sub = s]]
    BY DEF Create
<1> DEFINE new == [NoRow EXCEPT !.status = "DRAFT", !.total = t, !.sub = s]
<1>2. new.paid = 0 /\ new.total = t
    BY DEF NoRow
<1>3. t \in Nat
    BY InvoicesAssumption
<1> HIDE DEF new
<1>4. \A j \in Invoices : invoice'[j] = IF j = i THEN new ELSE invoice[j]
    BY <1>1 DEF Bounded, Inv, TypeOK, new
<1>5. invoice[i].status = "NONE" /\ UNCHANGED req
    BY DEF Create
<1>6. \A j \in Invoices : invoice'[j].paid <= invoice'[j].total
    BY <1>2, <1>3, <1>4 DEF Bounded, NeverOverpaid
<1> QED
    BY <1>4, <1>5, <1>6, TotalsKept DEF Paying

\* An invoice is never paid beyond its total, whatever payments, retries,
\* cancellations and reminders overlap, if nobody edits it.
THEOREM NeverOverpaidUnedited ==
    ASSUME "update" \notin Ops
    PROVE  Spec => []NeverOverpaid
<1>1. Init => Bounded
    BY InvInductive, ConstantTypes
       DEF Init, Bounded, NeverOverpaid, Fitting, Paying, NoRow, IdleRequest
<1>2. Bounded /\ [Next]_vars => Bounded'
    <2> SUFFICES ASSUME Bounded, [Next]_vars
                 PROVE  Bounded'
        OBVIOUS
    <2>1. Inv'
        BY InvStep DEF Bounded
    <2>2. \A r \in Requests : ~UpdateCommit(r)
        BY DEF UpdateCommit, Committing, Bounded, Inv, TypeOK, Request
    <2>3. ASSUME NEW r \in Requests, Continue(r) PROVE Bounded'
        BY <2>1, <2>2, <2>3, CommitsBounded, OverdueBounded, PayFlushBounded,
           PayCommitBounded, EndsBounded DEF Continue
    <2>4. ASSUME NEW r \in Requests, Serve(r) \/ RequestDies(r) PROVE Bounded'
        BY <2>1, <2>4, ServeBounded, EndsBounded
    <2>5. CASE \E i \in Invoices : Create(i)
        BY <2>1, <2>5, CreateBounded
    <2>6. CASE (\E s \in Subs : Suspend(s)) \/ UNCHANGED vars
        <3>1. UNCHANGED <<invoice, req>>
            BY <2>6 DEF Suspend, vars
        <3> QED
            BY <2>1, <3>1, TotalsKept DEF Paying, Bounded, NeverOverpaid
    <2> QED
        BY <2>3, <2>4, <2>5, <2>6 DEF Next
<1>3. Bounded => NeverOverpaid
    BY DEF Bounded
<1> QED
    BY <1>1, <1>2, <1>3, PTL DEF Spec

-----------------------------------------------------------------------------
(***************************************************************************)
(* What is shown as paid was recorded.  A payment writes what it computed  *)
(* from the invoice it loaded, so what it loaded has to be recorded too,   *)
(* and what waits to be committed but for the payment itself.              *)
(***************************************************************************)
Recordings == [p \in Payments |-> recorded[p] * Amount[p]]
PaymentsFor(i) == {p \in Payments : Pays[p] = i}

Loaded ==
    \A r \in Requests, i \in Invoices : Paying(r) /\ req[r].inv = i =>
        /\ i = Pays[req[r].pay]
        /\ req[r].pc = "loaded" => req[r].seen.paid <= RecordedFor(i)
        /\ req[r].pc = "flushed" =>
               req[r].seen.paid <= RecordedFor(i) + Amount[req[r].pay]

Backed == Inv /\ PaidIsRecorded /\ Loaded

\* What was recorded for an invoice is a number.
LEMMA RecordingType ==
    ASSUME TypeOK
    PROVE  /\ \A p \in Payments : Recordings[p] \in Nat
           /\ \A i \in Invoices : RecordedFor(i) \in Nat
           /\ \A i \in Invoices : IsFiniteSet(PaymentsFor(i))
<1>1. \A p \in Payments : recorded[p] \in Nat /\ Amount[p] \in Nat
    BY InvoicesAssumption DEF TypeOK
<1>2. \A m, n \in Nat : m * n \in Nat
    OBVIOUS
<1>3. \A p \in Payments : Recordings[p] = recorded[p] * Amount[p]
    BY DEF Recordings
<1>4. \A p \in Payments : Recordings[p] \in Nat
    BY <1>1, <1>2, <1>3
<1>5. ASSUME NEW i \in Invoices
      PROVE  RecordedFor(i) \in Nat /\ IsFiniteSet(PaymentsFor(i))
    <2>1. IsFiniteSet(PaymentsFor(i)) /\ PaymentsFor(i) \subseteq Payments
        BY FinitePayments, FS_Subset DEF PaymentsFor
    <2>2. RecordedFor(i) = SumFunctionOnSet(Recordings, PaymentsFor(i))
        BY DEF RecordedFor, Recordings, PaymentsFor
    <2> QED
        BY <1>4, <2>1, <2>2, SumType
<1> QED
    BY <1>4, <1>5

\* A payment that is recorded once more adds its amount to its invoice.
LEMMA RecordingGrows ==
    ASSUME TypeOK, NEW p \in Payments, recorded' = [recorded EXCEPT ![p] = @ + 1]
    PROVE  /\ RecordedFor(Pays[p])' = RecordedFor(Pays[p]) + Amount[p]
           /\ \A i \in Invoices \ {Pays[p]} : RecordedFor(i)' = RecordedFor(i)
<1> DEFINE new == [q \in Payments |-> recorded'[q] * Amount[q]]
<1>0. recorded \in [Payments -> Nat] /\ Amount[p] \in Nat /\ Pays[p] \in Invoices
    BY InvoicesAssumption DEF TypeOK
<1>1. /\ recorded \in [Payments -> Nat] /\ Amount[p] \in Nat /\ Pays[p] \in Invoices
      /\ recorded' \in [Payments -> Nat]
    BY <1>0
<1>2. \A q \in Payments \ {p} : recorded'[q] = recorded[q]
    BY <1>1
<1>3. recorded'[p] = recorded[p] + 1
    BY <1>1
<1>4. \A q \in Payments : new[q] = recorded'[q] * Amount[q]
                          /\ Recordings[q] = recorded[q] * Amount[q]
    BY DEF Recordings
<1>5. \A q \in Payments \ {p} : new[q] = Recordings[q]
    BY <1>2, <1>4
<1>6. new[p] = Recordings[p] + Amount[p]
    <2>1. \A m, n \in Nat : (m + 1) * n = m * n + n
        OBVIOUS
    <2>2. recorded[p] \in Nat
        BY <1>1
    <2>3. (recorded[p] + 1) * Amount[p] = recorded[p] * Amount[p] + Amount[p]
        BY <1>1, <2>1, <2>2
    <2> QED
        BY <1>3, <1>4, <2>3
<1>7. \A i \in Invoices : /\ RecordedFor(i)' = SumFunctionOnSet(new, PaymentsFor(i))
                          /\ RecordedFor(i) = SumFunctionOnSet(Recordings, PaymentsFor(i))
    BY DEF RecordedFor, Recordings, PaymentsFor
<1> HIDE DEF new
<1>8. /\ \A q \in Payments : Recordings[q] \in Nat
      /\ \A i \in Invoices : IsFiniteSet(PaymentsFor(i)) /\ PaymentsFor(i) \subseteq Payments
    BY RecordingType DEF PaymentsFor
<1>9. ASSUME NEW i \in Invoices \ {Pays[p]} PROVE RecordedFor(i)' = RecordedFor(i)
    <2>1. p \notin PaymentsFor(i)
        BY DEF PaymentsFor
    <2>2. \A q \in PaymentsFor(i) : new[q] = Recordings[q]
        BY <1>5, <1>8, <2>1
    <2> QED
        BY <1>7, <1>8, <2>2, SumSameSummands
<1>10. RecordedFor(Pays[p])' = RecordedFor(Pays[p]) + Amount[p]
    <2> DEFINE S == PaymentsFor(Pays[p])
               R == S \ {p}
    <2>1. p \in S /\ IsFiniteSet(S) /\ S \subseteq Payments /\ IsFiniteSet(R)
        BY <1>1, <1>8, FS_Subset DEF PaymentsFor
    <2>2. \A q \in S : new[q] \in Nat /\ Recordings[q] \in Nat
        BY <1>1, <1>5, <1>6, <1>8, <2>1
    <2> HIDE DEF S
    <2>3. SumFunctionOnSet(new, S) = new[p] + SumFunctionOnSet(new, R)
        BY <2>1, <2>2, SumTakesAny
    <2>4. SumFunctionOnSet(Recordings, S) = Recordings[p] + SumFunctionOnSet(Recordings, R)
        BY <2>1, <2>2, SumTakesAny
    <2>5. SumFunctionOnSet(new, R) = SumFunctionOnSet(Recordings, R)
        BY <1>5, <2>1, SumSameSummands
    <2>6. SumFunctionOnSet(Recordings, R) \in Nat
        BY <2>1, <2>2, SumType
    <2>7. Recordings[p] \in Nat
        BY <1>8
    <2>8. /\ RecordedFor(Pays[p])' = SumFunctionOnSet(new, S)
          /\ RecordedFor(Pays[p]) = SumFunctionOnSet(Recordings, S)
        BY <1>1, <1>7 DEF S
    <2> QED
        BY <1>1, <1>6, <2>3, <2>4, <2>5, <2>6, <2>7, <2>8
<1> QED
    BY <1>9, <1>10

\* A step that records nothing, changes no paid amount and takes up no payment.
LEMMA BackedStays ==
    ASSUME Backed, Inv', UNCHANGED recorded,
           \A i \in Invoices : invoice'[i].paid = invoice[i].paid \/ invoice'[i].paid = 0,
           \A r \in Requests : Paying(r)' => Paying(r) /\ req'[r] = req[r]
    PROVE  Backed'
<1>1. \A i \in Invoices : RecordedFor(i)' = RecordedFor(i) /\ RecordedFor(i) \in Nat
    BY RecordingType DEF RecordedFor, Backed, Inv
<1>2. PaidIsRecorded'
    BY <1>1 DEF Backed, PaidIsRecorded
<1>3. Loaded'
    <2> SUFFICES ASSUME NEW r \in Requests, NEW i \in Invoices,
                        Paying(r)', req'[r].inv = i
                 PROVE  /\ i = Pays[req'[r].pay]
                        /\ req'[r].pc = "loaded" => req'[r].seen.paid <= RecordedFor(i)'
                        /\ req'[r].pc = "flushed" =>
                               req'[r].seen.paid <= RecordedFor(i)' + Amount[req'[r].pay]
        BY DEF Loaded
    <2>1. Paying(r) /\ req'[r] = req[r]
        OBVIOUS
    <2> QED
        BY <1>1, <2>1 DEF Backed, Loaded
<1> QED
    BY <1>2, <1>3 DEF Backed

\* The commits that write one invoice, and leave what is paid.
LEMMA CommitsBacked ==
    ASSUME Backed, Inv', NEW r \in Requests,
           \/ IssueCommit(r) \/ SendCommit(r) \/ CancelCommit(r)
           \/ UpdateCommit(r) \/ DeleteCommit(r)
    PROVE  Backed'
<1>1. /\ Finish(r) /\ req[r].inv \in Invoices /\ UNCHANGED recorded
    BY DEF IssueCommit, SendCommit, CancelCommit, UpdateCommit, DeleteCommit, Committing,
           Backed, Inv, Holding
<1> DEFINE seen == req[r].seen
           old == invoice[req[r].inv]
<1>2. seen \in Invoice /\ old \in Invoice
    BY <1>1 DEF Backed, Inv, TypeOK, Request
<1>3. PICK new \in Invoice : Write(r, new) /\ new.paid = seen.paid
    <2> HIDE DEF seen
    <2>1. /\ \A st \in Status : LET new == [seen EXCEPT !.status = st]
                               IN  new \in Invoice /\ new.paid = seen.paid
          /\ \A t \in Totals : LET new == [seen EXCEPT !.total = t]
                              IN  new \in Invoice /\ new.paid = seen.paid
          /\ LET new == [seen EXCEPT !.deleted = TRUE]
             IN  new \in Invoice /\ new.paid = seen.paid
        BY <1>2 DEF Invoice
    <2>2. \/ \E st \in Status : Write(r, [seen EXCEPT !.status = st])
          \/ \E t \in Totals : Write(r, [seen EXCEPT !.total = t])
          \/ Write(r, [seen EXCEPT !.deleted = TRUE])
        BY DEF IssueCommit, SendCommit, CancelCommit, UpdateCommit, DeleteCommit, Status, seen
    <2> QED
        BY <2>1, <2>2
<1> DEFINE m == Merge(old, seen, new)
<1>4. m.paid = old.paid
    BY <1>2, <1>3, MergeType
<1>5. invoice' = [invoice EXCEPT ![req[r].inv] = m]
    BY <1>3 DEF Write
<1> HIDE DEF m
<1>6. \A i \in Invoices : invoice'[i].paid = invoice[i].paid
    BY <1>4, <1>5 DEF Backed, Inv, TypeOK
<1> QED
    BY <1>1, <1>6, FinishedPays, BackedStays DEF Backed, Inv

LEMMA OverdueBacked ==
    ASSUME Backed, Inv', NEW r \in Requests, OverdueCommit(r)
    PROVE  Backed'
<1>1. \A i \in Invoices : invoice'[i].paid = invoice[i].paid
    BY DEF OverdueCommit, Backed, Inv, TypeOK, Invoice
<1>2. Finish(r) /\ UNCHANGED recorded
    BY DEF OverdueCommit
<1> QED
    BY <1>1, <1>2, FinishedPays, BackedStays DEF Backed, Inv

\* What waits to be committed is what was loaded and the payment.
LEMMA PayFlushBacked ==
    ASSUME Backed, Inv', NEW r \in Requests, PayFlush(r)
    PROVE  Backed'
<1> DEFINE row == Merge(invoice[req[r].inv], req[r].seen, Paid(req[r]))
           c == IF Credits(row) THEN credit[row.sub] ELSE 0
           q == [req[r] EXCEPT !.pc = "flushed", !.seen = row, !.credit = c]
<1>1. /\ req[r].op = "pay" /\ req[r].pc = "loaded" /\ UNCHANGED <<invoice, recorded>>
      /\ req[r].pay \in Payments /\ req[r].inv \in Invoices
    BY DEF PayFlush, Committing, Backed, Inv, Holding
<1>2. row.paid = req[r].seen.paid + Amount[req[r].pay]
    BY <1>1, PayTypes DEF Backed, NewPaid
<1>3. /\ req[r].inv = Pays[req[r].pay]
      /\ req[r].seen.paid <= RecordedFor(req[r].inv)
    BY <1>1 DEF Backed, Loaded, Paying
<1>4. req' = [req EXCEPT ![r] = q]
    BY DEF PayFlush
<1>5. q.pc = "flushed" /\ q.seen = row /\ q.inv = req[r].inv /\ q.pay = req[r].pay
    BY DEF Backed, Inv, TypeOK, Request
<1>6. /\ req[r].seen.paid \in Nat /\ Amount[req[r].pay] \in Nat
      /\ \A i \in Invoices : RecordedFor(i) \in Nat
    BY <1>1, InvoicesAssumption, RecordingType
       DEF Backed, Inv, TypeOK, Request, Invoice
<1> HIDE DEF q, row
<1>7. \A r2 \in Requests : req'[r2] = IF r2 = r THEN q ELSE req[r2]
    BY <1>4 DEF Backed, Inv, TypeOK
<1>8. \A i \in Invoices : RecordedFor(i)' = RecordedFor(i)
    BY <1>1 DEF RecordedFor
<1>9. Loaded'
    <2> SUFFICES ASSUME NEW r2 \in Requests, NEW i \in Invoices,
                        Paying(r2)', req'[r2].inv = i
                 PROVE  /\ i = Pays[req'[r2].pay]
                        /\ req'[r2].pc = "loaded" => req'[r2].seen.paid <= RecordedFor(i)'
                        /\ req'[r2].pc = "flushed" =>
                               req'[r2].seen.paid <= RecordedFor(i)' + Amount[req'[r2].pay]
        BY DEF Loaded
    <2>1. CASE r2 = r
        BY <2>1, <1>2, <1>3, <1>5, <1>6, <1>7, <1>8
    <2>2. CASE r2 # r
        BY <2>2, <1>7, <1>8 DEF Paying, Backed, Loaded
    <2> QED
        BY <2>1, <2>2
<1>10. PaidIsRecorded'
    BY <1>1, <1>8 DEF Backed, PaidIsRecorded
<1> QED
    BY <1>9, <1>10 DEF Backed

\* The payment that is committed is recorded by then.
LEMMA PayCommitBacked ==
    ASSUME Backed, Inv', NEW r \in Requests, PayCommit(r)
    PROVE  Backed'
<1>1. /\ req[r].op = "pay" /\ req[r].pc = "flushed"
      /\ req[r].inv \in Invoices /\ req[r].pay \in Payments
    BY DEF PayCommit, Backed, Inv, Holding
<1>2. PICK p \in Payments, i \in Invoices : p = req[r].pay /\ i = req[r].inv
    BY <1>1
<1>3. /\ i = Pays[p] /\ req[r].seen.paid <= RecordedFor(i) + Amount[p]
    BY <1>1, <1>2 DEF Backed, Loaded, Paying
<1>4. recorded' = [recorded EXCEPT ![p] = @ + 1]
    BY <1>2 DEF PayCommit
<1>5. /\ RecordedFor(i)' = RecordedFor(i) + Amount[p]
      /\ \A j \in Invoices \ {i} : RecordedFor(j)' = RecordedFor(j)
    BY <1>3, <1>4, RecordingGrows DEF Backed, Inv
<1>6. /\ Amount[p] \in Nat /\ \A j \in Invoices : RecordedFor(j) \in Nat
      /\ \A r2 \in Requests : req[r2].seen.paid \in Nat
      /\ \A r2 \in Requests : req[r2].pay \in Payments => Amount[req[r2].pay] \in Nat
    BY InvoicesAssumption, RecordingType DEF Backed, Inv, TypeOK, Request, Invoice
<1>7. \A j \in Invoices : RecordedFor(j) <= RecordedFor(j)'
    BY <1>5, <1>6
<1>8. \A j \in Invoices : invoice'[j] = IF j = i THEN req[r].seen ELSE invoice[j]
    BY <1>2 DEF PayCommit, Backed, Inv, TypeOK
<1>9. \A j \in Invoices : invoice[j].paid \in Nat /\ invoice[j].paid <= RecordedFor(j)
    BY DEF Backed, Inv, TypeOK, Invoice, PaidIsRecorded
<1>10. PaidIsRecorded'
    <2> SUFFICES ASSUME NEW j \in Invoices PROVE invoice'[j].paid <= RecordedFor(j)'
        BY DEF PaidIsRecorded
    <2>0. RecordedFor(j)' \in Nat
        BY <1>5, <1>6
    <2>1. CASE j = i
        BY <2>1, <1>3, <1>5, <1>8
    <2>2. CASE j # i
        BY <2>2, <1>5, <1>8, <1>9
    <2> QED
        BY <2>1, <2>2
<1>11. /\ \A r2 \in Requests \ {r} : req'[r2] = req[r2]
       /\ req'[r].pc = "answer"
    BY DEF PayCommit, Backed, Inv, TypeOK, Request
<1>12. Loaded'
    <2> SUFFICES ASSUME NEW r2 \in Requests, NEW j \in Invoices,
                        Paying(r2)', req'[r2].inv = j
                 PROVE  /\ j = Pays[req'[r2].pay]
                        /\ req'[r2].pc = "loaded" => req'[r2].seen.paid <= RecordedFor(j)'
                        /\ req'[r2].pc = "flushed" =>
                               req'[r2].seen.paid <= RecordedFor(j)' + Amount[req'[r2].pay]
        BY DEF Loaded
    <2>1. r2 # r /\ req'[r2] = req[r2] /\ Paying(r2)
        BY <1>11 DEF Paying
    <2>2. /\ j = Pays[req[r2].pay]
          /\ req[r2].pc = "loaded" => req[r2].seen.paid <= RecordedFor(j)
          /\ req[r2].pc = "flushed" =>
                 req[r2].seen.paid <= RecordedFor(j) + Amount[req[r2].pay]
        BY <2>1 DEF Backed, Loaded
    <2>3. req[r2].pay \in Payments
        BY <2>1 DEF Paying, Backed, Inv, Holding
    <2>4. /\ req[r2].seen.paid \in Nat /\ Amount[req[r2].pay] \in Nat
          /\ RecordedFor(j) \in Nat /\ RecordedFor(j)' \in Nat
          /\ RecordedFor(j) <= RecordedFor(j)'
        BY <1>5, <1>6, <1>7, <2>3
    <2>5. req[r2].pc = "loaded" => req[r2].seen.paid <= RecordedFor(j)'
        BY <2>2, <2>4
    <2>6. req[r2].pc = "flushed" =>
              req[r2].seen.paid <= RecordedFor(j)' + Amount[req[r2].pay]
        BY <2>2, <2>4
    <2> QED
        BY <2>1, <2>2, <2>5, <2>6
<1> QED
    BY <1>10, <1>12 DEF Backed

\* The steps that end a request without a write: its UPDATE is rolled back.
LEMMA EndsBacked ==
    ASSUME Backed, Inv', NEW r \in Requests,
           SendMails(r) \/ Answer(r) \/ NotifyFails(r) \/ RequestDies(r)
    PROVE  Backed'
<1>1. Finish(r) /\ UNCHANGED <<invoice, recorded>>
    BY DEF SendMails, Answer, NotifyFails, RequestDies
<1> QED
    BY <1>1, FinishedPays, BackedStays DEF Backed, Inv

\* A payment loads the invoice as it is.
LEMMA PayBacked ==
    ASSUME Backed, Inv', NEW r \in Requests, NEW p \in Payments, Pay(r, p)
    PROVE  Backed'
<1> DEFINE q == [IdleRequest EXCEPT !.op = "pay", !.inv = Pays[p], !.pay = p,
                                    !.pc = "loaded", !.seen = invoice[Pays[p]]]
<1>1. /\ q.pc = "loaded" /\ q.inv = Pays[p] /\ q.pay = p
      /\ q.seen = invoice[Pays[p]]
    BY DEF IdleRequest
<1>2. req' = [req EXCEPT ![r] = q] /\ UNCHANGED <<invoice, recorded>>
    BY DEF Pay
<1> HIDE DEF q
<1>3. \A r2 \in Requests : req'[r2] = IF r2 = r THEN q ELSE req[r2]
    BY <1>2 DEF Backed, Inv, TypeOK
<1>4. \A i \in Invoices : RecordedFor(i)' = RecordedFor(i)
    BY <1>2 DEF RecordedFor
<1>5. Loaded'
    <2> SUFFICES ASSUME NEW r2 \in Requests, NEW i \in Invoices,
                        Paying(r2)', req'[r2].inv = i
                 PROVE  /\ i = Pays[req'[r2].pay]
                        /\ req'[r2].pc = "loaded" => req'[r2].seen.paid <= RecordedFor(i)'
                        /\ req'[r2].pc = "flushed" =>
                               req'[r2].seen.paid <= RecordedFor(i)' + Amount[req'[r2].pay]
        BY DEF Loaded
    <2>1. CASE r2 = r
        BY <2>1, <1>1, <1>3, <1>4 DEF Backed, PaidIsRecorded
    <2>2. CASE r2 # r
        BY <2>2, <1>3, <1>4 DEF Paying, Backed, Loaded
    <2> QED
        BY <2>1, <2>2
<1>6. PaidIsRecorded'
    BY <1>2, <1>4 DEF Backed, PaidIsRecorded
<1> QED
    BY <1>5, <1>6 DEF Backed

\* Any other operation that is taken up loads no payment.
LEMMA LoadBacked ==
    ASSUME Backed, Inv', NEW r \in Requests, Serve(r), \A p \in Payments : ~Pay(r, p)
    PROVE  Backed'
<1>1. UNCHANGED <<invoice, recorded>>
    BY DEF Serve, Issue, Send, Cancel, Update, Delete, Load, Pay, UpdateOverdue
<1>2. PICK q : req' = [req EXCEPT ![r] = q] /\ q.op # "pay"
    BY LoadsNoPayment
<1>3. \A r2 \in Requests : req'[r2] = IF r2 = r THEN q ELSE req[r2]
    BY <1>2 DEF Backed, Inv, TypeOK
<1> QED
    BY <1>1, <1>2, <1>3, BackedStays DEF Paying

LEMMA CreateBacked ==
    ASSUME Backed, Inv', NEW i \in Invoices, Create(i)
    PROVE  Backed'
<1>1. PICK t \in Totals, s \in Subs \cup {NoSub} :
          invoice' = [invoice EXCEPT ![i] = [NoRow EXCEPT !.status = "DRAFT",
                                                          !.total = t, !.sub = s]]
    BY DEF Create
<1>2. ([NoRow EXCEPT !.status = "DRAFT", !.total = t, !.sub = s]).paid = 0
    BY DEF NoRow
<1>3. \A j \in Invoices : invoice'[j].paid = invoice[j].paid \/ invoice'[j].paid = 0
    BY <1>1, <1>2 DEF Backed, Inv, TypeOK
<1>4. UNCHANGED <<req, recorded>>
    BY DEF Create
<1> QED
    BY <1>3, <1>4, BackedStays DEF Paying

\* No invoice shows more as paid than was recorded for it, for any payments, edits,
\* failures and overlaps: what is rolled back leaves nothing behind.
THEOREM PaidWasRecorded == Spec => []PaidIsRecorded
<1>1. Init => Backed
    <2> SUFFICES ASSUME Init PROVE Backed
        OBVIOUS
    <2>1. Inv
        BY InvInductive
    <2>2. \A i \in Invoices : RecordedFor(i) \in Nat /\ invoice[i].paid = 0
        BY <2>1, RecordingType DEF Inv, Init, NoRow
    <2>3. \A r \in Requests : ~Paying(r)
        BY ConstantTypes DEF Init, Paying
    <2> QED
        BY <2>1, <2>2, <2>3 DEF Backed, PaidIsRecorded, Loaded
<1>2. Backed /\ [Next]_vars => Backed'
    <2> SUFFICES ASSUME Backed, [Next]_vars
                 PROVE  Backed'
        OBVIOUS
    <2>1. Inv'
        BY InvStep DEF Backed
    <2>2. ASSUME NEW r \in Requests, Continue(r) PROVE Backed'
        BY <2>1, <2>2, CommitsBacked, OverdueBacked, PayFlushBacked,
           PayCommitBacked, EndsBacked DEF Continue
    <2>3. ASSUME NEW r \in Requests, Serve(r) \/ RequestDies(r) PROVE Backed'
        BY <2>1, <2>3, PayBacked, LoadBacked, EndsBacked
    <2>4. CASE \E i \in Invoices : Create(i)
        BY <2>1, <2>4, CreateBacked
    <2>5. CASE (\E s \in Subs : Suspend(s)) \/ UNCHANGED vars
        <3>1. UNCHANGED <<invoice, req, recorded>>
            BY <2>5 DEF Suspend, vars
        <3> QED
            BY <2>1, <3>1, BackedStays DEF Paying
    <2> QED
        BY <2>2, <2>3, <2>4, <2>5 DEF Next
<1>3. Backed => PaidIsRecorded
    BY DEF Backed
<1> QED
    BY <1>1, <1>2, <1>3, PTL DEF Spec

-----------------------------------------------------------------------------
(***************************************************************************)
(* Requests served one after the other.  That a PAID invoice is paid in    *)
(* full is inductive with what the one request in flight holds: the        *)
(* invoice as it still is, and a payment that fits it.                     *)
(***************************************************************************)
OneAtATime == \A r, s \in Requests : r = s

Fresh ==
    \A r \in Requests :
        /\ req[r].pc = "loaded" /\ req[r].op # "update-overdue" =>
              req[r].seen = invoice[req[r].inv]
        /\ req[r].pc = "loaded" /\ req[r].op = "update" => req[r].seen.status # "PAID"
        /\ req[r].pc = "loaded" /\ req[r].op = "pay" => NewPaid(req[r]) <= req[r].seen.total
        /\ req[r].pc = "flushed" /\ req[r].seen.status = "PAID" =>
              req[r].seen.paid = req[r].seen.total

Settled == Inv /\ PaidInFull /\ Fresh

\* The one request comes to its end.
LEMMA FinishedFresh ==
    ASSUME OneAtATime, TypeOK, NEW r \in Requests, Finish(r)
    PROVE  Fresh'
<1>1. \A r2 \in Requests : req'[r2] = IdleRequest
    BY DEF OneAtATime, Finish, TypeOK
<1> QED
    BY <1>1, ConstantTypes DEF Fresh

\* An UPDATE over the invoice as it was loaded writes the new invoice.
LEMMA WriteFresh ==
    ASSUME TypeOK, NEW r \in Requests, req[r].inv \in Invoices,
           req[r].seen = invoice[req[r].inv], NEW new \in Invoice, Write(r, new)
    PROVE  \A i \in Invoices :
              /\ i # req[r].inv => invoice'[i] = invoice[i]
              /\ i = req[r].inv => /\ invoice'[i].status = new.status
                                   /\ invoice'[i].total = new.total
                                   /\ invoice'[i].paid = new.paid
                                   /\ invoice'[i].sub = invoice[i].sub
<1> DEFINE i == req[r].inv
           m == Merge(invoice[i], req[r].seen, new)
<1>1. invoice[i] \in Invoice
    BY DEF TypeOK
<1>2. /\ m.status = new.status /\ m.total = new.total /\ m.paid = new.paid
      /\ m.sub = invoice[i].sub
    BY <1>1, MergeType
<1>3. invoice' = [invoice EXCEPT ![i] = m]
    BY DEF Write
<1> HIDE DEF m
<1>4. \A j \in Invoices : invoice'[j] = IF j = i THEN m ELSE invoice[j]
    BY <1>3 DEF TypeOK
<1> QED
    BY <1>2, <1>4

\* The commits that write one invoice: none makes it PAID, and an edit finds
\* it unpaid.
LEMMA CommitsSettled ==
    ASSUME OneAtATime, Settled, Inv', NEW r \in Requests,
           \/ IssueCommit(r) \/ SendCommit(r) \/ CancelCommit(r)
           \/ UpdateCommit(r) \/ DeleteCommit(r)
    PROVE  Settled'
<1> DEFINE seen == req[r].seen
           i == req[r].inv
<1>1. /\ Finish(r) /\ i \in Invoices /\ seen = invoice[i] /\ seen \in Invoice
      /\ UpdateCommit(r) => seen.status # "PAID"
    BY DEF IssueCommit, SendCommit, CancelCommit, UpdateCommit, DeleteCommit, Committing,
           Settled, Inv, TypeOK, Holding, Fresh
<1>2. PICK new \in Invoice : /\ Write(r, new)
                             /\ new.status = "PAID" => new.paid = new.total
    <2>1. seen.status = "PAID" => seen.paid = seen.total
        BY <1>1 DEF Settled, PaidInFull
    <2> HIDE DEF seen
    <2>2. \A st \in Status \ {"PAID"} : LET new == [seen EXCEPT !.status = st]
                                        IN  new \in Invoice /\ new.status # "PAID"
        BY <1>1 DEF Invoice
    <2>3. \A t \in Totals : LET new == [seen EXCEPT !.total = t]
                            IN  new \in Invoice /\ new.status = seen.status
        BY <1>1 DEF Invoice
    <2>4. LET new == [seen EXCEPT !.deleted = TRUE]
          IN  /\ new \in Invoice /\ new.status = seen.status
              /\ new.paid = seen.paid /\ new.total = seen.total
        BY <1>1 DEF Invoice
    <2>5. \/ \E st \in Status \ {"PAID"} : Write(r, [seen EXCEPT !.status = st])
          \/ UpdateCommit(r) /\ \E t \in Totals : Write(r, [seen EXCEPT !.total = t])
          \/ Write(r, [seen EXCEPT !.deleted = TRUE])
        BY DEF IssueCommit, SendCommit, CancelCommit, UpdateCommit, DeleteCommit, Status, seen
    <2> QED
        BY <1>1, <2>1, <2>2, <2>3, <2>4, <2>5
<1>3. PaidInFull'
    BY <1>1, <1>2, WriteFresh DEF Settled, Inv, PaidInFull
<1> QED
    BY <1>1, <1>3, FinishedFresh DEF Settled, Inv

LEMMA OverdueSettled ==
    ASSUME OneAtATime, Settled, Inv', NEW r \in Requests, OverdueCommit(r)
    PROVE  Settled'
<1>1. \A i \in Invoices : invoice'[i] = invoice[i] \/ invoice'[i].status = "OVERDUE"
    BY DEF OverdueCommit, Settled, Inv, TypeOK, Invoice
<1>2. Finish(r)
    BY DEF OverdueCommit
<1> QED
    BY <1>1, <1>2, FinishedFresh DEF Settled, Inv, PaidInFull

\* A payment makes the invoice PAID when it brings the paid amount to the total.
LEMMA PayFlushSettled ==
    ASSUME OneAtATime, Settled, Inv', NEW r \in Requests, PayFlush(r)
    PROVE  Settled'
<1> DEFINE q == req[r]
           row == Merge(invoice[q.inv], q.seen, Paid(q))
           c == IF Credits(row) THEN credit[row.sub] ELSE 0
           q2 == [q EXCEPT !.pc = "flushed", !.seen = row, !.credit = c]
<1>1. q.op = "pay" /\ q.pc = "loaded" /\ UNCHANGED invoice
    BY DEF PayFlush, Committing
<1>2. /\ q.inv \in Invoices /\ invoice[q.inv] \in Invoice /\ q.seen = invoice[q.inv]
      /\ NewPaid(q) <= q.seen.total
    BY <1>1 DEF Settled, Inv, TypeOK, Holding, Fresh
<1>3. row.total = q.seen.total /\ row.paid = NewPaid(q)
    BY <1>1, <1>2, PayTypes DEF Settled
<1>4. row.status = "PAID" => NewPaid(q) >= q.seen.total
    <2>1. row.status = Paid(q).status
        BY <1>2 DEF Merge, Invoice
    <2>2. Paid(q).status = IF NewPaid(q) >= q.seen.total THEN "PAID" ELSE "PARTIALLY_PAID"
        BY <1>2 DEF Paid, Invoice
    <2> QED
        BY <2>1, <2>2
<1>5. NewPaid(q) \in Nat /\ q.seen.total \in Nat
    <2>1. Amount[q.pay] \in Nat
        BY <1>1, InvoicesAssumption DEF Settled, Inv, Holding
    <2>2. q.seen.paid \in Nat
        BY <1>2 DEF Invoice
    <2> QED
        BY <1>2, <2>1, <2>2, TotalType DEF NewPaid
<1>6. row.status = "PAID" => row.paid = row.total
    BY <1>2, <1>3, <1>4, <1>5
<1>7. req' = [req EXCEPT ![r] = q2]
    BY DEF PayFlush
<1>8. q2.pc = "flushed" /\ q2.seen = row
    BY DEF Settled, Inv, TypeOK, Request
<1> HIDE DEF q2, row
<1>9. \A s \in Requests : req'[s] = q2
    BY <1>7 DEF OneAtATime, Settled, Inv, TypeOK
<1>10. Fresh'
    BY <1>6, <1>8, <1>9 DEF Fresh
<1> QED
    BY <1>1, <1>10 DEF Settled, PaidInFull

LEMMA PayCommitSettled ==
    ASSUME OneAtATime, Settled, Inv', NEW r \in Requests, PayCommit(r)
    PROVE  Settled'
<1>1. /\ req[r].pc = "flushed"
      /\ req[r].seen.status = "PAID" => req[r].seen.paid = req[r].seen.total
    BY DEF PayCommit, Settled, Fresh
<1>2. \A i \in Invoices : invoice'[i] = IF i = req[r].inv THEN req[r].seen ELSE invoice[i]
    BY DEF PayCommit, Settled, Inv, TypeOK
<1>3. PaidInFull'
    BY <1>1, <1>2 DEF Settled, PaidInFull
<1>4. \A s \in Requests : req'[s].pc = "answer"
    BY DEF PayCommit, OneAtATime, Settled, Inv, TypeOK, Request
<1> QED
    BY <1>3, <1>4 DEF Settled, Fresh

\* The steps that end a request without a write.
LEMMA EndsSettled ==
    ASSUME OneAtATime, Settled, Inv', NEW r \in Requests,
           SendMails(r) \/ Answer(r) \/ NotifyFails(r) \/ RequestDies(r)
    PROVE  Settled'
<1>1. Finish(r) /\ UNCHANGED invoice
    BY DEF SendMails, Answer, NotifyFails, RequestDies
<1> QED
    BY <1>1, FinishedFresh DEF Settled, Inv, PaidInFull

\* A request takes up an operation with the invoice that it checked.
LEMMA ServeSettled ==
    ASSUME OneAtATime, Settled, Inv', NEW r \in Requests, Serve(r)
    PROVE  Settled'
<1>1. UNCHANGED invoice
    BY DEF Serve, Issue, Send, Cancel, Update, Delete, Load, Pay, UpdateOverdue
<1>2. PICK q : /\ req' = [req EXCEPT ![r] = q]
               /\ q.pc = "loaded"
               /\ q.op # "update-overdue" => q.seen = invoice[q.inv]
               /\ q.op = "update" => q.seen.status # "PAID"
               /\ q.op = "pay" => NewPaid(q) <= q.seen.total
    <2>1. CASE \E p \in Payments : Pay(r, p)
        <3>1. PICK p \in Payments : Pay(r, p)
            BY <2>1
        <3> DEFINE q == [IdleRequest EXCEPT !.op = "pay", !.inv = Pays[p], !.pay = p,
                                            !.pc = "loaded", !.seen = invoice[Pays[p]]]
        <3>2. /\ q.op = "pay" /\ q.pc = "loaded" /\ q.inv = Pays[p] /\ q.pay = p
              /\ q.seen = invoice[Pays[p]]
            BY DEF IdleRequest
        <3>3. req' = [req EXCEPT ![r] = q]
            BY <3>1 DEF Pay
        <3>4. invoice[Pays[p]].paid + Amount[p] <= invoice[Pays[p]].total
            BY <3>1 DEF Pay, Fits
        <3> HIDE DEF q
        <3> QED
            BY <3>2, <3>3, <3>4 DEF NewPaid
    <2>2. CASE UpdateOverdue(r)
        <3>1. PICK late : req' = [req EXCEPT ![r] = [IdleRequest EXCEPT
                              !.op = "update-overdue", !.pc = "loaded", !.late = late]]
            BY <2>2 DEF UpdateOverdue
        <3> DEFINE q == [IdleRequest EXCEPT !.op = "update-overdue", !.pc = "loaded",
                                            !.late = late]
        <3>2. q.op = "update-overdue" /\ q.pc = "loaded"
            BY DEF IdleRequest
        <3> QED
            BY <3>1, <3>2
    <2>3. CASE \E i \in Invoices : \/ Issue(r, i) \/ Send(r, i) \/ Cancel(r, i)
                                   \/ Update(r, i) \/ Delete(r, i)
        <3>1. PICK i \in Invoices, op \in {"issue", "send", "cancel", "update", "delete"} :
                  Load(r, op, i) /\ (op = "update" => invoice[i].status # "PAID")
            BY <2>3 DEF Issue, Send, Cancel, Update, Delete
        <3> DEFINE q == [IdleRequest EXCEPT !.op = op, !.inv = i, !.pc = "loaded",
                                            !.seen = invoice[i]]
        <3>2. q.op = op /\ q.inv = i /\ q.pc = "loaded" /\ q.seen = invoice[i]
            BY DEF IdleRequest
        <3>3. req' = [req EXCEPT ![r] = q]
            BY <3>1 DEF Load
        <3> HIDE DEF q
        <3> QED
            BY <3>1, <3>2, <3>3
    <2> QED
        BY <2>1, <2>2, <2>3 DEF Serve
<1>3. \A s \in Requests : req'[s] = q
    BY <1>2 DEF OneAtATime, Settled, Inv, TypeOK
<1>4. Fresh'
    <2>1. NewPaid(q)' = NewPaid(q)
        BY DEF NewPaid
    <2>2. \A s \in Requests : NewPaid(req[s])' = NewPaid(q)
        BY <1>3 DEF NewPaid
    <2> QED
        BY <1>1, <1>2, <1>3, <2>2 DEF Fresh
<1> QED
    BY <1>1, <1>4 DEF Settled, PaidInFull

\* A new invoice is not PAID, and no request holds it.
LEMMA CreateSettled ==
    ASSUME Settled, Inv', NEW i \in Invoices, Create(i)
    PROVE  Settled'
<1>1. PICK t \in Totals, s \in Subs \cup {NoSub} :
          invoice' = [invoice EXCEPT ![i] = [NoRow EXCEPT !.status = "DRAFT",
                                                          !.total = t, !.sub = s]]
    BY DEF Create
<1>2. \A j \in Invoices : IF j = i THEN invoice'[j].status = "DRAFT"
                          ELSE invoice'[j] = invoice[j]
    BY <1>1 DEF Settled, Inv, TypeOK, NoRow
<1>3. PaidInFull'
    BY <1>2 DEF Settled, PaidInFull
<1>4. \A r \in Requests :
          req[r].pc = "loaded" /\ req[r].op # "update-overdue" =>
              invoice'[req[r].inv] = invoice[req[r].inv]
    BY <1>2 DEF Create, Settled, Inv, Holding
<1>5. Fresh'
    BY <1>4 DEF Create, Settled, Fresh, NewPaid
<1> QED
    BY <1>3, <1>5 DEF Settled

LEMMA SettledNext ==
    ASSUME OneAtATime, Settled, [Next]_vars
    PROVE  Settled'
<1>1. Inv'
    BY InvStep DEF Settled
<1>2. ASSUME NEW r \in Requests, Continue(r) PROVE Settled'
    BY <1>1, <1>2, CommitsSettled, OverdueSettled, PayFlushSettled,
       PayCommitSettled, EndsSettled DEF Continue
<1>3. ASSUME NEW r \in Requests, Serve(r) \/ RequestDies(r) PROVE Settled'
    BY <1>1, <1>3, ServeSettled, EndsSettled
<1>4. CASE \E i \in Invoices : Create(i)
    BY <1>1, <1>4, CreateSettled
<1>5. CASE (\E s \in Subs : Suspend(s)) \/ UNCHANGED vars
    <2>1. UNCHANGED <<invoice, req>>
        BY <1>5 DEF Suspend, vars
    <2> QED
        BY <1>1, <2>1 DEF Settled, PaidInFull, Fresh, NewPaid
<1> QED
    BY <1>2, <1>3, <1>4, <1>5 DEF Next

\* With one request at a time, an invoice is PAID only when it is paid in full,
\* whatever is edited, unanswered, repeated, lost or cancelled.
THEOREM PaidInFullInTurn ==
    ASSUME OneAtATime
    PROVE  Spec => []PaidInFull
<1>1. Init => Settled
    BY InvInductive, ConstantTypes
       DEF Init, Settled, PaidInFull, Fresh, NoRow, IdleRequest
<1>2. Settled /\ [Next]_vars => Settled'
    BY SettledNext
<1>3. Settled => PaidInFull
    BY DEF Settled
<1> QED
    BY <1>1, <1>2, <1>3, PTL DEF Spec

-----------------------------------------------------------------------------
(***************************************************************************)
(* The refinement: with one request at a time, every step is a step of the *)
(* ledger or none.  The commits need to know what the request was checked  *)
(* for, and a payment that waits to commit what it will have added.        *)
(***************************************************************************)
OpenStatus == {"ISSUED", "SENT", "PARTIALLY_PAID", "OVERDUE"}

Checked(q) ==
    /\ q.op = "issue" => q.seen.status = "DRAFT"
    /\ q.op = "send" => q.seen.status \in {"DRAFT", "ISSUED"}
    /\ q.op = "cancel" => q.seen.status # "PAID"
    /\ q.op = "update" => q.seen.status \notin {"PAID", "CANCELLED"}
    /\ q.op = "pay" => q.seen.status \in OpenStatus /\ ~q.seen.deleted
    /\ q.op = "update-overdue" => \A i \in q.late : invoice[i].status \in OpenStatus

Flushed(q) ==
    LET old == invoice[q.inv] IN
    /\ old.status \in OpenStatus
    /\ ~q.seen.deleted /\ q.seen.sub = old.sub /\ q.seen.total = old.total
    /\ q.seen.paid = old.paid + Amount[q.pay]
    /\ q.seen.paid <= old.total
    /\ q.seen.status = IF q.seen.paid = old.total THEN "PAID" ELSE "PARTIALLY_PAID"
    /\ q.seen.paid = old.total /\ old.sub # NoSub => q.credit = credit[old.sub]

InTurn ==
    /\ Settled
    /\ \A r \in Requests : /\ req[r].pc = "loaded" => Checked(req[r])
                           /\ req[r].pc = "flushed" => Flushed(req[r])

\* No request is loaded or flushed any more.
LEMMA InTurnRest ==
    ASSUME Settled', \A r \in Requests : req'[r].pc \in {"idle", "answer"}
    PROVE  InTurn'
BY DEF InTurn

LEMMA InTurnFinish ==
    ASSUME OneAtATime, TypeOK, Settled', NEW r \in Requests, Finish(r)
    PROVE  InTurn'
<1>1. \A s \in Requests : req'[s].pc = "idle"
    BY ConstantTypes DEF OneAtATime, Finish, TypeOK
<1> QED
    BY <1>1, InTurnRest

LEMMA InTurnServe ==
    ASSUME OneAtATime, InTurn, Settled', NEW r \in Requests, Serve(r)
    PROVE  InTurn'
<1>1. UNCHANGED invoice
    BY DEF Serve, Issue, Send, Cancel, Update, Delete, Load, Pay, UpdateOverdue
<1>2. PICK q : req' = [req EXCEPT ![r] = q] /\ q.pc = "loaded" /\ Checked(q)
    <2>1. CASE \E p \in Payments : Pay(r, p)
        <3>1. PICK p \in Payments : Pay(r, p)
            BY <2>1
        <3> DEFINE q == [IdleRequest EXCEPT !.op = "pay", !.inv = Pays[p], !.pay = p,
                                            !.pc = "loaded", !.seen = invoice[Pays[p]]]
        <3>2. q.op = "pay" /\ q.pc = "loaded" /\ q.seen = invoice[Pays[p]]
            BY DEF IdleRequest
        <3>3. req' = [req EXCEPT ![r] = q] /\ Payable(Pays[p]) /\ Fits(Pays[p], Amount[p])
            BY <3>1 DEF Pay
        <3>4. Pays[p] \in Invoices /\ Amount[p] \in Nat \ {0}
            BY InvoicesAssumption
        <3>5. invoice[Pays[p]].status \in Status /\ invoice[Pays[p]].paid \in Nat
              /\ invoice[Pays[p]].total \in Nat
            BY <3>4, TotalType DEF InTurn, Settled, Inv, TypeOK, Invoice
        <3>6. invoice[Pays[p]].status # "PAID"
            BY <3>3, <3>4, <3>5 DEF Fits, InTurn, Settled, PaidInFull
        <3>7. invoice[Pays[p]].status \in OpenStatus /\ ~invoice[Pays[p]].deleted
            BY <3>3, <3>5, <3>6 DEF Payable, Status, OpenStatus
        <3> HIDE DEF q
        <3> QED
            BY <3>2, <3>3, <3>7 DEF Checked
    <2>2. CASE UpdateOverdue(r)
        <3>1. PICK late : /\ req' = [req EXCEPT ![r] = [IdleRequest EXCEPT
                                 !.op = "update-overdue", !.pc = "loaded", !.late = late]]
                          /\ \A i \in late : invoice[i].status \in OpenStatus
            BY <2>2 DEF UpdateOverdue, OpenStatus
        <3> DEFINE q == [IdleRequest EXCEPT !.op = "update-overdue", !.pc = "loaded",
                                            !.late = late]
        <3>2. q.op = "update-overdue" /\ q.pc = "loaded" /\ q.late = late
            BY DEF IdleRequest
        <3> HIDE DEF q
        <3>3. Checked(q)
            BY <3>1, <3>2 DEF Checked
        <3> QED
            BY <3>1, <3>2, <3>3 DEF q
    <2>3. CASE \E i \in Invoices : \/ Issue(r, i) \/ Send(r, i) \/ Cancel(r, i)
                                   \/ Update(r, i) \/ Delete(r, i)
        <3>1. PICK i \in Invoices, op \in {"issue", "send", "cancel", "update", "delete"} :
                  /\ Load(r, op, i)
                  /\ op = "issue" => invoice[i].status = "DRAFT"
                  /\ op = "send" => invoice[i].status \in {"DRAFT", "ISSUED"}
                  /\ op = "cancel" => invoice[i].status # "PAID"
                  /\ op = "update" => invoice[i].status \notin {"PAID", "CANCELLED"}
            BY <2>3 DEF Issue, Send, Cancel, Update, Delete
        <3> DEFINE q == [IdleRequest EXCEPT !.op = op, !.inv = i, !.pc = "loaded",
                                            !.seen = invoice[i]]
        <3>2. q.op = op /\ q.pc = "loaded" /\ q.seen = invoice[i]
            BY DEF IdleRequest
        <3>3. req' = [req EXCEPT ![r] = q]
            BY <3>1 DEF Load
        <3> HIDE DEF q
        <3> QED
            BY <3>1, <3>2, <3>3 DEF Checked
    <2> QED
        BY <2>1, <2>2, <2>3 DEF Serve
<1>3. \A s \in Requests : req'[s] = q
    BY <1>2 DEF OneAtATime, InTurn, Settled, Inv, TypeOK
<1>4. \A s \in Requests : req'[s].pc = "loaded" /\ Checked(req[s])'
    BY <1>1, <1>2, <1>3 DEF Checked
<1> QED
    BY <1>4 DEF InTurn

\* What a payment will commit is what it was checked for, plus its amount.
LEMMA InTurnPayFlush ==
    ASSUME OneAtATime, InTurn, Settled', NEW r \in Requests, PayFlush(r)
    PROVE  InTurn'
<1> DEFINE q == req[r]
           old == invoice[q.inv]
           row == Merge(old, q.seen, Paid(q))
           c == IF Credits(row) THEN credit[row.sub] ELSE 0
           q2 == [q EXCEPT !.pc = "flushed", !.seen = row, !.credit = c]
<1>1. q.op = "pay" /\ q.pc = "loaded" /\ UNCHANGED <<invoice, credit>>
    BY DEF PayFlush, Committing
<1>2. /\ q.inv \in Invoices /\ old \in Invoice /\ q.seen = old
      /\ NewPaid(q) <= old.total /\ old.status \in OpenStatus /\ ~old.deleted
    BY <1>1 DEF InTurn, Settled, Inv, TypeOK, Holding, Fresh, Checked
<1>3. Amount[q.pay] \in Nat /\ old.paid \in Nat /\ old.total \in Nat
    <2>1. q.pay \in Payments
        BY <1>1 DEF InTurn, Settled, Inv, Holding
    <2> QED
        BY <1>2, <2>1, InvoicesAssumption, TotalType DEF Invoice
<1>4. row.total = old.total /\ row.paid = NewPaid(q) /\ NewPaid(q) = old.paid + Amount[q.pay]
    BY <1>1, <1>2, PayTypes DEF InTurn, Settled, NewPaid
<1>5. row.sub = old.sub /\ ~row.deleted
      /\ row.status = IF NewPaid(q) >= old.total THEN "PAID" ELSE "PARTIALLY_PAID"
    <2>1. /\ Paid(q).status = IF NewPaid(q) >= old.total THEN "PAID" ELSE "PARTIALLY_PAID"
          /\ Paid(q).deleted = old.deleted
        BY <1>2 DEF Paid, Invoice
    <2> QED
        BY <1>2, <2>1 DEF Merge, Invoice
<1>6. row.status = IF row.paid = old.total THEN "PAID" ELSE "PARTIALLY_PAID"
    BY <1>2, <1>3, <1>4, <1>5
<1>7. row.paid = old.total /\ old.sub # NoSub => c = credit[old.sub]
    BY <1>3, <1>4, <1>5 DEF Credits, Triggers
<1>8. q2.pc = "flushed" /\ q2.seen = row /\ q2.credit = c /\ q2.inv = q.inv /\ q2.pay = q.pay
    BY DEF InTurn, Settled, Inv, TypeOK, Request
<1>9. req' = [req EXCEPT ![r] = q2]
    BY DEF PayFlush
<1> HIDE DEF row, c
<1>10. Flushed(q2)
    BY <1>2, <1>4, <1>5, <1>6, <1>7, <1>8 DEF Flushed
<1> HIDE DEF q2
<1>11. \A s \in Requests : req'[s] = q2
    BY <1>9 DEF OneAtATime, InTurn, Settled, Inv, TypeOK
<1>12. \A s \in Requests : Flushed(req[s])' /\ req'[s].pc = "flushed"
    BY <1>1, <1>8, <1>10, <1>11 DEF Flushed
<1> QED
    BY <1>12 DEF InTurn

LEMMA InTurnNext ==
    ASSUME OneAtATime, InTurn, Settled', [Next]_vars
    PROVE  InTurn'
<1>1. ASSUME NEW r \in Requests, Serve(r) PROVE InTurn'
    BY <1>1, InTurnServe
<1>2. ASSUME NEW r \in Requests, PayFlush(r) PROVE InTurn'
    BY <1>2, InTurnPayFlush
<1>3. ASSUME NEW r \in Requests, PayCommit(r) PROVE InTurn'
    <2>1. \A s \in Requests : req'[s].pc = "answer"
        BY <1>3 DEF PayCommit, OneAtATime, InTurn, Settled, Inv, TypeOK, Request
    <2> QED
        BY <2>1, InTurnRest
<1>4. ASSUME NEW r \in Requests, Finish(r) PROVE InTurn'
    BY <1>4, InTurnFinish DEF InTurn, Settled, Inv
<1>5. ASSUME NEW i \in Invoices, Create(i) PROVE InTurn'
    <2>1. /\ invoice[i].status = "NONE" /\ UNCHANGED <<credit, req>>
          /\ \A j \in Invoices \ {i} : invoice'[j] = invoice[j]
        BY <1>5 DEF Create, InTurn, Settled, Inv, TypeOK
    <2>2. ASSUME NEW r \in Requests, req[r].pc = "loaded" PROVE Checked(req[r])'
        <3>1. Checked(req[r]) /\ req[r].late \subseteq Invoices
            BY <2>2 DEF InTurn, Settled, Inv, TypeOK, Request
        <3> QED
            BY <2>1, <3>1 DEF Checked, OpenStatus
    <2>3. ASSUME NEW r \in Requests, req[r].pc = "flushed" PROVE Flushed(req[r])'
        <3>1. Flushed(req[r]) /\ req[r].inv \in Invoices /\ req[r].inv # i
            BY <2>1, <2>3 DEF InTurn, Flushed, OpenStatus, Settled, Inv, Holding
        <3> QED
            BY <2>1, <3>1 DEF Flushed
    <2> QED
        BY <2>1, <2>2, <2>3 DEF InTurn
<1>6. CASE (\E s \in Subs : Suspend(s)) \/ UNCHANGED vars
    <2>1. UNCHANGED <<invoice, credit, req>>
        BY <1>6 DEF Suspend, vars
    <2> QED
        BY <2>1 DEF InTurn, Checked, Flushed
<1> QED
    BY <1>1, <1>2, <1>3, <1>4, <1>5, <1>6
       DEF Next, Continue, IssueCommit, SendCommit, SendMails, CancelCommit, UpdateCommit,
           DeleteCommit, OverdueCommit, Answer, NotifyFails, RequestDies

-----------------------------------------------------------------------------
\* The mapping of the invoices.
Bills == [i \in Invoices |-> [phase |-> Phase[invoice[i].status],
                              total |-> invoice[i].total,
                              paid |-> invoice[i].paid,
                              sub |-> invoice[i].sub]]

LEMMA PhaseValues ==
    /\ Phase["NONE"] = "none" /\ Phase["DRAFT"] = "draft" /\ Phase["PAID"] = "settled"
    /\ Phase["CANCELLED"] = "void"
    /\ \A st \in OpenStatus : Phase[st] = "open"
BY DEF Phase, Status, OpenStatus

\* A step that the ledger does not see.
LEMMA LedgerStutters ==
    ASSUME \A i \in Invoices : /\ Phase[invoice'[i].status] = Phase[invoice[i].status]
                               /\ invoice'[i].total = invoice[i].total
                               /\ invoice'[i].paid = invoice[i].paid
                               /\ invoice'[i].sub = invoice[i].sub,
           UNCHANGED credit
    PROVE  UNCHANGED Ledger!ledgerVars
<1>1. UNCHANGED Bills
    BY DEF Bills
<1> QED
    BY <1>1 DEF Bills, Ledger!ledgerVars

LEMMA BillFields ==
    ASSUME NEW i \in Invoices
    PROVE  /\ Bills[i].phase = Phase[invoice[i].status]
           /\ Bills[i].total = invoice[i].total
           /\ Bills[i].paid = invoice[i].paid
           /\ Bills[i].sub = invoice[i].sub
BY DEF Bills

LEMMA BillFieldsNext ==
    ASSUME NEW i \in Invoices
    PROVE  /\ Bills'[i].phase = Phase[invoice'[i].status]
           /\ Bills'[i].total = invoice'[i].total
           /\ Bills'[i].paid = invoice'[i].paid
           /\ Bills'[i].sub = invoice'[i].sub
BY DEF Bills

\* A step that changes one invoice changes one bill: its phase, its total or
\* what is paid of it.
LEMMA PhaseChanges ==
    ASSUME NEW i \in Invoices, \A j \in Invoices \ {i} : invoice'[j] = invoice[j],
           NEW ph, ph = Phase[invoice'[i].status], invoice'[i].sub = invoice[i].sub,
           invoice'[i].total = invoice[i].total, invoice'[i].paid = invoice[i].paid
    PROVE  Bills' = [Bills EXCEPT ![i].phase = ph]
BY DEF Bills

LEMMA TotalChanges ==
    ASSUME NEW i \in Invoices, \A j \in Invoices \ {i} : invoice'[j] = invoice[j],
           NEW t, t = invoice'[i].total, invoice'[i].sub = invoice[i].sub,
           invoice'[i].status = invoice[i].status, invoice'[i].paid = invoice[i].paid
    PROVE  Bills' = [Bills EXCEPT ![i].total = t]
BY DEF Bills

LEMMA PaidChanges ==
    ASSUME NEW i \in Invoices, \A j \in Invoices \ {i} : invoice'[j] = invoice[j],
           NEW p, p = invoice'[i].paid, NEW ph, ph = Phase[invoice'[i].status],
           invoice'[i].sub = invoice[i].sub, invoice'[i].total = invoice[i].total
    PROVE  Bills' = [Bills EXCEPT ![i].paid = p, ![i].phase = ph]
BY DEF Bills

LEMMA PartPaid ==
    ASSUME NEW i \in Invoices, \A j \in Invoices \ {i} : invoice'[j] = invoice[j],
           NEW p, p = invoice'[i].paid,
           Phase[invoice'[i].status] = Phase[invoice[i].status],
           invoice'[i].sub = invoice[i].sub, invoice'[i].total = invoice[i].total
    PROVE  Bills' = [Bills EXCEPT ![i].paid = p]
BY DEF Bills

\* The commits of the routes that only open, void, edit or hide an invoice.
LEMMA CommitMaps ==
    ASSUME InTurn, NEW r \in Requests,
           \/ IssueCommit(r) \/ SendCommit(r) \/ CancelCommit(r)
           \/ UpdateCommit(r) \/ DeleteCommit(r)
    PROVE  [Ledger!Next]_Ledger!ledgerVars
<1> PICK i, seen : i = req[r].inv /\ seen = req[r].seen
    OBVIOUS
<1>1. /\ i \in Invoices /\ seen = invoice[i] /\ seen \in Invoice /\ Checked(req[r])
      /\ seen.status \in Status \ {"NONE"} /\ UNCHANGED credit
    <2>1. req[r].pc = "loaded" /\ req[r].op # "update-overdue" /\ UNCHANGED credit
        BY DEF IssueCommit, SendCommit, CancelCommit, UpdateCommit, DeleteCommit, Committing
    <2> QED
        BY <2>1 DEF InTurn, Settled, Inv, TypeOK, Holding, Fresh, Invoice
<1>2. ASSUME NEW new \in Invoice, Write(r, new)
      PROVE  /\ \A j \in Invoices \ {i} : invoice'[j] = invoice[j]
             /\ invoice'[i].status = new.status /\ invoice'[i].total = new.total
             /\ invoice'[i].paid = new.paid /\ invoice'[i].sub = invoice[i].sub
    <2>1. TypeOK /\ req[r].inv \in Invoices /\ req[r].seen = invoice[req[r].inv]
        BY <1>1 DEF InTurn, Settled, Inv
    <2>2. \A j \in Invoices : /\ j # i => invoice'[j] = invoice[j]
                              /\ j = i => /\ invoice'[j].status = new.status
                                          /\ invoice'[j].total = new.total
                                          /\ invoice'[j].paid = new.paid
                                          /\ invoice'[j].sub = invoice[j].sub
        BY <1>2, <2>1, WriteFresh
    <2> QED
        BY <1>1, <2>2
<1>3. \A st \in Status : LET new == [seen EXCEPT !.status = st]
                         IN  /\ new \in Invoice /\ new.status = st
                             /\ new.total = seen.total /\ new.paid = seen.paid
    BY <1>1 DEF Invoice
<1>4. \A t \in Totals : LET new == [seen EXCEPT !.total = t]
                        IN  /\ new \in Invoice /\ new.status = seen.status
                            /\ new.total = t /\ new.paid = seen.paid
    BY <1>1 DEF Invoice
<1>5. LET new == [seen EXCEPT !.deleted = TRUE]
      IN  /\ new \in Invoice /\ new.status = seen.status
          /\ new.total = seen.total /\ new.paid = seen.paid
    BY <1>1 DEF Invoice
<1>6. \A st \in Status \ {"NONE"} : Phase[st] \in {"draft", "open", "settled", "void"}
    BY PhaseValues DEF Status, OpenStatus
<1>7. CASE IssueCommit(r) \/ SendCommit(r)
    <2>1. PICK st \in {"ISSUED", "SENT"} : Write(r, [seen EXCEPT !.status = st])
        BY <1>1, <1>7 DEF IssueCommit, SendCommit
    <2>2. /\ \A j \in Invoices \ {i} : invoice'[j] = invoice[j]
          /\ invoice'[i].status = st /\ invoice'[i].total = invoice[i].total
          /\ invoice'[i].paid = invoice[i].paid /\ invoice'[i].sub = invoice[i].sub
        BY <1>1, <1>2, <1>3, <2>1 DEF Status
    <2>3. invoice[i].status \in {"DRAFT", "ISSUED"}
        BY <1>1, <1>7 DEF IssueCommit, SendCommit, Committing, Checked
    <2>4. Phase[invoice'[i].status] = "open"
        BY <2>2, PhaseValues DEF OpenStatus
    <2>5. CASE invoice[i].status = "DRAFT"
        <3>1. Bills[i].phase = "draft"
            BY <1>1, <2>5, BillFields, PhaseValues
        <3>2. Bills' = [Bills EXCEPT ![i].phase = "open"]
            BY <1>1, <2>2, <2>4, PhaseChanges
        <3>3. Ledger!Open(i)
            BY <1>1, <3>1, <3>2 DEF Ledger!Open, Bills
        <3> QED
            BY <1>1, <3>3 DEF Ledger!Next
    <2>6. CASE invoice[i].status = "ISSUED"
        BY <1>1, <2>2, <2>4, <2>6, LedgerStutters, PhaseValues DEF OpenStatus
    <2> QED
        BY <2>3, <2>5, <2>6
<1>8. CASE CancelCommit(r)
    <2>1. Write(r, [seen EXCEPT !.status = "CANCELLED"])
        BY <1>1, <1>8 DEF CancelCommit
    <2>2. /\ \A j \in Invoices \ {i} : invoice'[j] = invoice[j]
          /\ invoice'[i].status = "CANCELLED" /\ invoice'[i].total = invoice[i].total
          /\ invoice'[i].paid = invoice[i].paid /\ invoice'[i].sub = invoice[i].sub
        BY <1>1, <1>2, <1>3, <2>1 DEF Status
    <2>3. invoice[i].status # "PAID"
        BY <1>1, <1>8 DEF CancelCommit, Committing, Checked
    <2>4. CASE invoice[i].status = "CANCELLED"
        BY <1>1, <2>2, <2>4, LedgerStutters
    <2>5. CASE invoice[i].status # "CANCELLED"
        <3>1. Phase[invoice[i].status] \in {"draft", "open"}
            BY <1>1, <2>3, <2>5, PhaseValues DEF Status, OpenStatus
        <3>2. Bills[i].phase \in {"draft", "open"}
            BY <1>1, <3>1, BillFields
        <3>3. Bills' = [Bills EXCEPT ![i].phase = "void"]
            BY <1>1, <2>2, PhaseChanges, PhaseValues
        <3>4. Ledger!Void(i)
            BY <1>1, <3>2, <3>3 DEF Ledger!Void, Bills
        <3> QED
            BY <1>1, <3>4 DEF Ledger!Next
    <2> QED
        BY <2>4, <2>5
<1>9. CASE UpdateCommit(r)
    <2>1. PICK t \in Totals : Write(r, [seen EXCEPT !.total = t])
        BY <1>1, <1>9 DEF UpdateCommit
    <2>2. /\ \A j \in Invoices \ {i} : invoice'[j] = invoice[j]
          /\ invoice'[i].status = invoice[i].status /\ invoice'[i].total = t
          /\ invoice'[i].paid = invoice[i].paid /\ invoice'[i].sub = invoice[i].sub
        BY <1>1, <1>2, <1>4, <2>1
    <2>3. invoice[i].status \notin {"PAID", "CANCELLED"}
        BY <1>1, <1>9 DEF UpdateCommit, Committing, Checked
    <2>4. Phase[invoice[i].status] \in {"draft", "open"}
        BY <1>1, <2>3, PhaseValues DEF Status, OpenStatus
    <2>5. Bills[i].phase \in {"draft", "open"}
        BY <1>1, <2>4, BillFields
    <2>6. Bills' = [Bills EXCEPT ![i].total = t]
        BY <1>1, <2>2, TotalChanges
    <2>7. Ledger!Revise(i, t)
        BY <1>1, <2>5, <2>6 DEF Ledger!Revise, Bills
    <2> QED
        BY <1>1, <2>7 DEF Ledger!Next
<1>10. CASE DeleteCommit(r)
    <2>1. Write(r, [seen EXCEPT !.deleted = TRUE])
        BY <1>1, <1>10 DEF DeleteCommit
    <2>2. /\ \A j \in Invoices \ {i} : invoice'[j] = invoice[j]
          /\ invoice'[i].status = invoice[i].status /\ invoice'[i].total = invoice[i].total
          /\ invoice'[i].paid = invoice[i].paid /\ invoice'[i].sub = invoice[i].sub
        BY <1>1, <1>2, <1>5, <2>1
    <2> QED
        BY <1>1, <2>2, LedgerStutters
<1> QED
    BY <1>7, <1>8, <1>9, <1>10

\* A payment is a part or the rest, and the rest is credited.
LEMMA PayMaps ==
    ASSUME InTurn, NEW r \in Requests, PayCommit(r)
    PROVE  Ledger!Next
<1> PICK i, q, old : i = req[r].inv /\ q = req[r] /\ old = invoice[i]
    OBVIOUS
<1>1. /\ q.pc = "flushed" /\ i \in Invoices /\ old \in Invoice /\ Flushed(q)
      /\ q.seen \in Invoice /\ Amount[q.pay] \in Nat \ {0}
    BY InvoicesAssumption
       DEF PayCommit, InTurn, Settled, Inv, TypeOK, Request, Holding
<1>2. old.paid \in Nat /\ old.total \in Nat
    BY <1>1, TotalType DEF Invoice
<1>3. /\ \A j \in Invoices \ {i} : invoice'[j] = invoice[j]
      /\ invoice'[i] = q.seen
      /\ credit' = Credited(q)
    BY <1>1 DEF PayCommit, InTurn, Settled, Inv, TypeOK
<1>4. /\ old.status \in OpenStatus /\ ~q.seen.deleted /\ q.seen.sub = old.sub
      /\ q.seen.total = old.total /\ q.seen.paid = old.paid + Amount[q.pay]
      /\ q.seen.paid <= old.total
      /\ q.seen.status = IF q.seen.paid = old.total THEN "PAID" ELSE "PARTIALLY_PAID"
      /\ q.seen.paid = old.total /\ old.sub # NoSub => q.credit = credit[old.sub]
    BY <1>1 DEF Flushed
<1>5. Bills[i].phase = "open" /\ Bills[i].total = old.total /\ Bills[i].paid = old.paid
      /\ Bills[i].sub = old.sub
    BY <1>1, <1>4, PhaseValues DEF Bills
<1>6. CASE q.seen.paid = old.total
    <2>1. Phase[invoice'[i].status] = "settled"
        BY <1>3, <1>4, <1>6, PhaseValues
    <2>2. Bills' = [Bills EXCEPT ![i].paid = Bills[i].total, ![i].phase = "settled"]
        <3>1. Bills' = [Bills EXCEPT ![i].paid = old.total, ![i].phase = "settled"]
            BY <1>1, <1>3, <1>4, <1>6, <2>1, PaidChanges
        <3> QED
            BY <3>1, <1>5
    <2>3. credit' = [s \in Subs |-> IF s = Bills[i].sub THEN credit[s] + Bills[i].total
                                    ELSE credit[s]]
        <3>1. Credits(q.seen) <=> old.sub # NoSub
            BY <1>2, <1>4, <1>6 DEF Credits, Triggers
        <3>2. \A s \in Subs : s # NoSub
            BY InvoicesAssumption
        <3> QED
            BY <1>3, <1>4, <1>5, <1>6, <3>1, <3>2 DEF Credited
    <2>4. Bills[i].paid < Bills[i].total
        BY <1>1, <1>2, <1>4, <1>5, <1>6
    <2>5. Ledger!PayRest(i)
        BY <1>1, <1>5, <2>2, <2>3, <2>4 DEF Ledger!PayRest, Bills
    <2> QED
        BY <1>1, <2>5 DEF Ledger!Next
<1>7. CASE q.seen.paid # old.total
    <2>1. Phase[invoice'[i].status] = "open"
        BY <1>3, <1>4, <1>7, PhaseValues DEF OpenStatus
    <2>2. Bills' = [Bills EXCEPT ![i].paid = Bills[i].paid + Amount[q.pay]]
        <3>1. Phase[invoice[i].status] = "open"
            BY <1>4, PhaseValues
        <3>2. /\ invoice'[i].paid = old.paid + Amount[q.pay]
              /\ invoice'[i].sub = invoice[i].sub /\ invoice'[i].total = invoice[i].total
            BY <1>3, <1>4
        <3>3. PICK p : p = invoice'[i].paid
            OBVIOUS
        <3>4. Bills' = [Bills EXCEPT ![i].paid = p]
            BY <1>1, <1>3, <2>1, <3>1, <3>2, <3>3, PartPaid
        <3> QED
            BY <1>5, <3>2, <3>3, <3>4
    <2>3. UNCHANGED credit
        <3>1. ~Credits(q.seen)
            BY <1>1, <1>2, <1>4, <1>7 DEF Credits, Triggers
        <3> QED
            BY <1>3, <3>1 DEF Credited, InTurn, Settled, Inv, TypeOK
    <2>4. /\ Bills[i].paid + Amount[q.pay] < Bills[i].total
          /\ Amount[q.pay] \in 1..Bills[i].total
        BY <1>1, <1>2, <1>4, <1>5, <1>7
    <2>5. Ledger!PayPart(i, Amount[q.pay])
        BY <1>1, <1>5, <2>2, <2>3, <2>4 DEF Ledger!PayPart, Bills
    <2>6. \E amount \in 1..Bills[i].total : Ledger!PayPart(i, amount)
        BY <2>4, <2>5
    <2> QED
        BY <1>1, <2>6 DEF Ledger!Next, Bills
<1> QED
    BY <1>6, <1>7

LEMMA CreateMaps ==
    ASSUME InTurn, NEW i \in Invoices, Create(i)
    PROVE  Ledger!Next
<1>1. PICK t \in Totals, s \in Subs \cup {NoSub} :
          invoice' = [invoice EXCEPT ![i] = [NoRow EXCEPT !.status = "DRAFT",
                                                          !.total = t, !.sub = s]]
    BY DEF Create
<1>2. /\ \A j \in Invoices \ {i} : invoice'[j] = invoice[j]
      /\ invoice'[i].status = "DRAFT" /\ invoice'[i].total = t
      /\ invoice'[i].paid = 0 /\ invoice'[i].sub = s
    BY <1>1 DEF InTurn, Settled, Inv, TypeOK, NoRow
<1>3. Bills' = [Bills EXCEPT ![i] = [phase |-> "draft", total |-> t, paid |-> 0, sub |-> s]]
    BY <1>2, PhaseValues DEF Bills
<1>4. Bills[i].phase = "none" /\ UNCHANGED credit
    BY PhaseValues DEF Create, Bills
<1>5. Ledger!Draw(i, t, s)
    BY <1>3, <1>4 DEF Ledger!Draw, Bills
<1> QED
    BY <1>5 DEF Ledger!Next

\* Every step is a step of the ledger or none.
LEMMA NextMaps ==
    ASSUME InTurn, [Next]_vars
    PROVE  [Ledger!Next]_Ledger!ledgerVars
<1>1. CASE UNCHANGED <<invoice, credit>>
    BY <1>1, LedgerStutters
<1>2. ASSUME NEW i \in Invoices, Create(i) PROVE Ledger!Next
    BY <1>2, CreateMaps
<1>3. ASSUME NEW r \in Requests, PayCommit(r) PROVE Ledger!Next
    BY <1>3, PayMaps
<1>4. ASSUME NEW r \in Requests, OverdueCommit(r)
      PROVE  [Ledger!Next]_Ledger!ledgerVars
    <2>1. \A i \in req[r].late : invoice[i].status \in OpenStatus
        BY <1>4 DEF OverdueCommit, InTurn, Checked
    <2>2. \A i \in Invoices : /\ Phase[invoice'[i].status] = Phase[invoice[i].status]
                              /\ invoice'[i].total = invoice[i].total
                              /\ invoice'[i].paid = invoice[i].paid
                              /\ invoice'[i].sub = invoice[i].sub
        <3> SUFFICES ASSUME NEW i \in Invoices
                     PROVE  /\ Phase[invoice'[i].status] = Phase[invoice[i].status]
                            /\ invoice'[i].total = invoice[i].total
                            /\ invoice'[i].paid = invoice[i].paid
                            /\ invoice'[i].sub = invoice[i].sub
            OBVIOUS
        <3>1. CASE i \in req[r].late
            <4>1. invoice'[i] = [invoice[i] EXCEPT !.status = "OVERDUE"]
                BY <1>4, <3>1 DEF OverdueCommit
            <4>2. invoice[i] \in Invoice
                BY DEF InTurn, Settled, Inv, TypeOK
            <4> QED
                BY <2>1, <3>1, <4>1, <4>2, PhaseValues DEF Invoice, OpenStatus
        <3>2. CASE i \notin req[r].late
            BY <1>4, <3>2 DEF OverdueCommit
        <3> QED
            BY <3>1, <3>2
    <2> QED
        BY <1>4, <2>2, LedgerStutters DEF OverdueCommit
<1>5. ASSUME NEW r \in Requests,
             \/ IssueCommit(r) \/ SendCommit(r) \/ CancelCommit(r)
             \/ UpdateCommit(r) \/ DeleteCommit(r)
      PROVE  [Ledger!Next]_Ledger!ledgerVars
    BY <1>5, CommitMaps
<1>6. ASSUME NEW r \in Requests,
             \/ Serve(r) \/ RequestDies(r) \/ SendMails(r) \/ PayFlush(r)
             \/ Answer(r) \/ NotifyFails(r)
      PROVE  UNCHANGED <<invoice, credit>>
    BY <1>6 DEF Serve, Issue, Send, Cancel, Update, Delete, Load, Pay, UpdateOverdue,
                RequestDies, SendMails, PayFlush, Answer, NotifyFails
<1>7. (\E s \in Subs : Suspend(s)) \/ UNCHANGED vars => UNCHANGED <<invoice, credit>>
    BY DEF Suspend, vars
<1> QED
    BY <1>1, <1>2, <1>3, <1>4, <1>5, <1>6, <1>7 DEF Next, Continue

LEMMA InTurnInit == Init => InTurn
BY InvInductive, ConstantTypes
   DEF Init, InTurn, Settled, PaidInFull, Fresh, NoRow, IdleRequest

\* When requests are served one after the other, the invoices are the ledger,
\* through faults, crashes and repeated payments.
THEOREM InvoicesImplementLedger ==
    ASSUME OneAtATime
    PROVE  Spec => ImplementsLedger
<1>1. InTurn /\ [Next]_vars => InTurn'
    BY SettledNext, InTurnNext DEF InTurn
<1>2. Init => Ledger!Init
    BY PhaseValues DEF Init, NoRow, Ledger!Init, Ledger!NoBill
<1>3. InTurn /\ [Next]_vars => [Ledger!Next]_Ledger!ledgerVars
    BY NextMaps
<1> QED
    BY InTurnInit, <1>1, <1>2, <1>3, PTL DEF Spec, ImplementsLedger, Ledger!Spec

-----------------------------------------------------------------------------
(***************************************************************************)
(* What a subscription was credited.  The ledger changes a credit in one   *)
(* step only, and there by the total of the invoice that this step settles.*)
(***************************************************************************)
TotalOf == [i \in Invoices |-> invoice[i].total]

\* A settled bill is a PAID invoice.
LEMMA SettledIsPaid ==
    ASSUME TypeOK, TypeOK', NEW i \in Invoices
    PROVE  /\ Bills[i].phase = "settled" <=> invoice[i].status = "PAID"
           /\ Bills'[i].phase = "settled" <=> invoice'[i].status = "PAID"
<1>1. \A st \in Status : Phase[st] = "settled" <=> st = "PAID"
    BY PhaseValues DEF Status, OpenStatus
<1>2. invoice[i].status \in Status /\ invoice'[i].status \in Status
    BY DEF TypeOK, Invoice
<1> QED
    BY <1>1, <1>2, BillFields, BillFieldsNext

\* What a step of the ledger does to the settled bills.
LEMMA LedgerStep ==
    ASSUME [Ledger!Next]_Ledger!ledgerVars
    PROVE  \/ /\ UNCHANGED credit
              /\ \A j \in Invoices :
                    /\ Bills'[j].phase = "settled" <=> Bills[j].phase = "settled"
                    /\ Bills[j].phase = "settled" =>
                           Bills'[j].total = Bills[j].total /\ Bills'[j].sub = Bills[j].sub
           \/ \E i \in Invoices :
                 /\ Bills[i].phase # "settled" /\ Bills'[i].phase = "settled"
                 /\ Bills'[i].total = Bills[i].total /\ Bills'[i].sub = Bills[i].sub
                 /\ \A j \in Invoices \ {i} : Bills'[j] = Bills[j]
                 /\ credit' = [s \in Subs |-> IF s = Bills[i].sub
                                             THEN credit[s] + Bills[i].total ELSE credit[s]]
<1>1. CASE UNCHANGED Ledger!ledgerVars
    <2>1. UNCHANGED <<Bills, credit>>
        BY <1>1 DEF Ledger!ledgerVars, Bills
    <2> QED
        BY <2>1
<1>2. ASSUME NEW i \in Invoices,
             \/ \E t \in Totals, s \in Subs \cup {NoSub} : Ledger!Draw(i, t, s)
             \/ \E t \in Totals : Ledger!Revise(i, t)
             \/ \E amount \in 1..Bills[i].total : Ledger!PayPart(i, amount)
             \/ Ledger!Open(i) \/ Ledger!Void(i)
      PROVE  /\ UNCHANGED credit
             /\ \A j \in Invoices :
                   /\ Bills'[j].phase = "settled" <=> Bills[j].phase = "settled"
                   /\ Bills[j].phase = "settled" =>
                          Bills'[j].total = Bills[j].total /\ Bills'[j].sub = Bills[j].sub
    <2>1. \A j \in Invoices : Bills[j].phase = Phase[invoice[j].status]
        BY BillFields
    <2>2. CASE \E t \in Totals, s \in Subs \cup {NoSub} : Ledger!Draw(i, t, s)
        BY <2>2 DEF Ledger!Draw, Bills
    <2>3. CASE \E t \in Totals : Ledger!Revise(i, t)
        BY <2>3 DEF Ledger!Revise, Bills
    <2>4. CASE \E amount \in 1..Bills[i].total : Ledger!PayPart(i, amount)
        <3>1. PICK amount : /\ Bills[i].phase = "open" /\ UNCHANGED credit
                            /\ Bills' = [Bills EXCEPT ![i].paid = Bills[i].paid + amount]
            BY <2>4 DEF Ledger!PayPart, Bills
        <3>2. /\ DOMAIN Bills = Invoices
              /\ \A j \in Invoices : Bills[j] = [phase |-> Bills[j].phase,
                                               total |-> Bills[j].total,
                                               paid |-> Bills[j].paid, sub |-> Bills[j].sub]
            BY DEF Bills
        <3>3. \A j \in Invoices : /\ Bills'[j].phase = Bills[j].phase
                                  /\ Bills'[j].total = Bills[j].total
                                  /\ Bills'[j].sub = Bills[j].sub
            BY <3>1, <3>2
        <3> QED
            BY <3>1, <3>3
    <2>5. CASE Ledger!Open(i)
        BY <2>5 DEF Ledger!Open, Bills
    <2>6. CASE Ledger!Void(i)
        BY <2>6 DEF Ledger!Void, Bills
    <2> QED
        BY <1>2, <2>2, <2>3, <2>4, <2>5, <2>6
<1>3. ASSUME NEW i \in Invoices, Ledger!PayRest(i)
      PROVE  /\ Bills[i].phase # "settled" /\ Bills'[i].phase = "settled"
             /\ Bills'[i].total = Bills[i].total /\ Bills'[i].sub = Bills[i].sub
             /\ \A j \in Invoices \ {i} : Bills'[j] = Bills[j]
             /\ credit' = [s \in Subs |-> IF s = Bills[i].sub
                                         THEN credit[s] + Bills[i].total ELSE credit[s]]
    <2>1. /\ Bills[i].phase = "open"
          /\ Bills' = [Bills EXCEPT ![i].paid = Bills[i].total, ![i].phase = "settled"]
          /\ credit' = [s \in Subs |-> IF s = Bills[i].sub
                                      THEN credit[s] + Bills[i].total ELSE credit[s]]
        BY <1>3 DEF Ledger!PayRest, Bills
    <2>2. /\ DOMAIN Bills = Invoices
          /\ Bills[i] = [phase |-> Bills[i].phase, total |-> Bills[i].total,
                         paid |-> Bills[i].paid, sub |-> Bills[i].sub]
        BY DEF Bills
    <2> QED
        BY <2>1, <2>2
<1> QED
    BY <1>1, <1>2, <1>3 DEF Ledger!Next, Bills

\* Finitely many invoices are PAID at a time, so that their sum is a number.
FinitelyPaid == \A s \in Subs : IsFiniteSet(PaidOf(s))

CreditInv == InTurn /\ SubscriptionCredited /\ FinitelyPaid

\* The settled bills and their totals are as they were.
LEMMA CreditStays ==
    ASSUME CreditInv, TypeOK', UNCHANGED credit,
           \A j \in Invoices :
              /\ Bills'[j].phase = "settled" <=> Bills[j].phase = "settled"
              /\ Bills[j].phase = "settled" =>
                     Bills'[j].total = Bills[j].total /\ Bills'[j].sub = Bills[j].sub
    PROVE  SubscriptionCredited' /\ FinitelyPaid'
<1> SUFFICES ASSUME NEW s \in Subs
             PROVE  /\ credit'[s] = SumFunctionOnSet(TotalOf', PaidOf(s)')
                    /\ IsFiniteSet(PaidOf(s)')
    BY DEF SubscriptionCredited, FinitelyPaid, TotalOf
<1>1. \A j \in Invoices :
          /\ invoice'[j].status = "PAID" <=> invoice[j].status = "PAID"
          /\ invoice[j].status = "PAID" => /\ invoice'[j].total = invoice[j].total
                                           /\ invoice'[j].sub = invoice[j].sub
    <2>1. TypeOK
        BY DEF CreditInv, InTurn, Settled, Inv
    <2>2. \A j \in Invoices : /\ Bills[j].phase = "settled" <=> invoice[j].status = "PAID"
                              /\ Bills'[j].phase = "settled" <=> invoice'[j].status = "PAID"
        BY <2>1, SettledIsPaid
    <2> QED
        BY <2>2, BillFields, BillFieldsNext
<1>2. PaidOf(s)' = PaidOf(s)
    BY <1>1 DEF PaidOf
<1>3. IsFiniteSet(PaidOf(s)) /\ credit[s] = SumFunctionOnSet(TotalOf, PaidOf(s))
    BY DEF CreditInv, FinitelyPaid, SubscriptionCredited, TotalOf
<1>4. \A j \in PaidOf(s) : TotalOf'[j] = TotalOf[j]
    BY <1>1 DEF PaidOf, TotalOf
<1>5. SumFunctionOnSet(TotalOf', PaidOf(s)) = SumFunctionOnSet(TotalOf, PaidOf(s))
    BY <1>3, <1>4, SumSameSummands
<1> QED
    BY <1>2, <1>3, <1>5

\* One bill more is settled, and its total is added to the credit.
LEMMA CreditGrows ==
    ASSUME CreditInv, TypeOK', NEW i \in Invoices,
           Bills[i].phase # "settled", Bills'[i].phase = "settled",
           Bills'[i].total = Bills[i].total, Bills'[i].sub = Bills[i].sub,
           \A j \in Invoices \ {i} : Bills'[j] = Bills[j],
           credit' = [s \in Subs |-> IF s = Bills[i].sub
                                     THEN credit[s] + Bills[i].total ELSE credit[s]]
    PROVE  SubscriptionCredited' /\ FinitelyPaid'
<1> SUFFICES ASSUME NEW s \in Subs
             PROVE  /\ credit'[s] = SumFunctionOnSet(TotalOf', PaidOf(s)')
                    /\ IsFiniteSet(PaidOf(s)')
    BY DEF SubscriptionCredited, FinitelyPaid, TotalOf
<1>1. TypeOK
    BY DEF CreditInv, InTurn, Settled, Inv
<1>2. /\ invoice[i].status # "PAID" /\ invoice'[i].status = "PAID"
      /\ invoice'[i].total = invoice[i].total /\ invoice'[i].sub = invoice[i].sub
      /\ \A j \in Invoices \ {i} : /\ invoice'[j].status = "PAID" <=> invoice[j].status = "PAID"
                                  /\ invoice'[j].total = invoice[j].total
                                  /\ invoice'[j].sub = invoice[j].sub
    <2>1. \A j \in Invoices : /\ Bills[j].phase = "settled" <=> invoice[j].status = "PAID"
                              /\ Bills'[j].phase = "settled" <=> invoice'[j].status = "PAID"
        BY <1>1, SettledIsPaid
    <2>2. \A j \in Invoices : /\ Bills[j].total = invoice[j].total
                              /\ Bills[j].sub = invoice[j].sub
                              /\ Bills'[j].total = invoice'[j].total
                              /\ Bills'[j].sub = invoice'[j].sub
        BY BillFields, BillFieldsNext
    <2> HIDE DEF Bills
    <2> QED
        BY <2>1, <2>2
<1>3. \A j \in Invoices : TotalOf'[j] = TotalOf[j]
    BY <1>2 DEF TotalOf
<1>4. \A j \in Invoices : TotalOf[j] = invoice[j].total /\ TotalOf[j] \in Nat
    BY <1>1, TotalType DEF TotalOf, TypeOK
<1>5. IsFiniteSet(PaidOf(s)) /\ credit[s] = SumFunctionOnSet(TotalOf, PaidOf(s))
    BY DEF CreditInv, FinitelyPaid, SubscriptionCredited, TotalOf
<1>6. PaidOf(s) \subseteq Invoices /\ PaidOf(s)' \subseteq Invoices
    BY DEF PaidOf
<1>7. CASE s = invoice[i].sub
    <2>1. PaidOf(s)' = PaidOf(s) \cup {i} /\ i \notin PaidOf(s)
        BY <1>2, <1>7 DEF PaidOf
    <2>2. IsFiniteSet(PaidOf(s) \cup {i})
        BY <1>5, FS_AddElement
    <2>3. SumFunctionOnSet(TotalOf', PaidOf(s) \cup {i})
              = SumFunctionOnSet(TotalOf, PaidOf(s) \cup {i})
        BY <1>3, <1>6, <2>2, SumSameSummands
    <2>4. SumFunctionOnSet(TotalOf, PaidOf(s) \cup {i})
              = TotalOf[i] + SumFunctionOnSet(TotalOf, PaidOf(s))
        BY <1>4, <1>5, <1>6, <2>1, SumAddsElement
    <2>5. credit'[s] = credit[s] + TotalOf[i]
        BY <1>4, <1>7, BillFields
    <2>6. SumFunctionOnSet(TotalOf, PaidOf(s)) \in Nat
        BY <1>4, <1>5, <1>6, SumType
    <2> QED
        BY <1>4, <1>5, <2>1, <2>2, <2>3, <2>4, <2>5, <2>6
<1>8. CASE s # invoice[i].sub
    <2>1. PaidOf(s)' = PaidOf(s)
        BY <1>2, <1>8 DEF PaidOf
    <2>2. SumFunctionOnSet(TotalOf', PaidOf(s)) = SumFunctionOnSet(TotalOf, PaidOf(s))
        BY <1>3, <1>5, <1>6, SumSameSummands
    <2>3. credit'[s] = credit[s]
        BY <1>8, BillFields
    <2> QED
        BY <1>5, <2>1, <2>2, <2>3
<1> QED
    BY <1>7, <1>8

\* With one request at a time, a subscription is credited with the totals of
\* its PAID invoices and nothing else, through crashes and repeated requests.
THEOREM CreditedInTurn ==
    ASSUME OneAtATime
    PROVE  Spec => []SubscriptionCredited
<1>1. Init => CreditInv
    <2> SUFFICES ASSUME Init PROVE SubscriptionCredited /\ FinitelyPaid
        BY InTurnInit DEF CreditInv
    <2>1. \A s \in Subs : PaidOf(s) = {}
        BY DEF Init, PaidOf, NoRow
    <2> QED
        BY <2>1, SumOfNone, FS_EmptySet DEF Init, SubscriptionCredited, FinitelyPaid
<1>2. CreditInv /\ [Next]_vars => CreditInv'
    <2> SUFFICES ASSUME CreditInv, [Next]_vars PROVE CreditInv'
        OBVIOUS
    <2>1. InTurn'
        BY SettledNext, InTurnNext DEF CreditInv, InTurn
    <2>2. TypeOK'
        BY <2>1 DEF InTurn, Settled, Inv
    <2>3. [Ledger!Next]_Ledger!ledgerVars
        BY NextMaps DEF CreditInv
    <2>4. SubscriptionCredited' /\ FinitelyPaid'
        BY <2>2, <2>3, LedgerStep, CreditStays, CreditGrows
    <2> QED
        BY <2>1, <2>4 DEF CreditInv
<1>3. CreditInv => SubscriptionCredited
    BY DEF CreditInv
<1> QED
    BY <1>1, <1>2, <1>3, PTL DEF Spec

=============================================================================
