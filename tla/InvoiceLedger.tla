----------------------------- MODULE InvoiceLedger -----------------------------
(***************************************************************************)
(* What the invoice routes promise: an invoice is drawn up, opened to the  *)
(* customer, paid in parts that never exceed what is left, and settled or  *)
(* void for ever; the settled invoice is credited to its subscription once.*)
(* Every step is atomic and nothing is ever done on stale data.            *)
(***************************************************************************)
EXTENDS Naturals

CONSTANTS
    Invoices,  \* invoices
    Subs,      \* subscriptions
    NoSub,     \* an invoice that is not linked to a subscription
    Totals     \* the totals an invoice may have

VARIABLES
    bill,      \* [Invoices -> Bill]
    credit     \* [Subs -> Nat]: what the subscription has paid

ledgerVars == <<bill, credit>>

Bill == [phase : {"none", "draft", "open", "settled", "void"},
         total : Totals \cup {0}, paid : Nat, sub : Subs \cup {NoSub}]

NoBill == [phase |-> "none", total |-> 0, paid |-> 0, sub |-> NoSub]

Init ==
    /\ bill = [i \in Invoices |-> NoBill]
    /\ credit = [s \in Subs |-> 0]

Draw(i, t, s) ==
    /\ bill[i].phase = "none"
    /\ bill' = [bill EXCEPT ![i] = [phase |-> "draft", total |-> t, paid |-> 0, sub |-> s]]
    /\ UNCHANGED credit

Open(i) ==
    /\ bill[i].phase = "draft"
    /\ bill' = [bill EXCEPT ![i].phase = "open"]
    /\ UNCHANGED credit

Revise(i, t) ==
    /\ bill[i].phase \in {"draft", "open"}
    /\ bill' = [bill EXCEPT ![i].total = t]
    /\ UNCHANGED credit

Void(i) ==
    /\ bill[i].phase \in {"draft", "open"}
    /\ bill' = [bill EXCEPT ![i].phase = "void"]
    /\ UNCHANGED credit

PayPart(i, amount) ==
    /\ bill[i].phase = "open"
    /\ bill[i].paid + amount < bill[i].total
    /\ bill' = [bill EXCEPT ![i].paid = @ + amount]
    /\ UNCHANGED credit

PayRest(i) ==
    /\ bill[i].phase = "open"
    /\ bill[i].paid < bill[i].total
    /\ bill' = [bill EXCEPT ![i].paid = bill[i].total, ![i].phase = "settled"]
    /\ credit' = [s \in Subs |-> IF s = bill[i].sub THEN credit[s] + bill[i].total
                                 ELSE credit[s]]

Next ==
    \E i \in Invoices :
        \/ \E t \in Totals, s \in Subs \cup {NoSub} : Draw(i, t, s)
        \/ \E t \in Totals : Revise(i, t)
        \/ \E amount \in 1..bill[i].total : PayPart(i, amount)
        \/ Open(i) \/ Void(i) \/ PayRest(i)

Spec == Init /\ [][Next]_ledgerVars

=============================================================================
