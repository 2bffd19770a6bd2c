---------------------------- MODULE MCInvoices ----------------------------
(***************************************************************************)
(* Instances of Invoices for TLC.                                          *)
(***************************************************************************)
EXTENDS Invoices, TLC

CONSTANTS i1, i2, sub, p1, p2, p3, r1, r2

OneInvoice == {i1}

TwoInvoices == {i1, i2}

OneRequest == {r1}

TwoRequests == {r1, r2}

\* An instalment and the rest of the first invoice.
TwoPayments == {p1, p2}

\* The same, and the second invoice.
ThreePayments == {p1, p2, p3}

PaysFirst == [p \in TwoPayments |-> i1]

PaysBoth == [p \in ThreePayments |-> IF p = p3 THEN i2 ELSE i1]

Instalments == [p \in TwoPayments |-> IF p = p1 THEN 1 ELSE 2]

InstalmentsBoth == [p \in ThreePayments |-> IF p = p1 THEN 1 ELSE 2]

NoUpdate == AllOps \ {"update"}

\* Requests are interchangeable.
Symmetry == Permutations(Requests)

=============================================================================
