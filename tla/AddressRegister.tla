--------------------------- MODULE AddressRegister ---------------------------
(***************************************************************************)
(* What the provision tasks promise about addresses, however many of them  *)
(* run: a register to which one entry is added at a time.  A new entry     *)
(* takes the port after the greatest of all entries and an address that    *)
(* none of them has; an entry is never changed and never taken back.       *)
(***************************************************************************)
EXTENDS Naturals

CONSTANTS
    Subs,     \* subscriptions
    Nothing   \* the entry of a subscription that has none

VARIABLE
    given     \* [Subs -> an entry [ip, ssh, http], or Nothing]

Holders == {s \in Subs : given[s] # Nothing}

SshPorts == {given[q].ssh : q \in Holders}

HttpPorts == {given[q].http : q \in Holders}

Ips == {given[q].ip : q \in Holders}

Init == given = [s \in Subs |-> Nothing]

Follows(port, taken, first) ==
    IF taken = {} THEN port = first
    ELSE \E m \in taken : port = m + 1 /\ \A k \in taken : k <= m

\* The entry is whatever the next state holds for s, within these bounds.
Grant(s) ==
    LET entry == given'[s] IN
    /\ given[s] = Nothing
    /\ Follows(entry.ssh, SshPorts, 2222)
    /\ Follows(entry.http, HttpPorts, 8100)
    /\ entry.ip \notin Ips
    /\ given' = [given EXCEPT ![s] = entry]

Next == \E s \in Subs : Grant(s)

Spec == Init /\ [][Next]_given

=============================================================================
