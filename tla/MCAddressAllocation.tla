------------------------ MODULE MCAddressAllocation ------------------------
(***************************************************************************)
(* Instances of AddressAllocation for TLC.                                 *)
(***************************************************************************)
EXTENDS AddressAllocation, TLC

CONSTANTS s1, s2, s3, t1, t2

ThreeSubs == {s1, s2, s3}

OneTask == {t1}

TwoTasks == {t1, t2}

\* Enough to reach the addresses whose last octet has three digits.
ManySubs == 1..92

Symmetry == Permutations(Subs) \cup Permutations(Tasks)

\* The behaviours in which one task provisions the subscriptions in turn.
InTurn ==
    \E t \in Tasks :
        \/ \E s \in Subs : /\ \A s0 \in Subs : s0 < s <=> s0 \in Recorded
                           /\ Allocate(t, s)
        \/ Create(t)
        \/ Commit(t)

SpecInTurn == Init /\ [][InTurn]_vars

=============================================================================
