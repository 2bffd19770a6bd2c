------------------------- MODULE ProvisioningContract -------------------------
(***************************************************************************)
(* What a customer is promised about a VPS request: it waits until it is   *)
(* approved or withdrawn; an approved one is worked on by one job, with a  *)
(* bounded number of retries; a job installs the container, gives the      *)
(* request back for another approval, or is abandoned, and then somebody   *)
(* is told or something was lost.  What is installed stays installed. A    *)
(* request is over when its status is terminal and no job is under way: a  *)
(* job under way goes on, whatever status the subscription gets meanwhile. *)
(***************************************************************************)
EXTENDS Naturals

CONSTANTS
    Subs,        \* subscriptions
    MaxRetries,  \* retries of one job
    Crashes      \* a job may be lost before its last retry

VARIABLES
    phase,  \* [Subs -> Phase]
    tries,  \* [Subs -> 0..MaxRetries]: the retries of the job so far
    told    \* the subscriptions of which a failure was reported or a loss is known

contractVars == <<phase, tries, told>>

Phase == {"none", "waiting", "job", "installed", "over"}

Init ==
    /\ phase = [s \in Subs |-> "none"]
    /\ tries = [s \in Subs |-> 0]
    /\ told = {}

Move(s, from, to) ==
    /\ phase[s] = from
    /\ phase' = [phase EXCEPT ![s] = to]

Request(s) == Move(s, "none", "waiting") /\ UNCHANGED <<tries, told>>

Approve(s) == Move(s, "waiting", "job") /\ UNCHANGED <<tries, told>>

Withdraw(s) == Move(s, "waiting", "over") /\ UNCHANGED <<tries, told>>

\* Only a job that was never retried gives the request back.
Return(s) ==
    /\ Move(s, "job", "waiting")
    /\ tries[s] = 0
    /\ UNCHANGED <<tries, told>>

Retry(s) ==
    /\ phase[s] = "job"
    /\ tries[s] < MaxRetries
    /\ tries' = [tries EXCEPT ![s] = @ + 1]
    /\ UNCHANGED <<phase, told>>

Install(s) ==
    /\ Move(s, "job", "installed")
    /\ tries' = [tries EXCEPT ![s] = 0]
    /\ UNCHANGED told

Abandon(s) ==
    /\ Move(s, "job", "over")
    /\ tries[s] = MaxRetries \/ Crashes
    /\ tries' = [tries EXCEPT ![s] = 0]
    /\ told' = told \cup {s}

\* Afterwards only the repair of installed containers has anything to report.
Report ==
    /\ \E failed \in SUBSET {s \in Subs : phase[s] = "installed"} :
          told' = told \cup failed
    /\ UNCHANGED <<phase, tries>>

Next ==
    \/ \E s \in Subs : \/ Request(s) \/ Approve(s) \/ Withdraw(s) \/ Return(s)
                       \/ Retry(s) \/ Install(s) \/ Abandon(s)
    \/ Report

Spec == Init /\ [][Next]_contractVars

=============================================================================
