-------------------------- MODULE AddressAllocation --------------------------
(***************************************************************************)
(* The address and the two host ports that a VPS gets when it is           *)
(* provisioned.  A provision task takes three advisory transaction locks,  *)
(* computes each value from the rows of container_instances, creates the   *)
(* container with the ports published, and inserts the row; the locks are  *)
(* held until that transaction ends.  A row keeps its address for ever.    *)
(*                                                                         *)
(* The values come from the table only.  What Docker has bound on the host *)
(* is a second record of the same ports, and the two can disagree.         *)
(***************************************************************************)
EXTENDS Naturals

CONSTANTS
    Subs,    \* subscriptions
    Tasks,   \* provision tasks that may run at once
    NoSub,   \* no subscription
    Faults   \* Docker and the database may fail, containers may vanish

ASSUME AllocationAssumption == NoSub \notin Subs /\ Faults \in BOOLEAN

VARIABLES
    rows,     \* [Subs -> Row]: container_instances
    host,     \* [Subs -> Container]: what Docker has under the derived name
    attempt   \* [Tasks -> Attempt]: provision tasks inside their transaction

vars == <<rows, host, attempt>>

-----------------------------------------------------------------------------
\* State.

\* 172.20.x.y is <<x, y>>.
Address == [ip : Nat \X Nat, ssh : Nat, http : Nat]

NoAddress == [ip |-> <<0, 0>>, ssh |-> 0, http |-> 0]

Row == [status : {"NONE", "RUNNING", "STOPPED", "TERMINATED"}, addr : Address]

NoRow == [status |-> "NONE", addr |-> NoAddress]

\* The host ports that ports 22 and 80 of the container are published on, 0
\* for a port that is not published.  Only a running container binds them.
Container == [made : BOOLEAN, up : BOOLEAN, ssh : Nat, http : Nat]

NoContainer == [made |-> FALSE, up |-> FALSE, ssh |-> 0, http |-> 0]

Attempt == [pc : {"idle", "allocated", "created"}, sub : Subs \cup {NoSub},
            addr : Address]

IdleAttempt == [pc |-> "idle", sub |-> NoSub, addr |-> NoAddress]

Recorded == {s \in Subs : rows[s].status # "NONE"}

Init ==
    /\ rows = [s \in Subs |-> NoRow]
    /\ host = [s \in Subs |-> NoContainer]
    /\ attempt = [t \in Tasks |-> IdleAttempt]

-----------------------------------------------------------------------------
(***************************************************************************)
(* The three allocators.                                                   *)
(***************************************************************************)
UsedIps == {rows[s].addr.ip : s \in Recorded}

UsedSsh == {rows[s].addr.ssh : s \in Recorded}

\* Mutant: the port of a terminated VPS is given again.
UsedHttpLive == {rows[s].addr.http : s \in {s2 \in Recorded : rows[s2].status # "TERMINATED"}}

UsedHttp == {rows[s].addr.http : s \in Recorded}

\* select(func.max(port)) + 1.
NextPorts(used, first) ==
    IF used = {} THEN {first}
    ELSE {m + 1 : m \in {n \in used : \A k \in used : k <= n}}

\* The place of an octet in the order of its decimal text: "1" < "10" < "100"
\* < "11" < ... < "99".
TextRank(n) == IF n < 10 THEN n * 1000 + 1
               ELSE IF n < 100 THEN n * 100 + 2 ELSE n * 10 + 3

TextLeq(a, b) == \/ TextRank(a[1]) < TextRank(b[1])
                 \/ TextRank(a[1]) = TextRank(b[1]) /\ TextRank(a[2]) <= TextRank(b[2])

\* select(func.max(ip_address)) compares text; the last octet is incremented,
\* and after 254 the third.
NextIps(used) ==
    IF used = {} THEN {<<1, 10>>}
    ELSE {IF m[2] + 1 > 254 THEN <<m[1] + 1, 10>> ELSE <<m[1], m[2] + 1>> :
              m \in {n \in used : \A k \in used : TextLeq(k, n)}}

-----------------------------------------------------------------------------
(***************************************************************************)
(* A provision task.                                                       *)
(***************************************************************************)
\* The first lock is taken before the first value is computed, and released by
\* the commit or the rollback.
LockFree == \A t \in Tasks : attempt[t].pc = "idle"

\* Mutant: the values are computed outside the locks.
AllocateUnlocked(t, s) ==
    /\ attempt[t].pc = "idle"
    /\ \E ip \in NextIps(UsedIps), ssh \in NextPorts(UsedSsh, 2222),
          http \in NextPorts(UsedHttp, 8100) :
             attempt' = [attempt EXCEPT ![t] =
                            [pc |-> "allocated", sub |-> s,
                             addr |-> [ip |-> ip, ssh |-> ssh, http |-> http]]]
    /\ UNCHANGED <<rows, host>>

Allocate(t, s) ==
    /\ attempt[t].pc = "idle"
    /\ LockFree
    /\ \E ip \in NextIps(UsedIps), ssh \in NextPorts(UsedSsh, 2222),
          http \in NextPorts(UsedHttp, 8100) :
             attempt' = [attempt EXCEPT ![t] =
                            [pc |-> "allocated", sub |-> s,
                             addr |-> [ip |-> ip, ssh |-> ssh, http |-> http]]]
    /\ UNCHANGED <<rows, host>>

\* No other running container binds one of these ports.
Bindable(s, ssh, http) ==
    \A s2 \in Subs \ {s} :
        host[s2].up => {ssh, http} \cap {host[s2].ssh, host[s2].http} \subseteq {0}

Create(t) ==
    LET s == attempt[t].sub
        addr == attempt[t].addr
    IN  /\ attempt[t].pc = "allocated"
        /\ ~host[s].made
        /\ Bindable(s, addr.ssh, addr.http)
        /\ host' = [host EXCEPT ![s] = [made |-> TRUE, up |-> TRUE,
                                        ssh |-> addr.ssh, http |-> addr.http]]
        /\ attempt' = [attempt EXCEPT ![t].pc = "created"]
        /\ UNCHANGED rows

\* The unique columns of container_instances.  http_port is not one of them.
Insertable(s, addr) ==
    s \notin Recorded /\ addr.ip \notin UsedIps /\ addr.ssh \notin UsedSsh

\* Mutant: the locks are released and the values kept for another insert.
CommitKeeps(t) ==
    LET s == attempt[t].sub IN
    /\ attempt[t].pc = "created"
    /\ Insertable(s, attempt[t].addr)
    /\ rows' = [rows EXCEPT ![s] = [status |-> "RUNNING", addr |-> attempt[t].addr]]
    /\ attempt' = [attempt EXCEPT ![t].pc = "idle"]
    /\ UNCHANGED host

Commit(t) ==
    LET s == attempt[t].sub IN
    /\ attempt[t].pc = "created"
    /\ Insertable(s, attempt[t].addr)
    /\ rows' = [rows EXCEPT ![s] = [status |-> "RUNNING", addr |-> attempt[t].addr]]
    /\ attempt' = [attempt EXCEPT ![t] = IdleAttempt]
    /\ UNCHANGED host

\* The rollback releases the locks.  Before a retry the container is removed by
\* name, when Docker lets it; after the last retry it stays.
RollBack(t, left) ==
    /\ host' \in {left, [left EXCEPT ![attempt[t].sub] = NoContainer]}
    /\ attempt' = [attempt EXCEPT ![t] = IdleAttempt]
    /\ UNCHANGED rows

\* The name is taken, or a port is bound: then the container is created and
\* does not start.
CreateFails(t) ==
    LET s == attempt[t].sub
        addr == attempt[t].addr
    IN  /\ attempt[t].pc = "allocated"
        /\ \/ (host[s].made \/ Faults) /\ RollBack(t, host)
           \/ /\ ~host[s].made
              /\ ~Bindable(s, addr.ssh, addr.http)
              /\ RollBack(t, [host EXCEPT ![s] = [made |-> TRUE, up |-> FALSE,
                                                  ssh |-> addr.ssh, http |-> addr.http]])

CommitFails(t) ==
    /\ attempt[t].pc = "created"
    /\ ~Insertable(attempt[t].sub, attempt[t].addr) \/ Faults
    /\ RollBack(t, host)

-----------------------------------------------------------------------------
(***************************************************************************)
(* What else binds and frees ports.                                        *)
(***************************************************************************)
Stop(s) ==
    /\ rows[s].status # "NONE"
    /\ host[s].made
    /\ rows' = [rows EXCEPT ![s].status = "STOPPED"]
    /\ host' = [host EXCEPT ![s].up = FALSE]
    /\ UNCHANGED attempt

Start(s) ==
    /\ rows[s].status # "NONE"
    /\ host[s].made
    /\ Bindable(s, host[s].ssh, host[s].http)
    /\ rows' = [rows EXCEPT ![s].status = "RUNNING"]
    /\ host' = [host EXCEPT ![s].up = TRUE]
    /\ UNCHANGED attempt

\* Mutant: the address is given back.
TerminateFrees(s) ==
    /\ rows[s].status # "NONE"
    /\ rows' = [rows EXCEPT ![s] = [status |-> "TERMINATED", addr |-> NoAddress]]
    /\ host' = [host EXCEPT ![s] = NoContainer] \/ (Faults /\ UNCHANGED host)
    /\ UNCHANGED attempt

\* The row stays, and with it its address; that Docker failed is not looked at.
Terminate(s) ==
    /\ rows[s].status # "NONE"
    /\ rows' = [rows EXCEPT ![s].status = "TERMINATED"]
    /\ host' = [host EXCEPT ![s] = NoContainer] \/ (Faults /\ UNCHANGED host)
    /\ UNCHANGED attempt

\* reconcile_missing_vps_containers keeps the row's ports and publishes only
\* the first: ports={"22/tcp": ssh_port}.
Recreate(s) ==
    /\ rows[s].status = "RUNNING"
    /\ ~host[s].made
    /\ host' = [host EXCEPT ![s] =
                   [made |-> TRUE, up |-> Bindable(s, rows[s].addr.ssh, 0),
                    ssh |-> rows[s].addr.ssh, http |-> 0]]
    /\ UNCHANGED <<rows, attempt>>

\* Outside the program.
Vanish(s) ==
    /\ Faults
    /\ host[s].made
    /\ host' = [host EXCEPT ![s] = NoContainer]
    /\ UNCHANGED <<rows, attempt>>

-----------------------------------------------------------------------------
Provision(t) ==
    \/ \E s \in Subs : Allocate(t, s)
    \/ Create(t) \/ CreateFails(t) \/ Commit(t) \/ CommitFails(t)

Next ==
    \/ \E t \in Tasks : Provision(t)
    \/ \E s \in Subs : Stop(s) \/ Start(s) \/ Terminate(s) \/ Recreate(s) \/ Vanish(s)

Spec == Init /\ [][Next]_vars

-----------------------------------------------------------------------------
\* Properties.

\* Every variable has its type, and a task outside its transaction holds no
\* address.
TypeOK ==
    /\ rows \in [Subs -> Row]
    /\ host \in [Subs -> Container]
    /\ attempt \in [Tasks -> Attempt]
    /\ \A t \in Tasks : attempt[t].pc = "idle" => attempt[t] = IdleAttempt

\* Two rows never have the same http_port, not even that of a terminated VPS:
\* the column is not unique, so only the advisory lock sees to it.
HttpPortsDistinct ==
    \A s1, s2 \in Recorded : s1 # s2 => rows[s1].addr.http # rows[s2].addr.http

\* Between the allocation and the commit no other row takes the ssh_port, so
\* the insert never fails on its unique column, whatever commits or terminates
\* in between.
SshPortStaysNew ==
    \A t \in Tasks : attempt[t].pc # "idle" => attempt[t].addr.ssh \notin UsedSsh

Register == INSTANCE AddressRegister WITH
    Nothing <- NoAddress,
    given <- [s \in Subs |-> rows[s].addr]

\* Provision tasks that allocate, create, fail and commit beside each other, and
\* everything that is done to the containers afterwards, amount to one register
\* that is added to entry by entry: each insert has the values that it would
\* have computed at that moment, and no termination gives them back.
ImplementsRegister == Register!Spec

\* _get_next_available_ip: "Get next available IP address for VPS container".
\* The greatest text is not the greatest address once an octet has three
\* digits: with .10 to .100 in use, the next is .100 again.
IpAvailable ==
    \A t \in Tasks : attempt[t].pc = "allocated" => attempt[t].addr.ip \notin UsedIps

=============================================================================
