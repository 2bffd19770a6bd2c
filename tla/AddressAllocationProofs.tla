------------------------ MODULE AddressAllocationProofs ------------------------
(***************************************************************************)
(* Proofs about AddressAllocation, for every number of subscriptions and   *)
(* of provision tasks.                                                     *)
(***************************************************************************)
EXTENDS AddressAllocation, TLAPS

-----------------------------------------------------------------------------
(***************************************************************************)
(* The inductive invariant: the locks exclude, and the one address that is *)
(* allocated and not yet committed lies above every row's.                 *)
(***************************************************************************)
Exclusive ==
    \A t, u \in Tasks : attempt[t].pc # "idle" /\ attempt[u].pc # "idle" => t = u

Above ==
    \A t \in Tasks : attempt[t].pc # "idle" =>
        /\ attempt[t].sub \in Subs
        /\ \A s \in Recorded : /\ rows[s].addr.ssh < attempt[t].addr.ssh
                               /\ rows[s].addr.http < attempt[t].addr.http

AllocInv == TypeOK /\ Exclusive /\ Above /\ HttpPortsDistinct

LEMMA ConstantTypes ==
    /\ NoAddress \in Address
    /\ NoRow \in Row /\ NoRow.status = "NONE"
    /\ NoContainer \in Container
    /\ IdleAttempt \in Attempt /\ IdleAttempt.pc = "idle"
<1>1. NoAddress \in Address
    BY DEF NoAddress, Address
<1> QED
    BY <1>1 DEF NoRow, Row, NoContainer, Container, IdleAttempt, Attempt

\* The columns of the rows are numbers.
LEMMA UsedTypes ==
    ASSUME TypeOK
    PROVE  /\ UsedSsh \subseteq Nat
           /\ UsedHttp \subseteq Nat
           /\ UsedIps \subseteq Nat \X Nat
BY DEF TypeOK, Row, Address, Recorded, UsedSsh, UsedHttp, UsedIps

\* The next port is above every port in use.
LEMMA NextPortAbove ==
    ASSUME NEW used \in SUBSET Nat, NEW first \in Nat, NEW p \in NextPorts(used, first)
    PROVE  p \in Nat /\ \A m \in used : m < p
<1>1. CASE used = {}
    BY <1>1 DEF NextPorts
<1>2. CASE used # {}
    <2>1. PICK m \in used : p = m + 1 /\ \A k \in used : k <= m
        BY <1>2 DEF NextPorts
    <2> QED
        BY <2>1
<1> QED
    BY <1>1, <1>2

\* The next address is a pair of numbers.
LEMMA NextIpType ==
    ASSUME NEW used \in SUBSET (Nat \X Nat), NEW ip \in NextIps(used)
    PROVE  ip \in Nat \X Nat
<1>1. CASE used = {}
    BY <1>1 DEF NextIps
<1>2. CASE used # {}
    <2>1. PICK m \in used : ip = IF m[2] + 1 > 254 THEN <<m[1] + 1, 10>>
                                 ELSE <<m[1], m[2] + 1>>
        BY <1>2 DEF NextIps
    <2>2. m[1] \in Nat /\ m[2] \in Nat
        BY <2>1
    <2> QED
        BY <2>1, <2>2
<1> QED
    BY <1>1, <1>2

\* A rollback leaves the types as they are.
LEMMA RollBackStep ==
    ASSUME AllocInv, NEW t \in Tasks, NEW left \in [Subs -> Container], RollBack(t, left)
    PROVE  AllocInv'
<1>1. /\ host' \in [Subs -> Container]
      /\ rows' = rows
      /\ attempt' = [attempt EXCEPT ![t] = IdleAttempt]
    BY ConstantTypes DEF RollBack
<1>2. TypeOK'
    BY <1>1, ConstantTypes DEF AllocInv, TypeOK
<1>3. \A u \in Tasks : attempt'[u].pc # "idle" => attempt'[u] = attempt[u]
    BY <1>1, ConstantTypes DEF AllocInv, TypeOK
<1>4. Recorded' = Recorded
    BY <1>1 DEF Recorded
<1>5. Exclusive'
    BY <1>3 DEF AllocInv, Exclusive
<1>6. Above'
    BY <1>1, <1>3, <1>4 DEF AllocInv, Above
<1>7. HttpPortsDistinct'
    BY <1>1, <1>4 DEF AllocInv, HttpPortsDistinct
<1> QED
    BY <1>2, <1>5, <1>6, <1>7 DEF AllocInv

\* A step that only changes what Docker has, or the status of a row.
LEMMA AddressesKept ==
    ASSUME AllocInv, TypeOK', attempt' = attempt, Recorded' = Recorded,
           \A s \in Subs : rows'[s].addr = rows[s].addr
    PROVE  AllocInv'
BY DEF AllocInv, Exclusive, Above, HttpPortsDistinct, Recorded

-----------------------------------------------------------------------------
LEMMA AllocateStep ==
    ASSUME AllocInv, NEW t \in Tasks, NEW s \in Subs, Allocate(t, s)
    PROVE  AllocInv'
<1>1. PICK ip \in NextIps(UsedIps), ssh \in NextPorts(UsedSsh, 2222),
           http \in NextPorts(UsedHttp, 8100) :
               attempt' = [attempt EXCEPT ![t] =
                              [pc |-> "allocated", sub |-> s,
                               addr |-> [ip |-> ip, ssh |-> ssh, http |-> http]]]
    BY DEF Allocate
<1>2. /\ ip \in Nat \X Nat
      /\ ssh \in Nat /\ \A m \in UsedSsh : m < ssh
      /\ http \in Nat /\ \A m \in UsedHttp : m < http
    <2>1. UsedSsh \in SUBSET Nat /\ UsedHttp \in SUBSET Nat /\ UsedIps \in SUBSET (Nat \X Nat)
        BY UsedTypes DEF AllocInv
    <2>2. ssh \in Nat /\ \A m \in UsedSsh : m < ssh
        BY <2>1, NextPortAbove, 2222 \in Nat
    <2>3. http \in Nat /\ \A m \in UsedHttp : m < http
        BY <2>1, NextPortAbove, 8100 \in Nat
    <2>4. ip \in Nat \X Nat
        BY <2>1, NextIpType
    <2> QED
        BY <2>2, <2>3, <2>4
<1>3. rows' = rows /\ host' = host /\ LockFree /\ Recorded' = Recorded
    BY DEF Allocate, Recorded
<1>4. TypeOK'
    <2>1. [pc |-> "allocated", sub |-> s,
           addr |-> [ip |-> ip, ssh |-> ssh, http |-> http]] \in Attempt
        BY <1>2 DEF Attempt, Address
    <2> QED
        BY <1>1, <1>3, <2>1 DEF AllocInv, TypeOK
<1>5. \A u \in Tasks : attempt'[u].pc # "idle" => u = t
    BY <1>1, <1>3 DEF LockFree, AllocInv, TypeOK
<1>6. Exclusive'
    BY <1>5 DEF Exclusive
<1>7. Above'
    <2>1. \A s2 \in Recorded : rows[s2].addr.ssh < ssh /\ rows[s2].addr.http < http
        BY <1>2 DEF UsedSsh, UsedHttp
    <2>2. /\ attempt'[t].sub = s
          /\ attempt'[t].addr.ssh = ssh
          /\ attempt'[t].addr.http = http
        BY <1>1 DEF AllocInv, TypeOK
    <2> QED
        BY <1>3, <1>5, <2>1, <2>2 DEF Above
<1>8. HttpPortsDistinct'
    BY <1>3 DEF AllocInv, HttpPortsDistinct
<1> QED
    BY <1>4, <1>6, <1>7, <1>8 DEF AllocInv

LEMMA CreateStep ==
    ASSUME AllocInv, NEW t \in Tasks, Create(t)
    PROVE  AllocInv'
<1>1. /\ attempt[t].pc = "allocated"
      /\ attempt' = [attempt EXCEPT ![t].pc = "created"]
      /\ rows' = rows /\ Recorded' = Recorded
    BY DEF Create, Recorded
<1>2. attempt[t] \in Attempt /\ attempt[t].addr \in Address
    BY DEF AllocInv, TypeOK, Attempt
<1>3. host' \in [Subs -> Container]
    BY <1>2 DEF Create, AllocInv, TypeOK, Container, Address
<1>4. TypeOK'
    BY <1>1, <1>2, <1>3 DEF AllocInv, TypeOK, Attempt
<1>5. \A u \in Tasks : /\ attempt'[u].pc # "idle" <=> attempt[u].pc # "idle"
                       /\ attempt'[u].sub = attempt[u].sub
                       /\ attempt'[u].addr = attempt[u].addr
    BY <1>1, <1>2 DEF AllocInv, TypeOK, Attempt
<1>6. Exclusive' /\ Above' /\ HttpPortsDistinct'
    BY <1>1, <1>5 DEF AllocInv, Exclusive, Above, HttpPortsDistinct
<1> QED
    BY <1>4, <1>6 DEF AllocInv

\* The committed ports are new, and nothing else is allocated.
LEMMA CommitStep ==
    ASSUME AllocInv, NEW t \in Tasks, Commit(t)
    PROVE  AllocInv'
<1> DEFINE s == attempt[t].sub
<1>1. /\ attempt[t].pc = "created" /\ s \in Subs /\ s \notin Recorded
      /\ rows' = [rows EXCEPT ![s] = [status |-> "RUNNING", addr |-> attempt[t].addr]]
      /\ attempt' = [attempt EXCEPT ![t] = IdleAttempt]
      /\ host' = host
    BY DEF Commit, Insertable, AllocInv, Above
<1>2. attempt[t].addr \in Address
    BY DEF AllocInv, TypeOK, Attempt
<1>3. TypeOK'
    BY <1>1, <1>2, ConstantTypes DEF AllocInv, TypeOK, Row
<1>4. \A u \in Tasks : attempt'[u].pc = "idle"
    BY <1>1, ConstantTypes DEF AllocInv, TypeOK, Exclusive
<1>5. /\ Recorded' = Recorded \cup {s}
      /\ rows'[s].addr = attempt[t].addr
      /\ \A s2 \in Recorded : rows'[s2] = rows[s2]
    BY <1>1 DEF Recorded, AllocInv, TypeOK
<1>6. \A s2 \in Recorded : rows[s2].addr.http < attempt[t].addr.http
    BY <1>1 DEF AllocInv, Above
<1>7. \A s2 \in Recorded : rows[s2].addr.http \in Nat
    BY DEF Recorded, AllocInv, TypeOK, Row, Address
<1>8. HttpPortsDistinct'
    BY <1>2, <1>5, <1>6, <1>7 DEF AllocInv, HttpPortsDistinct, Address
<1>9. Exclusive' /\ Above'
    BY <1>4 DEF Exclusive, Above
<1> QED
    BY <1>3, <1>8, <1>9 DEF AllocInv

LEMMA CreateFailsStep ==
    ASSUME AllocInv, NEW t \in Tasks, CreateFails(t)
    PROVE  AllocInv'
<1>1. attempt[t].addr.ssh \in Nat /\ attempt[t].addr.http \in Nat
    BY DEF AllocInv, TypeOK, Attempt, Address
<1>2. host \in [Subs -> Container]
    BY DEF AllocInv, TypeOK
<1>3. [host EXCEPT ![attempt[t].sub] =
          [made |-> TRUE, up |-> FALSE, ssh |-> attempt[t].addr.ssh,
           http |-> attempt[t].addr.http]] \in [Subs -> Container]
    BY <1>1, <1>2 DEF Container
<1> QED
    BY <1>2, <1>3, RollBackStep DEF CreateFails

LEMMA CommitFailsStep ==
    ASSUME AllocInv, NEW t \in Tasks, CommitFails(t)
    PROVE  AllocInv'
BY RollBackStep DEF CommitFails, AllocInv, TypeOK

\* Stopping, starting, terminating, repairing and losing a container.
LEMMA HostStep ==
    ASSUME AllocInv, NEW s \in Subs,
           Stop(s) \/ Start(s) \/ Terminate(s) \/ Recreate(s) \/ Vanish(s)
    PROVE  AllocInv'
<1>1. /\ rows \in [Subs -> Row] /\ host \in [Subs -> Container]
      /\ rows[s] \in Row /\ host[s] \in Container
      /\ rows[s].addr.ssh \in Nat
    BY DEF AllocInv, TypeOK, Row, Address
<1>2. CASE Recreate(s) \/ Vanish(s)
    <2>1. rows' = rows /\ attempt' = attempt /\ Recorded' = Recorded
        BY <1>2 DEF Recreate, Vanish, Recorded
    <2>2. host' \in [Subs -> Container]
        <3>1. Bindable(s, rows[s].addr.ssh, 0) \in BOOLEAN
            BY DEF Bindable
        <3>2. ASSUME NEW up \in BOOLEAN
              PROVE  [made |-> TRUE, up |-> up, ssh |-> rows[s].addr.ssh, http |-> 0]
                        \in Container
            BY <1>1 DEF Container
        <3> QED
            BY <1>1, <1>2, <3>1, <3>2, ConstantTypes DEF Recreate, Vanish
    <2>3. TypeOK'
        BY <2>1, <2>2 DEF AllocInv, TypeOK
    <2> QED
        BY <2>1, <2>3, AddressesKept
<1>3. ASSUME NEW st \in {"RUNNING", "STOPPED", "TERMINATED"},
             rows[s].status # "NONE",
             rows' = [rows EXCEPT ![s].status = st],
             attempt' = attempt,
             host' \in [Subs -> Container]
      PROVE  AllocInv'
    <2>1. TypeOK'
        BY <1>1, <1>3 DEF AllocInv, TypeOK, Row
    <2>2. \A s2 \in Subs : rows'[s2].addr = rows[s2].addr
        BY <1>1, <1>3 DEF Row
    <2>3. Recorded' = Recorded
        BY <1>1, <1>3 DEF Recorded, Row
    <2> QED
        BY <1>3, <2>1, <2>2, <2>3, AddressesKept
<1>4. CASE Stop(s)
    <2>1. host' \in [Subs -> Container]
        BY <1>1, <1>4 DEF Stop, Container
    <2> QED
        BY <1>3, <1>4, <2>1 DEF Stop
<1>5. CASE Start(s)
    <2>1. host' \in [Subs -> Container]
        BY <1>1, <1>5 DEF Start, Container
    <2> QED
        BY <1>3, <1>5, <2>1 DEF Start
<1>6. CASE Terminate(s)
    <2>1. host' \in [Subs -> Container]
        BY <1>1, <1>6, ConstantTypes DEF Terminate
    <2> QED
        BY <1>3, <1>6, <2>1 DEF Terminate
<1> QED
    BY <1>2, <1>4, <1>5, <1>6

-----------------------------------------------------------------------------
LEMMA InitAlloc == Init => AllocInv
<1> SUFFICES ASSUME Init PROVE AllocInv
    OBVIOUS
<1>1. Recorded = {}
    BY ConstantTypes DEF Init, Recorded
<1> QED
    BY <1>1, ConstantTypes
    DEF Init, AllocInv, TypeOK, Exclusive, Above, HttpPortsDistinct

LEMMA NextAlloc == AllocInv /\ [Next]_vars => AllocInv'
<1> SUFFICES ASSUME AllocInv, [Next]_vars PROVE AllocInv'
    OBVIOUS
<1>1. ASSUME NEW t \in Tasks, Provision(t) PROVE AllocInv'
    BY <1>1, AllocateStep, CreateStep, CreateFailsStep, CommitStep, CommitFailsStep
    DEF Provision
<1>2. ASSUME NEW s \in Subs,
             Stop(s) \/ Start(s) \/ Terminate(s) \/ Recreate(s) \/ Vanish(s)
      PROVE  AllocInv'
    BY <1>2, HostStep
<1>3. CASE UNCHANGED vars
    BY <1>3 DEF vars, AllocInv, TypeOK, Exclusive, Above, HttpPortsDistinct, Recorded
<1> QED
    BY <1>1, <1>2, <1>3 DEF Next

LEMMA AllocInvariant == Spec => []AllocInv
BY InitAlloc, NextAlloc, PTL DEF Spec

\* The variables of the allocation always have their types, and a task outside
\* its transaction holds no address.
THEOREM AllocationTypeCorrect == Spec => []TypeOK
BY AllocInvariant, PTL DEF AllocInv

\* No two rows ever have the same http_port, although nothing in the table
\* forbids it: the advisory lock and the rows that are never deleted suffice.
THEOREM HttpPortsAlwaysDistinct == Spec => []HttpPortsDistinct
BY AllocInvariant, PTL DEF AllocInv

\* The ssh_port a task has allocated stays out of the table until the task
\* inserts it itself.
THEOREM SshPortAlwaysNew == Spec => []SshPortStaysNew
<1>1. AllocInv => SshPortStaysNew
    <2> SUFFICES ASSUME AllocInv, NEW t \in Tasks, attempt[t].pc # "idle",
                        attempt[t].addr.ssh \in UsedSsh
                 PROVE  FALSE
        BY DEF SshPortStaysNew
    <2>1. PICK s \in Recorded : rows[s].addr.ssh = attempt[t].addr.ssh
        BY DEF UsedSsh
    <2>2. rows[s].addr.ssh < attempt[t].addr.ssh
        BY DEF AllocInv, Above
    <2>3. rows[s].addr.ssh \in Nat
        BY DEF Recorded, AllocInv, TypeOK, Row, Address
    <2> QED
        BY <2>1, <2>2, <2>3
<1> QED
    BY <1>1, AllocInvariant, PTL

-----------------------------------------------------------------------------
(***************************************************************************)
(* The register.  While a task is inside its transaction the table stands  *)
(* still, so what it computed is what it would compute again.              *)
(***************************************************************************)
UpToDate ==
    \A t \in Tasks : attempt[t].pc # "idle" =>
        /\ attempt[t].addr.ssh \in NextPorts(UsedSsh, 2222)
        /\ attempt[t].addr.http \in NextPorts(UsedHttp, 8100)

\* A row has a port, and no row has none.
Numbered ==
    \A s \in Subs : IF s \in Recorded THEN rows[s].addr.ssh >= 2222
                    ELSE rows[s].addr = NoAddress

RegisterInv == AllocInv /\ UpToDate /\ Numbered

\* A step that keeps every address.
SameAddresses == Recorded' = Recorded /\ \A s \in Subs : rows'[s].addr = rows[s].addr

LEMMA SameColumns ==
    ASSUME SameAddresses
    PROVE  /\ UsedSsh' = UsedSsh /\ UsedHttp' = UsedHttp
           /\ NextPorts(UsedSsh, 2222)' = NextPorts(UsedSsh, 2222)
           /\ NextPorts(UsedHttp, 8100)' = NextPorts(UsedHttp, 8100)
<1>1. UsedSsh' = UsedSsh /\ UsedHttp' = UsedHttp
    BY DEF SameAddresses, UsedSsh, UsedHttp, Recorded
<1> QED
    BY <1>1 DEF NextPorts

\* Only a commit touches the addresses.
LEMMA OnlyCommit ==
    ASSUME TypeOK, [Next]_vars
    PROVE  \/ SameAddresses
           \/ \E t \in Tasks : Commit(t)
<1>1. CASE UNCHANGED rows
    BY <1>1 DEF SameAddresses, Recorded
<1>2. ASSUME NEW s \in Subs, NEW st \in {"RUNNING", "STOPPED", "TERMINATED"},
             rows[s].status # "NONE", rows' = [rows EXCEPT ![s].status = st]
      PROVE  SameAddresses
    <2>1. \A q \in Subs : rows[q] \in Row
        BY DEF TypeOK
    <2>2. \A q \in Subs : /\ rows'[q].addr = rows[q].addr
                          /\ rows'[q].status = IF q = s THEN st ELSE rows[q].status
        BY <1>2, <2>1 DEF TypeOK, Row
    <2> QED
        BY <1>2, <2>2 DEF SameAddresses, Recorded
<1>3. ASSUME NEW s \in Subs,
             Stop(s) \/ Start(s) \/ Terminate(s) \/ Recreate(s) \/ Vanish(s)
      PROVE  SameAddresses
    <2>1. CASE Stop(s)
        BY <1>2, <2>1 DEF Stop
    <2>2. CASE Start(s)
        BY <1>2, <2>2 DEF Start
    <2>3. CASE Terminate(s)
        BY <1>2, <2>3 DEF Terminate
    <2>4. CASE Recreate(s) \/ Vanish(s)
        <3>1. UNCHANGED rows
            BY <2>4 DEF Recreate, Vanish
        <3> QED
            BY <3>1 DEF SameAddresses, Recorded
    <2> QED
        BY <1>3, <2>1, <2>2, <2>3, <2>4
<1>4. ASSUME NEW t \in Tasks, Provision(t), ~Commit(t) PROVE UNCHANGED rows
    BY <1>4 DEF Provision, Allocate, Create, CreateFails, CommitFails, RollBack
<1> QED
    BY <1>1, <1>3, <1>4 DEF Next, vars

\* Who is inside a transaction after a step was inside before it, with the same
\* address, or has just computed it from a table that the step leaves alone.
LEMMA AttemptStep ==
    ASSUME TypeOK, [Next]_vars, NEW t \in Tasks, attempt'[t].pc # "idle"
    PROVE  \/ attempt[t].pc # "idle" /\ attempt'[t].addr = attempt[t].addr
           \/ /\ attempt'[t].addr.ssh \in NextPorts(UsedSsh, 2222)
              /\ attempt'[t].addr.http \in NextPorts(UsedHttp, 8100)
<1>1. ASSUME NEW u \in Tasks, Provision(u), u # t PROVE attempt'[t] = attempt[t]
    BY <1>1 DEF Provision, Allocate, Create, CreateFails, Commit, CommitFails, RollBack, TypeOK
<1>2. CASE \E s \in Subs : Allocate(t, s)
    BY <1>2 DEF Allocate, TypeOK
<1>3. CASE Create(t)
    BY <1>3 DEF Create, TypeOK, Attempt
<1>4. CASE CreateFails(t) \/ Commit(t) \/ CommitFails(t)
    BY <1>4, ConstantTypes DEF CreateFails, Commit, CommitFails, RollBack, TypeOK
<1>5. CASE attempt'[t] = attempt[t]
    BY <1>5
<1>6. ASSUME NEW s \in Subs,
             Stop(s) \/ Start(s) \/ Terminate(s) \/ Recreate(s) \/ Vanish(s)
      PROVE  attempt' = attempt
    BY <1>6 DEF Stop, Start, Terminate, Recreate, Vanish
<1> QED
    BY <1>1, <1>2, <1>3, <1>4, <1>5, <1>6 DEF Next, Provision, vars

\* The first port, or the one after a port that is no smaller.
LEMMA NextPortFrom ==
    ASSUME NEW first \in Nat, NEW used \in SUBSET Nat, \A m \in used : m >= first,
           NEW p \in NextPorts(used, first)
    PROVE  p >= first
BY DEF NextPorts

\* What a commit does to the table.
LEMMA CommitFacts ==
    ASSUME RegisterInv, NEW t \in Tasks, Commit(t), NEW s, s = attempt[t].sub
    PROVE  /\ s \in Subs /\ s \notin Recorded /\ Recorded' = Recorded \cup {s}
           /\ rows'[s].addr = attempt[t].addr
           /\ \A q \in Subs \ {s} : rows'[q] = rows[q]
           /\ attempt[t].addr.ip \notin UsedIps
           /\ attempt[t].addr.ssh \in NextPorts(UsedSsh, 2222)
           /\ attempt[t].addr.http \in NextPorts(UsedHttp, 8100)
           /\ attempt[t].addr.ssh >= 2222
           /\ \A u \in Tasks : attempt'[u].pc = "idle"
<1>1. /\ s \in Subs /\ s \notin Recorded /\ attempt[t].addr.ip \notin UsedIps
      /\ attempt[t].addr.ssh \in NextPorts(UsedSsh, 2222)
      /\ attempt[t].addr.http \in NextPorts(UsedHttp, 8100)
    BY DEF Commit, Insertable, RegisterInv, AllocInv, Above, UpToDate
<1>2. rows' = [rows EXCEPT ![s] = [status |-> "RUNNING", addr |-> attempt[t].addr]]
      /\ rows \in [Subs -> Row]
    BY DEF Commit, RegisterInv, AllocInv, TypeOK
<1>3. /\ Recorded' = Recorded \cup {s}
      /\ rows'[s].addr = attempt[t].addr
      /\ \A q \in Subs \ {s} : rows'[q] = rows[q]
    BY <1>1, <1>2 DEF Recorded
<1>4. attempt[t].addr.ssh >= 2222
    <2>1. UsedSsh \in SUBSET Nat
        BY UsedTypes DEF RegisterInv, AllocInv
    <2>2. \A m \in UsedSsh : m >= 2222
        BY DEF UsedSsh, RegisterInv, Numbered, Recorded
    <2> QED
        BY <1>1, <2>1, <2>2, NextPortFrom, 2222 \in Nat
<1>5. \A u \in Tasks : attempt'[u].pc = "idle"
    BY ConstantTypes DEF Commit, RegisterInv, AllocInv, TypeOK, Exclusive
<1> QED
    BY <1>1, <1>3, <1>4, <1>5

LEMMA RegisterNext == RegisterInv /\ [Next]_vars => RegisterInv'
<1> SUFFICES ASSUME RegisterInv, [Next]_vars PROVE RegisterInv'
    OBVIOUS
<1>1. AllocInv' /\ TypeOK
    BY NextAlloc DEF RegisterInv, AllocInv
<1>2. CASE SameAddresses
    <2>1. UpToDate'
        BY <1>1, <1>2, AttemptStep, SameColumns DEF RegisterInv, UpToDate
    <2>2. Numbered'
        BY <1>2 DEF RegisterInv, Numbered, SameAddresses
    <2> QED
        BY <1>1, <2>1, <2>2 DEF RegisterInv
<1>3. ASSUME NEW t \in Tasks, Commit(t) PROVE RegisterInv'
    <2> PICK s : s = attempt[t].sub
        OBVIOUS
    <2>1. /\ s \in Subs /\ Recorded' = Recorded \cup {s}
          /\ rows'[s].addr.ssh >= 2222
          /\ \A q \in Subs \ {s} : rows'[q] = rows[q]
          /\ \A u \in Tasks : attempt'[u].pc = "idle"
        BY <1>3, CommitFacts
    <2>2. UpToDate'
        BY <2>1 DEF UpToDate
    <2>3. Numbered'
        BY <2>1 DEF RegisterInv, Numbered
    <2> QED
        BY <1>1, <2>2, <2>3 DEF RegisterInv
<1> QED
    BY <1>1, <1>2, <1>3, OnlyCommit

LEMMA RegisterInvariant == Spec => []RegisterInv
<1>1. Init => RegisterInv
    BY InitAlloc, ConstantTypes
       DEF Init, RegisterInv, UpToDate, Numbered, Recorded, NoRow
<1> QED
    BY <1>1, RegisterNext, PTL DEF Spec

\* Who has an entry in the register has a row, and the columns are the same.
LEMMA HoldersAreRecorded ==
    ASSUME RegisterInv
    PROVE  /\ Register!Holders = Recorded
           /\ Register!SshPorts = UsedSsh
           /\ Register!HttpPorts = UsedHttp
           /\ Register!Ips = UsedIps
<1>1. ASSUME NEW s \in Subs PROVE rows[s].addr # NoAddress <=> s \in Recorded
    <2>1. CASE s \in Recorded
        <3>1. rows[s].addr.ssh >= 2222
            BY <2>1 DEF RegisterInv, Numbered
        <3>2. NoAddress.ssh = 0
            BY DEF NoAddress
        <3>3. rows[s].addr # NoAddress
            <4> SUFFICES ASSUME rows[s].addr = NoAddress PROVE FALSE
                OBVIOUS
            <4>1. 0 >= 2222
                BY <3>1, <3>2
            <4> QED
                BY <4>1
        <3> QED
            BY <2>1, <3>3
    <2>2. CASE s \notin Recorded
        BY <2>2 DEF RegisterInv, Numbered
    <2> QED
        BY <2>1, <2>2
<1>2. Register!Holders = Recorded
    BY <1>1 DEF Register!Holders, Recorded
<1> QED
    BY <1>2 DEF Register!SshPorts, Register!HttpPorts, Register!Ips,
                UsedSsh, UsedHttp, UsedIps, Recorded

\* The two ways to say which port comes next.
LEMMA NextFollows ==
    ASSUME NEW used, NEW first, NEW p \in NextPorts(used, first)
    PROVE  Register!Follows(p, used, first)
BY DEF NextPorts, Register!Follows

\* A commit is a grant.
LEMMA CommitGrants ==
    ASSUME RegisterInv, NEW t \in Tasks, Commit(t)
    PROVE  Register!Next
<1>1. PICK s : s = attempt[t].sub
    OBVIOUS
<1>2. PICK entry : entry = attempt[t].addr
    OBVIOUS
<1>3. /\ s \in Subs /\ s \notin Recorded
      /\ rows'[s].addr = entry
      /\ \A q \in Subs \ {s} : rows'[q] = rows[q]
      /\ entry.ip \notin UsedIps
      /\ entry.ssh \in NextPorts(UsedSsh, 2222)
      /\ entry.http \in NextPorts(UsedHttp, 8100)
    BY <1>1, <1>2, CommitFacts
<1>4. [q \in Subs |-> rows[q].addr][s] = NoAddress
    BY <1>3 DEF RegisterInv, Numbered
<1>5. [q \in Subs |-> rows[q].addr]' = [[q \in Subs |-> rows[q].addr] EXCEPT ![s] = entry]
    <2>1. \A q \in Subs : rows'[q].addr = IF q = s THEN entry ELSE rows[q].addr
        BY <1>3
    <2>2. [q \in Subs |-> rows'[q].addr]
              = [q \in Subs |-> IF q = s THEN entry ELSE rows[q].addr]
        BY <2>1
    <2> QED
        BY <2>2
<1>6. /\ Register!Follows(entry.ssh, Register!SshPorts, 2222)
      /\ Register!Follows(entry.http, Register!HttpPorts, 8100)
      /\ entry.ip \notin Register!Ips
    BY <1>3, NextFollows, HoldersAreRecorded
<1>7. [q \in Subs |-> rows[q].addr]'[s] = entry
    BY <1>3
<1>8. Register!Grant(s)
    BY <1>4, <1>5, <1>6, <1>7 DEF Register!Grant
<1> QED
    BY <1>3, <1>8 DEF Register!Next

\* However many provision tasks run beside each other, fail and try again, the
\* addresses in the table are a register that is added to entry by entry and
\* never gives an entry back.
THEOREM AllocationIsRegister == Spec => ImplementsRegister
<1>1. Init => Register!Init
    BY DEF Init, Register!Init, NoRow
<1>2. RegisterInv /\ [Next]_vars => [Register!Next]_([s \in Subs |-> rows[s].addr])
    <2> SUFFICES ASSUME RegisterInv, [Next]_vars
                 PROVE  [Register!Next]_([s \in Subs |-> rows[s].addr])
        OBVIOUS
    <2>1. CASE SameAddresses
        BY <2>1 DEF SameAddresses
    <2>2. CASE \E t \in Tasks : Commit(t)
        BY <2>2, CommitGrants
    <2> QED
        BY <2>1, <2>2, OnlyCommit DEF RegisterInv, AllocInv
<1> QED
    BY <1>1, <1>2, RegisterInvariant, PTL DEF Spec, ImplementsRegister, Register!Spec

=============================================================================
