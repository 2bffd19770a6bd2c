-------------------------- MODULE VPSContractProofs --------------------------
(***************************************************************************)
(* The handlers, tasks and repairs of VPSLifecycle keep the contract of    *)
(* ProvisioningContract, for every number of subscriptions, tasks, ids and *)
(* retries, when requests come one at a time and without download-image.   *)
(* Each step of the program is one step of the contract or none.           *)
(***************************************************************************)
EXTENDS VPSLifecycleProofs

-----------------------------------------------------------------------------
(***************************************************************************)
(* Two facts beside the invariants of VPSLifecycleProofs: a request in     *)
(* flight is about a subscription that was asked for, and only provision   *)
(* tasks are retried.                                                      *)
(***************************************************************************)
Asked == \A r \in Requests : req[r].pc # "idle" => status[req[r].sub] # "NONE"

Counted == \A t \in Tasks : task[t].kind # "provision" => task[t].retries = 0

ContractInv == TypeInv /\ OrphanInv /\ PipeInv /\ Asked /\ Counted

\* No step takes a subscription back to where nobody asked for it.
LEMMA NeverUnasked ==
    ASSUME TypeInv, [Next]_vars, NEW s \in Subs, status[s] # "NONE"
    PROVE  status'[s] # "NONE"
<1>1. ASSUME NEW r \in Requests, Continue(r) \/ RequestDies(r) \/ \E s2 \in Subs : Serve(r, s2)
      PROVE  status' = status \/ \E new \in SubStatus \ {"NONE"} : WriteStatus(r, new)
    BY <1>1 DEF Continue, StopCall, StartCall, DeleteCall, ApproveCommit, DownloadImageCommit,
                RejectCommit, SuspendCommit, ReactivateCommit, CancelCommit, TerminateCommit,
                StartCommit, StopCommit, PublishDownload, RequestDies, Serve, Load, Approve,
                Reject, DownloadImage, Suspend, Reactivate, Cancel, Terminate, Start, Stop,
                Reboot, SubStatus
<1>2. ASSUME NEW r \in Requests, NEW new \in SubStatus \ {"NONE"}, WriteStatus(r, new)
      PROVE  status'[s] # "NONE"
    BY <1>2 DEF WriteStatus, TypeInv, TypeOK
<1>3. ASSUME NEW t \in Tasks, Work(t) \/ WorkerDies(t) PROVE status'[s] # "NONE"
    BY <1>3 DEF TypeInv, TypeOK, Work, WorkerDies, DownloadStart, DownloadDone,
                PublishProvision, DownloadFails, ProvisionRefused, ProvisionStart,
                ProvisionCreate, ProvisionCreateFails, ProvisionCommit,
                ProvisionCommitFails, ProvisionRetry, ProvisionGivesUp
<1>4. ASSUME NEW s2 \in Subs, RequestVPS(s2) PROVE status'[s] # "NONE"
    BY <1>4 DEF RequestVPS, TypeInv, TypeOK
<1>5. CASE \/ \E s2 \in Subs : Reconcile(s2) \/ ContainerVanishes(s2)
           \/ ReconcileScan \/ ReconcileDies \/ UNCHANGED vars
    BY <1>5 DEF Reconcile, ReconcileFound, ReconcileMissing, ReconcileCreate, ReconcileCommit,
                ReconcileFails, ReconcileScan, ReconcileDies, ContainerVanishes, vars
<1> QED
    BY <1>1, <1>2, <1>3, <1>4, <1>5 DEF Next

\* A request in flight keeps its subscription; a new one finds it asked for.
LEMMA AskedNext ==
    ASSUME TypeInv, Asked, [Next]_vars
    PROVE  Asked'
<1> SUFFICES ASSUME NEW r \in Requests, req'[r].pc # "idle"
             PROVE  status'[req'[r].sub] # "NONE"
    BY DEF Asked
<1>1. CASE req'[r] = req[r]
    <2>1. req[r].sub \in Subs /\ status[req[r].sub] # "NONE"
        BY <1>1 DEF Asked, TypeInv, Placed
    <2> QED
        BY <1>1, <2>1, NeverUnasked
<1>2. ASSUME NEW s \in Subs, Serve(r, s) PROVE status'[req'[r].sub] # "NONE"
    BY <1>2 DEF Serve, Load, Approve, Reject, DownloadImage, Suspend, Reactivate, Cancel,
                Terminate, Start, Stop, Reboot, TypeInv, TypeOK
<1>3. CASE Continue(r) \/ RequestDies(r)
    <2>1. req[r].pc # "idle" /\ req[r].sub \in Subs /\ status[req[r].sub] # "NONE"
        BY <1>3 DEF Continue, StopCall, StartCall, DeleteCall, ApproveCommit,
               DownloadImageCommit, RejectCommit, SuspendCommit, ReactivateCommit,
               CancelCommit, TerminateCommit, StartCommit, StopCommit, PublishDownload,
               Committing, RequestDies, TypeInv, TypeOK, Placed, Asked
    <2>2. \/ \E pc \in {"docker", "commit"} : Advance(r, pc)
          \/ Finish(r) \/ ToPublish(r)
        BY <1>3 DEF Continue, StopCall, StartCall, DeleteCall, CallFails, ApproveCommit,
               DownloadImageCommit, RejectCommit, SuspendCommit, ReactivateCommit,
               CancelCommit, TerminateCommit, StartCommit, StopCommit, PublishDownload,
               RequestDies
    <2>3. req'[r].sub = req[r].sub
        <3>1. CASE \E pc \in {"docker", "commit"} : Advance(r, pc)
            BY <3>1 DEF Advance, Onward, TypeInv, TypeOK, Request
        <3>2. CASE Finish(r)
            BY <3>2, IdleTypes DEF Finish, TypeInv, TypeOK
        <3>3. CASE ToPublish(r)
            BY <3>3 DEF ToPublish, Owing, IdleRequest, TypeInv, TypeOK
        <3> QED
            BY <2>2, <3>1, <3>2, <3>3
    <2> QED
        BY <2>1, <2>3, NeverUnasked
<1>4. \/ req'[r] = req[r]
      \/ Continue(r) \/ RequestDies(r)
      \/ \E s \in Subs : Serve(r, s)
    <2>1. ASSUME NEW q \in Requests \ {r},
                 Continue(q) \/ RequestDies(q) \/ \E s \in Subs : Serve(q, s)
          PROVE  req'[r] = req[r]
        BY <2>1 DEF Continue, StopCall, StartCall, DeleteCall, CallFails, ApproveCommit,
               DownloadImageCommit, RejectCommit, SuspendCommit, ReactivateCommit,
               CancelCommit, TerminateCommit, StartCommit, StopCommit, PublishDownload,
               RequestDies, Serve, Load, Approve, Reject, DownloadImage, Suspend,
               Reactivate, Cancel, Terminate, Start, Stop, Reboot, Advance, Finish,
               ToPublish, TypeInv, TypeOK
    <2>2. CASE \/ \E s \in Subs : RequestVPS(s) \/ Reconcile(s) \/ ContainerVanishes(s)
               \/ \E t \in Tasks : Work(t) \/ WorkerDies(t)
               \/ ReconcileScan \/ ReconcileDies \/ UNCHANGED vars
        BY <2>2 DEF RequestVPS, Reconcile, ReconcileFound, ReconcileMissing, ReconcileCreate,
               ReconcileCommit, ReconcileFails, ReconcileScan, ReconcileDies,
               ContainerVanishes, vars, Work, WorkerDies, DownloadStart, DownloadDone,
               PublishProvision, DownloadFails, ProvisionRefused, ProvisionStart,
               ProvisionCreate, ProvisionCreateFails, ProvisionCommit,
               ProvisionCommitFails, ProvisionRetry, ProvisionGivesUp
    <2> QED
        BY <2>1, <2>2 DEF Next
<1> QED
    BY <1>1, <1>2, <1>3, <1>4

\* A queued message has not been retried.
LEMMA QueuedAfresh ==
    ASSUME NEW k \in {"download", "provision"}, NEW s \in Subs
    PROVE  Queued(k, s).retries = 0
BY DEF Queued, IdleTask

\* Only the retry of a provision task counts.
LEMMA CountedNext ==
    ASSUME TypeInv, OrphanInv, Counted, [Next]_vars
    PROVE  Counted'
<1>1. ASSUME NEW t \in Tasks, task' = [task EXCEPT ![t] = task'[t]],
             task'[t].kind = "provision" \/ task'[t].retries = 0
      PROVE  Counted'
    BY <1>1 DEF Counted, TypeInv, TypeOK
<1>2. ASSUME NEW r \in Requests, NEW t \in Tasks, PublishDownload(r, t) PROVE Counted'
    <2>1. req[r].sub \in Subs
        BY <1>2 DEF PublishDownload, TypeInv, Placed
    <2> QED
        BY <1>1, <1>2, <2>1, QueuedAfresh DEF PublishDownload, TypeInv, TypeOK
<1>3. ASSUME NEW t \in Tasks, Work(t) \/ WorkerDies(t) PROVE Counted'
    <2>1. task' = [task EXCEPT ![t] = task'[t]]
        BY <1>3 DEF TypeInv, TypeOK, Work, WorkerDies, DownloadStart, DownloadDone,
               PublishProvision, DownloadFails, ProvisionRefused, ProvisionStart,
               ProvisionCreate, ProvisionCreateFails, ProvisionCommit,
               ProvisionCommitFails, ProvisionRetry, ProvisionGivesUp
    <2>2. task[t] \in Task /\ (task[t].pc # "idle" => task[t].sub \in Subs)
        BY DEF TypeInv, TypeOK, Placed
    <2>3. CASE DownloadFails(t) \/ ProvisionCommit(t) \/ ProvisionGivesUp(t) \/ WorkerDies(t)
        <3>1. task'[t] = IdleTask
            BY <2>3 DEF DownloadFails, ProvisionCommit, ProvisionGivesUp, WorkerDies,
                        TypeInv, TypeOK
        <3> QED
            BY <1>1, <2>1, <3>1 DEF IdleTask
    <2>4. CASE PublishProvision(t) \/ ProvisionRetry(t)
        <3>1. task'[t].kind = "provision"
            BY <2>2, <2>4, QueuedType DEF PublishProvision, ProvisionRetry, TypeInv, TypeOK, Task
        <3> QED
            BY <1>1, <2>1, <3>1
    <2>5. CASE DownloadStart(t) \/ DownloadDone(t) \/ ProvisionRefused(t)
               \/ ProvisionStart(t) \/ ProvisionCreate(t) \/ ProvisionCreateFails(t)
               \/ ProvisionCommitFails(t)
        <3>1. task'[t].kind = task[t].kind /\ task'[t].retries = task[t].retries
            <4>1. CASE DownloadStart(t) \/ DownloadDone(t)
                BY <2>2, <4>1 DEF DownloadStart, DownloadDone, TypeInv, TypeOK, Task
            <4>2. CASE ProvisionRefused(t) \/ ProvisionStart(t)
                BY <2>2, <4>2 DEF ProvisionRefused, ProvisionStart, TypeInv, TypeOK, Task
            <4>3. CASE ProvisionCreate(t)
                BY <2>2, <4>3 DEF ProvisionCreate, TypeInv, TypeOK, Task
            <4>4. CASE ProvisionCreateFails(t) \/ ProvisionCommitFails(t)
                BY <2>2, <4>4 DEF ProvisionCreateFails, ProvisionCommitFails, TypeInv,
                                  TypeOK, Task
            <4> QED
                BY <2>5, <4>1, <4>2, <4>3, <4>4
        <3> QED
            BY <1>1, <2>1, <3>1 DEF Counted
    <2> QED
        BY <1>3, <2>3, <2>4, <2>5 DEF Work
<1>4. CASE UNCHANGED task
    BY <1>4 DEF Counted
<1>5. \/ UNCHANGED task
      \/ \E r \in Requests, t \in Tasks : PublishDownload(r, t)
      \/ \E t \in Tasks : Work(t) \/ WorkerDies(t)
    <2>1. ASSUME NEW r \in Requests, Continue(r) \/ RequestDies(r) \/ \E s \in Subs : Serve(r, s)
          PROVE  UNCHANGED task \/ \E t \in Tasks : PublishDownload(r, t)
        BY <2>1 DEF Continue, StopCall, StartCall, DeleteCall, ApproveCommit,
               DownloadImageCommit, RejectCommit, SuspendCommit, ReactivateCommit,
               CancelCommit, TerminateCommit, StartCommit, StopCommit, RequestDies,
               Serve, Load, Approve, Reject, DownloadImage, Suspend, Reactivate, Cancel,
               Terminate, Start, Stop, Reboot
    <2>2. \/ \E s \in Subs : RequestVPS(s) \/ Reconcile(s) \/ ContainerVanishes(s)
          \/ ReconcileScan \/ ReconcileDies \/ UNCHANGED vars
          => UNCHANGED task
        BY DEF RequestVPS, Reconcile, ReconcileFound, ReconcileMissing, ReconcileCreate,
               ReconcileCommit, ReconcileFails, ReconcileScan, ReconcileDies,
               ContainerVanishes, vars
    <2> QED
        BY <2>1, <2>2 DEF Next
<1> QED
    BY <1>2, <1>3, <1>4, <1>5

\* The invariant of the refinement.
LEMMA ContractInvariant ==
    ASSUME OneAtATime, "download-image" \notin Ops
    PROVE  Spec => []ContractInv
<1>1. Init => ContractInv
    <2>1. Init => OrphanInv
        BY IdleTypes
           DEF Init, OrphanInv, Kinds, OneCreated, Held, Stray, NoContainer, IdleRecon
    <2>2. Init => PipeInv
        BY IdleTypes, LifecycleAssumption DEF Init, PipeInv, Alone, HasRow, NoRow
    <2>3. Init => Asked /\ Counted
        BY IdleTypes DEF Init, Asked, Counted, IdleTask
    <2> QED
        BY <2>1, <2>2, <2>3, InitType DEF ContractInv
<1>2. ContractInv /\ [Next]_vars => ContractInv'
    BY NextType, OrphanNext, PipeNext, AskedNext, CountedNext DEF ContractInv
<1> QED
    BY <1>1, <1>2, PTL DEF Spec

-----------------------------------------------------------------------------
(***************************************************************************)
(* What the contract sees of a state.                                      *)
(***************************************************************************)
LEMMA PhaseReads ==
    \A s \in Subs :
        /\ HasRow(s) => PhaseOf(s) = "installed"
        /\ ~HasRow(s) /\ Working(s) => PhaseOf(s) = "job"
        /\ ~HasRow(s) /\ ~Working(s) => PhaseOf(s) = Resting(status[s])
BY DEF PhaseOf

\* The same of the next state.
LEMMA PhaseReadsNext ==
    \A s \in Subs :
        /\ HasRow(s)' => PhaseOf(s)' = "installed"
        /\ ~HasRow(s)' /\ Working(s)' => PhaseOf(s)' = "job"
        /\ ~HasRow(s)' /\ ~Working(s)' => PhaseOf(s)' = Resting(status'[s])
<1>1. (\A s \in Subs :
          /\ HasRow(s) => PhaseOf(s) = "installed"
          /\ ~HasRow(s) /\ Working(s) => PhaseOf(s) = "job"
          /\ ~HasRow(s) /\ ~Working(s) => PhaseOf(s) = Resting(status[s]))'
    BY PhaseReads, PTL
<1> QED
    BY <1>1

\* The retries of the one task of a subscription.
LEMMA TriesReads ==
    TypeInv /\ PipeInv =>
        \A s \in Subs :
            /\ \A t \in Tasks : task[t].sub = s => TriesOf(s) = task[t].retries
            /\ (\A t \in Tasks : task[t].sub # s) => TriesOf(s) = 0
<1> SUFFICES ASSUME TypeInv, PipeInv, NEW s \in Subs
             PROVE  /\ \A t \in Tasks : task[t].sub = s => TriesOf(s) = task[t].retries
                    /\ (\A t \in Tasks : task[t].sub # s) => TriesOf(s) = 0
    OBVIOUS
<1>1. ASSUME NEW t \in Tasks, task[t].sub = s PROVE TriesOf(s) = task[t].retries
    <2> DEFINE n == CHOOSE n \in 0..MaxRetries : Tried(s, n)
    <2>1. task[t].retries \in 0..MaxRetries /\ Tried(s, task[t].retries)
        BY <1>1 DEF TypeInv, TypeOK, Task, Tried
    <2>2. n \in 0..MaxRetries /\ Tried(s, n)
        BY <2>1
    <2> HIDE DEF n
    <2>3. PICK u \in Tasks : task[u].sub = s /\ task[u].retries = n
        BY <2>2 DEF Tried
    <2>4. u = t
        BY <1>1, <2>3 DEF PipeInv, Alone
    <2>5. TriesOf(s) = n
        BY <2>1 DEF TriesOf, n
    <2> QED
        BY <2>3, <2>4, <2>5
<1>2. ASSUME \A t \in Tasks : task[t].sub # s PROVE TriesOf(s) = 0
    BY <1>2 DEF TriesOf, Tried
<1> QED
    BY <1>1, <1>2

LEMMA TriesReadsNext ==
    ContractInv' =>
        \A s \in Subs :
            /\ \A t \in Tasks : task'[t].sub = s => TriesOf(s)' = task'[t].retries
            /\ (\A t \in Tasks : task'[t].sub # s) => TriesOf(s)' = 0
<1>1. (TypeInv /\ PipeInv =>
          \A s \in Subs :
              /\ \A t \in Tasks : task[t].sub = s => TriesOf(s) = task[t].retries
              /\ (\A t \in Tasks : task[t].sub # s) => TriesOf(s) = 0)'
    BY TriesReads, PTL
<1> QED
    BY <1>1 DEF ContractInv

\* The contract sees nothing of subscription s move.
Quiet(s) == PhaseOf(s)' = PhaseOf(s) /\ TriesOf(s)' = TriesOf(s)

LEMMA QuietPhase ==
    ASSUME NEW s \in Subs, HasRow(s)' <=> HasRow(s), Working(s)' <=> Working(s),
           HasRow(s) \/ Working(s) \/ status'[s] = status[s]
    PROVE  PhaseOf(s)' = PhaseOf(s)
BY PhaseReads, PhaseReadsNext

LEMMA QuietTries ==
    ASSUME ContractInv, ContractInv', NEW s \in Subs,
           \A t \in Tasks : /\ task[t].sub = s <=> task'[t].sub = s
                            /\ task[t].sub = s => task'[t].retries = task[t].retries
    PROVE  TriesOf(s)' = TriesOf(s)
BY TriesReads, TriesReadsNext DEF ContractInv

\* What nobody sees is a stutter of the contract.
LEMMA ContractStutters ==
    ASSUME \A s \in Subs : Quiet(s), UNCHANGED <<lost, gaveUp>>
    PROVE  UNCHANGED Contract!contractVars
<1>1. [s \in Subs |-> PhaseOf(s)'] = [s \in Subs |-> PhaseOf(s)]
    BY DEF Quiet
<1>2. [s \in Subs |-> TriesOf(s)'] = [s \in Subs |-> TriesOf(s)]
    BY DEF Quiet
<1> QED
    BY <1>1, <1>2 DEF Contract!contractVars

\* One subscription moves.
LEMMA ContractMoves ==
    ASSUME NEW s \in Subs, \A s2 \in Subs \ {s} : Quiet(s2)
    PROVE  /\ \A from, to : PhaseOf(s) = from /\ PhaseOf(s)' = to =>
                                Contract!Move(s, from, to)
           /\ [q \in Subs |-> TriesOf(q)]' =
                  [[q \in Subs |-> TriesOf(q)] EXCEPT ![s] = TriesOf(s)']
           /\ PhaseOf(s)' = PhaseOf(s) =>
                  [q \in Subs |-> PhaseOf(q)]' = [q \in Subs |-> PhaseOf(q)]
           /\ TriesOf(s)' = TriesOf(s) =>
                  [q \in Subs |-> TriesOf(q)]' = [q \in Subs |-> TriesOf(q)]
<1>1. [q \in Subs |-> PhaseOf(q)'] =
          [[q \in Subs |-> PhaseOf(q)] EXCEPT ![s] = PhaseOf(s)']
    BY DEF Quiet
<1>2. [q \in Subs |-> TriesOf(q)'] =
          [[q \in Subs |-> TriesOf(q)] EXCEPT ![s] = TriesOf(s)']
    BY DEF Quiet
<1>3. ASSUME PhaseOf(s)' = PhaseOf(s)
      PROVE  [q \in Subs |-> PhaseOf(q)'] = [q \in Subs |-> PhaseOf(q)]
    BY <1>3 DEF Quiet
<1>4. ASSUME TriesOf(s)' = TriesOf(s)
      PROVE  [q \in Subs |-> TriesOf(q)'] = [q \in Subs |-> TriesOf(q)]
    BY <1>4 DEF Quiet
<1> QED
    BY <1>1, <1>2, <1>3, <1>4 DEF Contract!Move

\* Requests that publish what they did before are at work as before.
LEMMA SameHandlers ==
    ASSUME UNCHANGED task,
           \A q \in Requests : \/ req'[q].pc = req[q].pc /\ req'[q].sub = req[q].sub
                               \/ req[q].pc # "publish" /\ req'[q].pc # "publish"
    PROVE  \A s \in Subs : Working(s)' <=> Working(s)
BY DEF Working

\* request_vps
LEMMA RequestMaps ==
    ASSUME ContractInv, ContractInv', NEW s \in Subs, RequestVPS(s)
    PROVE  Contract!Next
<1>1. status[s] = "NONE" /\ UNCHANGED <<row, req, task, lost, gaveUp>>
    BY DEF RequestVPS
<1>2. status'[s] = "PENDING" /\ \A s2 \in Subs \ {s} : status'[s2] = status[s2]
    BY DEF RequestVPS, ContractInv, TypeInv, TypeOK
<1>3. \A s2 \in Subs : /\ TriesOf(s2)' = TriesOf(s2)
                       /\ HasRow(s2)' <=> HasRow(s2)
                       /\ Working(s2)' <=> Working(s2)
    BY <1>1, QuietTries, SameHandlers DEF HasRow
<1>4. \A s2 \in Subs \ {s} : Quiet(s2)
    BY <1>2, <1>3, QuietPhase DEF Quiet
<1>5. ~HasRow(s) /\ ~Working(s)
    <2>1. ~HasRow(s) /\ \A t \in Tasks : task[t].sub # s
        BY <1>1 DEF ContractInv, PipeInv, Alone, Early
    <2>2. \A r \in Requests : req[r].pc = "publish" => req[r].sub # s
        BY <1>1 DEF ContractInv, PipeInv, Approves, Acts, Early
    <2> QED
        BY <2>1, <2>2 DEF Working
<1>6. PhaseOf(s) = "none" /\ PhaseOf(s)' = "waiting"
    BY <1>1, <1>2, <1>3, <1>5, PhaseReads, PhaseReadsNext DEF Resting
<1>7. Contract!Request(s)
    BY <1>1, <1>3, <1>4, <1>6, ContractMoves DEF Contract!Request
<1> QED
    BY <1>7 DEF Contract!Next

\* The commit of a handler other than an approval: at most, a request that
\* waited is withdrawn.
LEMMA ActsMaps ==
    ASSUME ContractInv, ContractInv', NEW r \in Requests, Acts(req[r]), req[r].pc # "idle",
           Finish(r), UNCHANGED <<task, lost, gaveUp>>,
           \A s \in Subs : HasRow(s)' <=> HasRow(s),
           NEW new \in SubStatus \ Early, WriteStatus(r, new) \/ UNCHANGED status
    PROVE  [Contract!Next]_Contract!contractVars
<1> PICK s : s = req[r].sub
    OBVIOUS
<1>1. s \in Subs /\ status[s] # "NONE" /\ req[r].pc # "publish"
    BY DEF ContractInv, TypeInv, Placed, Asked, Acts
<1>2. /\ \A s2 \in Subs \ {s} : status'[s2] = status[s2]
      /\ status'[s] = status[s] \/ status'[s] = new
    BY <1>1 DEF WriteStatus, ContractInv, TypeInv, TypeOK
<1>3. \A s2 \in Subs : Working(s2)' <=> Working(s2)
    <2>1. \A q \in Requests : req'[q] = IF q = r THEN IdleRequest ELSE req[q]
        BY DEF Finish, ContractInv, TypeInv, TypeOK
    <2> QED
        BY <1>1, <2>1, IdleTypes, SameHandlers
<1>4. \A s2 \in Subs : TriesOf(s2)' = TriesOf(s2)
    BY QuietTries
<1>5. \A s2 \in Subs \ {s} : Quiet(s2)
    BY <1>2, <1>3, <1>4, QuietPhase DEF Quiet
<1>6. CASE Quiet(s)
    BY <1>5, <1>6, ContractStutters
<1>7. CASE ~Quiet(s)
    <2>1. ~HasRow(s) /\ ~Working(s) /\ status'[s] # status[s]
        BY <1>1, <1>3, <1>4, <1>7, QuietPhase DEF Quiet
    <2>2. PhaseOf(s) = Resting(status[s]) /\ PhaseOf(s)' = "over"
        BY <1>1, <1>2, <1>3, <2>1, PhaseReads, PhaseReadsNext DEF Resting, Early
    <2>3. PhaseOf(s) = "waiting"
        BY <1>1, <1>4, <1>7, <2>2 DEF Quiet, Resting
    <2>4. Contract!Withdraw(s)
        BY <1>1, <1>4, <1>5, <2>2, <2>3, ContractMoves DEF Contract!Withdraw
    <2> QED
        BY <1>1, <2>4 DEF Contract!Next
<1> QED
    BY <1>6, <1>7

\* The commit of an approval: the request that waited is worked on.
LEMMA ApproveMaps ==
    ASSUME OneAtATime, ContractInv, ContractInv', NEW r \in Requests, ApproveCommit(r)
    PROVE  Contract!Next
<1> PICK s : s = req[r].sub
    OBVIOUS
<1>1. s \in Subs /\ Approves(req[r]) /\ req[r].pc = "commit"
    BY DEF ContractInv, TypeInv, Placed, PipeInv, ApproveCommit, Committing, Acts
<1>2. /\ ~HasRow(s) /\ \A t \in Tasks : task[t].sub # s
      /\ status[s] = "PENDING"
    BY <1>1 DEF Approves
<1>3. UNCHANGED <<row, task, lost, gaveUp>>
      /\ \A s2 \in Subs \ {s} : status'[s2] = status[s2]
    BY <1>1 DEF ApproveCommit, WriteStatus, ContractInv, TypeInv, TypeOK
<1>4. \A q \in Requests : q = r /\ req'[q].pc = "publish" /\ req'[q].sub = s
    BY <1>1 DEF ApproveCommit, ToPublish, Owing, IdleRequest, OneAtATime, ContractInv,
                TypeInv, TypeOK
<1>5. ~Working(s) /\ Working(s)'
    BY <1>1, <1>2, <1>4 DEF Working
<1>6. \A s2 \in Subs \ {s} : Working(s2)' <=> Working(s2)
    BY <1>1, <1>3, <1>4 DEF Working
<1>7. \A s2 \in Subs : TriesOf(s2)' = TriesOf(s2) /\ (HasRow(s2)' <=> HasRow(s2))
    BY <1>3, QuietTries DEF HasRow
<1>8. \A s2 \in Subs \ {s} : Quiet(s2)
    BY <1>3, <1>6, <1>7, QuietPhase DEF Quiet
<1>9. PhaseOf(s) = "waiting" /\ PhaseOf(s)' = "job"
    BY <1>1, <1>2, <1>5, <1>7, PhaseReads, PhaseReadsNext DEF Resting
<1>10. Contract!Approve(s)
    BY <1>1, <1>3, <1>7, <1>8, <1>9, ContractMoves DEF Contract!Approve
<1> QED
    BY <1>1, <1>10 DEF Contract!Next

\* The download task takes over from the handler that published it.
LEMMA PublishMaps ==
    ASSUME ContractInv, ContractInv', NEW r \in Requests, NEW t \in Tasks,
           PublishDownload(r, t)
    PROVE  UNCHANGED Contract!contractVars
<1> PICK s : s = req[r].sub
    OBVIOUS
<1>1. s \in Subs /\ Approves(req[r]) /\ req[r].pc = "publish"
    BY DEF ContractInv, TypeInv, Placed, PipeInv, PublishDownload, Acts
<1>2. \A u \in Tasks : task[u].sub # s
    BY <1>1 DEF Approves
<1>3. UNCHANGED <<status, row, lost, gaveUp>> /\ task[t].sub = NoSub
    BY DEF PublishDownload, ContractInv, TypeInv, Placed
<1>4. \A u \in Tasks : task'[u] = IF u = t THEN Queued("download", s) ELSE task[u]
    BY DEF PublishDownload, ContractInv, TypeInv, TypeOK
<1>5. \A q \in Requests : req'[q] = IF q = r THEN IdleRequest ELSE req[q]
    BY DEF PublishDownload, Finish, ContractInv, TypeInv, TypeOK
<1>6. task'[t].sub = s /\ task'[t].retries = 0
    BY <1>1, <1>4, QueuedType, QueuedAfresh
<1>7. Working(s) /\ Working(s)'
    BY <1>1, <1>6 DEF Working
<1>8. \A s2 \in Subs \ {s} : Working(s2)' <=> Working(s2)
    <2>1. \A s2 \in Subs \ {s}, u \in Tasks : task'[u].sub = s2 <=> task[u].sub = s2
        BY <1>3, <1>4, <1>6, LifecycleAssumption
    <2>2. \A s2 \in Subs \ {s}, q \in Requests :
              req'[q].pc = "publish" /\ req'[q].sub = s2 <=>
                  req[q].pc = "publish" /\ req[q].sub = s2
        BY <1>5, IdleTypes
    <2> QED
        BY <2>1, <2>2 DEF Working
<1>9. \A s2 \in Subs \ {s} : TriesOf(s2)' = TriesOf(s2)
    BY <1>3, <1>4, <1>6, LifecycleAssumption, QuietTries
<1>10. TriesOf(s) = 0 /\ TriesOf(s)' = 0
    BY <1>1, <1>2, <1>6, TriesReads, TriesReadsNext DEF ContractInv
<1>11. \A s2 \in Subs : Quiet(s2)
    BY <1>3, <1>7, <1>8, <1>9, <1>10, QuietPhase DEF Quiet, HasRow
<1> QED
    BY <1>3, <1>11, ContractStutters

\* A process that dies before it published has lost an approved request.
LEMMA DiesMaps ==
    ASSUME OneAtATime, ContractInv, ContractInv', NEW r \in Requests, RequestDies(r)
    PROVE  [Contract!Next]_Contract!contractVars
<1> PICK s : s = req[r].sub
    OBVIOUS
<1>1. s \in Subs /\ UNCHANGED <<status, row, task, gaveUp>> /\ Crashes
    BY DEF ContractInv, TypeInv, Placed, RequestDies
<1>2. \A q \in Requests : q = r /\ req'[q] = IdleRequest
    BY DEF RequestDies, Finish, OneAtATime, ContractInv, TypeInv, TypeOK
<1>3. \A s2 \in Subs : TriesOf(s2)' = TriesOf(s2) /\ (HasRow(s2)' <=> HasRow(s2))
    BY <1>1, QuietTries DEF HasRow
<1>4. CASE req[r].pc # "publish"
    <2>1. \A s2 \in Subs : Working(s2)' <=> Working(s2)
        BY <1>1, <1>2, <1>4, IdleTypes DEF Working
    <2>2. \A s2 \in Subs : Quiet(s2)
        BY <1>1, <1>3, <2>1, QuietPhase DEF Quiet
    <2> QED
        BY <1>1, <1>4, <2>2, ContractStutters DEF RequestDies
<1>5. CASE req[r].pc = "publish"
    <2>1. Approves(req[r])
        BY <1>5 DEF ContractInv, PipeInv, Acts
    <2>2. ~HasRow(s) /\ status[s] \notin Early /\ \A t \in Tasks : task[t].sub # s
        BY <1>5, <2>1 DEF Approves
    <2>3. Working(s) /\ ~Working(s)'
        BY <1>1, <1>2, <1>5, <2>2, IdleTypes DEF Working
    <2>4. \A s2 \in Subs \ {s} : Working(s2)' <=> Working(s2)
        BY <1>1, <1>2, IdleTypes DEF Working
    <2>5. \A s2 \in Subs \ {s} : Quiet(s2)
        BY <1>1, <1>3, <2>4, QuietPhase DEF Quiet
    <2>6. PhaseOf(s) = "job" /\ PhaseOf(s)' = "over"
        BY <1>1, <1>3, <2>2, <2>3, PhaseReads, PhaseReadsNext DEF Resting, Early
    <2>7. TriesOf(s)' = 0
        BY <1>1, <1>3, <2>2, TriesReads DEF ContractInv
    <2>8. (lost \cup gaveUp)' = (lost \cup gaveUp) \cup {s}
        BY <1>1, <1>5 DEF RequestDies
    <2>9. Contract!Abandon(s)
        BY <1>1, <2>5, <2>6, <2>7, <2>8, ContractMoves DEF Contract!Abandon
    <2> QED
        BY <1>1, <2>9 DEF Contract!Next
<1> QED
    BY <1>4, <1>5

\* A request that is loaded, or waits for Docker, changes nothing yet.
LEMMA HandlersMap ==
    ASSUME ContractInv, ContractInv', NEW r \in Requests,
           \/ \E s \in Subs : Serve(r, s)
           \/ StopCall(r) \/ StartCall(r) \/ DeleteCall(r)
    PROVE  UNCHANGED Contract!contractVars
<1>1. UNCHANGED <<status, row, task, lost, gaveUp>>
    BY DEF StopCall, StartCall, DeleteCall, Serve, Load, Approve, Reject, DownloadImage,
           Suspend, Reactivate, Cancel, Terminate, Start, Stop, Reboot
<1>2. \A q \in Requests \ {r} : req'[q] = req[q]
    BY DEF StopCall, StartCall, DeleteCall, CallFails, Advance, Finish, Serve, Load, Approve,
           Reject, DownloadImage, Suspend, Reactivate, Cancel, Terminate, Start, Stop,
           Reboot, ContractInv, TypeInv, TypeOK
<1>3. req[r].pc # "publish" /\ req'[r].pc # "publish"
    <2>1. CASE \E s \in Subs : Serve(r, s)
        BY <2>1 DEF Serve, Load, Approve, Reject, DownloadImage, Suspend, Reactivate, Cancel,
                    Terminate, Start, Stop, Reboot, ContractInv, TypeInv, TypeOK
    <2>2. CASE StopCall(r) \/ StartCall(r) \/ DeleteCall(r)
        <3>1. req[r].pc = "docker" /\ req[r] \in Request
              /\ (Advance(r, "commit") \/ Finish(r))
            BY <2>2 DEF StopCall, StartCall, DeleteCall, CallFails, ContractInv, TypeInv, TypeOK
        <3>2. Onward(req[r], "commit").pc = "commit"
            BY <3>1 DEF Onward, Request
        <3>3. req'[r] \in {Onward(req[r], "commit"), IdleRequest}
            BY <3>1 DEF Advance, Finish, ContractInv, TypeInv, TypeOK
        <3> QED
            BY <3>1, <3>2, <3>3, IdleTypes
    <2> QED
        BY <2>1, <2>2
<1>4. \A s \in Subs : Quiet(s)
    BY <1>1, <1>2, <1>3, SameHandlers, QuietPhase, QuietTries DEF Quiet, HasRow
<1> QED
    BY <1>1, <1>4, ContractStutters

\* Every step of a handler.
LEMMA ContinueMaps ==
    ASSUME OneAtATime, ContractInv, ContractInv', NEW r \in Requests, Continue(r)
    PROVE  [Contract!Next]_Contract!contractVars
<1>1. CASE StopCall(r) \/ StartCall(r) \/ DeleteCall(r)
    BY <1>1, HandlersMap
<1>2. CASE ApproveCommit(r)
    BY <1>2, ApproveMaps
<1>3. CASE DownloadImageCommit(r)
    BY <1>3 DEF DownloadImageCommit, Committing, ContractInv, PipeInv, Approves, Acts
<1>4. CASE \/ RejectCommit(r) \/ SuspendCommit(r) \/ ReactivateCommit(r) \/ CancelCommit(r)
           \/ TerminateCommit(r) \/ StartCommit(r) \/ StopCommit(r)
    <2>1. req[r].pc = "commit" /\ Acts(req[r])
        BY <1>4 DEF RejectCommit, SuspendCommit, ReactivateCommit, CancelCommit,
                    TerminateCommit, StartCommit, StopCommit, Committing, ContractInv,
                    PipeInv, Approves
    <2>2. Finish(r) /\ UNCHANGED <<task, lost, gaveUp>>
        BY <1>4 DEF RejectCommit, SuspendCommit, ReactivateCommit, CancelCommit,
                    TerminateCommit, StartCommit, StopCommit
    <2>3. \A s \in Subs : HasRow(s)' <=> HasRow(s)
        <3>1. UNCHANGED row \/ \E new \in RowStatus \ {"NONE"} : WriteRow(r, new)
            BY <1>4 DEF RejectCommit, SuspendCommit, ReactivateCommit, CancelCommit,
                   TerminateCommit, StartCommit, StopCommit, RowStatus
        <3> QED
            BY <2>1, <3>1, RowsStay DEF HasRow, ContractInv
    <2>4. PICK new \in SubStatus \ Early : WriteStatus(r, new) \/ UNCHANGED status
        BY <1>4 DEF RejectCommit, SuspendCommit, ReactivateCommit, CancelCommit,
                    TerminateCommit, StartCommit, StopCommit, SubStatus, Early
    <2> QED
        BY <2>1, <2>2, <2>3, <2>4, ActsMaps
<1>5. CASE \E t \in Tasks : PublishDownload(r, t)
    BY <1>5, PublishMaps
<1> QED
    BY <1>1, <1>2, <1>3, <1>4, <1>5 DEF Continue

\* A subscription that a task works for is a job of the contract, and nobody
\* else's step.
LEMMA WorkReads ==
    ASSUME ContractInv, ContractInv', NEW t \in Tasks, Work(t) \/ WorkerDies(t),
           NEW s, s = task[t].sub
    PROVE  /\ s \in Subs /\ ~HasRow(s) /\ status[s] \notin Early
           /\ PhaseOf(s) = "job" /\ TriesOf(s) = task[t].retries
           /\ task'[t].sub = s => /\ TriesOf(s)' = task'[t].retries
                                  /\ ~HasRow(s)' => PhaseOf(s)' = "job"
           /\ task'[t].sub = NoSub => /\ TriesOf(s)' = 0
                                      /\ ~HasRow(s)' => PhaseOf(s)' = Resting(status'[s])
           /\ HasRow(s)' => PhaseOf(s)' = "installed"
           /\ \A s2 \in Subs \ {s} : Quiet(s2)
<1>1. /\ s \in Subs /\ status[s] \notin Early /\ ~HasRow(s) /\ UNCHANGED req
      /\ \A u \in Tasks \ {t} : task'[u] = task[u] /\ task[u].sub # s
      /\ task'[t].sub \in {s, NoSub} /\ s # NoSub
      /\ \A s2 \in Subs \ {s} : status'[s2] = status[s2] /\ (HasRow(s2)' <=> HasRow(s2))
    BY WorkFacts, LifecycleAssumption DEF ContractInv
<1>2. \A r \in Requests : req[r].pc = "publish" => req[r].sub # s
    BY <1>1 DEF ContractInv, PipeInv, Approves, Acts
<1>3. Working(s) /\ (Working(s)' <=> task'[t].sub = s)
    BY <1>1, <1>2 DEF Working
<1>4. PhaseOf(s) = "job" /\ TriesOf(s) = task[t].retries
    BY <1>1, <1>3, PhaseReads, TriesReads DEF ContractInv
<1>5. ASSUME task'[t].sub = s
      PROVE  TriesOf(s)' = task'[t].retries /\ (~HasRow(s)' => PhaseOf(s)' = "job")
    BY <1>1, <1>3, <1>5, PhaseReadsNext, TriesReadsNext
<1>6. ASSUME task'[t].sub = NoSub
      PROVE  TriesOf(s)' = 0 /\ (~HasRow(s)' => PhaseOf(s)' = Resting(status'[s]))
    BY <1>1, <1>3, <1>6, PhaseReadsNext, TriesReadsNext
<1>7. HasRow(s)' => PhaseOf(s)' = "installed"
    BY <1>1, PhaseReadsNext
<1>8. \A s2 \in Subs \ {s} : Quiet(s2)
    <2> SUFFICES ASSUME NEW s2 \in Subs \ {s} PROVE Quiet(s2)
        OBVIOUS
    <2>1. \A u \in Tasks : task'[u].sub = s2 <=> task[u].sub = s2
        BY <1>1, LifecycleAssumption
    <2>2. Working(s2)' <=> Working(s2)
        BY <1>1, <2>1 DEF Working
    <2>3. TriesOf(s2)' = TriesOf(s2)
        BY <1>1, <2>1, QuietTries
    <2> QED
        BY <1>1, <2>2, <2>3, QuietPhase DEF Quiet
<1> QED
    BY <1>1, <1>4, <1>5, <1>6, <1>7, <1>8

\* Every step of a task: it goes on, gives the request back, is retried,
\* installs the container or is abandoned.
LEMMA WorkMaps ==
    ASSUME ContractInv, ContractInv', NEW t \in Tasks, Work(t) \/ WorkerDies(t)
    PROVE  [Contract!Next]_Contract!contractVars
<1> PICK s : s = task[t].sub
    OBVIOUS
<1>1. /\ s \in Subs /\ ~HasRow(s) /\ status[s] \notin Early
      /\ PhaseOf(s) = "job" /\ TriesOf(s) = task[t].retries
      /\ \A s2 \in Subs \ {s} : Quiet(s2)
    BY WorkReads
<1>2. task[t] \in Task /\ task' \in [Tasks -> Task] /\ s # NoSub
    BY <1>1, LifecycleAssumption DEF ContractInv, TypeInv, TypeOK
<1>3. CASE \/ DownloadStart(t) \/ DownloadDone(t) \/ PublishProvision(t)
           \/ ProvisionRefused(t) \/ ProvisionStart(t) \/ ProvisionCreate(t)
           \/ ProvisionCreateFails(t) \/ ProvisionCommitFails(t)
    <2>1. UNCHANGED <<row, lost, gaveUp>>
        BY <1>3 DEF DownloadStart, DownloadDone, PublishProvision, ProvisionRefused,
                    ProvisionStart, ProvisionCreate, ProvisionCreateFails,
                    ProvisionCommitFails
    <2>2. task'[t].sub = s /\ task'[t].retries = task[t].retries
        <3>1. CASE PublishProvision(t)
            <4>1. task[t].kind # "provision"
                BY <3>1 DEF PublishProvision, ContractInv, OrphanInv, Kinds
            <4>2. task'[t] = Queued("provision", s)
                BY <3>1 DEF PublishProvision, ContractInv, TypeInv, TypeOK
            <4> QED
                BY <1>1, <4>1, <4>2, QueuedType, QueuedAfresh DEF ContractInv, Counted
        <3>2. CASE DownloadStart(t) \/ DownloadDone(t)
            BY <1>2, <3>2 DEF DownloadStart, DownloadDone, ContractInv, TypeInv, TypeOK, Task
        <3>3. CASE ProvisionRefused(t) \/ ProvisionStart(t)
            BY <1>2, <3>3 DEF ProvisionRefused, ProvisionStart, ContractInv, TypeInv,
                              TypeOK, Task
        <3>4. CASE ProvisionCreate(t)
            BY <1>2, <3>4 DEF ProvisionCreate, ContractInv, TypeInv, TypeOK, Task
        <3>5. CASE ProvisionCreateFails(t) \/ ProvisionCommitFails(t)
            BY <1>2, <3>5 DEF ProvisionCreateFails, ProvisionCommitFails, ContractInv,
                              TypeInv, TypeOK, Task
        <3> QED
            BY <1>3, <3>1, <3>2, <3>3, <3>4, <3>5
    <2>3. Quiet(s)
        BY <1>1, <2>1, <2>2, WorkReads DEF Quiet, HasRow
    <2> QED
        BY <1>1, <2>1, <2>3, ContractStutters
<1>4. CASE \/ DownloadFails(t) \/ ProvisionCommit(t) \/ ProvisionGivesUp(t) \/ WorkerDies(t)
    <2>1. task'[t].sub = NoSub
        BY <1>4, IdleTypes DEF DownloadFails, ProvisionCommit, ProvisionGivesUp, WorkerDies,
                               ContractInv, TypeInv, TypeOK
    <2>2. /\ TriesOf(s)' = 0
          /\ ~HasRow(s)' => PhaseOf(s)' = Resting(status'[s])
          /\ HasRow(s)' => PhaseOf(s)' = "installed"
        BY <2>1, WorkReads
    <2>3. CASE DownloadFails(t)
        <3>1. task[t].retries = 0
            BY <2>3 DEF DownloadFails, ContractInv, OrphanInv, Kinds, Counted
        <3>2. PhaseOf(s)' = "waiting"
            BY <1>1, <2>2, <2>3
               DEF DownloadFails, HasRow, Resting, ContractInv, TypeInv, TypeOK
        <3>3. Contract!Return(s)
            BY <1>1, <2>2, <2>3, <3>1, <3>2, ContractMoves DEF Contract!Return, DownloadFails
        <3> QED
            BY <1>1, <3>3 DEF Contract!Next
    <2>4. CASE ProvisionCommit(t)
        <3>1. HasRow(s)'
            BY <1>1, <2>4 DEF ProvisionCommit, HasRow, ContractInv, TypeInv, TypeOK
        <3>2. Contract!Install(s)
            BY <1>1, <2>2, <2>4, <3>1, ContractMoves DEF Contract!Install, ProvisionCommit
        <3> QED
            BY <1>1, <3>2 DEF Contract!Next
    <2>5. CASE ProvisionGivesUp(t) \/ WorkerDies(t)
        <3>1. UNCHANGED <<status, row>>
              /\ (lost \cup gaveUp)' = (lost \cup gaveUp) \cup {s}
              /\ (task[t].retries = MaxRetries \/ Crashes)
            BY <2>5 DEF ProvisionGivesUp, WorkerDies
        <3>2. PhaseOf(s)' = "over"
            BY <1>1, <2>2, <3>1 DEF HasRow, Resting, Early
        <3>3. Contract!Abandon(s)
            BY <1>1, <2>2, <3>1, <3>2, ContractMoves DEF Contract!Abandon
        <3> QED
            BY <1>1, <3>3 DEF Contract!Next
    <2> QED
        BY <1>4, <2>3, <2>4, <2>5
<1>5. CASE ProvisionRetry(t)
    <2> DEFINE q == [Queued("provision", s) EXCEPT !.retries = task[t].retries + 1]
    <2>1. q.sub = s /\ q.retries = task[t].retries + 1
        BY <1>1, QueuedType DEF Task
    <2>2. task'[t] = q
        BY <1>5 DEF ProvisionRetry, ContractInv, TypeInv, TypeOK
    <2> HIDE DEF q
    <2>3. UNCHANGED <<row, lost, gaveUp>> /\ task[t].retries < MaxRetries
        BY <1>5 DEF ProvisionRetry
    <2>4. PhaseOf(s)' = "job" /\ TriesOf(s)' = TriesOf(s) + 1
        BY <1>1, <2>1, <2>2, <2>3, WorkReads DEF HasRow
    <2>5. Contract!Retry(s)
        BY <1>1, <2>3, <2>4, ContractMoves DEF Contract!Retry
    <2> QED
        BY <1>1, <2>5 DEF Contract!Next
<1> QED
    BY <1>3, <1>4, <1>5 DEF Work

\* The repair works on installed containers only: all it can do is report.
LEMMA RepairMaps ==
    ASSUME ContractInv, ContractInv',
           \/ \E s \in Subs : Reconcile(s) \/ ContainerVanishes(s)
           \/ ReconcileScan \/ ReconcileDies \/ UNCHANGED vars
    PROVE  [Contract!Next]_Contract!contractVars
<1>1. UNCHANGED <<status, task, req>>
    BY DEF Reconcile, ReconcileFound, ReconcileMissing, ReconcileCreate, ReconcileCommit,
           ReconcileFails, ReconcileScan, ReconcileDies, ContainerVanishes, vars
<1>2. \A s \in Subs : HasRow(s)' <=> HasRow(s)
    BY RepairKeepsRows DEF ContractInv
<1>3. \A s \in Subs : Quiet(s)
    BY <1>1, <1>2, SameHandlers, QuietPhase, QuietTries DEF Quiet
<1>4. CASE UNCHANGED <<lost, gaveUp>>
    BY <1>3, <1>4, ContractStutters
<1>5. CASE ReconcileDies \/ \E s \in Subs : ReconcileFails(s)
    <2>1. PICK failed \in SUBSET Subs :
              /\ (lost \cup gaveUp)' = (lost \cup gaveUp) \cup failed
              /\ \A s \in failed : recon[s].pc # "idle"
        <3>1. CASE ReconcileDies
            <4> WITNESS {s \in Subs : recon[s].pc = "created"} \in SUBSET Subs
            <4> QED
                BY <3>1 DEF ReconcileDies
        <3>2. CASE \E s \in Subs : ReconcileFails(s)
            <4> PICK s \in Subs : ReconcileFails(s)
                BY <3>2
            <4> WITNESS {s} \in SUBSET Subs
            <4> QED
                BY DEF ReconcileFails
        <3> QED
            BY <1>5, <3>1, <3>2
    <2>2. \A s \in failed : PhaseOf(s) = "installed"
        BY <2>1, PhaseReads DEF ContractInv, OrphanInv
    <2>3. /\ [s \in Subs |-> PhaseOf(s)'] = [s \in Subs |-> PhaseOf(s)]
          /\ [s \in Subs |-> TriesOf(s)'] = [s \in Subs |-> TriesOf(s)]
        BY <1>3 DEF Quiet
    <2>4. Contract!Report
        BY <2>1, <2>2, <2>3 DEF Contract!Report
    <2> QED
        BY <2>4 DEF Contract!Next
<1> QED
    BY <1>4, <1>5 DEF Reconcile, ReconcileFound, ReconcileMissing, ReconcileCreate,
           ReconcileCommit, ReconcileScan, ContainerVanishes, vars

\* Every step is a step of the contract or none.
LEMMA StepMaps ==
    ASSUME OneAtATime, "download-image" \notin Ops,
           ContractInv, ContractInv', [Next]_vars
    PROVE  [Contract!Next]_Contract!contractVars
BY RequestMaps, ContinueMaps, DiesMaps, HandlersMap, WorkMaps, RepairMaps DEF Next

\* At first nobody has asked for anything.
LEMMA StartMaps == Init => Contract!Init
<1> SUFFICES ASSUME Init PROVE Contract!Init
    OBVIOUS
<1>1. \A s \in Subs : ~HasRow(s) /\ ~Working(s) /\ status[s] = "NONE"
    BY IdleTypes, LifecycleAssumption DEF Init, HasRow, NoRow, Working
<1>2. \A s \in Subs : PhaseOf(s) = "none"
    BY <1>1, PhaseReads DEF Resting
<1>3. \A s \in Subs : TriesOf(s) = 0
    BY IdleTypes, LifecycleAssumption DEF Init, TriesOf, Tried
<1> QED
    BY <1>2, <1>3 DEF Init, Contract!Init

\* When requests come one at a time and nobody asks for download-image, the
\* handlers, the download and provision tasks and the repair keep the contract,
\* through faults, crashes, losses and all interleavings of the tasks.
THEOREM LifecycleKeepsContract ==
    ASSUME OneAtATime, "download-image" \notin Ops
    PROVE  Spec => ImplementsContract
<1>1. ContractInv /\ ContractInv' /\ [Next]_vars => [Contract!Next]_Contract!contractVars
    BY StepMaps
<1> QED
    BY <1>1, StartMaps, ContractInvariant, PTL DEF Spec, ImplementsContract, Contract!Spec

=============================================================================
