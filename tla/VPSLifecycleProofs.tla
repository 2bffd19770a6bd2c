------------------------- MODULE VPSLifecycleProofs -------------------------
(***************************************************************************)
(* Proofs about VPSLifecycle, for every number of subscriptions, requests, *)
(* tasks and retries.                                                      *)
(***************************************************************************)
EXTENDS VPSLifecycle, TLAPS

-----------------------------------------------------------------------------
(***************************************************************************)
(* Type correctness.  It needs that whatever is in flight has a            *)
(* subscription, and that a free task slot has none.                       *)
(***************************************************************************)
Placed ==
    /\ \A r \in Requests : req[r].pc # "idle" => req[r].sub \in Subs
    /\ \A t \in Tasks : /\ task[t].pc = "idle" => task[t].sub = NoSub
                        /\ task[t].pc # "idle" => task[t].sub \in Subs

TypeInv == TypeOK /\ Placed

\* The constants that stand for nothing are well typed.
LEMMA IdleTypes ==
    /\ IdleRequest \in Request /\ IdleRequest.pc = "idle"
    /\ IdleTask \in Task /\ IdleTask.pc = "idle" /\ IdleTask.sub = NoSub
    /\ NoRow \in Row
    /\ NoContainer \in Container
    /\ IdleRecon \in Recon /\ Expired \in Recon
<1>1. NoRow \in Row
    BY DEF NoRow, Row, RowStatus, Cid
<1>2. IdleRequest \in Request /\ IdleRequest.pc = "idle"
    BY <1>1 DEF IdleRequest, Request, SubStatus
<1>3. IdleTask \in Task /\ IdleTask.pc = "idle" /\ IdleTask.sub = NoSub
    BY LifecycleAssumption DEF IdleTask, Task, SubStatus, Cid
<1>4. NoContainer \in Container
    BY DEF NoContainer, Container, Cid
<1>5. IdleRecon \in Recon /\ Expired \in Recon
    BY DEF IdleRecon, Expired, Recon, RowStatus, Cid
<1> QED
    BY <1>1, <1>2, <1>3, <1>4, <1>5

\* A queued task is well typed and has its subscription.
LEMMA QueuedType ==
    ASSUME NEW k \in {"download", "provision"}, NEW s \in Subs
    PROVE  /\ Queued(k, s) \in Task
           /\ Queued(k, s).pc = "queued" /\ Queued(k, s).sub = s
           /\ Queued(k, s).kind = k
BY IdleTypes DEF Queued, Task, IdleTask

\* A handler that goes on, ends or only has to publish.
LEMMA HandlerType ==
    ASSUME TypeInv, NEW r \in Requests, NEW pc \in {"docker", "commit", "publish"},
           req[r].pc # "idle",
           Advance(r, pc) \/ Finish(r) \/ ToPublish(r)
    PROVE  /\ req' \in [Requests -> Request]
           /\ \A q \in Requests : req'[q].pc # "idle" => req'[q].sub \in Subs
<1>1. req[r] \in Request /\ req[r].sub \in Subs
    BY DEF TypeInv, TypeOK, Placed
<1>2. Onward(req[r], pc) \in Request /\ Onward(req[r], pc).sub = req[r].sub
    BY <1>1 DEF Onward, Request, Row, Cid
<1>3. Owing(req[r]) \in Request /\ Owing(req[r]).sub = req[r].sub
    BY <1>1, IdleTypes DEF Owing, Request, IdleRequest
<1>4. PICK q \in Request : /\ q.pc # "idle" => q.sub \in Subs
                           /\ req' = [req EXCEPT ![r] = q]
    BY <1>1, <1>2, <1>3, IdleTypes DEF Advance, Finish, ToPublish
<1> QED
    BY <1>4 DEF TypeInv, TypeOK, Placed

\* A request that loads its rows, whatever the operation.
LEMMA ServeType ==
    ASSUME TypeInv, NEW r \in Requests, NEW s \in Subs, Serve(r, s)
    PROVE  TypeInv'
<1>1. PICK op \in AllOps, pc \in {"docker", "commit"} : Load(r, op, s, pc)
    BY DEF Serve, Approve, Reject, DownloadImage, Suspend, Reactivate, Cancel,
           Terminate, Start, Stop, Reboot, AllOps
<1> DEFINE loaded == [op |-> op, sub |-> s, pc |-> pc, seen |-> status[s],
                      row |-> IF pc = "docker" THEN row[s]
                              ELSE [row[s] EXCEPT !.cid = NoCid]]
<1>2. loaded \in Request /\ loaded.sub = s
    BY DEF TypeInv, TypeOK, Request, Row, Cid
<1> QED
    BY <1>1, <1>2 DEF Load, TypeInv, TypeOK, Placed

\* What a commit writes is well typed.
LEMMA WriteType ==
    ASSUME TypeInv, NEW r \in Requests
    PROVE  /\ \A new \in SubStatus :
                  WriteStatus(r, new) => status' \in [Subs -> SubStatus]
           /\ \A new \in RowStatus :
                  WriteRow(r, new) => row' \in [Subs -> Row]
<1>1. ASSUME NEW new \in SubStatus, WriteStatus(r, new)
      PROVE  status' \in [Subs -> SubStatus]
    BY <1>1 DEF TypeInv, TypeOK, WriteStatus
<1>2. ASSUME NEW new \in RowStatus, WriteRow(r, new)
      PROVE  row' \in [Subs -> Row]
    <2>1. CASE row' = row
        BY <2>1 DEF TypeInv, TypeOK
    <2>2. CASE row' = [row EXCEPT ![req[r].sub].status = new]
        BY <2>2 DEF TypeInv, TypeOK, Row
    <2> QED
        BY <1>2, <2>1, <2>2 DEF WriteRow
<1> QED
    BY <1>1, <1>2

\* A container that stops keeps its id.
LEMMA StopType ==
    ASSUME TypeInv, NEW s
    PROVE  [docker EXCEPT ![s].up = FALSE] \in [Subs -> Container]
BY DEF TypeInv, TypeOK, Container

\* The cleanup by name leaves containers and volumes well typed.
LEMMA CleanupType ==
    ASSUME TypeInv, NEW s \in Subs, Cleanup(s)
    PROVE  docker' \in [Subs -> Container] /\ volume' \subseteq Subs
<1>1. \/ docker' = [docker EXCEPT ![s] = NoContainer]
      \/ docker' = [docker EXCEPT ![s].up = FALSE]
      \/ docker' = docker
    BY DEF Cleanup
<1>2. docker' \in [Subs -> Container]
    BY <1>1, StopType, IdleTypes DEF TypeInv, TypeOK
<1>3. volume' \subseteq Subs
    BY DEF Cleanup, RemoveVolume, TypeInv, TypeOK
<1> QED
    BY <1>2, <1>3

\* A handler's Docker call or commit keeps the types.
LEMMA ContinueType ==
    ASSUME TypeInv, NEW r \in Requests, Continue(r)
    PROVE  TypeInv'
<1> USE DEF TypeInv, TypeOK, Placed
<1>1. CASE StopCall(r)
    BY <1>1, HandlerType DEF StopCall, CallFails, Container
<1>2. CASE StartCall(r)
    BY <1>2, HandlerType DEF StartCall, CallFails, Container
<1>3. CASE DeleteCall(r)
    <2>1. docker' \in [Subs -> Container] /\ volume' \subseteq Subs
        <3>1. volume' \subseteq Subs
            BY <1>3 DEF DeleteCall, CallFails, RemoveVolume
        <3>2. \/ docker' = docker
              \/ docker' = [docker EXCEPT ![req[r].sub] = NoContainer]
              \/ docker' = [docker EXCEPT ![req[r].sub].up = FALSE]
            BY <1>3 DEF DeleteCall, CallFails
        <3>3. docker' \in [Subs -> Container]
            BY <3>2, StopType, IdleTypes
        <3> QED
            BY <3>1, <3>3
    <2>2. req[r].pc # "idle" /\ (Advance(r, "commit") \/ Finish(r))
        BY <1>3 DEF DeleteCall, CallFails
    <2> QED
        BY <1>3, <2>1, <2>2, HandlerType DEF DeleteCall
<1>4. CASE ApproveCommit(r)
    BY <1>4, HandlerType, WriteType DEF ApproveCommit, Committing, SubStatus
<1>5. CASE DownloadImageCommit(r)
    BY <1>5, HandlerType, WriteType DEF DownloadImageCommit, Committing, SubStatus
<1>6. CASE RejectCommit(r)
    BY <1>6, HandlerType, WriteType DEF RejectCommit, Committing, SubStatus
<1>7. CASE SuspendCommit(r)
    BY <1>7, HandlerType, WriteType
       DEF SuspendCommit, Committing, SubStatus, RowStatus
<1>8. CASE ReactivateCommit(r)
    BY <1>8, HandlerType, WriteType
       DEF ReactivateCommit, Committing, SubStatus, RowStatus
<1>9. CASE CancelCommit(r)
    BY <1>9, HandlerType, WriteType DEF CancelCommit, Committing, SubStatus
<1>10. CASE TerminateCommit(r)
    BY <1>10, HandlerType, WriteType
       DEF TerminateCommit, Committing, SubStatus, RowStatus
<1>11. CASE StartCommit(r)
    BY <1>11, HandlerType, WriteType DEF StartCommit, Committing, RowStatus
<1>12. CASE StopCommit(r)
    BY <1>12, HandlerType, WriteType DEF StopCommit, Committing, RowStatus
<1>13. ASSUME NEW t \in Tasks, PublishDownload(r, t)
       PROVE  TypeInv'
    <2>1. Queued("download", req[r].sub) \in Task
          /\ Queued("download", req[r].sub).pc = "queued"
          /\ Queued("download", req[r].sub).sub \in Subs
        BY <1>13, QueuedType DEF PublishDownload
    <2> QED
        BY <1>13, <2>1, HandlerType DEF PublishDownload
<1> QED
    BY <1>1, <1>2, <1>3, <1>4, <1>5, <1>6, <1>7, <1>8, <1>9, <1>10, <1>11,
       <1>12, <1>13 DEF Continue

\* A task's step keeps the types.
LEMMA WorkType ==
    ASSUME TypeInv, NEW t \in Tasks, Work(t)
    PROVE  TypeInv'
<1> USE DEF TypeInv, TypeOK, Placed
<1>1. task[t] \in Task /\ (task[t].pc # "idle" => task[t].sub \in Subs)
    OBVIOUS
<1>2. CASE DownloadStart(t)
    BY <1>1, <1>2 DEF DownloadStart, Task
<1>3. CASE DownloadDone(t)
    BY <1>1, <1>3 DEF DownloadDone, Task, SubStatus
<1>4. CASE PublishProvision(t)
    BY <1>1, <1>4, QueuedType DEF PublishProvision
<1>5. CASE DownloadFails(t)
    BY <1>1, <1>5, IdleTypes DEF DownloadFails, SubStatus
<1>6. CASE ProvisionRefused(t)
    BY <1>1, <1>6 DEF ProvisionRefused, Task
<1>7. CASE ProvisionStart(t)
    BY <1>1, <1>7, CleanupType DEF ProvisionStart, Task
<1>8. CASE ProvisionCreate(t)
    <2>1. PICK c \in Cids :
              /\ docker' = [docker EXCEPT ![task[t].sub] = [cid |-> c, up |-> TRUE]]
              /\ task' = [task EXCEPT ![t].pc = "created", ![t].cid = c]
        BY <1>8 DEF ProvisionCreate
    <2>2. docker' \in [Subs -> Container]
        BY <2>1 DEF Container, Cid
    <2>3. task' \in [Tasks -> Task] /\ Placed'
        BY <1>1, <1>8, <2>1 DEF ProvisionCreate, Task, Cid
    <2> QED
        BY <1>1, <1>8, <2>2, <2>3 DEF ProvisionCreate
<1>9. CASE ProvisionCreateFails(t)
    <2>1. task' \in [Tasks -> Task] /\ Placed'
        BY <1>1, <1>9 DEF ProvisionCreateFails, Task
    <2>2. docker' \in [Subs -> Container]
        <3>1. CASE docker' = docker
            BY <3>1
        <3>2. ASSUME NEW c \in Cids,
                     docker' = [docker EXCEPT ![task[t].sub] = [cid |-> c, up |-> FALSE]]
              PROVE  docker' \in [Subs -> Container]
            BY <3>2 DEF Container, Cid
        <3> QED
            BY <1>9, <3>1, <3>2 DEF ProvisionCreateFails
    <2>3. volume' \subseteq Subs
        BY <1>1, <1>9 DEF ProvisionCreateFails
    <2> QED
        BY <1>9, <2>1, <2>2, <2>3 DEF ProvisionCreateFails
<1>10. CASE ProvisionCommit(t)
    BY <1>1, <1>10, IdleTypes DEF ProvisionCommit, Row, RowStatus, SubStatus, Task
<1>11. CASE ProvisionCommitFails(t)
    BY <1>1, <1>11 DEF ProvisionCommitFails, Task, Cid
<1>12. CASE ProvisionRetry(t)
    <2> DEFINE again == [Queued("provision", task[t].sub)
                            EXCEPT !.retries = task[t].retries + 1]
    <2>1. task[t].sub \in Subs /\ task[t].retries \in 0..MaxRetries
          /\ task[t].retries < MaxRetries
        BY <1>1, <1>12 DEF ProvisionRetry, Task
    <2>2. again \in Task /\ again.pc = "queued" /\ again.sub = task[t].sub
        BY <2>1, QueuedType, LifecycleAssumption DEF Task
    <2>3. docker' \in [Subs -> Container] /\ volume' \subseteq Subs
        BY <1>12, <2>1, CleanupType DEF ProvisionRetry
    <2> QED
        BY <1>12, <2>1, <2>2, <2>3 DEF ProvisionRetry
<1>13. CASE ProvisionGivesUp(t)
    BY <1>1, <1>13, IdleTypes DEF ProvisionGivesUp
<1> QED
    BY <1>2, <1>3, <1>4, <1>5, <1>6, <1>7, <1>8, <1>9, <1>10, <1>11, <1>12,
       <1>13 DEF Work

\* A step of the reconcile task on one subscription keeps the types.
LEMMA ReconcileType ==
    ASSUME TypeInv, NEW s \in Subs, Reconcile(s)
    PROVE  TypeInv'
<1> USE IdleTypes DEF TypeInv, TypeOK, Placed
<1>1. CASE ReconcileFound(s)
    BY <1>1 DEF ReconcileFound, Row, Container
<1>2. CASE ReconcileMissing(s)
    BY <1>2 DEF ReconcileMissing, Recon, Row, Cid
<1>3. CASE ReconcileCreate(s)
    <2>1. PICK c \in Cids :
              /\ docker' = [docker EXCEPT ![s] = [cid |-> c, up |-> TRUE]]
              /\ recon' = [recon EXCEPT ![s].pc = "created", ![s].cid = c]
        BY <1>3 DEF ReconcileCreate
    <2>2. recon' \in [Subs -> Recon] /\ docker' \in [Subs -> Container]
        BY <2>1 DEF Recon, Container, Cid
    <2> QED
        BY <1>3, <2>2 DEF ReconcileCreate
<1>4. CASE ReconcileCommit(s)
    BY <1>4 DEF ReconcileCommit, Recon, Row, RowStatus
<1>5. CASE ReconcileFails(s)
    <2>1. \/ docker' = docker
          \/ docker' = [docker EXCEPT ![s].up = FALSE]
        BY <1>5 DEF ReconcileFails
    <2>2. docker' \in [Subs -> Container]
        BY <2>1, StopType
    <2>3. recon' \in [Subs -> Recon]
        BY <1>5 DEF ReconcileFails
    <2> QED
        BY <1>5, <2>2, <2>3 DEF ReconcileFails
<1> QED
    BY <1>1, <1>2, <1>3, <1>4, <1>5 DEF Reconcile

\* The initial state is well typed.
LEMMA InitType == Init => TypeInv
BY IdleTypes DEF Init, TypeInv, TypeOK, Placed, SubStatus

\* Every step keeps the types.
LEMMA NextType == TypeInv /\ [Next]_vars => TypeInv'
<1> SUFFICES ASSUME TypeInv, [Next]_vars PROVE TypeInv'
    OBVIOUS
<1>1. ASSUME NEW s \in Subs, RequestVPS(s) PROVE TypeInv'
    BY <1>1 DEF RequestVPS, TypeInv, TypeOK, Placed, SubStatus
<1>2. ASSUME NEW s \in Subs, ContainerVanishes(s) PROVE TypeInv'
    BY <1>2, IdleTypes DEF ContainerVanishes, TypeInv, TypeOK, Placed
<1>3. ASSUME NEW r \in Requests, RequestDies(r) PROVE TypeInv'
    BY <1>3, HandlerType DEF RequestDies, TypeInv, TypeOK, Placed
<1>4. ASSUME NEW t \in Tasks, WorkerDies(t) PROVE TypeInv'
    BY <1>4, IdleTypes DEF WorkerDies, TypeInv, TypeOK, Placed
<1>5. CASE ReconcileScan
    BY <1>5, IdleTypes
       DEF ReconcileScan, TypeInv, TypeOK, Placed, Recon, Row, RowStatus
<1>6. CASE ReconcileDies
    BY <1>6, IdleTypes DEF ReconcileDies, TypeInv, TypeOK, Placed
<1>7. CASE UNCHANGED vars
    BY <1>7 DEF vars, TypeInv, TypeOK, Placed
<1> QED
    BY <1>1, <1>2, <1>3, <1>4, <1>5, <1>6, <1>7, ServeType, ContinueType,
       WorkType, ReconcileType DEF Next

LEMMA TypeInvariant == Spec => []TypeInv
BY InitType, NextType, PTL DEF Spec

\* Every variable keeps its type.
THEOREM TypeCorrect == Spec => []TypeOK
BY TypeInvariant, PTL DEF TypeInv

-----------------------------------------------------------------------------
(***************************************************************************)
(* No subscription is stranded in DOWNLOADING_IMAGE.  DownloadOwed is not  *)
(* inductive: a pulling task that loaded PROVISIONING leaves the status    *)
(* alone when it ends, so it must not be the only one that owes.           *)
(***************************************************************************)
DownloadSure(s) ==
    \/ \E r \in Requests : req[r].sub = s /\ req[r].pc = "publish"
    \/ \E t \in Tasks : /\ task[t].kind = "download"
                        /\ task[t].sub = s
                        /\ \/ task[t].pc = "queued"
                           \/ task[t].pc = "pulling" /\ task[t].seen # "PROVISIONING"

DownloadInv ==
    \A s \in Subs : status[s] = "DOWNLOADING_IMAGE" => s \in lost \/ DownloadSure(s)

\* What a step must keep: who waits was waiting, and who owes still does.
LEMMA DownloadFrame ==
    ASSUME DownloadInv, lost \subseteq lost',
           \A s \in Subs : status'[s] = "DOWNLOADING_IMAGE" =>
               \/ DownloadSure(s)'
               \/ s \in lost'
               \/ /\ status[s] = "DOWNLOADING_IMAGE"
                  /\ DownloadSure(s) => DownloadSure(s)'
    PROVE  DownloadInv'
BY DEF DownloadInv

\* A handler's step that neither writes DOWNLOADING_IMAGE nor publishes.
LEMMA DownloadOtherHandler ==
    ASSUME TypeInv, NEW r \in Requests, req[r].pc \in {"docker", "commit"},
           NEW pc \in {"docker", "commit"},
           Advance(r, pc) \/ Finish(r),
           NEW new \in SubStatus \ {"DOWNLOADING_IMAGE"},
           WriteStatus(r, new) \/ status' = status,
           UNCHANGED <<task, lost>>, DownloadInv
    PROVE  DownloadInv'
<1>1. \A q \in Requests : req[q].pc = "publish" => req'[q] = req[q]
    BY DEF Advance, Finish, TypeInv, TypeOK
<1>2. \A s \in Subs : DownloadSure(s) => DownloadSure(s)'
    BY <1>1 DEF DownloadSure
<1>3. \A s \in Subs : status'[s] = "DOWNLOADING_IMAGE" =>
                         status[s] = "DOWNLOADING_IMAGE"
    BY DEF WriteStatus, TypeInv, TypeOK
<1> QED
    BY <1>2, <1>3, DownloadFrame

\* Every step keeps the inductive invariant.
LEMMA DownloadContinue ==
    ASSUME TypeInv, DownloadInv, NEW r \in Requests, Continue(r)
    PROVE  DownloadInv'
<1>1. CASE StopCall(r) \/ StartCall(r) \/ DeleteCall(r)
    BY <1>1, DownloadOtherHandler
       DEF StopCall, StartCall, DeleteCall, CallFails, SubStatus
<1>2. CASE RejectCommit(r) \/ SuspendCommit(r) \/ ReactivateCommit(r)
           \/ CancelCommit(r) \/ TerminateCommit(r) \/ StartCommit(r) \/ StopCommit(r)
    BY <1>2, DownloadOtherHandler
       DEF RejectCommit, SuspendCommit, ReactivateCommit, CancelCommit,
           TerminateCommit, StartCommit, StopCommit, Committing, SubStatus
<1>3. CASE ApproveCommit(r) \/ DownloadImageCommit(r)
    <2>1. /\ req[r].pc = "commit"
          /\ ToPublish(r)
          /\ WriteStatus(r, "DOWNLOADING_IMAGE")
          /\ UNCHANGED <<task, lost>>
        BY <1>3 DEF ApproveCommit, DownloadImageCommit, Committing
    <2>2. req'[r].pc = "publish" /\ req'[r].sub = req[r].sub
        BY <2>1 DEF ToPublish, Owing, IdleRequest, TypeInv, TypeOK
    <2>3. \A q \in Requests : req[q].pc = "publish" => req'[q] = req[q]
        BY <2>1 DEF ToPublish, TypeInv, TypeOK
    <2>4. \A s \in Subs : DownloadSure(s) => DownloadSure(s)'
        BY <2>1, <2>3 DEF DownloadSure
    <2>5. \A s \in Subs : s = req[r].sub => DownloadSure(s)'
        BY <2>2 DEF DownloadSure
    <2>6. \A s \in Subs \ {req[r].sub} : status'[s] = status[s]
        BY <2>1 DEF WriteStatus, TypeInv, TypeOK
    <2> QED
        BY <2>1, <2>4, <2>5, <2>6, DownloadFrame
<1>4. ASSUME NEW t \in Tasks, PublishDownload(r, t)
      PROVE  DownloadInv'
    <2>1. /\ task'[t].kind = "download" /\ task'[t].pc = "queued"
          /\ task'[t].sub = req[r].sub
        <3>1. req[r].sub \in Subs /\ task' = [task EXCEPT ![t] = Queued("download", req[r].sub)]
            BY <1>4 DEF PublishDownload, TypeInv, Placed
        <3> QED
            BY <3>1, QueuedType DEF TypeInv, TypeOK
    <2>2. \A s \in Subs : s = req[r].sub => DownloadSure(s)'
        BY <2>1 DEF DownloadSure
    <2>3. /\ \A q \in Requests \ {r} : req'[q] = req[q]
          /\ \A u \in Tasks \ {t} : task'[u] = task[u]
          /\ task[t].pc = "idle"
        BY <1>4 DEF PublishDownload, Finish, TypeInv, TypeOK
    <2>4. \A s \in Subs \ {req[r].sub} : DownloadSure(s) => DownloadSure(s)'
        BY <2>3 DEF DownloadSure
    <2> QED
        BY <1>4, <2>2, <2>4, DownloadFrame DEF PublishDownload
<1> QED
    BY <1>1, <1>2, <1>3, <1>4 DEF Continue

\* A task's step keeps who owes the download, or takes the subscription out of
\* DOWNLOADING_IMAGE.
LEMMA DownloadWork ==
    ASSUME TypeInv, DownloadInv, NEW t \in Tasks, Work(t)
    PROVE  DownloadInv'
<1>1. \A u \in Tasks \ {t} : task'[u] = task[u]
    BY DEF TypeInv, TypeOK, Work, DownloadStart, DownloadDone, PublishProvision,
           DownloadFails, ProvisionRefused, ProvisionStart, ProvisionCreate,
           ProvisionCreateFails, ProvisionCommit, ProvisionCommitFails,
           ProvisionRetry, ProvisionGivesUp
<1>2. UNCHANGED <<req, lost>>
    BY DEF Work, DownloadStart, DownloadDone, PublishProvision,
           DownloadFails, ProvisionRefused, ProvisionStart, ProvisionCreate,
           ProvisionCreateFails, ProvisionCommit, ProvisionCommitFails,
           ProvisionRetry, ProvisionGivesUp
<1>3. CASE DownloadStart(t)
    <2>1. task'[t] = [task[t] EXCEPT !.pc = "pulling", !.seen = status[task[t].sub]]
        BY <1>3 DEF DownloadStart, TypeInv, TypeOK
    <2>2. /\ task'[t].kind = "download" /\ task'[t].sub = task[t].sub
          /\ task'[t].pc = "pulling" /\ task'[t].seen = status[task[t].sub]
        BY <1>3, <2>1 DEF DownloadStart, TypeInv, TypeOK, Task
    <2>3. \A s \in Subs : status[s] = "DOWNLOADING_IMAGE" /\ DownloadSure(s)
                              => DownloadSure(s)'
        BY <1>1, <1>2, <2>2 DEF DownloadSure
    <2> QED
        BY <1>2, <1>3, <2>3, DownloadFrame DEF DownloadStart
<1>4. CASE DownloadDone(t)
    <2>1. \A s \in Subs : status'[s] = "DOWNLOADING_IMAGE" =>
              /\ status[s] = "DOWNLOADING_IMAGE"
              /\ s # task[t].sub \/ task[t].seen = "PROVISIONING"
        BY <1>4 DEF DownloadDone, TypeInv, TypeOK
    <2>2. \A s \in Subs : s # task[t].sub \/ task[t].seen = "PROVISIONING" =>
              (DownloadSure(s) => DownloadSure(s)')
        BY <1>1, <1>2, <1>4 DEF DownloadSure, DownloadDone
    <2> QED
        BY <1>2, <2>1, <2>2, DownloadFrame
<1>5. CASE DownloadFails(t)
    <2>1. \A s \in Subs : status'[s] = "DOWNLOADING_IMAGE" =>
              status[s] = "DOWNLOADING_IMAGE" /\ s # task[t].sub
        BY <1>5 DEF DownloadFails, TypeInv, TypeOK
    <2>2. \A s \in Subs : s # task[t].sub => (DownloadSure(s) => DownloadSure(s)')
        BY <1>1, <1>2 DEF DownloadSure
    <2> QED
        BY <1>2, <2>1, <2>2, DownloadFrame
<1>6. CASE \/ PublishProvision(t) \/ ProvisionRefused(t) \/ ProvisionStart(t)
           \/ ProvisionCreate(t) \/ ProvisionCreateFails(t) \/ ProvisionCommit(t)
           \/ ProvisionCommitFails(t) \/ ProvisionRetry(t) \/ ProvisionGivesUp(t)
    <2>1. \/ task[t].pc \notin {"queued", "pulling"}
          \/ task[t].kind = "provision"
        BY <1>6 DEF PublishProvision, ProvisionRefused, ProvisionStart,
                    ProvisionCreate, ProvisionCreateFails, ProvisionCommit,
                    ProvisionCommitFails, ProvisionRetry, ProvisionGivesUp
    <2>2. \A s \in Subs : DownloadSure(s) => DownloadSure(s)'
        BY <1>1, <1>2, <2>1 DEF DownloadSure
    <2>3. \A s \in Subs : status'[s] = "DOWNLOADING_IMAGE" =>
                             status[s] = "DOWNLOADING_IMAGE"
        BY <1>6 DEF PublishProvision, ProvisionRefused, ProvisionStart,
                    ProvisionCreate, ProvisionCreateFails, ProvisionCommit,
                    ProvisionCommitFails, ProvisionRetry, ProvisionGivesUp,
                    TypeInv, TypeOK
    <2> QED
        BY <1>2, <2>2, <2>3, DownloadFrame
<1> QED
    BY <1>3, <1>4, <1>5, <1>6 DEF Work

\* Every step keeps the invariant.
LEMMA DownloadNext == TypeInv /\ DownloadInv /\ [Next]_vars => DownloadInv'
<1> SUFFICES ASSUME TypeInv, DownloadInv, [Next]_vars PROVE DownloadInv'
    OBVIOUS
<1>1. ASSUME NEW r \in Requests, NEW s \in Subs, Serve(r, s) PROVE DownloadInv'
    <2>1. PICK op \in AllOps, pc \in {"docker", "commit"} : Load(r, op, s, pc)
        BY <1>1 DEF Serve, Approve, Reject, DownloadImage, Suspend, Reactivate,
                    Cancel, Terminate, Start, Stop, Reboot, AllOps
    <2>2. \A q \in Requests : req[q].pc = "publish" => req'[q] = req[q]
        BY <2>1 DEF Load, TypeInv, TypeOK
    <2> QED
        BY <2>1, <2>2, DownloadFrame DEF Load, DownloadSure
<1>2. ASSUME NEW r \in Requests, RequestDies(r) PROVE DownloadInv'
    <2>1. \A q \in Requests \ {r} : req'[q] = req[q]
        BY <1>2 DEF RequestDies, Finish, TypeInv, TypeOK
    <2>2. \A s \in Subs : DownloadSure(s) => s \in lost' \/ DownloadSure(s)'
        BY <1>2, <2>1 DEF RequestDies, DownloadSure
    <2> QED
        BY <1>2, <2>2 DEF RequestDies, DownloadInv
<1>3. ASSUME NEW t \in Tasks, WorkerDies(t) PROVE DownloadInv'
    <2>1. \A u \in Tasks \ {t} : task'[u] = task[u]
        BY <1>3 DEF WorkerDies, TypeInv, TypeOK
    <2>2. \A s \in Subs : DownloadSure(s) => s \in lost' \/ DownloadSure(s)'
        BY <1>3, <2>1 DEF WorkerDies, DownloadSure
    <2> QED
        BY <1>3, <2>2 DEF WorkerDies, DownloadInv
<1>4. ASSUME NEW s \in Subs, RequestVPS(s) PROVE DownloadInv'
    BY <1>4, DownloadFrame DEF RequestVPS, TypeInv, TypeOK, DownloadSure
<1>5. CASE \/ \E s \in Subs : Reconcile(s) \/ ContainerVanishes(s)
           \/ ReconcileScan \/ ReconcileDies \/ UNCHANGED vars
    <2>1. UNCHANGED <<status, req, task>> /\ lost \subseteq lost'
        BY <1>5 DEF Reconcile, ReconcileFound, ReconcileMissing, ReconcileCreate,
                    ReconcileCommit, ReconcileFails, ReconcileScan, ReconcileDies,
                    ContainerVanishes, vars
    <2> QED
        BY <2>1, DownloadFrame DEF DownloadSure
<1> QED
    BY <1>1, <1>2, <1>3, <1>4, <1>5, DownloadContinue, DownloadWork DEF Next

\* A subscription in DOWNLOADING_IMAGE is owed a download, whatever approvals,
\* administrators and tasks do to it, unless a message or a worker was lost.
THEOREM DownloadAlwaysOwed == Spec => []DownloadOwed
<1>1. Init => DownloadInv
    BY DEF Init, DownloadInv
<1>2. DownloadInv => DownloadOwed
    BY DEF DownloadInv, DownloadOwed, DownloadSure, DownloadPending
<1>3. Spec => []DownloadInv
    BY <1>1, TypeInvariant, DownloadNext, PTL DEF Spec
<1> QED
    BY <1>2, <1>3, PTL

-----------------------------------------------------------------------------
(***************************************************************************)
(* No subscription is stranded in PROVISIONING.  With the types this is    *)
(* inductive: only DownloadDone writes PROVISIONING and it goes on to      *)
(* publish, and whoever ends a provision task writes ACTIVE or reports.    *)
(***************************************************************************)
LEMMA ProvisionFrame ==
    ASSUME ProvisionOwed, lost \cup gaveUp \subseteq lost' \cup gaveUp',
           \A s \in Subs : status'[s] = "PROVISIONING" =>
               \/ ProvisionPending(s)'
               \/ s \in lost' \cup gaveUp'
               \/ /\ status[s] = "PROVISIONING"
                  /\ ProvisionPending(s) => ProvisionPending(s)'
    PROVE  ProvisionOwed'
BY DEF ProvisionOwed

\* A handler never writes PROVISIONING and takes only an idle task slot.
LEMMA ProvisionContinue ==
    ASSUME TypeInv, ProvisionOwed, NEW r \in Requests, Continue(r)
    PROVE  ProvisionOwed'
<1>1. UNCHANGED <<lost, gaveUp>>
    BY DEF Continue, StopCall, StartCall, DeleteCall, ApproveCommit,
           DownloadImageCommit, RejectCommit, SuspendCommit, ReactivateCommit,
           CancelCommit, TerminateCommit, StartCommit, StopCommit, PublishDownload
<1>2. \/ status' = status
      \/ \E new \in SubStatus \ {"PROVISIONING"} : WriteStatus(r, new)
    BY DEF Continue, StopCall, StartCall, DeleteCall, ApproveCommit,
           DownloadImageCommit, RejectCommit, SuspendCommit, ReactivateCommit,
           CancelCommit, TerminateCommit, StartCommit, StopCommit,
           PublishDownload, SubStatus
<1>3. \A s \in Subs : status'[s] = "PROVISIONING" => status[s] = "PROVISIONING"
    BY <1>2 DEF WriteStatus, TypeInv, TypeOK
<1>4. \/ task' = task
      \/ \E t \in Tasks : task[t].pc = "idle"
                          /\ \A u \in Tasks \ {t} : task'[u] = task[u]
    BY DEF Continue, StopCall, StartCall, DeleteCall, ApproveCommit,
           DownloadImageCommit, RejectCommit, SuspendCommit, ReactivateCommit,
           CancelCommit, TerminateCommit, StartCommit, StopCommit,
           PublishDownload, TypeInv, TypeOK
<1>5. \A s \in Subs : ProvisionPending(s) => ProvisionPending(s)'
    BY <1>4, LifecycleAssumption DEF ProvisionPending, TypeInv, Placed
<1> QED
    BY <1>1, <1>3, <1>5, ProvisionFrame

\* A task's step keeps who owes, takes the subscription out of PROVISIONING or
\* reports the failure.
LEMMA ProvisionWork ==
    ASSUME TypeInv, ProvisionOwed, NEW t \in Tasks, Work(t)
    PROVE  ProvisionOwed'
<1>1. \A u \in Tasks \ {t} : task'[u] = task[u]
    BY DEF TypeInv, TypeOK, Work, DownloadStart, DownloadDone, PublishProvision,
           DownloadFails, ProvisionRefused, ProvisionStart, ProvisionCreate,
           ProvisionCreateFails, ProvisionCommit, ProvisionCommitFails,
           ProvisionRetry, ProvisionGivesUp
<1>2. \A s \in Subs \ {task[t].sub} : ProvisionPending(s) => ProvisionPending(s)'
    BY <1>1 DEF ProvisionPending
<1>3. CASE DownloadStart(t)
    <2>1. \A s \in Subs : ProvisionPending(s) => ProvisionPending(s)'
        BY <1>1, <1>3 DEF DownloadStart, ProvisionPending
    <2> QED
        BY <1>3, <2>1, ProvisionFrame DEF DownloadStart
<1>4. CASE DownloadDone(t)
    <2>1. task'[t].pc = "publish" /\ task'[t].sub = task[t].sub
        BY <1>4 DEF DownloadDone, TypeInv, TypeOK, Task
    <2>2. \A s \in Subs : s = task[t].sub => ProvisionPending(s)'
        BY <2>1 DEF ProvisionPending
    <2>3. \A s \in Subs \ {task[t].sub} : status'[s] = status[s]
        BY <1>4 DEF DownloadDone, TypeInv, TypeOK
    <2> QED
        BY <1>2, <1>4, <2>2, <2>3, ProvisionFrame DEF DownloadDone
<1>5. CASE DownloadFails(t)
    <2>1. \A s \in Subs : status'[s] = "PROVISIONING" =>
              status[s] = "PROVISIONING" /\ s # task[t].sub
        BY <1>5 DEF DownloadFails, TypeInv, TypeOK
    <2> QED
        BY <1>2, <1>5, <2>1, ProvisionFrame DEF DownloadFails
<1>6. CASE ProvisionCommit(t)
    <2>1. \A s \in Subs : status'[s] = "PROVISIONING" =>
              status[s] = "PROVISIONING" /\ s # task[t].sub
        BY <1>6 DEF ProvisionCommit, TypeInv, TypeOK
    <2> QED
        BY <1>2, <1>6, <2>1, ProvisionFrame DEF ProvisionCommit
<1>7. CASE ProvisionGivesUp(t)
    BY <1>2, <1>7, ProvisionFrame DEF ProvisionGivesUp
<1>8. CASE \/ PublishProvision(t) \/ ProvisionRefused(t) \/ ProvisionStart(t)
           \/ ProvisionCreate(t) \/ ProvisionCreateFails(t)
           \/ ProvisionCommitFails(t) \/ ProvisionRetry(t)
    <2>1. UNCHANGED <<status, lost, gaveUp>>
        BY <1>8 DEF PublishProvision, ProvisionRefused, ProvisionStart,
                    ProvisionCreate, ProvisionCreateFails, ProvisionCommitFails,
                    ProvisionRetry
    <2>2. /\ task'[t].sub = task[t].sub
          /\ \/ task'[t].kind = "provision"
             \/ task'[t].kind = task[t].kind /\ task[t].pc # "publish"
        <3>1. CASE PublishProvision(t) \/ ProvisionRetry(t)
            <4>1. task[t].sub \in Subs
                BY <3>1 DEF PublishProvision, ProvisionRetry, TypeInv, Placed
            <4>2. Queued("provision", task[t].sub).kind = "provision"
                  /\ Queued("provision", task[t].sub).sub = task[t].sub
                  /\ Queued("provision", task[t].sub) \in Task
                BY <4>1, QueuedType
            <4> QED
                BY <3>1, <4>2
                   DEF PublishProvision, ProvisionRetry, TypeInv, TypeOK, Task
        <3>2. CASE ProvisionRefused(t)
            BY <3>2 DEF ProvisionRefused, TypeInv, TypeOK, Task
        <3>3. CASE ProvisionStart(t)
            BY <3>3 DEF ProvisionStart, TypeInv, TypeOK, Task
        <3>4. CASE ProvisionCreate(t)
            BY <3>4 DEF ProvisionCreate, TypeInv, TypeOK, Task
        <3>5. CASE ProvisionCreateFails(t) \/ ProvisionCommitFails(t)
            BY <3>5 DEF ProvisionCreateFails, ProvisionCommitFails, TypeInv,
                        TypeOK, Task
        <3> QED
            BY <1>8, <3>1, <3>2, <3>3, <3>4, <3>5
    <2>3. \A s \in Subs : ProvisionPending(s) => ProvisionPending(s)'
        BY <1>1, <2>2 DEF ProvisionPending
    <2> QED
        BY <2>1, <2>3, ProvisionFrame
<1> QED
    BY <1>3, <1>4, <1>5, <1>6, <1>7, <1>8 DEF Work

\* Every step keeps the invariant.
LEMMA ProvisionNext == TypeInv /\ ProvisionOwed /\ [Next]_vars => ProvisionOwed'
<1> SUFFICES ASSUME TypeInv, ProvisionOwed, [Next]_vars PROVE ProvisionOwed'
    OBVIOUS
<1>1. ASSUME NEW t \in Tasks, WorkerDies(t) PROVE ProvisionOwed'
    <2>1. \A u \in Tasks \ {t} : task'[u] = task[u]
        BY <1>1 DEF WorkerDies, TypeInv, TypeOK
    <2>2. \A s \in Subs : ProvisionPending(s) => s \in lost' \/ ProvisionPending(s)'
        BY <1>1, <2>1 DEF WorkerDies, ProvisionPending
    <2> QED
        BY <1>1, <2>2 DEF WorkerDies, ProvisionOwed
<1>2. ASSUME NEW s \in Subs, RequestVPS(s) PROVE ProvisionOwed'
    BY <1>2, ProvisionFrame DEF RequestVPS, TypeInv, TypeOK, ProvisionPending
<1>3. CASE \/ \E s \in Subs : Reconcile(s) \/ ContainerVanishes(s)
           \/ ReconcileScan \/ ReconcileDies \/ UNCHANGED vars
    <2>1. UNCHANGED <<status, task>> /\ lost \subseteq lost' /\ gaveUp \subseteq gaveUp'
        BY <1>3 DEF Reconcile, ReconcileFound, ReconcileMissing, ReconcileCreate,
                    ReconcileCommit, ReconcileFails, ReconcileScan, ReconcileDies,
                    ContainerVanishes, vars
    <2> QED
        BY <2>1, ProvisionFrame DEF ProvisionPending
<1>4. ASSUME NEW r \in Requests, \/ RequestDies(r)
                                 \/ \E s \in Subs : Serve(r, s)
      PROVE  ProvisionOwed'
    <2>1. UNCHANGED <<status, task, gaveUp>> /\ lost \subseteq lost'
        BY <1>4 DEF RequestDies, Serve, Load, Approve, Reject, DownloadImage,
                    Suspend, Reactivate, Cancel, Terminate, Start, Stop, Reboot
    <2> QED
        BY <2>1, ProvisionFrame DEF ProvisionPending
<1> QED
    BY <1>1, <1>2, <1>3, <1>4, ProvisionContinue, ProvisionWork DEF Next

\* A subscription in PROVISIONING has a task that works on it or will, unless
\* its failure was reported or a message or a worker was lost.
THEOREM ProvisionAlwaysOwed == Spec => []ProvisionOwed
<1>1. Init => ProvisionOwed
    BY DEF Init, ProvisionOwed
<1> QED
    BY <1>1, TypeInvariant, ProvisionNext, PTL DEF Spec

-----------------------------------------------------------------------------
(***************************************************************************)
(* No container before the approval, when nobody calls download-image:     *)
(* whatever runs for a subscription, or has seen its container, comes      *)
(* after the approval.                                                     *)
(***************************************************************************)
ApprovedInv ==
    /\ ContainerOnlyAfterApproval
    /\ \A r \in Requests :
          /\ req[r].op # "download-image"
          /\ req[r].pc = "publish" => req[r].sub \in approved
          /\ req[r].row.status # "NONE" => req[r].sub \in approved
    /\ \A t \in Tasks : task[t].pc # "idle" => task[t].sub \in approved
    /\ \A s \in Subs : recon[s].pc # "idle" => s \in approved

\* Loading the rows: whoever sees a container row sees an approved subscription.
LEMMA ApprovedServe ==
    ASSUME "download-image" \notin Ops, TypeInv, ApprovedInv,
           NEW r \in Requests, NEW s \in Subs, Serve(r, s)
    PROVE  ApprovedInv'
<1>1. PICK op \in AllOps, pc \in {"docker", "commit"} : Load(r, op, s, pc)
    BY DEF Serve, Approve, Reject, DownloadImage, Suspend, Reactivate, Cancel,
           Terminate, Start, Stop, Reboot, AllOps
<1>2. op # "download-image" /\ UNCHANGED <<approved, row, task, recon>>
    BY <1>1 DEF Load
<1>3. /\ req'[r].op = op /\ req'[r].pc = pc /\ req'[r].sub = s
      /\ req'[r].row.status = row[s].status
      /\ \A q \in Requests \ {r} : req'[q] = req[q]
    BY <1>1 DEF Load, TypeInv, TypeOK, Row
<1>4. row[s].status # "NONE" => s \in approved
    BY DEF ApprovedInv, ContainerOnlyAfterApproval, HasRow
<1> QED
    BY <1>2, <1>3, <1>4 DEF ApprovedInv, ContainerOnlyAfterApproval, HasRow

\* A handler's step: it keeps what it saw, and publishes only what it approved.
LEMMA ApprovedContinue ==
    ASSUME TypeInv, ApprovedInv, NEW r \in Requests, Continue(r)
    PROVE  ApprovedInv'
<1>1. approved \subseteq approved' /\ recon' = recon
    BY DEF Continue, StopCall, StartCall, DeleteCall, ApproveCommit,
           DownloadImageCommit, RejectCommit, SuspendCommit, ReactivateCommit,
           CancelCommit, TerminateCommit, StartCommit, StopCommit, PublishDownload
<1>2. \/ row' = row
      \/ \E new \in RowStatus : WriteRow(r, new)
    BY DEF Continue, StopCall, StartCall, DeleteCall, ApproveCommit,
           DownloadImageCommit, RejectCommit, SuspendCommit, ReactivateCommit,
           CancelCommit, TerminateCommit, StartCommit, StopCommit,
           PublishDownload, RowStatus
<1>3. ContainerOnlyAfterApproval'
    <2>1. ASSUME NEW s \in Subs, row'[s].status # "NONE", row[s].status = "NONE"
          PROVE  s = req[r].sub /\ req[r].row.status # "NONE"
        BY <1>2, <2>1 DEF WriteRow, TypeInv, TypeOK, Row
    <2> QED
        BY <1>1, <2>1 DEF ApprovedInv, ContainerOnlyAfterApproval, HasRow
<1>4. \/ \E pc \in {"docker", "commit"} : Advance(r, pc)
      \/ Finish(r)
      \/ ToPublish(r) /\ approved' = approved \cup {req[r].sub}
    BY DEF Continue, StopCall, StartCall, DeleteCall, CallFails, ApproveCommit,
           DownloadImageCommit, RejectCommit, SuspendCommit, ReactivateCommit,
           CancelCommit, TerminateCommit, StartCommit, StopCommit,
           PublishDownload, Committing, ApprovedInv
<1>5. /\ \A q \in Requests \ {r} : req'[q] = req[q]
      /\ req'[r].op # "download-image"
      /\ req'[r].pc = "publish" => req'[r].sub \in approved'
      /\ req'[r].row.status # "NONE" => req'[r].sub \in approved'
    <2>1. CASE \E pc \in {"docker", "commit"} : Advance(r, pc)
        <3>1. PICK pc \in {"docker", "commit"} : Advance(r, pc)
            BY <2>1
        <3>2. req[r] \in Request /\ req' = [req EXCEPT ![r] = Onward(req[r], pc)]
            BY <3>1 DEF Advance, TypeInv, TypeOK
        <3>3. LET q == Onward(req[r], pc)
              IN  /\ q.op = req[r].op /\ q.pc = pc /\ q.sub = req[r].sub
                  /\ q.row.status = req[r].row.status
            BY <3>2 DEF Onward, Request, Row
        <3> QED
            BY <1>1, <3>2, <3>3 DEF ApprovedInv, TypeInv, TypeOK
    <2>2. CASE Finish(r)
        BY <2>2 DEF Finish, IdleRequest, NoRow, ApprovedInv, TypeInv, TypeOK
    <2>3. CASE ToPublish(r) /\ approved' = approved \cup {req[r].sub}
        BY <2>3 DEF ToPublish, Owing, IdleRequest, NoRow, ApprovedInv, TypeInv, TypeOK
    <2> QED
        BY <1>4, <2>1, <2>2, <2>3
<1>6. \A t \in Tasks : task'[t].pc # "idle" => task'[t].sub \in approved'
    <2>1. CASE task' = task
        BY <1>1, <2>1 DEF ApprovedInv
    <2>2. ASSUME NEW t \in Tasks, PublishDownload(r, t)
          PROVE  \A u \in Tasks : task'[u].pc # "idle" => task'[u].sub \in approved'
        <3>1. req[r].sub \in Subs /\ req[r].sub \in approved
            BY <2>2 DEF PublishDownload, ApprovedInv, TypeInv, Placed
        <3>2. task'[t].sub = req[r].sub /\ \A u \in Tasks \ {t} : task'[u] = task[u]
            BY <2>2, <3>1, QueuedType DEF PublishDownload, TypeInv, TypeOK
        <3> QED
            BY <1>1, <3>1, <3>2 DEF ApprovedInv
    <2> QED
        BY <2>1, <2>2
           DEF Continue, StopCall, StartCall, DeleteCall, ApproveCommit,
               DownloadImageCommit, RejectCommit, SuspendCommit, ReactivateCommit,
               CancelCommit, TerminateCommit, StartCommit, StopCommit
<1> QED
    BY <1>1, <1>3, <1>5, <1>6 DEF ApprovedInv

\* A task's step: it keeps its subscription, which is approved.
LEMMA ApprovedWork ==
    ASSUME TypeInv, ApprovedInv, NEW t \in Tasks, Work(t)
    PROVE  ApprovedInv'
<1>1. UNCHANGED <<approved, req, recon>> /\ task[t].pc # "idle"
    BY DEF Work, DownloadStart, DownloadDone, PublishProvision,
           DownloadFails, ProvisionRefused, ProvisionStart, ProvisionCreate,
           ProvisionCreateFails, ProvisionCommit, ProvisionCommitFails,
           ProvisionRetry, ProvisionGivesUp
<1>2. task[t].sub \in approved /\ task[t].sub \in Subs
    BY <1>1 DEF ApprovedInv, TypeInv, Placed
<1>3. row' = row \/ ProvisionCommit(t)
    BY DEF Work, DownloadStart, DownloadDone, PublishProvision,
           DownloadFails, ProvisionRefused, ProvisionStart, ProvisionCreate,
           ProvisionCreateFails, ProvisionCommitFails,
           ProvisionRetry, ProvisionGivesUp
<1>4. ContainerOnlyAfterApproval'
    BY <1>1, <1>2, <1>3
       DEF ProvisionCommit, ContainerOnlyAfterApproval, HasRow, ApprovedInv,
           TypeInv, TypeOK
<1>5. \A u \in Tasks \ {t} : task'[u] = task[u]
    BY DEF TypeInv, TypeOK, Work, DownloadStart, DownloadDone, PublishProvision,
           DownloadFails, ProvisionRefused, ProvisionStart, ProvisionCreate,
           ProvisionCreateFails, ProvisionCommit, ProvisionCommitFails,
           ProvisionRetry, ProvisionGivesUp
<1>6. task'[t].pc # "idle" => task'[t].sub = task[t].sub
    <2>1. CASE PublishProvision(t) \/ ProvisionRetry(t)
        <3>1. Queued("provision", task[t].sub).sub = task[t].sub
              /\ Queued("provision", task[t].sub) \in Task
            BY <1>2, QueuedType
        <3> QED
            BY <2>1, <3>1 DEF PublishProvision, ProvisionRetry, TypeInv, TypeOK, Task
    <2>2. CASE \/ DownloadFails(t) \/ ProvisionCommit(t) \/ ProvisionGivesUp(t)
        BY <2>2, IdleTypes
           DEF DownloadFails, ProvisionCommit, ProvisionGivesUp, TypeInv, TypeOK
    <2>3. CASE DownloadStart(t) \/ DownloadDone(t)
        BY <2>3 DEF DownloadStart, DownloadDone, TypeInv, TypeOK, Task
    <2>4. CASE ProvisionRefused(t) \/ ProvisionStart(t)
        BY <2>4 DEF ProvisionRefused, ProvisionStart, TypeInv, TypeOK, Task
    <2>5. CASE ProvisionCreate(t)
        BY <2>5 DEF ProvisionCreate, TypeInv, TypeOK, Task
    <2>6. CASE ProvisionCreateFails(t) \/ ProvisionCommitFails(t)
        BY <2>6 DEF ProvisionCreateFails, ProvisionCommitFails, TypeInv, TypeOK, Task
    <2> QED
        BY <2>1, <2>2, <2>3, <2>4, <2>5, <2>6 DEF Work
<1> QED
    BY <1>1, <1>2, <1>4, <1>5, <1>6 DEF ApprovedInv

\* Every step keeps the invariant.
LEMMA ApprovedNext ==
    ASSUME "download-image" \notin Ops
    PROVE  TypeInv /\ ApprovedInv /\ [Next]_vars => ApprovedInv'
<1> SUFFICES ASSUME TypeInv, ApprovedInv, [Next]_vars PROVE ApprovedInv'
    OBVIOUS
<1>1. ASSUME NEW s \in Subs, Reconcile(s) PROVE ApprovedInv'
    <2>1. UNCHANGED <<approved, req, task>> /\ recon[s].pc # "idle"
        BY <1>1 DEF Reconcile, ReconcileFound, ReconcileMissing, ReconcileCreate,
                    ReconcileCommit, ReconcileFails
    <2>2. s \in approved
        BY <2>1 DEF ApprovedInv
    <2>3. \A q \in Subs \ {s} : row'[q] = row[q]
        BY <1>1 DEF Reconcile, ReconcileFound, ReconcileMissing, ReconcileCreate,
                    ReconcileCommit, ReconcileFails, TypeInv, TypeOK
    <2>4. \A q \in Subs \ {s} : recon[q].pc = "idle" => recon'[q].pc = "idle"
        <3>1. CASE ReconcileFails(s)
            BY <3>1 DEF ReconcileFails, IdleRecon
        <3>2. CASE ~ReconcileFails(s)
            BY <1>1, <3>2 DEF Reconcile, ReconcileFound, ReconcileMissing,
                              ReconcileCreate, ReconcileCommit, TypeInv, TypeOK
        <3> QED
            BY <3>1, <3>2
    <2> QED
        BY <2>1, <2>2, <2>3, <2>4 DEF ApprovedInv, ContainerOnlyAfterApproval, HasRow
<1>2. ASSUME NEW r \in Requests, RequestDies(r) PROVE ApprovedInv'
    BY <1>2, IdleTypes
       DEF RequestDies, Finish, IdleRequest, NoRow, ApprovedInv,
           ContainerOnlyAfterApproval, HasRow, TypeInv, TypeOK
<1>3. ASSUME NEW t \in Tasks, WorkerDies(t) PROVE ApprovedInv'
    BY <1>3, IdleTypes
       DEF WorkerDies, ApprovedInv, ContainerOnlyAfterApproval, HasRow, TypeInv, TypeOK
<1>4. CASE \/ \E s \in Subs : RequestVPS(s) \/ ContainerVanishes(s)
           \/ ReconcileScan \/ ReconcileDies \/ UNCHANGED vars
    <2>1. UNCHANGED <<approved, row, req, task>>
        BY <1>4 DEF RequestVPS, ContainerVanishes, ReconcileScan, ReconcileDies, vars
    <2>2. \A s \in Subs : recon'[s].pc # "idle" => recon[s].pc # "idle" \/ HasRow(s)
        BY <1>4 DEF RequestVPS, ContainerVanishes, ReconcileScan, ReconcileDies,
                    IdleRecon, HasRow, vars
    <2> QED
        BY <2>1, <2>2 DEF ApprovedInv, ContainerOnlyAfterApproval, HasRow
<1> QED
    BY <1>1, <1>2, <1>3, <1>4, ApprovedServe, ApprovedContinue, ApprovedWork DEF Next

\* Without the administrator's download-image a container row exists only for an
\* approved subscription.
THEOREM ContainerApproved ==
    ASSUME "download-image" \notin Ops
    PROVE  Spec => []ContainerOnlyAfterApproval
<1>1. Init => ApprovedInv
    BY DEF Init, ApprovedInv, ContainerOnlyAfterApproval, HasRow, IdleRequest,
           NoRow, IdleTask, IdleRecon
<1>2. ApprovedInv => ContainerOnlyAfterApproval
    BY DEF ApprovedInv
<1>3. Spec => []ApprovedInv
    BY <1>1, TypeInvariant, ApprovedNext, PTL DEF Spec
<1> QED
    BY <1>2, <1>3, PTL

-----------------------------------------------------------------------------
(***************************************************************************)
(* Orphans.  OrphanAccounted is not inductive: a commit of the reconcile   *)
(* task changes the id that the row knows, a provision task may run beside *)
(* it, and a download task that publishes ends without a trace.  What      *)
(* holds from step to step is that a container whose id neither the row    *)
(* nor the reconcile task knows has a PROVISION task, which does not end   *)
(* before it commits, reports or is lost.                                  *)
(***************************************************************************)
Tracked(s) ==
    \/ s \in lost \cup gaveUp
    \/ \E t \in Tasks : task[t].kind = "provision" /\ task[t].sub = s

Kinds ==
    \A t \in Tasks :
        /\ task[t].pc \in {"pulling", "publish"} => task[t].kind = "download"
        /\ task[t].pc \in {"allocating", "created", "failed"} => task[t].kind = "provision"

\* The advisory locks.
OneCreated ==
    \A t, u \in Tasks : task[t].pc = "created" /\ task[u].pc = "created" => t = u

Stray(s, known) == docker[s].cid \notin {NoCid, known}

Known(s) == IF recon[s].pc = "created" THEN recon[s].cid ELSE row[s].cid

\* A provision task that can still commit has the container, if there is one.
Held ==
    \A t \in Tasks : task[t].pc = "created" /\ ~HasRow(task[t].sub) =>
                         ~Stray(task[t].sub, task[t].cid)

OrphanInv ==
    /\ Kinds /\ OneCreated /\ Held
    /\ \A s \in Subs : recon[s].pc # "idle" => HasRow(s)
    /\ \A s \in Subs : Stray(s, Known(s)) => Tracked(s)

\* A step that takes no new container into account.
LEMMA OrphanFrame ==
    ASSUME TypeInv, OrphanInv, UNCHANGED recon, Kinds',
           \A t \in Tasks : task'[t].pc = "created" => task'[t] = task[t],
           \A s \in Subs : docker'[s].cid \in {docker[s].cid, NoCid},
           \A s \in Subs : row'[s].cid = row[s].cid /\ (HasRow(s) => HasRow(s)'),
           \A s \in Subs : Tracked(s) => Tracked(s)'
    PROVE  OrphanInv'
<1>1. OneCreated'
    BY DEF OrphanInv, OneCreated
<1>2. Held'
    <2> SUFFICES ASSUME NEW t \in Tasks, task'[t].pc = "created",
                        row'[task'[t].sub].status = "NONE"
                 PROVE  docker'[task'[t].sub].cid \in {NoCid, task'[t].cid}
        BY DEF Held, HasRow, Stray
    <2>1. task'[t] = task[t] /\ task[t].sub \in Subs
        BY DEF TypeInv, Placed
    <2>2. ~HasRow(task[t].sub)
        BY <2>1 DEF HasRow
    <2>3. docker[task[t].sub].cid \in {NoCid, task[t].cid}
        BY <2>1, <2>2 DEF OrphanInv, Held, Stray
    <2> QED
        BY <2>1, <2>3
<1>3. \A s \in Subs : Stray(s, Known(s))' => Stray(s, Known(s))
    BY DEF Stray, Known
<1>4. \A s \in Subs : recon'[s].pc # "idle" => HasRow(s)'
    BY DEF OrphanInv
<1> QED
    BY <1>1, <1>2, <1>3, <1>4 DEF OrphanInv

\* Tasks that stand still.
LEMMA SameTasks ==
    ASSUME OrphanInv, UNCHANGED task, lost \subseteq lost', gaveUp \subseteq gaveUp'
    PROVE  /\ Kinds'
           /\ \A s \in Subs : Tracked(s) => Tracked(s)'
BY DEF OrphanInv, Kinds, Tracked

\* A commit changes the status of a row that is there, or nothing.
LEMMA WriteRowKeeps ==
    ASSUME TypeInv, NEW r \in Requests, NEW new \in RowStatus \ {"NONE"}, WriteRow(r, new)
    PROVE  \A s \in Subs : row'[s].cid = row[s].cid /\ (HasRow(s) => HasRow(s)')
<1>1. CASE UNCHANGED row
    BY <1>1 DEF HasRow
<1>2. CASE row' = [row EXCEPT ![req[r].sub].status = new]
    BY <1>2 DEF HasRow, TypeInv, TypeOK, Row
<1> QED
    BY <1>1, <1>2 DEF WriteRow

\* A handler makes no container.
LEMMA OrphanContinue ==
    ASSUME TypeInv, OrphanInv, NEW r \in Requests, Continue(r)
    PROVE  OrphanInv'
<1>1. UNCHANGED <<recon, lost, gaveUp>>
    BY DEF Continue, StopCall, StartCall, DeleteCall, ApproveCommit, DownloadImageCommit,
           RejectCommit, SuspendCommit, ReactivateCommit, CancelCommit, TerminateCommit,
           StartCommit, StopCommit, PublishDownload
<1>2. \A s \in Subs : docker'[s].cid \in {docker[s].cid, NoCid}
    <2>1. \/ docker' = docker
          \/ docker' = [docker EXCEPT ![req[r].sub] = NoContainer]
          \/ docker' = [docker EXCEPT ![req[r].sub].up = FALSE]
          \/ docker' = [docker EXCEPT ![req[r].sub].up = TRUE]
        BY DEF Continue, StopCall, StartCall, DeleteCall, CallFails, ApproveCommit,
               DownloadImageCommit, RejectCommit, SuspendCommit, ReactivateCommit,
               CancelCommit, TerminateCommit, StartCommit, StopCommit, PublishDownload
    <2> QED
        BY <2>1 DEF NoContainer, TypeInv, TypeOK, Container
<1>3. \A s \in Subs : row'[s].cid = row[s].cid /\ (HasRow(s) => HasRow(s)')
    <2>1. CASE UNCHANGED row
        BY <2>1 DEF HasRow
    <2>2. CASE \E new \in RowStatus \ {"NONE"} : WriteRow(r, new)
        BY <2>2, WriteRowKeeps
    <2> QED
        BY <2>1, <2>2
           DEF Continue, StopCall, StartCall, DeleteCall, ApproveCommit,
               DownloadImageCommit, RejectCommit, SuspendCommit, ReactivateCommit,
               CancelCommit, TerminateCommit, StartCommit, StopCommit, PublishDownload,
               RowStatus
<1>4. CASE UNCHANGED task
    BY <1>1, <1>2, <1>3, <1>4, SameTasks, OrphanFrame
<1>5. CASE \E t \in Tasks : PublishDownload(r, t)
    <2>1. PICK t \in Tasks : PublishDownload(r, t)
        BY <1>5
    <2>2. req[r].sub \in Subs /\ task[t].pc = "idle" /\ task[t].sub = NoSub
        BY <2>1 DEF PublishDownload, TypeInv, Placed
    <2>3. \A u \in Tasks : task'[u] = IF u = t THEN Queued("download", req[r].sub)
                                      ELSE task[u]
        BY <2>1 DEF PublishDownload, TypeInv, TypeOK
    <2>4. Queued("download", req[r].sub).pc = "queued"
        BY <2>2, QueuedType
    <2>5. Kinds'
        BY <2>3, <2>4 DEF OrphanInv, Kinds
    <2>6. \A s \in Subs : Tracked(s) => Tracked(s)'
        BY <1>1, <2>2, <2>3, LifecycleAssumption DEF Tracked
    <2>7. \A u \in Tasks : task'[u].pc = "created" => task'[u] = task[u]
        BY <2>3, <2>4
    <2> QED
        BY <1>1, <1>2, <1>3, <2>5, <2>6, <2>7, OrphanFrame
<1> QED
    BY <1>4, <1>5
       DEF Continue, StopCall, StartCall, DeleteCall, ApproveCommit, DownloadImageCommit,
           RejectCommit, SuspendCommit, ReactivateCommit, CancelCommit, TerminateCommit,
           StartCommit, StopCommit

\* A task moves on and makes no container: a provision task ends only with a
\* report.
LEMMA TaskMoves ==
    ASSUME TypeInv, OrphanInv, NEW t \in Tasks, NEW q, task' = [task EXCEPT ![t] = q],
           q.pc # "created",
           q.pc \in {"pulling", "publish"} => q.kind = "download",
           q.pc \in {"allocating", "failed"} => q.kind = "provision",
           task[t].kind = "provision" =>
               \/ q.kind = "provision" /\ q.sub = task[t].sub
               \/ task[t].sub \in lost' \cup gaveUp',
           lost \subseteq lost', gaveUp \subseteq gaveUp', UNCHANGED <<row, recon>>,
           \A s \in Subs : docker'[s].cid \in {docker[s].cid, NoCid}
    PROVE  OrphanInv'
<1>1. \A u \in Tasks : task'[u] = IF u = t THEN q ELSE task[u]
    BY DEF TypeInv, TypeOK
<1>2. Kinds'
    BY <1>1 DEF OrphanInv, Kinds
<1>3. \A s \in Subs : Tracked(s) => Tracked(s)'
    BY <1>1 DEF Tracked
<1>4. \A u \in Tasks : task'[u].pc = "created" => task'[u] = task[u]
    BY <1>1
<1>5. \A s \in Subs : row'[s].cid = row[s].cid /\ (HasRow(s) => HasRow(s)')
    BY DEF HasRow
<1> QED
    BY <1>2, <1>3, <1>4, <1>5, OrphanFrame

\* The cleanup by name makes no container.
LEMMA CleanupKeeps ==
    ASSUME TypeInv, NEW s \in Subs, Cleanup(s) \/ UNCHANGED docker
    PROVE  \A s2 \in Subs : docker'[s2].cid \in {docker[s2].cid, NoCid}
<1>1. \/ docker' = [docker EXCEPT ![s] = NoContainer]
      \/ docker' = [docker EXCEPT ![s].up = FALSE]
      \/ docker' = docker
    BY DEF Cleanup
<1> QED
    BY <1>1 DEF NoContainer, TypeInv, TypeOK, Container

\* A container that a provision task makes is its own until it commits.
LEMMA OrphanCreate ==
    ASSUME TypeInv, OrphanInv, NEW t \in Tasks,
           ProvisionCreate(t) \/ ProvisionCreateFails(t)
    PROVE  OrphanInv'
<1> PICK s : s = task[t].sub
    OBVIOUS
<1>1. s \in Subs /\ task[t] \in Task /\ task[t].kind = "provision"
      /\ UNCHANGED <<row, recon, lost, gaveUp>>
    BY DEF ProvisionCreate, ProvisionCreateFails, TypeInv, TypeOK, Placed, OrphanInv, Kinds
<1>2. CASE ProvisionCreateFails(t) /\ UNCHANGED docker
    <2> DEFINE q == [task[t] EXCEPT !.pc = "failed"]
    <2>1. task' = [task EXCEPT ![t] = q]
        BY <1>2 DEF ProvisionCreateFails
    <2>2. q.pc = "failed" /\ q.kind = "provision" /\ q.sub = s
        BY <1>1 DEF Task
    <2> HIDE DEF q
    <2> QED
        BY <1>1, <1>2, <2>1, <2>2, TaskMoves
<1>3. CASE ProvisionCreate(t) \/ (ProvisionCreateFails(t) /\ ~UNCHANGED docker)
    <2>1. PICK c \in Cids, up \in BOOLEAN :
              /\ docker' = [docker EXCEPT ![s] = [cid |-> c, up |-> up]]
              /\ task'[t].pc \in {"created", "failed"}
              /\ task'[t].kind = "provision" /\ task'[t].sub = s
              /\ task'[t].pc = "created" => task'[t].cid = c
        <3>1. CASE ProvisionCreate(t)
            <4>1. PICK c \in Cids :
                      /\ docker' = [docker EXCEPT ![s] = [cid |-> c, up |-> TRUE]]
                      /\ task' = [task EXCEPT ![t].pc = "created", ![t].cid = c]
                BY <3>1 DEF ProvisionCreate
            <4>2. /\ task'[t].pc = "created" /\ task'[t].cid = c
                  /\ task'[t].kind = "provision" /\ task'[t].sub = s
                BY <1>1, <4>1 DEF TypeInv, TypeOK, Task
            <4> QED
                BY <4>1, <4>2
        <3>2. CASE ProvisionCreateFails(t) /\ ~UNCHANGED docker
            BY <1>1, <3>2 DEF ProvisionCreateFails, TypeInv, TypeOK, Task
        <3> QED
            BY <1>3, <3>1, <3>2
    <2>2. \A u \in Tasks \ {t} : task'[u] = task[u] /\ task[u].pc # "created"
        BY <1>3 DEF ProvisionCreate, ProvisionCreateFails, LockFree, TypeInv, TypeOK
    <2>3. \A s2 \in Subs : docker'[s2] = IF s2 = s THEN [cid |-> c, up |-> up] ELSE docker[s2]
        BY <2>1 DEF TypeInv, TypeOK
    <2>4. Kinds' /\ OneCreated'
        BY <2>1, <2>2 DEF OrphanInv, Kinds, OneCreated
    <2>5. \A s2 \in Subs : Tracked(s2) => Tracked(s2)'
        BY <1>1, <2>1, <2>2 DEF Tracked
    <2>6. Tracked(s)'
        BY <2>1 DEF Tracked
    <2>7. Held'
        <3>1. \A u \in Tasks : task'[u].pc = "created" =>
                                  u = t /\ docker'[task'[u].sub].cid = task'[u].cid
            BY <1>1, <2>1, <2>2, <2>3
        <3> QED
            BY <3>1 DEF Held, Stray
    <2>8. \A s2 \in Subs : Stray(s2, Known(s2))' => s2 = s \/ Stray(s2, Known(s2))
        BY <1>1, <2>3 DEF Stray, Known
    <2>9. \A s2 \in Subs : recon'[s2].pc # "idle" => HasRow(s2)'
        BY <1>1 DEF OrphanInv, HasRow
    <2> QED
        BY <2>4, <2>5, <2>6, <2>7, <2>8, <2>9 DEF OrphanInv
<1> QED
    BY <1>2, <1>3

\* The row that a provision task inserts knows the container.
LEMMA OrphanCommit ==
    ASSUME TypeInv, OrphanInv, NEW t \in Tasks, ProvisionCommit(t)
    PROVE  OrphanInv'
<1> PICK s : s = task[t].sub
    OBVIOUS
<1>1. s \in Subs /\ task[t].pc = "created" /\ ~HasRow(s)
      /\ UNCHANGED <<docker, recon, lost, gaveUp>>
    BY DEF ProvisionCommit, TypeInv, Placed
<1>2. \A u \in Tasks : task'[u] = IF u = t THEN IdleTask ELSE task[u]
    BY DEF ProvisionCommit, TypeInv, TypeOK
<1>3. \A s2 \in Subs : row'[s2] = IF s2 = s THEN [status |-> "RUNNING", cid |-> task[t].cid]
                                  ELSE row[s2]
    BY DEF ProvisionCommit, TypeInv, TypeOK
<1>4. \A u \in Tasks : task'[u].pc # "created"
    BY <1>1, <1>2, IdleTypes DEF OrphanInv, OneCreated
<1>5. Kinds' /\ OneCreated'
    BY <1>2, <1>4, IdleTypes DEF OrphanInv, Kinds, OneCreated
<1>6. \A s2 \in Subs \ {s} : Tracked(s2) => Tracked(s2)'
    BY <1>1, <1>2 DEF Tracked
<1>7. recon[s].pc = "idle" /\ ~Stray(s, task[t].cid)
    BY <1>1 DEF OrphanInv, Held
<1>8. ~Stray(s, Known(s))'
    <2>1. row'[s].cid = task[t].cid /\ docker'[s] = docker[s] /\ recon'[s] = recon[s]
        BY <1>1, <1>3
    <2>2. docker[s].cid \in {NoCid, task[t].cid}
        BY <1>7 DEF Stray
    <2>3. docker'[s].cid \in {NoCid, row'[s].cid} /\ recon'[s].pc # "created"
        BY <1>7, <2>1, <2>2
    <2> QED
        BY <2>3 DEF Stray, Known
<1>9. \A s2 \in Subs \ {s} : Stray(s2, Known(s2))' => Stray(s2, Known(s2))
    BY <1>1, <1>3 DEF Stray, Known
<1>10. \A s2 \in Subs : recon'[s2].pc # "idle" => HasRow(s2)'
    BY <1>1, <1>3, <1>7 DEF OrphanInv, HasRow
<1> QED
    BY <1>4, <1>5, <1>6, <1>8, <1>9, <1>10 DEF OrphanInv, Held

LEMMA OrphanWork ==
    ASSUME TypeInv, OrphanInv, NEW t \in Tasks, Work(t)
    PROVE  OrphanInv'
<1>1. task[t] \in Task /\ (task[t].pc # "idle" => task[t].sub \in Subs)
    BY DEF TypeInv, TypeOK, Placed
<1>2. CASE DownloadStart(t)
    <2> DEFINE q == [task[t] EXCEPT !.pc = "pulling", !.seen = status[task[t].sub]]
    <2>1. q.pc = "pulling" /\ q.kind = "download" /\ task[t].kind = "download"
        BY <1>1, <1>2 DEF DownloadStart, Task
    <2>2. task' = [task EXCEPT ![t] = q]
        BY <1>2 DEF DownloadStart, TypeInv, TypeOK
    <2> HIDE DEF q
    <2> QED
        BY <1>2, <2>1, <2>2, TaskMoves DEF DownloadStart
<1>3. CASE DownloadDone(t)
    <2> DEFINE q == [task[t] EXCEPT !.pc = "publish", !.seen = "NONE"]
    <2>1. q.pc = "publish" /\ q.kind = "download" /\ task[t].kind = "download"
        BY <1>1, <1>3 DEF DownloadDone, Task, OrphanInv, Kinds
    <2>2. task' = [task EXCEPT ![t] = q]
        BY <1>3 DEF DownloadDone, TypeInv, TypeOK
    <2> HIDE DEF q
    <2> QED
        BY <1>3, <2>1, <2>2, TaskMoves DEF DownloadDone
<1>4. CASE PublishProvision(t) \/ ProvisionRetry(t)
    <2>1. task[t].sub \in Subs
        BY <1>1, <1>4 DEF PublishProvision, ProvisionRetry
    <2>2. PICK q : /\ task' = [task EXCEPT ![t] = q]
                   /\ q.pc = "queued" /\ q.kind = "provision" /\ q.sub = task[t].sub
        BY <1>4, <2>1, QueuedType DEF PublishProvision, ProvisionRetry, Task
    <2>3. \A s \in Subs : docker'[s].cid \in {docker[s].cid, NoCid}
        BY <1>4, <2>1, CleanupKeeps DEF PublishProvision, ProvisionRetry
    <2> QED
        BY <1>4, <2>2, <2>3, TaskMoves DEF PublishProvision, ProvisionRetry
<1>5. CASE DownloadFails(t)
    <2>1. task[t].kind = "download"
        BY <1>5 DEF DownloadFails, OrphanInv, Kinds
    <2> QED
        BY <1>5, <2>1, IdleTypes, TaskMoves DEF DownloadFails
<1>6. CASE ProvisionRefused(t) \/ ProvisionCommitFails(t)
    <2>1. PICK q : /\ task' = [task EXCEPT ![t] = q]
                   /\ q.pc = "failed" /\ q.kind = "provision" /\ q.sub = task[t].sub
        <3> DEFINE q1 == [task[t] EXCEPT !.pc = "failed"]
                   q2 == [task[t] EXCEPT !.pc = "failed", !.cid = NoCid]
        <3>1. task[t].kind = "provision"
            BY <1>6 DEF ProvisionRefused, ProvisionCommitFails, OrphanInv, Kinds
        <3>2. /\ q1.pc = "failed" /\ q1.kind = "provision" /\ q1.sub = task[t].sub
              /\ q2.pc = "failed" /\ q2.kind = "provision" /\ q2.sub = task[t].sub
            BY <1>1, <3>1 DEF Task
        <3>3. task' = [task EXCEPT ![t] = q1] \/ task' = [task EXCEPT ![t] = q2]
            BY <1>6 DEF ProvisionRefused, ProvisionCommitFails, TypeInv, TypeOK
        <3> QED
            BY <3>2, <3>3
    <2> QED
        BY <1>6, <2>1, TaskMoves DEF ProvisionRefused, ProvisionCommitFails
<1>7. CASE ProvisionStart(t)
    <2> DEFINE q == [task[t] EXCEPT !.pc = "allocating", !.known = TRUE]
    <2>1. task[t].sub \in Subs /\ task[t].kind = "provision"
        BY <1>1, <1>7 DEF ProvisionStart
    <2>2. q.pc = "allocating" /\ q.kind = "provision" /\ q.sub = task[t].sub
        BY <1>1, <2>1 DEF Task
    <2>3. task' = [task EXCEPT ![t] = q]
        BY <1>7 DEF ProvisionStart, TypeInv, TypeOK
    <2>4. \A s \in Subs : docker'[s].cid \in {docker[s].cid, NoCid}
        BY <1>7, <2>1, CleanupKeeps DEF ProvisionStart
    <2> HIDE DEF q
    <2> QED
        BY <1>7, <2>2, <2>3, <2>4, TaskMoves DEF ProvisionStart
<1>8. CASE ProvisionGivesUp(t)
    BY <1>8, IdleTypes, TaskMoves DEF ProvisionGivesUp
<1> QED
    BY <1>2, <1>3, <1>4, <1>5, <1>6, <1>7, <1>8, OrphanCreate, OrphanCommit DEF Work

\* The reconcile task on one subscription, whose row stays.
LEMMA OrphanReconcile ==
    ASSUME TypeInv, OrphanInv, NEW s \in Subs, Reconcile(s)
    PROVE  OrphanInv'
<1>1. /\ UNCHANGED <<task, lost>> /\ gaveUp \subseteq gaveUp'
    BY DEF Reconcile, ReconcileFound, ReconcileMissing, ReconcileCreate, ReconcileCommit,
           ReconcileFails
<1>2. Kinds' /\ OneCreated' /\ \A s2 \in Subs : Tracked(s2) => Tracked(s2)'
    BY <1>1, SameTasks DEF OrphanInv, OneCreated
<1>3. recon[s].pc # "idle" /\ HasRow(s)
    BY DEF Reconcile, ReconcileFound, ReconcileMissing, ReconcileCreate, ReconcileCommit,
           ReconcileFails, OrphanInv
<1>4. \A s2 \in Subs : HasRow(s2) => HasRow(s2)'
    BY <1>3 DEF Reconcile, ReconcileFound, ReconcileMissing, ReconcileCreate,
                ReconcileCommit, ReconcileFails, HasRow, TypeInv, TypeOK, Row
<1>5. \A s2 \in Subs : recon'[s2].pc # "idle" => HasRow(s2)'
    BY <1>3, <1>4 DEF Reconcile, ReconcileFound, ReconcileMissing, ReconcileCreate,
                ReconcileCommit, ReconcileFails, OrphanInv, TypeInv, TypeOK, IdleRecon
<1>6. \A s2 \in Subs \ {s} : docker'[s2].cid = docker[s2].cid /\ row'[s2] = row[s2]
    BY DEF Reconcile, ReconcileFound, ReconcileMissing, ReconcileCreate,
           ReconcileCommit, ReconcileFails, TypeInv, TypeOK
<1>7. Held'
    <2> SUFFICES ASSUME NEW t \in Tasks, task'[t].pc = "created",
                        row'[task'[t].sub].status = "NONE"
                 PROVE  docker'[task'[t].sub].cid \in {NoCid, task'[t].cid}
        BY DEF Held, HasRow, Stray
    <2>1. task'[t] = task[t] /\ task[t].sub \in Subs
        BY <1>1 DEF TypeInv, Placed
    <2>2. ~HasRow(task[t].sub) /\ task[t].sub # s
        BY <1>3, <1>4, <2>1 DEF HasRow
    <2>3. docker[task[t].sub].cid \in {NoCid, task[t].cid}
        BY <2>1, <2>2 DEF OrphanInv, Held, Stray
    <2> QED
        BY <1>6, <2>1, <2>2, <2>3
<1>8. \A s2 \in Subs \ {s} : Stray(s2, Known(s2))' => Stray(s2, Known(s2))
    <2>1. \A s2 \in Subs \ {s} : \/ recon'[s2] = recon[s2]
                                 \/ recon'[s2].pc # "created" /\ recon[s2].pc # "created"
        BY DEF Reconcile, ReconcileFound, ReconcileMissing, ReconcileCreate, ReconcileCommit,
               ReconcileFails, Turn, IdleRecon, Expired, TypeInv, TypeOK
    <2> QED
        BY <1>6, <2>1 DEF Stray, Known
<1>9. Stray(s, Known(s))' => Tracked(s)'
    <2>1. CASE ReconcileFound(s)
        <3>1. row'[s].cid = docker[s].cid \/ UNCHANGED row
            BY <2>1 DEF ReconcileFound, TypeInv, TypeOK, Row
        <3>2. recon'[s].pc = "idle" /\ UNCHANGED docker
            BY <2>1 DEF ReconcileFound, IdleRecon, TypeInv, TypeOK
        <3>3. Stray(s, Known(s))' => Stray(s, Known(s))
            BY <2>1, <3>1, <3>2 DEF ReconcileFound, Stray, Known
        <3> QED
            BY <1>2, <3>3 DEF OrphanInv
    <2>2. CASE ReconcileMissing(s)
        BY <2>2 DEF ReconcileMissing, Stray
    <2>3. CASE ReconcileCreate(s)
        <3>1. PICK c \in Cids :
                  /\ docker' = [docker EXCEPT ![s] = [cid |-> c, up |-> TRUE]]
                  /\ recon' = [recon EXCEPT ![s].pc = "created", ![s].cid = c]
            BY <2>3 DEF ReconcileCreate
        <3> QED
            BY <3>1 DEF Stray, Known, TypeInv, TypeOK, Recon
    <2>4. CASE ReconcileCommit(s)
        <3>1. Stray(s, Known(s))' => Stray(s, Known(s))
            BY <2>4 DEF ReconcileCommit, Stray, Known, IdleRecon, TypeInv, TypeOK
        <3> QED
            BY <1>2, <3>1 DEF OrphanInv
    <2>5. CASE ReconcileFails(s)
        BY <2>5 DEF ReconcileFails, Tracked
    <2> QED
        BY <2>1, <2>2, <2>3, <2>4, <2>5 DEF Reconcile
<1> QED
    BY <1>1, <1>2, <1>5, <1>7, <1>8, <1>9 DEF OrphanInv

\* Every step keeps the invariant.
LEMMA OrphanNext == TypeInv /\ OrphanInv /\ [Next]_vars => OrphanInv'
<1> SUFFICES ASSUME TypeInv, OrphanInv, [Next]_vars PROVE OrphanInv'
    OBVIOUS
<1>1. ASSUME NEW t \in Tasks, WorkerDies(t) PROVE OrphanInv'
    BY <1>1, IdleTypes, TaskMoves DEF WorkerDies
<1>2. CASE \/ \E s \in Subs : RequestVPS(s) \/ ContainerVanishes(s)
           \/ \E r \in Requests : RequestDies(r) \/ \E s \in Subs : Serve(r, s)
           \/ UNCHANGED vars
    <2>1. UNCHANGED <<row, task, recon, gaveUp>> /\ lost \subseteq lost'
        BY <1>2 DEF RequestVPS, ContainerVanishes, RequestDies, Serve, Load, Approve, Reject,
                    DownloadImage, Suspend, Reactivate, Cancel, Terminate, Start, Stop,
                    Reboot, vars
    <2>2. docker' = docker \/ \E s \in Subs : docker' = [docker EXCEPT ![s] = NoContainer]
        BY <1>2 DEF RequestVPS, ContainerVanishes, RequestDies, Serve, Load, Approve, Reject,
                    DownloadImage, Suspend, Reactivate, Cancel, Terminate, Start, Stop,
                    Reboot, vars
    <2>3. \A s \in Subs : docker'[s].cid \in {docker[s].cid, NoCid}
        BY <2>2 DEF NoContainer, TypeInv, TypeOK
    <2>4. \A s \in Subs : row'[s].cid = row[s].cid /\ (HasRow(s) => HasRow(s)')
        BY <2>1 DEF HasRow
    <2> QED
        BY <2>1, <2>3, <2>4, SameTasks, OrphanFrame
<1>3. CASE ReconcileScan \/ ReconcileDies
    <2>1. UNCHANGED <<row, docker, task, gaveUp>> /\ lost \subseteq lost'
        BY <1>3 DEF ReconcileScan, ReconcileDies
    <2>2. Kinds' /\ OneCreated' /\ \A s \in Subs : Tracked(s) => Tracked(s)'
        BY <2>1, SameTasks DEF OrphanInv, OneCreated
    <2>3. Held'
        BY <2>1 DEF OrphanInv, Held, Stray, HasRow
    <2>4. \A s \in Subs : recon'[s].pc # "idle" => HasRow(s)'
        BY <1>3, <2>1 DEF ReconcileScan, ReconcileDies, IdleRecon, HasRow
    <2>5. \A s \in Subs : Stray(s, Known(s))' => Stray(s, Known(s)) \/ s \in lost'
        BY <1>3, <2>1 DEF ReconcileScan, ReconcileDies, ReconIdle, IdleRecon, Stray, Known
    <2>6. \A s \in Subs : s \in lost' => Tracked(s)'
        BY DEF Tracked
    <2> QED
        BY <2>1, <2>2, <2>3, <2>4, <2>5, <2>6 DEF OrphanInv
<1> QED
    BY <1>1, <1>2, <1>3, OrphanContinue, OrphanWork, OrphanReconcile DEF Next

\* A container that the database does not know has somebody at work on it, or
\* its failure was reported, or its worker was lost: no overlap of downloads,
\* retries, terminations and repairs leaves one unnoticed.
THEOREM OrphanAlwaysAccounted == Spec => []OrphanAccounted
<1>1. Init => OrphanInv
    BY IdleTypes DEF Init, OrphanInv, Kinds, OneCreated, Held, Stray, NoContainer, IdleRecon
<1>2. OrphanInv => OrphanAccounted
    BY DEF OrphanInv, OrphanAccounted, Stray, Known, Tracked, ProvisionPending
<1> QED
    BY <1>1, <1>2, TypeInvariant, OrphanNext, PTL DEF Spec

-----------------------------------------------------------------------------
(***************************************************************************)
(* Customer data.  With one request at a time and without download-image,  *)
(* every subscription has at most one pipeline: an approval to commit or   *)
(* to publish, or one task, and a pipeline's subscription has no row.  So  *)
(* the cleanup of a failed task never meets a container of the database.   *)
(***************************************************************************)
OneAtATime == \A r, q \in Requests : r = q

\* Before the first approval, or after a download that failed.
Early == {"NONE", "PENDING"}

Alone ==
    /\ \A t, u \in Tasks : task[t].sub \in Subs /\ task[u].sub = task[t].sub => t = u
    /\ \A t \in Tasks : task[t].sub \in Subs =>
                            status[task[t].sub] \notin Early /\ ~HasRow(task[t].sub)
    /\ \A s \in Subs : status[s] \in Early => ~HasRow(s)

Approves(q) ==
    /\ q.pc \in {"commit", "publish"} /\ q.op = "approve"
    /\ ~HasRow(q.sub) /\ \A t \in Tasks : task[t].sub # q.sub
    /\ IF q.pc = "commit" THEN q.seen = "PENDING" /\ status[q.sub] = "PENDING"
       ELSE status[q.sub] \notin Early

Acts(q) ==
    /\ q.pc \in {"docker", "commit"} /\ q.op \notin {"approve", "download-image"}
    /\ q.row.status # "NONE" => HasRow(q.sub)

PipeInv == Alone /\ \A r \in Requests : req[r].pc = "idle" \/ Approves(req[r]) \/ Acts(req[r])

\* A step that begins no pipeline and inserts no row.
LEMMA AloneFrame ==
    ASSUME TypeInv, Alone,
           \A t \in Tasks : task'[t].sub \in Subs => task'[t].sub = task[t].sub,
           \A s \in Subs : HasRow(s)' <=> HasRow(s),
           \A s \in Subs : status'[s] = status[s] \/ status'[s] \notin Early
    PROVE  Alone'
BY DEF Alone, HasRow

\* The one request comes to its end.
LEMMA PipeFinish ==
    ASSUME OneAtATime, TypeInv, NEW r \in Requests, Finish(r), Alone'
    PROVE  PipeInv'
<1>1. \A q \in Requests : req'[q].pc = "idle"
    BY IdleTypes DEF OneAtATime, Finish, TypeInv, TypeOK
<1> QED
    BY <1>1 DEF PipeInv

\* A request in flight is not disturbed where tasks and rows keep away.
LEMMA PipeRequests ==
    ASSUME TypeInv, PipeInv, UNCHANGED req,
           \A t \in Tasks : task'[t].sub \in Subs => task'[t].sub = task[t].sub,
           \A t \in Tasks : task'[t].sub \in Subs \cup {NoSub},
           \A s \in Subs : HasRow(s) => HasRow(s)',
           \A s \in Subs : (\A t \in Tasks : task[t].sub # s) =>
                              /\ status'[s] = status[s]
                              /\ HasRow(s)' <=> HasRow(s)
    PROVE  \A r \in Requests : (req[r].pc = "idle" \/ Approves(req[r]) \/ Acts(req[r]))'
<1> SUFFICES ASSUME NEW r \in Requests
             PROVE  (req[r].pc = "idle" \/ Approves(req[r]) \/ Acts(req[r]))'
    OBVIOUS
<1> PICK q : q = req[r] /\ q = req'[r]
    OBVIOUS
<1>1. CASE q.pc = "idle"
    BY <1>1
<1>2. CASE q.pc # "idle" /\ Approves(q)
    <2>1. q.sub \in Subs
        BY <1>2 DEF TypeInv, Placed
    <2>2. Approves(q)'
        BY <1>2, <2>1, LifecycleAssumption DEF Approves, HasRow
    <2> QED
        BY <2>2 DEF Approves, HasRow
<1>3. CASE q.pc # "idle" /\ Acts(q)
    <2>1. q.sub \in Subs
        BY <1>3 DEF TypeInv, Placed
    <2>2. Acts(q)'
        BY <1>3, <2>1 DEF Acts, HasRow
    <2> QED
        BY <2>2 DEF Acts, HasRow
<1> QED
    BY <1>1, <1>2, <1>3 DEF PipeInv

\* A request is checked: an approval finds no pipeline.
LEMMA PipeServe ==
    ASSUME OneAtATime, TypeInv, PipeInv, "download-image" \notin Ops,
           NEW r \in Requests, NEW s \in Subs, Serve(r, s)
    PROVE  PipeInv'
<1>1. PICK op \in Ops, pc \in {"docker", "commit"} :
          /\ Load(r, op, s, pc)
          /\ op = "approve" => pc = "commit" /\ status[s] = "PENDING"
    BY DEF Serve, Approve, Reject, DownloadImage, Suspend, Reactivate, Cancel,
           Terminate, Start, Stop, Reboot, Load
<1> DEFINE q == [op |-> op, sub |-> s, pc |-> pc, seen |-> status[s],
                 row |-> IF pc = "docker" THEN row[s] ELSE [row[s] EXCEPT !.cid = NoCid]]
<1>2. UNCHANGED <<status, row, task>> /\ req' = [req EXCEPT ![r] = q]
    BY <1>1 DEF Load
<1>3. q.op = op /\ q.sub = s /\ q.pc = pc /\ q.seen = status[s] /\ q.row.status = row[s].status
    BY DEF TypeInv, TypeOK, Row
<1>4. Approves(q) \/ Acts(q)
    <2>1. CASE op = "approve"
        BY <1>1, <1>3, <2>1 DEF Approves, PipeInv, Alone, Early
    <2>2. CASE op # "approve"
        BY <1>3, <2>2 DEF Acts, HasRow
    <2> QED
        BY <2>1, <2>2
<1> HIDE DEF q
<1>5. \A r2 \in Requests : req'[r2] = q
    BY <1>2 DEF OneAtATime, TypeInv, TypeOK
<1>6. Alone'
    BY <1>2 DEF PipeInv, Alone, HasRow
<1>7. \A r2 \in Requests : Approves(req[r2])' \/ Acts(req[r2])'
    BY <1>2, <1>4, <1>5 DEF Approves, Acts, HasRow
<1> QED
    BY <1>6, <1>7 DEF PipeInv

\* A commit writes no row that is not there.
LEMMA RowsStay ==
    ASSUME TypeInv, PipeInv, NEW r \in Requests, Acts(req[r]),
           NEW new \in RowStatus \ {"NONE"}, WriteRow(r, new)
    PROVE  \A s \in Subs : HasRow(s)' <=> HasRow(s)
<1>1. CASE UNCHANGED row
    BY <1>1 DEF HasRow
<1>2. CASE req[r].row.status # "NONE" /\ row' = [row EXCEPT ![req[r].sub].status = new]
    <2>1. HasRow(req[r].sub)
        BY <1>2 DEF Acts
    <2> QED
        BY <1>2, <2>1 DEF HasRow, TypeInv, TypeOK, Row
<1> QED
    BY <1>1, <1>2 DEF WriteRow

LEMMA PipeContinue ==
    ASSUME OneAtATime, TypeInv, PipeInv, NEW r \in Requests, Continue(r)
    PROVE  PipeInv'
<1>1. req[r].pc # "idle" /\ req[r].sub \in Subs /\ req[r] \in Request
    BY DEF Continue, StopCall, StartCall, DeleteCall, ApproveCommit, DownloadImageCommit,
           RejectCommit, SuspendCommit, ReactivateCommit, CancelCommit, TerminateCommit,
           StartCommit, StopCommit, PublishDownload, Committing, TypeInv, TypeOK, Placed
<1>2. Approves(req[r]) \/ Acts(req[r])
    BY <1>1 DEF PipeInv
<1>3. CASE StopCall(r) \/ StartCall(r) \/ DeleteCall(r)
    <2>1. UNCHANGED <<status, row, task>> /\ (Finish(r) \/ Advance(r, "commit"))
        BY <1>3 DEF StopCall, StartCall, DeleteCall, CallFails
    <2>2. Alone'
        BY <2>1 DEF PipeInv, Alone, HasRow
    <2>3. CASE Advance(r, "commit")
        <3> DEFINE q == Onward(req[r], "commit")
        <3>1. Acts(req[r])
            BY <1>2, <1>3 DEF StopCall, StartCall, DeleteCall, Approves
        <3>2. q.pc = "commit" /\ q.op = req[r].op /\ q.sub = req[r].sub
              /\ q.row.status = req[r].row.status
            BY <1>1 DEF Onward, Request
        <3>3. Acts(q)
            BY <3>1, <3>2 DEF Acts
        <3> HIDE DEF q
        <3>4. \A r2 \in Requests : req'[r2] = q
            BY <2>3 DEF Advance, OneAtATime, TypeInv, TypeOK, q
        <3>5. \A r2 \in Requests : Acts(req[r2])'
            BY <2>1, <3>3, <3>4 DEF Acts, HasRow
        <3> QED
            BY <2>2, <3>5 DEF PipeInv
    <2> QED
        BY <2>1, <2>2, <2>3, PipeFinish
<1>4. CASE ApproveCommit(r)
    <2>1. Approves(req[r]) /\ req[r].pc = "commit"
        BY <1>2, <1>4 DEF ApproveCommit, Committing, Acts
    <2>2. status' = [status EXCEPT ![req[r].sub] = "DOWNLOADING_IMAGE"] /\ UNCHANGED <<row, task>>
        BY <1>4, <2>1 DEF ApproveCommit, WriteStatus, Approves
    <2>3. \A s \in Subs : status'[s] = IF s = req[r].sub THEN "DOWNLOADING_IMAGE" ELSE status[s]
        BY <2>2 DEF TypeInv, TypeOK
    <2>4. Alone'
        BY <2>2, <2>3 DEF PipeInv, Alone, Early, HasRow
    <2> DEFINE q == Owing(req[r])
    <2>5. q.pc = "publish" /\ q.op = "approve" /\ q.sub = req[r].sub
        BY <2>1, IdleTypes DEF Owing, Approves, IdleRequest
    <2> HIDE DEF q
    <2>6. \A r2 \in Requests : req'[r2] = q
        BY <1>4 DEF ApproveCommit, ToPublish, OneAtATime, TypeInv, TypeOK, q
    <2>7. \A r2 \in Requests : Approves(req[r2])'
        BY <1>1, <2>1, <2>2, <2>3, <2>5, <2>6 DEF Approves, Early, HasRow
    <2> QED
        BY <2>4, <2>7 DEF PipeInv
<1>5. CASE DownloadImageCommit(r)
    BY <1>2, <1>5 DEF DownloadImageCommit, Committing, Approves, Acts
<1>6. CASE \/ RejectCommit(r) \/ SuspendCommit(r) \/ ReactivateCommit(r) \/ CancelCommit(r)
           \/ TerminateCommit(r) \/ StartCommit(r) \/ StopCommit(r)
    <2>1. Acts(req[r])
        BY <1>2, <1>6 DEF RejectCommit, SuspendCommit, ReactivateCommit, CancelCommit,
                          TerminateCommit, StartCommit, StopCommit, Committing, Approves
    <2>2. Finish(r) /\ UNCHANGED task
        BY <1>6 DEF RejectCommit, SuspendCommit, ReactivateCommit, CancelCommit,
                    TerminateCommit, StartCommit, StopCommit
    <2>3. \A s \in Subs : HasRow(s)' <=> HasRow(s)
        <3>1. CASE UNCHANGED row
            BY <3>1 DEF HasRow
        <3>2. CASE \E new \in RowStatus \ {"NONE"} : WriteRow(r, new)
            BY <2>1, <3>2, RowsStay
        <3> QED
            BY <1>6, <3>1, <3>2
               DEF RejectCommit, SuspendCommit, ReactivateCommit, CancelCommit,
                   TerminateCommit, StartCommit, StopCommit, RowStatus
    <2>4. \A s \in Subs : status'[s] = status[s] \/ status'[s] \notin Early
        BY <1>6 DEF RejectCommit, SuspendCommit, ReactivateCommit, CancelCommit, Early,
                    TerminateCommit, StartCommit, StopCommit, WriteStatus, TypeInv, TypeOK
    <2>5. Alone'
        BY <2>2, <2>3, <2>4, AloneFrame DEF PipeInv
    <2> QED
        BY <2>2, <2>5, PipeFinish
<1>7. CASE \E t \in Tasks : PublishDownload(r, t)
    <2>1. PICK t \in Tasks : PublishDownload(r, t)
        BY <1>7
    <2>2. Approves(req[r]) /\ req[r].pc = "publish"
        BY <1>2, <2>1 DEF PublishDownload, Acts
    <2>3. /\ UNCHANGED <<status, row>> /\ Finish(r)
          /\ task' = [task EXCEPT ![t] = Queued("download", req[r].sub)]
        BY <2>1 DEF PublishDownload
    <2> DEFINE q == Queued("download", req[r].sub)
    <2>4. q.sub = req[r].sub
        BY <1>1, QueuedType
    <2> HIDE DEF q
    <2>5. \A u \in Tasks : task'[u] = IF u = t THEN q ELSE task[u]
        BY <2>3 DEF TypeInv, TypeOK, q
    <2>6. Alone'
        BY <1>1, <2>2, <2>3, <2>4, <2>5 DEF PipeInv, Alone, Approves, HasRow
    <2> QED
        BY <2>3, <2>6, PipeFinish
<1> QED
    BY <1>3, <1>4, <1>5, <1>6, <1>7 DEF Continue

\* A task works for its one subscription, which has no row yet.
LEMMA WorkFacts ==
    ASSUME TypeInv, PipeInv, NEW t \in Tasks, Work(t) \/ WorkerDies(t),
           NEW s, s = task[t].sub
    PROVE  /\ s \in Subs /\ task[t] \in Task /\ status[s] \notin Early /\ ~HasRow(s)
           /\ UNCHANGED req
           /\ \A u \in Tasks \ {t} : task'[u] = task[u] /\ task[u].sub # s
           /\ task'[t].sub \in {s, NoSub}
           /\ \A s2 \in Subs \ {s} : status'[s2] = status[s2] /\ (HasRow(s2)' <=> HasRow(s2))
<1>1. s \in Subs /\ task[t] \in Task /\ status[s] \notin Early /\ ~HasRow(s) /\ UNCHANGED req
    <2>1. task[t].pc # "idle" /\ UNCHANGED req
        BY IdleTypes
           DEF Work, WorkerDies, DownloadStart, DownloadDone, PublishProvision, DownloadFails,
               ProvisionRefused, ProvisionStart, ProvisionCreate, ProvisionCreateFails,
               ProvisionCommit, ProvisionCommitFails, ProvisionRetry, ProvisionGivesUp
    <2> QED
        BY <2>1 DEF TypeInv, TypeOK, Placed, PipeInv, Alone
<1>2. \A u \in Tasks \ {t} : task'[u] = task[u]
    BY DEF TypeInv, TypeOK, Work, WorkerDies, DownloadStart, DownloadDone, PublishProvision,
           DownloadFails, ProvisionRefused, ProvisionStart, ProvisionCreate,
           ProvisionCreateFails, ProvisionCommit, ProvisionCommitFails,
           ProvisionRetry, ProvisionGivesUp
<1>3. task'[t].sub \in {s, NoSub}
    <2>1. CASE \/ DownloadFails(t) \/ ProvisionCommit(t) \/ ProvisionGivesUp(t) \/ WorkerDies(t)
        BY <2>1, IdleTypes DEF DownloadFails, ProvisionCommit, ProvisionGivesUp, WorkerDies,
                               TypeInv, TypeOK
    <2>2. CASE PublishProvision(t) \/ ProvisionRetry(t)
        BY <1>1, <2>2, QueuedType DEF PublishProvision, ProvisionRetry, TypeInv, TypeOK, Task
    <2>3. CASE DownloadStart(t) \/ DownloadDone(t) \/ ProvisionRefused(t) \/ ProvisionStart(t)
        BY <1>1, <2>3 DEF DownloadStart, DownloadDone, ProvisionRefused, ProvisionStart,
                          TypeInv, TypeOK, Task
    <2>4. CASE ProvisionCreate(t)
        <3>1. PICK c : task' = [task EXCEPT ![t].pc = "created", ![t].cid = c]
            BY <2>4 DEF ProvisionCreate
        <3> QED
            BY <1>1, <3>1 DEF TypeInv, TypeOK, Task
    <2>5. CASE ProvisionCreateFails(t) \/ ProvisionCommitFails(t)
        BY <1>1, <2>5 DEF ProvisionCreateFails, ProvisionCommitFails, TypeInv, TypeOK, Task
    <2> QED
        BY <2>1, <2>2, <2>3, <2>4, <2>5 DEF Work
<1>4. \A s2 \in Subs \ {s} : status'[s2] = status[s2] /\ (HasRow(s2)' <=> HasRow(s2))
    BY <1>1 DEF TypeInv, TypeOK, Work, WorkerDies, DownloadStart, DownloadDone,
                PublishProvision, DownloadFails, ProvisionRefused, ProvisionStart,
                ProvisionCreate, ProvisionCreateFails, ProvisionCommit,
                ProvisionCommitFails, ProvisionRetry, ProvisionGivesUp, HasRow
<1>5. \A u \in Tasks \ {t} : task[u].sub # s
    BY <1>1 DEF PipeInv, Alone
<1> QED
    BY <1>1, <1>2, <1>3, <1>4, <1>5

\* A task goes on for its subscription or ends.
LEMMA PipeWork ==
    ASSUME TypeInv, PipeInv, NEW t \in Tasks, Work(t) \/ WorkerDies(t)
    PROVE  PipeInv'
<1> PICK s : s = task[t].sub
    OBVIOUS
<1>1. s \in Subs /\ task[t] \in Task /\ status[s] \notin Early /\ ~HasRow(s) /\ UNCHANGED req
    BY WorkFacts
<1>2. \A u \in Tasks \ {t} : task'[u] = task[u]
    BY WorkFacts
<1>3. task'[t].sub \in {s, NoSub}
    BY WorkFacts
<1>4. \A u \in Tasks : /\ task'[u].sub \in Subs \cup {NoSub}
                       /\ task'[u].sub \in Subs => task'[u].sub = task[u].sub
    BY <1>1, <1>2, <1>3, LifecycleAssumption DEF TypeInv, TypeOK, Task
<1>5. \A s2 \in Subs \ {s} : status'[s2] = status[s2] /\ (HasRow(s2)' <=> HasRow(s2))
    BY WorkFacts
<1>6. Alone'
    <2>1. CASE DownloadFails(t) \/ ProvisionCommit(t)
        <3>1. task'[t].sub = NoSub
            BY <2>1, IdleTypes DEF DownloadFails, ProvisionCommit, TypeInv, TypeOK
        <3>2. status'[s] \in Early => ~HasRow(s)'
            BY <1>1, <2>1 DEF DownloadFails, ProvisionCommit, HasRow, Early, TypeInv, TypeOK
        <3>3. \A u \in Tasks \ {t} : task[u].sub # s
            BY <1>1 DEF PipeInv, Alone
        <3> QED
            BY <1>2, <1>5, <3>1, <3>2, <3>3, LifecycleAssumption DEF PipeInv, Alone, HasRow
    <2>2. CASE ~(DownloadFails(t) \/ ProvisionCommit(t))
        <3>1. UNCHANGED row /\ (status'[s] = status[s] \/ status'[s] = "PROVISIONING")
            BY <1>1, <2>2 DEF TypeInv, TypeOK, Work, WorkerDies, DownloadStart, DownloadDone,
                    PublishProvision, ProvisionRefused, ProvisionStart, ProvisionCreate,
                    ProvisionCreateFails, ProvisionCommitFails, ProvisionRetry,
                    ProvisionGivesUp
        <3>2. \A s2 \in Subs : status'[s2] = status[s2] \/ status'[s2] \notin Early
            BY <1>5, <3>1 DEF Early
        <3>3. \A s2 \in Subs : HasRow(s2)' <=> HasRow(s2)
            BY <3>1 DEF HasRow
        <3> QED
            BY <1>4, <3>2, <3>3, AloneFrame DEF PipeInv
    <2> QED
        BY <2>1, <2>2
<1>7. \A s2 \in Subs : HasRow(s2) => HasRow(s2)'
    BY <1>1, <1>5
<1>8. \A s2 \in Subs : (\A u \in Tasks : task[u].sub # s2) =>
                          status'[s2] = status[s2] /\ (HasRow(s2)' <=> HasRow(s2))
    BY <1>5
<1>9. \A r \in Requests : (req[r].pc = "idle" \/ Approves(req[r]) \/ Acts(req[r]))'
    BY <1>1, <1>4, <1>7, <1>8, PipeRequests
<1> QED
    BY <1>6, <1>9 DEF PipeInv

\* The repair changes no row into none, and makes none.
LEMMA RepairKeepsRows ==
    ASSUME TypeInv, OrphanInv,
           \/ \E s \in Subs : Reconcile(s) \/ ContainerVanishes(s)
           \/ ReconcileScan \/ ReconcileDies \/ UNCHANGED vars
    PROVE  \A s \in Subs : HasRow(s)' <=> HasRow(s)
<1>1. CASE UNCHANGED row
    BY <1>1 DEF HasRow
<1>2. ASSUME NEW s \in Subs, ReconcileFound(s) \/ ReconcileCommit(s)
      PROVE  \A s2 \in Subs : HasRow(s2)' <=> HasRow(s2)
    <2>1. HasRow(s)
        BY <1>2 DEF ReconcileFound, ReconcileCommit, OrphanInv
    <2>2. \A s2 \in Subs \ {s} : row'[s2] = row[s2]
        BY <1>2 DEF ReconcileFound, ReconcileCommit, TypeInv, TypeOK
    <2>3. row'[s].status \in {row[s].status, "RUNNING"}
        BY <1>2 DEF ReconcileFound, ReconcileCommit, TypeInv, TypeOK, Row
    <2> QED
        BY <2>1, <2>2, <2>3 DEF HasRow
<1> QED
    BY <1>1, <1>2
       DEF Reconcile, ReconcileMissing, ReconcileCreate, ReconcileFails,
           ReconcileScan, ReconcileDies, ContainerVanishes, vars

\* Every step keeps the invariant.
LEMMA PipeNext ==
    ASSUME OneAtATime, "download-image" \notin Ops, TypeInv, OrphanInv, PipeInv, [Next]_vars
    PROVE  PipeInv'
<1>1. ASSUME NEW s \in Subs, RequestVPS(s) PROVE PipeInv'
    <2>1. status[s] = "NONE" /\ UNCHANGED <<row, task, req>>
        BY <1>1 DEF RequestVPS
    <2>2. \A s2 \in Subs : status'[s2] = IF s2 = s THEN "PENDING" ELSE status[s2]
        BY <1>1 DEF RequestVPS, TypeInv, TypeOK
    <2>3. \A t \in Tasks : task[t].sub # s
        BY <2>1 DEF PipeInv, Alone, Early
    <2>4. Alone'
        BY <2>1, <2>2, <2>3 DEF PipeInv, Alone, Early, HasRow
    <2>5. ASSUME NEW r \in Requests
          PROVE  req'[r].pc = "idle" \/ Approves(req[r])' \/ Acts(req[r])'
        <3>1. CASE req[r].pc # "idle" /\ Approves(req[r])
            <4>1. req[r].sub \in Subs \ {s}
                BY <2>1, <3>1 DEF Approves, Early, TypeInv, Placed
            <4> QED
                BY <2>1, <2>2, <3>1, <4>1 DEF Approves, HasRow
        <3>2. CASE Acts(req[r])
            BY <2>1, <3>2 DEF Acts, HasRow
        <3> QED
            BY <2>1, <3>1, <3>2 DEF PipeInv
    <2> QED
        BY <2>4, <2>5 DEF PipeInv
<1>2. CASE \/ \E s \in Subs : Reconcile(s) \/ ContainerVanishes(s)
           \/ ReconcileScan \/ ReconcileDies \/ UNCHANGED vars
    <2>1. UNCHANGED <<status, task, req>>
        BY <1>2 DEF Reconcile, ReconcileFound, ReconcileMissing, ReconcileCreate,
                    ReconcileCommit, ReconcileFails, ReconcileScan, ReconcileDies,
                    ContainerVanishes, vars
    <2>2. \A s \in Subs : HasRow(s)' <=> HasRow(s)
        BY <1>2, RepairKeepsRows
    <2>3. Alone'
        BY <2>1, <2>2, AloneFrame DEF PipeInv
    <2>4. \A t \in Tasks : task'[t].sub \in Subs \cup {NoSub}
        BY <2>1 DEF TypeInv, TypeOK, Task
    <2>5. \A r \in Requests : (req[r].pc = "idle" \/ Approves(req[r]) \/ Acts(req[r]))'
        BY <2>1, <2>2, <2>4, PipeRequests
    <2> QED
        BY <2>3, <2>5 DEF PipeInv
<1>3. ASSUME NEW r \in Requests, RequestDies(r) PROVE PipeInv'
    <2>1. Finish(r) /\ UNCHANGED <<status, row, task>>
        BY <1>3 DEF RequestDies
    <2>2. Alone'
        BY <2>1 DEF PipeInv, Alone, HasRow
    <2> QED
        BY <2>1, <2>2, PipeFinish
<1> QED
    BY <1>1, <1>2, <1>3, PipeServe, PipeContinue, PipeWork DEF Next

\* The data directory of a container that the database knows goes only with a
\* termination, through failures, retries, losses and repairs, as long as
\* requests come one at a time and nobody asks for download-image.
THEOREM DataAlwaysPreserved ==
    ASSUME OneAtATime, "download-image" \notin Ops
    PROVE  Spec => DataPreserved
<1> DEFINE Preserved == \A s \in Subs : HasRow(s) /\ s \in volume /\ s \notin volume' =>
                                           Terminating(s)
<1>1. Init => OrphanInv
    BY IdleTypes DEF Init, OrphanInv, Kinds, OneCreated, Held, Stray, NoContainer, IdleRecon
<1>2. Init => PipeInv
    BY IdleTypes, LifecycleAssumption DEF Init, PipeInv, Alone, HasRow, NoRow
<1>3. TypeInv /\ OrphanInv /\ PipeInv /\ [Next]_vars => PipeInv'
    BY PipeNext
<1>4. TypeInv /\ PipeInv /\ [Next]_vars => [Preserved]_vars
    <2> SUFFICES ASSUME TypeInv, PipeInv, Next, NEW s \in Subs,
                        HasRow(s), s \in volume, s \notin volume'
                 PROVE  Terminating(s)
        OBVIOUS
    <2>1. ASSUME NEW t \in Tasks, Work(t) PROVE s \in volume'
        <3>1. CASE (ProvisionStart(t) \/ ProvisionRetry(t)) /\ Cleanup(task[t].sub)
            <4>1. task[t].sub \in Subs
                BY <3>1 DEF ProvisionStart, ProvisionRetry, TypeInv, Placed
            <4>2. task[t].sub # s
                BY <4>1 DEF PipeInv, Alone
            <4> QED
                BY <3>1, <4>2 DEF Cleanup, RemoveVolume
        <3> QED
            BY <2>1, <3>1
               DEF Work, DownloadStart, DownloadDone, PublishProvision, DownloadFails,
                   ProvisionRefused, ProvisionStart, ProvisionCreate, ProvisionCreateFails,
                   ProvisionCommit, ProvisionCommitFails, ProvisionRetry, ProvisionGivesUp
    <2>2. ASSUME NEW s2 \in Subs, RequestVPS(s2) \/ Reconcile(s2) \/ ContainerVanishes(s2)
          PROVE  s \in volume'
        BY <2>2 DEF RequestVPS, Reconcile, ReconcileFound, ReconcileMissing, ReconcileCreate,
                    ReconcileCommit, ReconcileFails, ContainerVanishes
    <2>3. ASSUME NEW r \in Requests, ~DeleteCall(r),
                 Continue(r) \/ RequestDies(r) \/ \E s2 \in Subs : Serve(r, s2)
          PROVE  s \in volume'
        BY <2>3 DEF Continue, StopCall, StartCall, CallFails, ApproveCommit,
                    DownloadImageCommit, RejectCommit, SuspendCommit, ReactivateCommit,
                    CancelCommit, TerminateCommit, StartCommit, StopCommit, PublishDownload,
                    RequestDies, Serve, Load, Approve, Reject, DownloadImage, Suspend,
                    Reactivate, Cancel, Terminate, Start, Stop, Reboot
    <2>4. ASSUME NEW t \in Tasks, WorkerDies(t) PROVE s \in volume'
        BY <2>4 DEF WorkerDies
    <2>5. ReconcileScan \/ ReconcileDies => s \in volume'
        BY DEF ReconcileScan, ReconcileDies
    <2>6. \E r \in Requests : DeleteCall(r)
        <3>1. ~\E s2 \in Subs : RequestVPS(s2) \/ Reconcile(s2) \/ ContainerVanishes(s2)
            BY <2>2
        <3>2. ~\E t \in Tasks : Work(t) \/ WorkerDies(t)
            BY <2>1, <2>4
        <3>3. PICK r \in Requests : \/ Continue(r) \/ RequestDies(r)
                                    \/ \E s2 \in Subs : Serve(r, s2)
            BY <3>1, <3>2, <2>5 DEF Next
        <3> QED
            BY <3>3, <2>3
    <2> QED
        BY <2>6 DEF DeleteCall, CallFails, RemoveVolume, Terminating
<1> QED
    BY <1>1, <1>2, <1>3, <1>4, TypeInvariant, OrphanNext, PTL DEF Spec, DataPreserved

=============================================================================
