---------------------------- MODULE VPSLifecycle ----------------------------
(***************************************************************************)
(* The life of a VPS subscription: its row in vps_subscriptions, the row   *)
(* of its container in container_instances, the Docker container that      *)
(* bears the subscription's name, the API handlers that administrators and *)
(* customers call, and the Celery tasks that download the image, provision *)
(* the container and repair missing containers.                            *)
(*                                                                         *)
(* A handler loads both rows into its session, makes at most one Docker    *)
(* call and commits; between those steps every other process runs.  The    *)
(* session keeps what it loaded: at commit it writes the columns whose new *)
(* value differs from the LOADED one, whatever the table holds by then.    *)
(***************************************************************************)
EXTENDS Naturals

CONSTANTS
    Subs,        \* subscriptions
    Requests,    \* API requests that may be in flight at once
    Tasks,       \* Celery messages that may be queued or running at once
    Cids,        \* Docker container ids
    NoCid,       \* no container
    NoSub,       \* no subscription
    Ops,         \* the operations that requests may ask for
    MaxRetries,  \* max_retries of provision_vps_async
    Faults,      \* Docker, database and broker calls may fail
    Crashes      \* API processes and workers may die, messages may be lost

AllOps == {"approve", "reject", "download-image", "suspend", "reactivate",
           "cancel", "terminate", "start", "stop", "reboot"}

ASSUME LifecycleAssumption ==
    /\ NoCid \notin Cids
    /\ NoSub \notin Subs
    /\ Ops \subseteq AllOps
    /\ MaxRetries \in Nat
    /\ Faults \in BOOLEAN
    /\ Crashes \in BOOLEAN

VARIABLES
    status,    \* [Subs -> SubStatus]: vps_subscriptions.status
    approved,  \* the subscriptions whose approved_at is set
    row,       \* [Subs -> Row]: container_instances, unique per subscription
    docker,    \* [Subs -> Container]: the container under the derived name
    volume,    \* the subscriptions whose volume directory exists on the host
    req,       \* [Requests -> Request]: handlers in flight
    task,      \* [Tasks -> Task]: download and provision tasks
    recon,     \* [Subs -> Recon]: the running reconcile task's work list
    lost,      \* history: a message or a worker of the subscription was lost
    gaveUp     \* history: a task reported its final failure

vars == <<status, approved, row, docker, volume, req, task, recon, lost, gaveUp>>

-----------------------------------------------------------------------------
\* State.

SubStatus == {"NONE", "PENDING", "DOWNLOADING_IMAGE", "PROVISIONING",
              "ACTIVE", "SUSPENDED", "CANCELLED", "TERMINATED"}

RowStatus == {"NONE", "RUNNING", "STOPPED", "TERMINATED"}

Cid == Cids \cup {NoCid}

Row == [status : RowStatus, cid : Cid]

NoRow == [status |-> "NONE", cid |-> NoCid]

Container == [cid : Cid, up : BOOLEAN]

NoContainer == [cid |-> NoCid, up |-> FALSE]

\* What a handler in flight holds: the rows as its session loaded them.
Request == [op : AllOps \cup {"none"}, sub : Subs \cup {NoSub},
            pc : {"idle", "docker", "commit", "publish"},
            seen : SubStatus, row : Row]

IdleRequest == [op |-> "none", sub |-> NoSub, pc |-> "idle",
                seen |-> "NONE", row |-> NoRow]

\* "known" says that the provision task has read the customer and the plan,
\* without which it does not clean up after a failure.
Task == [kind : {"none", "download", "provision"}, sub : Subs \cup {NoSub},
         pc : {"idle", "queued", "pulling", "publish", "allocating",
               "created", "failed"},
         seen : SubStatus, retries : 0..MaxRetries, known : BOOLEAN, cid : Cid]

IdleTask == [kind |-> "none", sub |-> NoSub, pc |-> "idle", seen |-> "NONE",
             retries |-> 0, known |-> FALSE, cid |-> NoCid]

Queued(k, s) == [IdleTask EXCEPT !.kind = k, !.sub = s, !.pc = "queued"]

\* "cid" and "seen" are the row's id and status as the task's session has them,
\* NoCid and "NONE" when a rollback expired them.
Recon == [pc : {"idle", "listed", "missing", "created"}, cid : Cid, seen : RowStatus]

IdleRecon == [pc |-> "idle", cid |-> NoCid, seen |-> "NONE"]

Expired == [pc |-> "listed", cid |-> NoCid, seen |-> "NONE"]

HasRow(s) == row[s].status # "NONE"

\* Docker never reuses an id, so an id nobody refers to is as good as new.
Fresh(c) == /\ c # NoCid
            /\ \A s \in Subs : c \notin {docker[s].cid, row[s].cid, recon[s].cid}
            /\ \A t \in Tasks : c # task[t].cid
            /\ \A r \in Requests : c # req[r].row.cid

Init ==
    /\ status = [s \in Subs |-> "NONE"]
    /\ approved = {}
    /\ row = [s \in Subs |-> NoRow]
    /\ docker = [s \in Subs |-> NoContainer]
    /\ volume = {}
    /\ req = [r \in Requests |-> IdleRequest]
    /\ task = [t \in Tasks |-> IdleTask]
    /\ recon = [s \in Subs |-> IdleRecon]
    /\ lost = {}
    /\ gaveUp = {}

-----------------------------------------------------------------------------
(***************************************************************************)
(* API handlers.  First step: check the guard and load both rows.          *)
(***************************************************************************)
\* request_vps: the customer's quote and a PENDING subscription.
RequestVPS(s) ==
    /\ status[s] = "NONE"
    /\ status' = [status EXCEPT ![s] = "PENDING"]
    /\ UNCHANGED <<approved, row, docker, volume, req, task, recon, lost, gaveUp>>

Load(r, op, s, pc) ==
    /\ op \in Ops
    /\ req[r].pc = "idle"
    /\ status[s] # "NONE"
    /\ req' = [req EXCEPT ![r] =
                  [op |-> op, sub |-> s, pc |-> pc, seen |-> status[s],
                   row |-> IF pc = "docker" THEN row[s]
                           ELSE [row[s] EXCEPT !.cid = NoCid]]]
    /\ UNCHANGED <<status, approved, row, docker, volume, task, recon, lost, gaveUp>>

\* Mutant: whatever has been decided about the request before.
ApproveAny(r, s) == Load(r, "approve", s, "commit")

Approve(r, s) == status[s] = "PENDING" /\ Load(r, "approve", s, "commit")

Reject(r, s) == status[s] = "PENDING" /\ Load(r, "reject", s, "commit")

DownloadImage(r, s) == Load(r, "download-image", s, "commit")

Suspend(r, s) ==
    Load(r, "suspend", s, IF row[s].status = "RUNNING" THEN "docker" ELSE "commit")

Reactivate(r, s) ==
    /\ status[s] = "SUSPENDED"
    /\ Load(r, "reactivate", s, IF HasRow(s) THEN "docker" ELSE "commit")

Cancel(r, s) == Load(r, "cancel", s, "commit")

Terminate(r, s) ==
    Load(r, "terminate", s, IF HasRow(s) THEN "docker" ELSE "commit")

Start(r, s) == HasRow(s) /\ Load(r, "start", s, "docker")

Stop(r, s) == HasRow(s) /\ Load(r, "stop", s, "docker")

Reboot(r, s) == HasRow(s) /\ Load(r, "reboot", s, "docker")

(***************************************************************************)
(* Second step: the Docker call, by the container id the session loaded.   *)
(* A failed call returns False: start, stop and reboot answer 400, while   *)
(* suspend, reactivate and terminate go on to commit.                      *)
(***************************************************************************)
Found(r) == docker[req[r].sub].cid = req[r].row.cid

\* From here on the handler no longer uses the container id.
Onward(q, pc) == [q EXCEPT !.pc = pc, !.row = [status |-> q.row.status, cid |-> NoCid]]

Advance(r, pc) == req' = [req EXCEPT ![r] = Onward(req[r], pc)]

Finish(r) == req' = [req EXCEPT ![r] = IdleRequest]

CallFails(r) == /\ ~Found(r) \/ Faults
                /\ UNCHANGED <<docker, volume>>
                /\ IF req[r].op \in {"start", "stop", "reboot"}
                   THEN Finish(r) ELSE Advance(r, "commit")

StopCall(r) ==
    /\ req[r].pc = "docker"
    /\ req[r].op \in {"suspend", "stop"}
    /\ \/ /\ Found(r)
          /\ docker' = [docker EXCEPT ![req[r].sub].up = FALSE]
          /\ Advance(r, "commit")
          /\ UNCHANGED volume
       \/ CallFails(r)
    /\ UNCHANGED <<status, approved, row, task, recon, lost, gaveUp>>

StartCall(r) ==
    /\ req[r].pc = "docker"
    /\ req[r].op \in {"reactivate", "start", "reboot"}
    /\ \/ /\ Found(r)
          /\ docker' = [docker EXCEPT ![req[r].sub].up = TRUE]
          /\ Advance(r, "commit")
          /\ UNCHANGED volume
       \/ CallFails(r)
    /\ UNCHANGED <<status, approved, row, task, recon, lost, gaveUp>>

\* shutil.rmtree(..., ignore_errors=True)
RemoveVolume(s) == volume' = volume \ {s} \/ (Faults /\ UNCHANGED volume)

\* Stop, remove, then the volume; a container that stops and cannot be removed
\* is a failed call too.
DeleteCall(r) ==
    /\ req[r].pc = "docker"
    /\ req[r].op = "terminate"
    /\ \/ /\ Found(r)
          /\ docker' = [docker EXCEPT ![req[r].sub] = NoContainer]
          /\ RemoveVolume(req[r].sub)
          /\ Advance(r, "commit")
       \/ /\ Found(r) /\ Faults
          /\ docker' = [docker EXCEPT ![req[r].sub].up = FALSE]
          /\ UNCHANGED volume
          /\ Advance(r, "commit")
       \/ CallFails(r)
    /\ UNCHANGED <<status, approved, row, task, recon, lost, gaveUp>>

(***************************************************************************)
(* Third step: the commit.  A column is written when its new value is not  *)
(* the one loaded, so a change committed in between is overwritten, or     *)
(* left in place when the handler believed there was nothing to change.    *)
(***************************************************************************)
WriteStatus(r, new) ==
    status' = IF req[r].seen = new THEN status
              ELSE [status EXCEPT ![req[r].sub] = new]

WriteRow(r, new) ==
    row' = IF req[r].row.status \in {"NONE", new} THEN row
           ELSE [row EXCEPT ![req[r].sub].status = new]

Committing(r, op) == req[r].pc = "commit" /\ req[r].op = op

\* Only the publication is left: what the session loaded is not used again.
Owing(q) == [IdleRequest EXCEPT !.op = q.op, !.sub = q.sub, !.pc = "publish"]

ToPublish(r) == req' = [req EXCEPT ![r] = Owing(req[r])]

\* Mutant: the download task is never published.
ApproveCommitUnpublished(r) ==
    /\ Committing(r, "approve")
    /\ WriteStatus(r, "DOWNLOADING_IMAGE")
    /\ approved' = approved \cup {req[r].sub}
    /\ Finish(r)
    /\ UNCHANGED <<row, docker, volume, task, recon, lost, gaveUp>>

\* Mutant: the approval is not recorded.
ApproveCommitUnrecorded(r) ==
    /\ Committing(r, "approve")
    /\ WriteStatus(r, "DOWNLOADING_IMAGE")
    /\ ToPublish(r)
    /\ UNCHANGED <<approved, row, docker, volume, task, recon, lost, gaveUp>>

\* approve_vps_request commits, then publishes the download task.
ApproveCommit(r) ==
    /\ Committing(r, "approve")
    /\ WriteStatus(r, "DOWNLOADING_IMAGE")
    /\ approved' = approved \cup {req[r].sub}
    /\ ToPublish(r)
    /\ UNCHANGED <<row, docker, volume, task, recon, lost, gaveUp>>

DownloadImageCommit(r) ==
    /\ Committing(r, "download-image")
    /\ WriteStatus(r, "DOWNLOADING_IMAGE")
    /\ ToPublish(r)
    /\ UNCHANGED <<approved, row, docker, volume, task, recon, lost, gaveUp>>

RejectCommit(r) ==
    /\ Committing(r, "reject")
    /\ WriteStatus(r, "CANCELLED")
    /\ Finish(r)
    /\ UNCHANGED <<approved, row, docker, volume, task, recon, lost, gaveUp>>

\* The container row is marked only when it was loaded as RUNNING.
SuspendCommit(r) ==
    /\ Committing(r, "suspend")
    /\ WriteStatus(r, "SUSPENDED")
    /\ IF req[r].row.status = "RUNNING" THEN WriteRow(r, "STOPPED")
       ELSE UNCHANGED row
    /\ Finish(r)
    /\ UNCHANGED <<approved, docker, volume, task, recon, lost, gaveUp>>

ReactivateCommit(r) ==
    /\ Committing(r, "reactivate")
    /\ WriteStatus(r, "ACTIVE")
    /\ WriteRow(r, "RUNNING")
    /\ Finish(r)
    /\ UNCHANGED <<approved, docker, volume, task, recon, lost, gaveUp>>

CancelCommit(r) ==
    /\ Committing(r, "cancel")
    /\ WriteStatus(r, "CANCELLED")
    /\ Finish(r)
    /\ UNCHANGED <<approved, row, docker, volume, task, recon, lost, gaveUp>>

TerminateCommit(r) ==
    /\ Committing(r, "terminate")
    /\ WriteStatus(r, "TERMINATED")
    /\ WriteRow(r, "TERMINATED")
    /\ Finish(r)
    /\ UNCHANGED <<approved, docker, volume, task, recon, lost, gaveUp>>

\* start and reboot commit only after Docker answered.
StartCommit(r) ==
    /\ Committing(r, "start") \/ Committing(r, "reboot")
    /\ WriteRow(r, "RUNNING")
    /\ Finish(r)
    /\ UNCHANGED <<status, approved, docker, volume, task, recon, lost, gaveUp>>

StopCommit(r) ==
    /\ Committing(r, "stop")
    /\ WriteRow(r, "STOPPED")
    /\ Finish(r)
    /\ UNCHANGED <<status, approved, docker, volume, task, recon, lost, gaveUp>>

\* The .delay(...) that follows the commit of approve and download-image.
PublishDownload(r, t) ==
    /\ req[r].pc = "publish"
    /\ task[t].pc = "idle"
    /\ task' = [task EXCEPT ![t] = Queued("download", req[r].sub)]
    /\ Finish(r)
    /\ UNCHANGED <<status, approved, row, docker, volume, recon, lost, gaveUp>>

\* The process dies, or the broker refuses the message after the commit.
RequestDies(r) ==
    /\ Crashes
    /\ req[r].pc # "idle"
    /\ lost' = IF req[r].pc = "publish" THEN lost \cup {req[r].sub} ELSE lost
    /\ Finish(r)
    /\ UNCHANGED <<status, approved, row, docker, volume, task, recon, gaveUp>>

-----------------------------------------------------------------------------
(***************************************************************************)
(* download_vps_image_async.  It checks no status: it loads the row, pulls *)
(* the image and makes the subscription PROVISIONING, unless that is what  *)
(* it loaded; a failure makes it PENDING, in a session of its own.         *)
(***************************************************************************)
DownloadStart(t) ==
    /\ task[t].kind = "download"
    /\ task[t].pc = "queued"
    /\ task' = [task EXCEPT ![t].pc = "pulling", ![t].seen = status[task[t].sub]]
    /\ UNCHANGED <<status, approved, row, docker, volume, req, recon, lost, gaveUp>>

\* Mutant: the task ends without publishing the provision task.
DownloadDoneSilently(t) ==
    /\ task[t].pc = "pulling"
    /\ status' = IF task[t].seen = "PROVISIONING" THEN status
                 ELSE [status EXCEPT ![task[t].sub] = "PROVISIONING"]
    /\ task' = [task EXCEPT ![t] = IdleTask]
    /\ UNCHANGED <<approved, row, docker, volume, req, recon, lost, gaveUp>>

DownloadDone(t) ==
    /\ task[t].pc = "pulling"
    /\ status' = IF task[t].seen = "PROVISIONING" THEN status
                 ELSE [status EXCEPT ![task[t].sub] = "PROVISIONING"]
    /\ task' = [task EXCEPT ![t].pc = "publish", ![t].seen = "NONE"]
    /\ UNCHANGED <<approved, row, docker, volume, req, recon, lost, gaveUp>>

\* The provision task takes the place of the download task that ends.
PublishProvision(t) ==
    /\ task[t].pc = "publish"
    /\ task' = [task EXCEPT ![t] = Queued("provision", task[t].sub)]
    /\ UNCHANGED <<status, approved, row, docker, volume, req, recon, lost, gaveUp>>

DownloadFails(t) ==
    /\ Faults
    /\ task[t].pc \in {"pulling", "publish"}
    /\ status' = [status EXCEPT ![task[t].sub] = "PENDING"]
    /\ task' = [task EXCEPT ![t] = IdleTask]
    /\ UNCHANGED <<approved, row, docker, volume, req, recon, lost, gaveUp>>

-----------------------------------------------------------------------------
(***************************************************************************)
(* provision_vps_async.  The guard reads PROVISIONING once, at the start.  *)
(* From the allocation of the address until the commit the task holds      *)
(* advisory transaction locks, so at most one task is "created".           *)
(***************************************************************************)
\* _cleanup_provisioning_artifacts: by name, whoever made the container.  The
\* volume goes even when the container could not be removed.
Cleanup(s) ==
    /\ \/ docker' = [docker EXCEPT ![s] = NoContainer]
       \/ Faults /\ docker' = [docker EXCEPT ![s].up = FALSE]
       \/ Faults /\ UNCHANGED docker
    /\ RemoveVolume(s)

ProvisionRefused(t) ==
    /\ task[t].kind = "provision"
    /\ task[t].pc = "queued"
    /\ status[task[t].sub] # "PROVISIONING"
    /\ task' = [task EXCEPT ![t].pc = "failed"]
    /\ UNCHANGED <<status, approved, row, docker, volume, req, recon, lost, gaveUp>>

ProvisionStart(t) ==
    /\ task[t].kind = "provision"
    /\ task[t].pc = "queued"
    /\ status[task[t].sub] = "PROVISIONING"
    /\ task' = [task EXCEPT ![t].pc = "allocating", ![t].known = TRUE]
    /\ IF task[t].retries > 0 THEN Cleanup(task[t].sub)
       ELSE UNCHANGED <<docker, volume>>
    /\ UNCHANGED <<status, approved, row, req, recon, lost, gaveUp>>

LockFree == \A t \in Tasks : task[t].pc # "created"

\* _create_docker_container: the volume directory, then the container.
ProvisionCreate(t) ==
    LET s == task[t].sub IN
    /\ task[t].pc = "allocating"
    /\ LockFree
    /\ docker[s].cid = NoCid
    /\ \E c \in Cids :
          /\ Fresh(c)
          /\ docker' = [docker EXCEPT ![s] = [cid |-> c, up |-> TRUE]]
          /\ task' = [task EXCEPT ![t].pc = "created", ![t].cid = c]
    /\ volume' = volume \cup {s}
    /\ UNCHANGED <<status, approved, row, req, recon, lost, gaveUp>>

\* Something fails before the locks are taken, the name is taken (409), or the
\* created container does not start.
ProvisionCreateFails(t) ==
    LET s == task[t].sub IN
    /\ task[t].pc = "allocating"
    /\ \/ /\ Faults
          /\ UNCHANGED <<docker, volume>>
       \/ /\ LockFree
          /\ docker[s].cid # NoCid \/ Faults
          /\ volume' = volume \cup {s}
          /\ UNCHANGED docker
       \/ /\ LockFree
          /\ Faults
          /\ docker[s].cid = NoCid
          /\ \E c \in Cids :
                /\ Fresh(c)
                /\ docker' = [docker EXCEPT ![s] = [cid |-> c, up |-> FALSE]]
          /\ volume' = volume \cup {s}
    /\ task' = [task EXCEPT ![t].pc = "failed"]
    /\ UNCHANGED <<status, approved, row, req, recon, lost, gaveUp>>

\* Mutant: something fails after the commit and the retry cleans up.
ProvisionCommitThenFails(t) ==
    LET s == task[t].sub IN
    /\ task[t].pc = "created"
    /\ ~HasRow(s)
    /\ row' = [row EXCEPT ![s] = [status |-> "RUNNING", cid |-> task[t].cid]]
    /\ status' = [status EXCEPT ![s] = "ACTIVE"]
    /\ task' = [task EXCEPT ![t].pc = "failed", ![t].cid = NoCid]
    /\ UNCHANGED <<approved, docker, volume, req, recon, lost, gaveUp>>

\* The insert of the container row and the ACTIVE status, in one transaction.
ProvisionCommit(t) ==
    LET s == task[t].sub IN
    /\ task[t].pc = "created"
    /\ ~HasRow(s)
    /\ row' = [row EXCEPT ![s] = [status |-> "RUNNING", cid |-> task[t].cid]]
    /\ status' = [status EXCEPT ![s] = "ACTIVE"]
    /\ task' = [task EXCEPT ![t] = IdleTask]
    /\ UNCHANGED <<approved, docker, volume, req, recon, lost, gaveUp>>

\* container_instances.subscription_id is unique: a second insert fails.
ProvisionCommitFails(t) ==
    /\ task[t].pc = "created"
    /\ HasRow(task[t].sub) \/ Faults
    /\ task' = [task EXCEPT ![t].pc = "failed", ![t].cid = NoCid]
    /\ UNCHANGED <<status, approved, row, docker, volume, req, recon, lost, gaveUp>>

\* Mutant: one retry too many.
ProvisionRetryOnceMore(t) ==
    /\ task[t].pc = "failed"
    /\ task[t].retries <= MaxRetries
    /\ IF task[t].known THEN Cleanup(task[t].sub) ELSE UNCHANGED <<docker, volume>>
    /\ task' = [task EXCEPT ![t] = [Queued("provision", task[t].sub)
                                     EXCEPT !.retries = task[t].retries + 1]]
    /\ UNCHANGED <<status, approved, row, req, recon, lost, gaveUp>>

\* Mutant: a new message instead of a retry, so the count starts again.
ProvisionRetryAfresh(t) ==
    /\ task[t].pc = "failed"
    /\ task[t].retries < MaxRetries
    /\ IF task[t].known THEN Cleanup(task[t].sub) ELSE UNCHANGED <<docker, volume>>
    /\ task' = [task EXCEPT ![t] = Queued("provision", task[t].sub)]
    /\ UNCHANGED <<status, approved, row, req, recon, lost, gaveUp>>

ProvisionRetry(t) ==
    /\ task[t].pc = "failed"
    /\ task[t].retries < MaxRetries
    /\ IF task[t].known THEN Cleanup(task[t].sub) ELSE UNCHANGED <<docker, volume>>
    /\ task' = [task EXCEPT ![t] = [Queued("provision", task[t].sub)
                                     EXCEPT !.retries = task[t].retries + 1]]
    /\ UNCHANGED <<status, approved, row, req, recon, lost, gaveUp>>

\* Mutant: the last failure is not reported.
ProvisionGivesUpSilently(t) ==
    /\ task[t].pc = "failed"
    /\ task[t].retries = MaxRetries
    /\ task' = [task EXCEPT ![t] = IdleTask]
    /\ UNCHANGED <<status, approved, row, docker, volume, req, recon, lost, gaveUp>>

\* The last failure mails the administrator and leaves everything as it is.
ProvisionGivesUp(t) ==
    /\ task[t].pc = "failed"
    /\ task[t].retries = MaxRetries
    /\ gaveUp' = gaveUp \cup {task[t].sub}
    /\ task' = [task EXCEPT ![t] = IdleTask]
    /\ UNCHANGED <<status, approved, row, docker, volume, req, recon, lost>>

\* Messages are acknowledged when a worker takes them, so a task that dies
\* with its worker (or at its time limit) is gone.
WorkerDies(t) ==
    /\ Crashes
    /\ task[t].pc # "idle"
    /\ lost' = lost \cup {task[t].sub}
    /\ task' = [task EXCEPT ![t] = IdleTask]
    /\ UNCHANGED <<status, approved, row, docker, volume, req, recon, gaveUp>>

-----------------------------------------------------------------------------
(***************************************************************************)
(* reconcile_missing_vps_containers, every five minutes.  It lists the     *)
(* RUNNING rows once and then handles them one by one, without looking at  *)
(* the subscription's status.                                              *)
(***************************************************************************)
ReconIdle == \A s \in Subs : recon[s].pc = "idle"

Turn(s) == \A s2 \in Subs \ {s} : recon[s2].pc \in {"idle", "listed"}

ReconcileScan ==
    /\ ReconIdle
    /\ \E s \in Subs : row[s].status = "RUNNING"
    /\ recon' = [s \in Subs |-> IF row[s].status = "RUNNING"
                                THEN [pc |-> "listed", cid |-> row[s].cid,
                                      seen |-> "RUNNING"]
                                ELSE IdleRecon]
    /\ UNCHANGED <<status, approved, row, docker, volume, req, task, lost, gaveUp>>

\* Mutant: a container found by its name alone is left as it is.
ReconcileFoundKeeps(s) ==
    /\ recon[s].pc = "listed"
    /\ Turn(s)
    /\ docker[s].cid # NoCid
    /\ recon' = [recon EXCEPT ![s] = IdleRecon]
    /\ UNCHANGED <<status, approved, row, docker, volume, req, task, lost, gaveUp>>

\* Found by id or by name: the row adopts the id of the container found.
ReconcileFound(s) ==
    /\ recon[s].pc = "listed"
    /\ Turn(s)
    /\ docker[s].cid # NoCid
    /\ row' = IF docker[s].cid = recon[s].cid THEN row
              ELSE [row EXCEPT ![s].cid = docker[s].cid]
    /\ recon' = [recon EXCEPT ![s] = IdleRecon]
    /\ UNCHANGED <<status, approved, docker, volume, req, task, lost, gaveUp>>

\* Mutant: a missing container is noticed and left missing.
ReconcileMissingSkips(s) ==
    /\ recon[s].pc = "listed"
    /\ Turn(s)
    /\ docker[s].cid = NoCid
    /\ recon' = [recon EXCEPT ![s] = IdleRecon]
    /\ UNCHANGED <<status, approved, row, docker, volume, req, task, lost, gaveUp>>

ReconcileMissing(s) ==
    /\ recon[s].pc = "listed"
    /\ Turn(s)
    /\ docker[s].cid = NoCid
    /\ volume' = volume \cup {s}
    /\ recon' = [recon EXCEPT ![s] =
                    [pc |-> "missing", cid |-> NoCid,
                     seen |-> IF recon[s].seen = "NONE" THEN row[s].status
                              ELSE recon[s].seen]]
    /\ UNCHANGED <<status, approved, row, docker, req, task, lost, gaveUp>>

ReconcileCreate(s) ==
    /\ recon[s].pc = "missing"
    /\ docker[s].cid = NoCid
    /\ \E c \in Cids :
          /\ Fresh(c)
          /\ docker' = [docker EXCEPT ![s] = [cid |-> c, up |-> TRUE]]
          /\ recon' = [recon EXCEPT ![s].pc = "created", ![s].cid = c]
    /\ UNCHANGED <<status, approved, row, volume, req, task, lost, gaveUp>>

\* Mutant: the row keeps the id of the container that vanished.
ReconcileCommitNoId(s) ==
    /\ recon[s].pc = "created"
    /\ recon' = [recon EXCEPT ![s] = IdleRecon]
    /\ UNCHANGED <<status, approved, row, docker, volume, req, task, lost, gaveUp>>

\* A status that was loaded as RUNNING stays out of the UPDATE.
ReconcileCommit(s) ==
    /\ recon[s].pc = "created"
    /\ row' = [row EXCEPT ![s] =
                  [status |-> IF recon[s].seen = "RUNNING" THEN row[s].status
                              ELSE "RUNNING",
                   cid |-> recon[s].cid]]
    /\ recon' = [recon EXCEPT ![s] = IdleRecon]
    /\ UNCHANGED <<status, approved, docker, volume, req, task, lost, gaveUp>>

\* The name is taken, or Docker or the database fails: the subscription goes
\* on the "failed" list of the task's result; a container that was created
\* stays, running or not.  The rollback expires every row of the session.
ReconcileFails(s) ==
    /\ recon[s].pc # "idle"
    /\ Turn(s)
    /\ \/ /\ Faults \/ (recon[s].pc = "missing" /\ docker[s].cid # NoCid)
          /\ UNCHANGED docker
       \/ /\ Faults
          /\ recon[s].pc = "created"
          /\ docker[s].cid = recon[s].cid
          /\ docker' = [docker EXCEPT ![s].up = FALSE]
    /\ gaveUp' = gaveUp \cup {s}
    /\ recon' = [s2 \in Subs |-> IF s2 = s \/ recon[s2].pc = "idle" THEN IdleRecon
                                 ELSE Expired]
    /\ UNCHANGED <<status, approved, row, volume, req, task, lost>>

ReconcileDies ==
    /\ Crashes
    /\ ~ReconIdle
    /\ lost' = lost \cup {s \in Subs : recon[s].pc = "created"}
    /\ recon' = [s \in Subs |-> IdleRecon]
    /\ UNCHANGED <<status, approved, row, docker, volume, req, task, gaveUp>>

\* Outside the program: a container disappears or stops on the host.
ContainerVanishes(s) ==
    /\ Faults
    /\ docker[s].cid # NoCid
    /\ docker' = [docker EXCEPT ![s] = NoContainer]
    /\ UNCHANGED <<status, approved, row, volume, req, task, recon, lost, gaveUp>>

-----------------------------------------------------------------------------
Serve(r, s) ==
    \/ Approve(r, s) \/ Reject(r, s) \/ DownloadImage(r, s) \/ Suspend(r, s)
    \/ Reactivate(r, s) \/ Cancel(r, s) \/ Terminate(r, s)
    \/ Start(r, s) \/ Stop(r, s) \/ Reboot(r, s)

Continue(r) ==
    \/ StopCall(r) \/ StartCall(r) \/ DeleteCall(r)
    \/ ApproveCommit(r) \/ DownloadImageCommit(r) \/ RejectCommit(r)
    \/ SuspendCommit(r) \/ ReactivateCommit(r) \/ CancelCommit(r)
    \/ TerminateCommit(r) \/ StartCommit(r) \/ StopCommit(r)
    \/ \E t \in Tasks : PublishDownload(r, t)

Work(t) ==
    \/ DownloadStart(t) \/ DownloadDone(t) \/ PublishProvision(t) \/ DownloadFails(t)
    \/ ProvisionRefused(t) \/ ProvisionStart(t) \/ ProvisionCreate(t)
    \/ ProvisionCreateFails(t) \/ ProvisionCommit(t) \/ ProvisionCommitFails(t)
    \/ ProvisionRetry(t) \/ ProvisionGivesUp(t)

Reconcile(s) ==
    \/ ReconcileFound(s) \/ ReconcileMissing(s) \/ ReconcileCreate(s)
    \/ ReconcileCommit(s) \/ ReconcileFails(s)

Next ==
    \/ \E s \in Subs : RequestVPS(s) \/ Reconcile(s) \/ ContainerVanishes(s)
    \/ \E r \in Requests : \/ Continue(r) \/ RequestDies(r)
                           \/ \E s \in Subs : Serve(r, s)
    \/ \E t \in Tasks : Work(t) \/ WorkerDies(t)
    \/ ReconcileScan
    \/ ReconcileDies

Spec == Init /\ [][Next]_vars

\* A handler runs to its end, a worker takes every queued message and brings
\* it to a result (time limits end the rest), and beat starts the reconcile
\* task again and again. Any of its runs may fail or die at any point, but what
\* infinitely many of them try comes through in the end. Nothing obliges a client
\* to ask for anything.
FairSpec ==
    /\ Spec
    /\ \A r \in Requests : WF_vars(Continue(r))
    /\ \A t \in Tasks : WF_vars(Work(t))
    /\ WF_vars(ReconcileScan)
    /\ \A s \in Subs : /\ WF_vars(Reconcile(s))
                       /\ SF_vars(ReconcileFound(s))
                       /\ SF_vars(ReconcileMissing(s))
                       /\ SF_vars(ReconcileCreate(s))

-----------------------------------------------------------------------------
\* Properties.

\* Every variable has its type.
TypeOK ==
    /\ status \in [Subs -> SubStatus]
    /\ approved \subseteq Subs
    /\ row \in [Subs -> Row]
    /\ docker \in [Subs -> Container]
    /\ volume \subseteq Subs
    /\ req \in [Requests -> Request]
    /\ task \in [Tasks -> Task]
    /\ recon \in [Subs -> Recon]
    /\ lost \subseteq Subs
    /\ gaveUp \subseteq Subs

\* Somebody still has to finish the download of subscription s.
DownloadPending(s) ==
    \/ \E r \in Requests : req[r].sub = s /\ req[r].pc = "publish"
    \/ \E t \in Tasks : /\ task[t].kind = "download"
                        /\ task[t].sub = s
                        /\ task[t].pc \in {"queued", "pulling"}

\* Somebody still has to finish the provisioning of subscription s.
ProvisionPending(s) ==
    \E t \in Tasks : /\ task[t].sub = s
                     /\ task[t].kind = "provision" \/ task[t].pc = "publish"

\* A subscription waits in DOWNLOADING_IMAGE only while a download for it is
\* owed, queued or running, unless a message or a worker was lost: no order of
\* approvals, downloads, retries and admin actions strands it.
DownloadOwed ==
    \A s \in Subs : status[s] = "DOWNLOADING_IMAGE" => s \in lost \/ DownloadPending(s)

\* The same of PROVISIONING, where the last retry may also have given up.
ProvisionOwed ==
    \A s \in Subs : status[s] = "PROVISIONING" =>
                        s \in lost \cup gaveUp \/ ProvisionPending(s)

\* A Docker container that the database does not know belongs to a task that
\* is still at work, or its failure was reported, or its worker was lost.
OrphanAccounted ==
    \A s \in Subs : docker[s].cid \notin {NoCid, row[s].cid} =>
                        \/ s \in lost \cup gaveUp
                        \/ ProvisionPending(s)
                        \/ recon[s].pc = "created"

\* Without the administrator's download-image, only an approved subscription
\* ever gets a container, whatever races with the approval.
ContainerOnlyAfterApproval == \A s \in Subs : HasRow(s) => s \in approved

Terminating(s) == \E r \in Requests : /\ req[r].op = "terminate"
                                      /\ req[r].sub = s
                                      /\ req[r].pc = "docker"

\* The data directory of a container the database knows is removed only by a
\* termination, never by the cleanup of a failed provisioning.
DataPreserved ==
    [][\A s \in Subs : HasRow(s) /\ s \in volume /\ s \notin volume' => Terminating(s)]_vars

\* A suspension keeps the data: routes/admin.py says "Container data is preserved
\* when suspended". A second provisioning, which the administrator's
\* download-image starts, fails on the name that is taken and cleans up by name.
SuspendedKeepsData ==
    [][\A s \in Subs : /\ status[s] = "SUSPENDED"
                      /\ HasRow(s)
                      /\ s \in volume /\ s \notin volume' => Terminating(s)]_vars

\* A terminated subscription stays TERMINATED: routes/admin.py says of the
\* termination "cannot be undone".  The download task and every handler that
\* loaded an earlier status write over it.
TerminationIsFinal ==
    [][\A s \in Subs : status[s] = "TERMINATED" => status'[s] = "TERMINATED"]_vars

\* Somebody works for the request, or is about to.
Working(s) ==
    \/ \E r \in Requests : req[r].pc = "publish" /\ req[r].sub = s
    \/ \E t \in Tasks : task[t].sub = s

Resting(st) == CASE st = "NONE"    -> "none"
                 [] st = "PENDING" -> "waiting"
                 [] OTHER          -> "over"

PhaseOf(s) == CASE HasRow(s)                -> "installed"
                [] Working(s) /\ ~HasRow(s) -> "job"
                [] OTHER                    -> Resting(status[s])

Tried(s, n) == \E t \in Tasks : task[t].sub = s /\ task[t].retries = n

TriesOf(s) == IF \E n \in 0..MaxRetries : Tried(s, n)
              THEN CHOOSE n \in 0..MaxRetries : Tried(s, n) ELSE 0

Contract == INSTANCE ProvisioningContract WITH
    phase <- [s \in Subs |-> PhaseOf(s)],
    tries <- [s \in Subs |-> TriesOf(s)],
    told <- lost \cup gaveUp

\* When requests come one at a time and nobody asks for download-image, the
\* handlers, the two tasks and the repair keep the contract: one job for each
\* approval, its retries bounded, no container lost from the database, no
\* approved request dropped without a word, for all failures, losses and
\* interleavings with the tasks. It does not say that a termination is final: a
\* subscription with a job under way is at "job" whatever its status, and the job
\* may write PROVISIONING over TERMINATED (see TerminationIsFinal).
ImplementsContract == Contract!Spec

\* The pipeline comes to a result: an approved subscription that waits for its
\* image or its container becomes ACTIVE, is back at PENDING for another attempt,
\* or its failure was reported, unless its message or its worker was lost.
PipelineEnds ==
    \A s \in Subs :
        status[s] \in {"DOWNLOADING_IMAGE", "PROVISIONING"} ~>
            status[s] \in {"ACTIVE", "PENDING", "TERMINATED"} \/ s \in gaveUp \cup lost

\* A container that is missing under a RUNNING row is created again, or the row
\* ceases to say RUNNING, although every single run may fail or die half-way and
\* leave the rest of its list undone.
MissingRepaired ==
    \A s \in Subs :
        row[s].status = "RUNNING" /\ docker[s].cid = NoCid ~>
            docker[s].cid # NoCid \/ row[s].status # "RUNNING"

\* A container that a run created and could not record, because it failed or
\* died before its commit, is found by its name in a later one: when a row stays
\* RUNNING and its container is there to stay, the row ends up with its id.
CreatedAdopted ==
    \A s \in Subs :
        <>[](row[s].status = "RUNNING" /\ docker[s].cid # NoCid) =>
            <>[](row[s].cid = docker[s].cid)

=============================================================================
