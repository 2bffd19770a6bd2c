# Verification of manil

manil is a FastAPI back end with Celery workers, a PostgreSQL database, a Docker
host and a React front end. It sells hosting: customers ask for virtual servers
(containers), administrators approve them, workers provision them, invoices are
issued and paid, and a payment lifts a suspension. This directory holds TLA+
models of the parts of the back end where processes overlap and of the front end's
data flow, session and terminal, the TLC runs that check them on small instances,
and TLAPS proofs for every size.

    tlc -workers 2 -config lifecycle_serial.cfg MCVPSLifecycle
    tlc -workers 2 -config screens.cfg MCScreens
    tlapm QueryCacheProofs.tla

Paths of Python files below are relative to `src/backend/app/`, with `hosting/`,
`invoices/` etc. under `modules/`; paths of TypeScript files are relative to
`src/frontend/src/`.

## 1. The system

Every request gets its own database session (`config/database.py:get_db`). The
sessions have three traits that decide what overlapping requests do, and all
modules model them:

* rows are loaded once and kept (`expire_on_commit=False`, default isolation READ
  COMMITTED, no `SELECT ... FOR UPDATE` anywhere in the modelled parts);
* an UPDATE names only the columns whose new value differs from the LOADED one, so
  a change committed in between is overwritten by a column that was changed and
  kept by one that was not;
* a session that ends without a commit rolls back; an UPDATE holds the row's lock
  until then.

Celery acknowledges a message when a worker takes it (`task_acks_late` is not
set), so a task whose worker dies or reaches `task_time_limit` is gone.

### Components

| Component | State | Operations | What is hard | What makes it correct | Module |
|---|---|---|---|---|---|
| VPS lifecycle and provisioning (`hosting/services/provisioning_service.py`, `hosting/tasks.py`, routes) | `vps_subscriptions`, `container_instances`, containers and volumes on the host, Celery messages | request, approve, reject, download-image, suspend, reactivate, cancel, terminate, start, stop, reboot; download, provision, reconcile tasks | handlers load, call Docker, then write; tasks retry and clean up by name; publication after commit | a waiting subscription has somebody working on it; no container without approval; no container forgotten; data removed only by termination | `VPSLifecycle`, `ProvisioningContract` |
| Address allocation (`hosting/tasks.py:727-781`) | addresses in the rows, ports bound on the host | three allocators | maximum of the rows under advisory locks; bound long before it is recorded | no two rows with one port; an allocated port stays new | `AddressAllocation`, `AddressRegister` |
| Invoices and payments (`invoices/`) | `invoices`, `vps_subscriptions.total_paid` | create, issue, send, pay, cancel, edit, delete, update-overdue | overlapping handlers, a webhook and notifications inside the transaction, unanswered requests | paid never above the total, PAID means paid in full, credited once | `Invoices`, `InvoiceLedger` |
| Subscription billing (`hosting/services/billing_service.py`) | the same tables | process_payment_webhook, recurring / initial / pro-rated invoices | called from inside the payment | the suspension is lifted | webhook in `Invoices` |
| Docker management (`hosting/services/docker_service.py`) | the host | start, stop, restart, delete | failures are returned as False | callers notice | calls in `VPSLifecycle` |
| Quotes (`quotes/`) | `quotes`, versions | submit, approve, send, accept, decline, new version, expire, convert to invoice | batch expiry on a stale list; conversion commits twice | one latest version, converted once | planned |
| Orders (`orders/`) | `orders` | transition table | check on a loaded status | only legal transitions | planned |
| Support tickets (`tickets/`) | `tickets`, replies | change status, reply, assign, transfer, close; daily sweep | sweep against replies | only legal transitions; an answered ticket is not closed | planned |
| Authentication, registration (`auth/`) | `registration_requests`, users | register, verify, approve, activate, cancel | three independent flags | no activation after a cancellation | planned |
| Image builds (`hosting/services/image_build_service.py`) | `custom_docker_images` | upload, validate, build, scan | every step commits; workers die | a build comes to an end | planned |
| DNS (`hosting/services/dns_management_service.py`, `coredns_config_service.py`) | zones, records, serial, files | record and zone operations, sync | check before insert; record and serial committed apart | CNAME alone; every change has a new serial | planned |
| Service domains and nginx (`service_domain_service.py`, `nginx_*`) | `vps_service_domains`, config files | create, delete, fix | files and rows | a domain leads to its container | planned after DNS |
| SMS gateway (`sms/router.py`, `infrastructure/sms`, `src/sms`) | `sms_messages`, the device | poll, report | at-least-once delivery, late reports | a message is not sent twice, SENT stays | planned |
| Products, customers, users, settings | rows | CRUD | single guarded writes | - | not modelled |
| Revenue, reports, audit, monitoring, backups | rows, archives | read, sample, archive | no protocol | - | not modelled |
| Cache, storage, e-mail, notifications, configuration | - | library wrappers | their failures matter to callers | modelled at the callers | not modelled |
| Front end: services, hooks, pages, routes (`modules/*/{services,hooks,components,pages}`, `shared/api`, `layouts`, `app/routes.tsx`) | the page the user is on | queries, mutations, navigation | 200 pages name the keys they make stale by hand; answers come after the user has left | a page shows what the user's own operation did | `Services`, `Hooks`, `Components`, `AdminPages`, `Pages`, `Screens` |
| Front end: query cache (`app/providers.tsx`, the library behind it) | one entry per key: data, validity, a fetch in flight | mount, fetch, poll, invalidate, refetch, store, forget | a fetch that is overtaken, a poll that fails, an answer that is lost | no fresh entry is older than the user's last operation; a polled one catches up | `QueryCache`, `DataFlow` |
| Front end: session (`shared/api/client.ts`, `shared/store/authStore.ts`, `modules/auth/hooks/useAuth.ts`) | two web storages, a persisted store, the queue behind a refresh | sign in and out, 401, refresh, reload | requests meet a 401 at once; a refresh overlaps a sign-out | one refresh, nobody waits for ever, requests act as the user shown | `Session` |
| Front end: terminal (`modules/hosting/services/terminalSocketManager.ts`, `components/VPSTerminal.tsx`) | sockets, reference counts, grace timers; the component's flags | mount, connect, retry, reconnect, leave | a socket outlives the component, a frame runs after it, timers of dead entries | no socket in use is closed; it connects; what it says is so | `Terminal` |
| Front end: role guards, UI kit, landing pages; deployment files | - | - | - | - | not modelled |

`PROJECT.json` lists the same components with their sources, and the hazards of
the code, each at its line with the property that covers it or the reason why
none does.

### Interactions

    customer/admin --HTTP--> routes --> services --(row writes)--> PostgreSQL
                                   \--(Docker calls)--> host <--\
                                   \--(.delay after commit)--> broker --> worker tasks
    beat --every 5 min--> reconcile --(rows, Docker)
    record_payment --same session--> process_payment_webhook --> reactivate_subscription

    page --mounts--> query --(cache entry, or a fetch)--> service --> apiClient --HTTP--> routes
    page --offers--> mutation --> service --> apiClient; onSuccess --> invalidate / refetch / store / navigate
    apiClient --401--> one refresh, the others queued --> sent again, or /login
    notification stream --> invalidate;  terminal <--WebSocket--> container

## 2. Modules

| Module | Lines of code it stands for | Role |
|---|---|---|
| `VPSLifecycle` | `provisioning_service.py:52-661`, `tasks.py:98-152, 434-724, 824-1328`, admin and client routes | the lifecycle, with workers and reconciliation |
| `MCVPSLifecycle` | - | sets of model values, operation sets, symmetry |
| `VPSLifecycleProofs` | - | theorems about `VPSLifecycle` |
| `ProvisioningContract` | - | the abstract specification: what a customer is promised about a request |
| `VPSContractProofs` | - | that `VPSLifecycle` keeps it |
| `AddressAllocation` | `tasks.py:434-469, 727-781` and what binds or frees ports | the addresses behind `VPSLifecycle`, at a finer grain |
| `AddressRegister` | - | the abstract specification: a register that only grows |
| `MCAddressAllocation`, `AddressAllocationProofs` | - | instances and theorems |
| `InvoiceLedger` | - | the abstract specification: invoices as an atomic ledger |
| `Invoices` | `invoices/service.py`, `service_workflow.py`, `repository.py`, `billing_service.py:390-440` | the invoices as the handlers treat them |
| `SumLemmas` | - | what a sum over a finite set does when one element or one summand changes |
| `MCInvoices`, `InvoicesProofs` | - | instances and theorems |
| `DataFlow` | the vocabulary of react-query and react-router, as used | requests, queries, operations, screens |
| `Services` | `shared/api`, `modules/*/services` | what each call asks of the server |
| `Hooks` | `modules/*/hooks`, `shared/hooks` | queries with their keys, mutations with what they invalidate |
| `Components`, `AdminPages`, `Pages` | `layouts`, `modules/*/components`, `modules/*/pages` | what each page mounts and offers |
| `Screens` | `app/routes.tsx` | the route table |
| `QueryCache` | `app/providers.tsx`, the client library | one query and one operation over time |
| `MCScreens`, `QueryCacheProofs` | - | every story of the route table; theorems |
| `Session`, `MCSession`, `SessionProofs` | `client.ts`, `authStore.ts`, `useAuth.ts` | who the front end acts as |
| `Terminal`, `MCTerminal`, `TerminalProofs` | `terminalSocketManager.ts`, `VPSTerminal.tsx` | the terminal's connection |

### VPSLifecycle

A handler is one value of `req`: what it was asked, where it is and what its
session loaded. It takes up to three steps: `Approve`, `Suspend`, ... check the
guard and load (both rows in one step: the second load follows the first without
a Docker call in between); `StopCall`, `StartCall`, `DeleteCall` are the Docker
call by the loaded container id; `...Commit` writes. `approve` and
`download-image` then publish (`PublishDownload`). A task is one value of `task`:
`DownloadStart/Done/Fails`, `PublishProvision`, `ProvisionStart/Create/Commit`,
with `ProvisionRefused`, `...Fails`, `ProvisionRetry` and `ProvisionGivesUp` as
its error paths. The reconciliation has one work item per listed row in `recon`,
handled one after the other (`Turn`), with the rollback of one item expiring the
others (`Expired`). `RequestDies`, `WorkerDies` and `ReconcileDies` are crashes,
`ContainerVanishes` is the host.

Decisions of the model:

* `docker[s]` is the container under the name derived from the subscription; its
  id tells a rebuilt container from the one before. Ids are drawn from a finite
  set, but only ids nobody refers to (`Fresh`), so a new id is as good as new.
* `cancel` with `immediate=True` is `terminate`, which it calls.
* The transaction-level locks of the allocators are one lock: they are taken
  together and released by the same commit (`LockFree`). `AddressAllocation`
  models what they protect.
* `lost` and `gaveUp` record that a process died or that a final failure was
  reported; they appear only in properties, never in a guard.
* One reconcile run at a time (beat starts it every five minutes; a run of more
  than five minutes that overlaps the next is left out).
* The second exception of a task, when writing the status after a failure fails
  as well, is swallowed by the code and has the effect of `WorkerDies`.
* The quote that `approve` updates, e-mails, timeline events and passwords are
  left out; the network of a container goes with the container.

`ProvisioningContract` forgets requests, messages, ids, Docker and images. A
subscription has a phase: none, waiting for approval, a job, installed, over. The
mapping reads `installed` off the container row, a `job` off the request that is about
to publish or the task of the subscription (`Working`), and the rest off the status;
`tries` are the retries of its task, `told` is `lost \cup gaveUp`. `ImplementsContract`
says that approval starts one job, that a job ends with an installation, with another
round of approval (a failed download) or with a report or a loss, that it is retried at
most `MaxRetries` times, and that no container is lost from the database. It does not say
that a termination is final. A subscription is `over` when its status is terminal and no
job is under way; while there is a job its phase is `job` whatever its status, and the job
may write PROVISIONING over a TERMINATED that was committed meanwhile (`TerminationIsFinal`
is refuted, section 5). The contract holds with one request at a time and without
download-image; two overlapping approvals make two jobs of one subscription (section 5),
which the contract does not have.

### AddressAllocation

`rows` are the addresses in `container_instances`, `host` the ports that
containers publish, `attempt` a provisioning transaction from the first advisory
lock to its commit or rollback. `NextPorts` and `NextIps` are the allocators:
`func.max` of a column plus one, where the column of the IP addresses is text
(`TextLeq` compares the decimal texts of the octets). `Recreate` is the
reconciliation: it keeps the row's address and publishes only port 22.

`AddressRegister` is the table without tasks, locks and Docker: each step adds one entry,
whose ports follow the greatest ones at that moment and whose address is unused, and no
entry changes or goes. `ImplementsRegister` says that any number of overlapping tasks,
with all their failures and retries, amounts to that. It is the advisory locks that make
it true: without them a value computed before somebody else's commit is not the next one
any more. That a failed attempt uses no port up, and that a termination frees none, is
part of it.

### Invoices and InvoiceLedger

A request loads and checks (`Issue`, `Pay`, ...), then writes. A payment has more
steps because its row stays locked while it goes on: `PayFlush` (UPDATE, row
loaded again, subscription loaded), `PayCommit` (credit, suspension lifted,
commit), `Answer`. An administrator repeats a payment that was not answered
(`Pay` is possible until the payment is in `answered`). `NotifyFails` is a failing
notification: the SMS's error handler uses a name that is local to the function
and unbound at that point (`service_workflow.py:230, 253`), so the request fails,
before the commit or, if the webhook has committed, after it.

Decisions of the model: `update-overdue` is one statement per row in one short
transaction and is atomic; totals are from a small set instead of being computed
from items; the Docker half of the reactivation is `Reactivate` of `VPSLifecycle`
and cannot fail the payment, because `start_container` returns False instead of
raising; `Suspend` stands for the administrator's suspension, with or without a
reason that mentions payment.

`InvoiceLedger` is what the routes promise a reader: five phases, atomic payments,
a credit once. `ImplementsLedger` says that `Invoices` with one request at a time
implements it under the mapping `Phase`, for all crashes and repetitions. With two
requests at a time it does not (section 5).

### The front end's data flow

`Services` to `Screens` are data, translated file by file: a service object is a
record with a field per method, a method the sequence of its requests, each with the
server collections it reads and writes (from its path and verb); a hook is a query
with its key or a mutation with the keys its `onSuccess` names; a page is the set of
queries it mounts and of operations it offers, its parts and its layout included, with
the page an operation leads to. `QueryCache` gives them behaviour. It follows one query
and one operation at a time, because entries of the cache do not interact: the user
goes from page to page (`Open`), the operation runs request by request (`Begin`,
`Serve`, `Continue`), its answer has its effects wherever the user is by then
(`Settle`), or is refused or lost (`Refuse`, `Lose`); the query is fetched, polled,
watched by a timer of the page, pushed, forgotten, removed by a key, and others write
(`Elsewhere`). `now` counts the writes to what the
query reads, and a copy is the number of writes it has seen, so "old" is a comparison.

`MCScreens` builds the stories: each operation of each page with each query that reads
what it writes, on that page or on the one it leads to. Pages on which a story has the
same shape are represented by one of them. `AllKnownGaps` lists the pairs of operation
and key that the code leaves stale (section 5); `TableAssumption` has TLC check for
the whole table that there is no other.

Decisions of the model: parameters of a key are one value, so two filters of one list
are one entry and all details are of the row operated on; a collection is read as a
whole; a query's own retry is part of `Fail`; `staleTime` and `gcTime` are choices
(`aged`, `Forget`); the library behaves as its version 5 does. A query is polled when its
hook gives an interval to the library (`Polled`); where a page runs a timer of its own
under a condition on what it shows or on a switch of the user's (`Watching`), the timer
may refetch (`Watch`) and nothing obliges it to.

### Session

A token is its owner, and any request may meet a 401. A request is a name that is used
again once settled; it carries the token that its interceptor found (`as`). `Enqueue`,
`Refresh`, `NoRefresh` and `Reject` are the four outcomes of a 401; `Refreshed` and
`RefreshFailed` are the answer to the refresh and `processQueue`. `Reload` is the
assignment to `window.location`: it loses the requests and the queue and keeps the
storages and the persisted store. The storages' copy of the user is read by nobody and
left out. A wrong password is a 401 as well. `Patient` and `Tidy` restrict the user,
not the code: sign-in and sign-out while nothing is under way, and no sign-in over
another session, no profile saved on a page that is about to be left. `default` is the
Authorization header that a refresh leaves in the client (`client.ts:170`): a request that
finds the storages empty carries it, and only `Reload` clears it. One tab.

### Terminal

`readyState`, `refCount`, `closeTimer` and `registered` are the manager's entries,
`view` is the mounted component with its refs and state, `lateFrame` the animation
frame that the cleanup does not cancel, and `ghosts` the entries that such a frame has
attached after the component was gone. A new entry takes the listeners of the closed one
under its key (`Inherited`): `view.heir` is such a successor of the component's handle, made
by a late frame, and `Hears` says which sockets' events the component gets. The server may
end a session (`Ended`), turn a client away after it has accepted (`Rejected`) or be gone
(`Dropped`). An entry is named by its socket; names are used
again when nothing refers to them. `OnClose` covers `onError` and `onClose`, which the
browser fires one after the other. Keystrokes and resizing only send; the branch of
the input handler that schedules a retry when `send` throws is out, because `send` of an
open socket does not throw.

## 3. Runs

| Run | Instance | States | Checks |
|---|---|---|---|
| `lifecycle_serial` | 1 subscription, 1 request at a time, 2 tasks, 3 ids, 2 retries, all operations but download-image, faults, crashes | 11 k | `TypeOK`, `ContainerOnlyAfterApproval`, `ProvisionOwed`, `DataPreserved`, `ImplementsContract` |
| `lifecycle_pipeline` | the same with approve, download-image, terminate; 4 ids, no retry | 707 k | `DownloadOwed`, `OrphanAccounted` |
| `lifecycle_live` | 1 subscription, 1 request, 1 task, 3 ids, 1 retry, approve and download-image; faults, crashes | 170 k | `PipelineEnds`, `MissingRepaired`, `CreatedAdopted` under `FairSpec` |
| `allocation` | 3 subscriptions, 2 tasks, faults | 64 k | `TypeOK`, `HttpPortsDistinct`, `SshPortStaysNew`, `ImplementsRegister` |
| `invoices_serial` | 2 invoices of 1 subscription, 3 payments (1 + 2 on the first, 2 on the second), totals 2 and 3, 1 request, faults, crashes | 1.13 M | `TypeOK`, `PaidInFull`, `SubscriptionCredited`, `ImplementsLedger` |
| `invoices_race` | 1 invoice, 2 payments, 2 requests, every operation but edit | 191 k | `NeverOverpaid`, `PaidIsRecorded` |
| `screens` | the whole route table, one story at a time; up to 3 writes | 1.16 M | `TypeOK`, `OwnScreenIsCurrent`, `PolledCatchesUp` under `LiveSpec` |
| `terminal` | 4 sockets, 2 attempts, 1 late frame | 828 k | `TypeOK`, `GraceOnlyForTheLeft`, `ConnectedIsOpen`, `Connects` under `LiveSpec` |
| `session` | 2 users, 3 overlapping requests, 6 in all, patient and tidy users | 22 k | `TypeOK`, `OneRefresh`, `ActsAsShown`, `Settles` under `LiveSpec` |
| `claim_*` | the smallest instance that shows it | - | one refuted statement each (section 5) |

Why these bounds are enough to be interesting. One subscription has all the races within a
subscription, because nothing but the allocation locks, the task slots and the work list of
the reconciliation is shared between subscriptions; `lifecycle_pipeline` with `Subs <-
TwoSubs`, `Ops <- TwoSubOps`, one retry and no crashes (372 k states) has those and gives
the same verdict. Two task slots allow an old task to overlap a new one, for instance the
provisioning of a first approval with the download of a second one. Three ids let a
container be current in the row, another live on the host and a third be made; runs with
four ids give the same verdicts. Two retries cover first, middle and last attempt.
`download-image` is left out of `lifecycle_serial` because it starts a second pipeline on an
ACTIVE subscription whose retry deletes the live container: neither `DataPreserved` nor
`ContainerOnlyAfterApproval` holds with it (section 5). In `invoices_race` the amounts are 1
and 2 against totals 2 and 3, so that one payment, two payments and too many are all
reached; edits are left out because they break `NeverOverpaid` without any overlap.

`screens` needs three writes: one that the copy has seen, one of the user and one of
somebody else after it. In `terminal` four sockets are one that the component holds, its
successor with the shared listeners, one whose grace runs and one that is made. Two attempts
cover the first, the last and one too many. In `session` three requests are the one that
refreshes, one that waits and one that is answered; six in all let each be sent again.

Deadlock is checked in the runs of `VPSLifecycle`, `AddressAllocation` and `Invoices`:
some request can always be made or is in flight. `screens`, `terminal` and `session` stop
when the writes, the names or the requests of the instance are used up, and do not
check it.

Fairness (`FairSpec`): weak fairness of each handler's continuation (an event loop runs what
is ready, Docker calls and queries have time limits), of each worker slot (`task_time_limit`
ends what hangs), of the start of the reconciliation (beat, every five minutes, for ever)
and of its items. Nothing is assumed of clients, nor that any call of a handler or a task
succeeds: a failing branch of `Work` satisfies the fairness as well, which is why
`PipelineEnds` lists PENDING and the reported failure among the results. It also lists
`lost`: a lost message is never sent again. Of the reconciliation strong fairness is assumed
(`ReconcileFound`, `ReconcileMissing`, `ReconcileCreate`): any run may fail or die at any
item, but what infinitely many runs try comes through in the end. A failure that never goes
away, a host without disk space for instance, is excluded, and no report counts as a repair.
`lifecycle_live` has deaths and no termination; with `Ops <- PipelineOps` and no deaths it
gives the same verdict, and so does an instance of two subscriptions with approvals alone, 4
ids and no retry, in which a failed item rolls back the session of the other and a death
leaves it undone (58 k states, deadlock unchecked because both messages may be lost).

`LiveSpec` of `QueryCache` lets the timer of a polled query fire (`WF` of `Poll`) and a
server that is asked again and again answer in the end (`SF` of `Answer`: a request may
fail, as `Fail` says, but not always). `LiveSpec` of `Terminal`: animation frames and
timers run, a handshake ends one way or the other (the browser's own time limit), and
nothing about the user or the network. `LiveSpec` of `Session`: every request has the
client's timeout of 30 s and so ends in some way; the refresh, which goes past that
client, ends when the connection does; the browser loads the page it was told to.

## 4. Proofs

TLAPS proves these for every value of the constants that satisfies the modules'
assumptions; no size is bounded.

* `VPSLifecycleProofs!TypeCorrect`: `Spec => []TypeOK`. Inductive with `Placed`:
  whatever is in flight has a subscription and a free slot has none.
* `DownloadAlwaysOwed`: `Spec => []DownloadOwed`. Not inductive by itself: a task
  that loaded PROVISIONING before it pulls will NOT write the status, so it must
  not count as the one who will move a DOWNLOADING_IMAGE subscription on.
  `DownloadInv` counts only requests about to publish, queued messages and pulling
  tasks that loaded another status. It is inductive because every write of
  DOWNLOADING_IMAGE leaves its request at "publish" and every task that stops
  pulling changes the status.
* `ProvisionAlwaysOwed`: `Spec => []ProvisionOwed`, inductive with `TypeInv`.
* `ContainerApproved`: with download-image not among the operations,
  `Spec => []ContainerOnlyAfterApproval`. The invariant `ApprovedInv` follows the
  approval through the publication, the message, its retries and the work list of
  the reconciliation.
* `OrphanAlwaysAccounted`: `Spec => []OrphanAccounted`, for any number of overlapping
  requests, tasks, retries and repairs. `OrphanInv` says what holds from step to step: a
  container that neither the row nor the reconcile task knows by its id (`Known`) has a
  *provision* task, which ends only with a commit, a report or a loss; a task that can
  still commit has the container, if there is one (`Held`); at most one task is between
  creation and commit (`OneCreated`, the advisory locks); and whatever the reconcile task
  lists has a row.
* `DataAlwaysPreserved`: with one request at a time and without download-image,
  `Spec => DataPreserved`. `PipeInv` adds that a subscription has at most one pipeline, an
  approval in flight or one task, and that a pipeline's subscription has no row; so the
  cleanup by name never meets a container of the database. Overlapping approvals break
  exactly this (section 5, among those met while modelling).
* `VPSContractProofs!LifecycleKeepsContract`: with one request at a time and without
  download-image, `Spec => ImplementsContract`. The invariant is that of
  `OrphanAlwaysAccounted` and `DataAlwaysPreserved` together (one pipeline for each
  subscription, and none beside a row, is what makes `Working` ONE job) with two more
  parts: a request in flight is about a subscription that was asked for (`Asked`), and
  only *provision* tasks are retried (`Counted`), so that a job that gives its request
  back has used no retry. One lemma per group of actions maps it to its step of the
  contract; what a step does to the phases is read off the three things the mapping looks
  at (`PhaseReads`).
* `AddressAllocationProofs!AllocationTypeCorrect`, `HttpPortsAlwaysDistinct`,
  `SshPortAlwaysNew`. `AllocInv` adds that at most one task is between allocation
  and commit (`Exclusive`, the advisory lock) and that what it holds is above every
  recorded port (`Above`), which no stop, start, termination or rebuild changes.
* `AddressAllocationProofs!AllocationIsRegister`: `Spec => ImplementsRegister`, for any
  number of overlapping tasks. `UpToDate` says that what a task inside its transaction
  has computed is what it would compute now; it is inductive because only a commit
  touches the addresses (`OnlyCommit`) and, with `Exclusive`, nobody is inside after one.
  `Numbered` tells a row's address from none. So a commit is a grant, and every other
  step a stutter.
* `InvoicesProofs!InvoicesTypeCorrect`, with `Holding`: what a request in flight
  says about its invoice.
* `InvoicesProofs!NeverOverpaidUnedited`: if "update" is not among the operations,
  `Spec => []NeverOverpaid`, for any number of overlapping requests. `Fitting` says
  that a payment in flight was checked against the total that the invoice still
  has; what it will write therefore fits, even when it overwrites another payment.
* `InvoicesProofs!PaidInFullInTurn`: with one request at a time (`OneAtATime`),
  `Spec => []PaidInFull`. `Fresh` says that the request in flight holds the invoice as it
  still is, and that a payment fits it.
* `InvoicesProofs!PaidWasRecorded`: `Spec => []PaidIsRecorded`, without a condition on
  requests, edits or faults. It assumes that the set of payments is finite
  (`FinitePayments`), because it compares with their sum. Its converse does not hold: of
  two overlapping payments one is lost (section 5).
* `InvoicesProofs!InvoicesImplementLedger`: with one request at a time,
  `Spec => ImplementsLedger`, the refinement of the atomic ledger. `InTurn` extends `Fresh`
  by what each operation was checked for (`Checked`) and by what a payment that waits for
  its commit will have added (`Flushed`); one lemma per commit maps it to its step of the
  ledger, everything else is a stutter.
* `QueryCacheProofs!CacheTypes`: `Spec => []TypeOK`.
* `QueryCacheProofs!OwnScreens`: `NoOtherGaps => (Spec => []OwnScreenIsCurrent)`, for any
  table of screens. `NoOtherGaps` is a statement about the table alone: every write to
  what a query reads is followed, in its own step or a later one, by a key that hits the
  query. `MCScreens` assumes it, so TLC evaluates it for the route table; the theorem
  says that nothing else is needed, whatever the user does while the operation is under
  way. The inductive invariant: after a write of the user's own, unless the operation is
  still before a step that names the key (`Pending`), the entry is current, invalid, in
  error, or being fetched by a request sent since (`Due`); and an entry that the page
  observes is not left invalid unless its fetch has failed (`Tended`).
* `TerminalProofs!TerminalTypes`, `Graces`, `Indicator`. `GraceOnlyForTheLeft` is
  inductive only with the reference counts, which a dying entry hands on to the next:
  an entry counts at least the components that hold it, and one whose grace runs counts
  none (`Counted`, over every socket whose listeners the component is among).
  `ConnectedIsOpen` needs what it takes for a handle to have a successor (`Succeeded`): it is
  closed, and no longer the entry under the key.
* `SessionProofs!SessionTypes`, `Refreshes`, `Identity`. `OneRefresh` is inductive with
  the types. `ActsAsShown` needs more: with patient and tidy users every token, in the
  storages, in the store and on the requests under way, is of the user shown (`Owned`),
  and while somebody signs in there is none in the storages (`Entering`). The header that
  a refresh leaves behind may be a former user's; a request takes it only when the
  storages are empty, and on a page that is not about to be left a user with empty
  storages has none (`Unarmed`).

* `InvoicesProofs!CreditedInTurn`: with one request at a time,
  `Spec => []SubscriptionCredited`. The proof goes through the refinement: a step of the
  ledger changes one invoice, so the set of PAID invoices of a subscription grows by one
  together with the credit, or neither changes, and the totals of PAID invoices stay
  (`LedgerStep`, `CreditGrows`, `CreditStays`); the set is finite because it grows one by
  one from none (`FinitelyPaid`), whatever the set of invoices is. The sum is a fold over
  a finite set. `SumLemmas` proves what is needed of it without the library's induction
  theorems, whose operator parameters the installed provers cannot instantiate: if the
  statement failed for some finite set, it would fail for a smallest one, and the element
  that the fold takes first leads from that one to a smaller (`SmallestSubset`).

`OneAtATime` restricts the instance and not the code, which serves requests side by side. It
is needed: with two requests and without faults TLC refutes each of these properties, by two
approvals (`DataPreserved`), an approval and a rejection (`ImplementsContract`), an edit and
a payment (`PaidInFull`), the sending and a payment (`SubscriptionCredited`), the issue and
a cancellation (`ImplementsLedger`). With download-image and one request at a time it
refutes `ImplementsContract` as well: a job is started for a rejected request.

Every safety invariant, action property and refinement that a run checks is proved. Only
model-checked are the liveness properties (`PipelineEnds`, `MissingRepaired`,
`CreatedAdopted`, `PolledCatchesUp`, `Connects`, `Settles`): liveness under fairness, and
ENABLED, are beyond the proof system used.

## 5. Where code and documentation disagree

Each of these has a run that TLC ends with a counterexample, in an instance without
faults unless the statement is about one:

* `TerminationIsFinal`: the download task writes PROVISIONING over the TERMINATED
  that was committed while it pulled (`hosting/tasks.py:1080`); the termination
  "cannot be undone" (`hosting/routes/admin.py:1074`).
* `PaidStaysPaid`: "Cannot cancel paid invoice" (`invoices/service_workflow.py:265`)
  is checked on the loaded row; a payment in between is written over.
* `KeepsInSync`: "Update authStore state to keep it in sync" (`shared/api/client.ts:161`):
  a refresh that is answered after its user has signed out and another has signed in
  puts the former user's token into the store and into the storage, and the new user's
  pages then act as the former user.

Five more are stated in their modules and have no run of their own. TLC refutes
`IpAvailable` under `SpecInTurn` with `Subs <- ManySubs`; `RecordedOnce` and `MailedIsSent`
when they are added to `invoices_serial`; `SuspendedKeepsData` in the instance of
`claim_terminated_final` with `Tasks <- TwoTasks` and the operations approve,
download-image and suspend; `SentFromStorage` in `session.cfg` without its other
properties, under `Spec`:

* `IpAvailable`: the maximum of `ip_address` is the maximum of texts
  (`hosting/tasks.py:733`): with 172.20.0.10 to .100 in use, .99 is the greatest text
  and .100 is handed out again; from the 92nd container on, every insert fails.
* `RecordedOnce`: "Payment is recorded with idempotency" (`invoices/routes.py:279`),
  but a payment that was committed and not answered is added again.
* `MailedIsSent`: after the e-mail the timeline event is inserted for the user
  "system" (`service_workflow.py:153`), who is not in `users`; the foreign key rolls
  the request back, and the mailed invoice stays DRAFT or ISSUED.
* `SuspendedKeepsData`: "Container data is preserved when suspended"
  (`hosting/routes/admin.py:950`). download-image of a subscription whose pipeline is
  under way starts a second one; its provisioning fails on the name that is taken, and
  the cleanup before its retry removes, by name, what the first has recorded
  (`hosting/tasks.py:946`).
* `SentFromStorage`: "Token storage: sessionStorage (rememberMe=false) or localStorage
  (rememberMe=true)" (`shared/api/client.ts:74`). A refresh also leaves its token in the
  client's default headers (`client.ts:170`), where no sign-out clears it: one user
  refreshes and signs out, another signs in in the same page, the second one's refresh
  fails and empties the storages, and what is still sent before the page is loaded again
  carries the first one's token.

Others were met while modelling; the models contain the behaviour, and no run is
kept for them:

* A termination or suspension that overlaps the provisioning loads no container
  row, deletes or stops nothing, and writes TERMINATED or SUSPENDED over the ACTIVE
  that was committed in between; the container runs on. A failing Docker call has
  the same effect, since its result is not looked at (`provisioning_service.py:423,
  469, 552`).
* Two overlapping approvals, or a download-image of an ACTIVE subscription, start
  two pipelines; the second provisioning fails on the name and its retry removes, by
  name, the container and the data of the first (`tasks.py:871-877, 944-950`), of an
  ACTIVE subscription as of a suspended one (`SuspendedKeepsData`).
* A termination during a reconcile run is not seen: the container that it deleted is
  missing under a row that the run has listed as RUNNING, and is created again under a
  row that says TERMINATED (`tasks.py:1131`).
* The crash, or the broker's refusal, between an approval's commit and the publication
  leaves DOWNLOADING_IMAGE with no task (`provisioning_service.py:234`), and nothing sends
  the message again; the same between the two tasks (`tasks.py:1084`).
* download-image takes up any subscription whatever its status, a rejected or terminated
  one too; an approval that loaded PENDING writes over a rejection that was committed in
  between, and the request is provisioned.
* An edit that overlaps a payment changes the total after the payment has been compared
  with it: the invoice is PAID with less than its total. A sending that overlaps the
  payment that completes an invoice writes SENT over PAID.
* suspend and reactivate make a subscription ACTIVE that never had a container;
  start starts the container of a suspended subscription
  (`provisioning_service.py:586`).
* After the last retry a subscription stays PROVISIONING with no task, and its
  container, if it was made, stays on the host and binds a port that the next
  allocation hands out again (`tasks.py:959`).
* A cancelled subscription keeps its container: no task acts on CANCELLED
  (`hosting/routes/client.py:489` says it is active until the end of the period).
* The container that the reconciliation rebuilds publishes no HTTP port, while the
  row keeps its `http_port` (`tasks.py:1247`) and nginx is configured with it.
* Of two overlapping payments one is lost from `paid_amount`
  (`service_workflow.py:191`), and of two completed invoices of one subscription one
  may be lost from `total_paid` (`billing_service.py:420`).
* An edit can bring the total of a partly paid invoice below what is paid
  (`invoices/service.py:213`); then no payment fits and it never becomes PAID.
* An invoice with total 0 can never be paid, since an amount must be positive.
* An edit with `tax_rate` or `discount_amount` 0 is ignored
  (`invoices/service.py:192`).
* The approval is documented as PENDING to PROVISIONING; it sets DOWNLOADING_IMAGE.
* terminate's parameter `remove_volumes` is ignored.
* `provision_vps`, `generate_initial_invoice`, the recurring billing,
  `check_overdue_invoices` and the asynchronous allocators of the repository are
  called by tests only; the Celery tasks for overdue and recurring invoices are
  placeholders.

In the front end:

* The pairs of `AllKnownGaps`: after the operation the page shows the former copy until it
  ages. An invoice's and a quote's timeline and a VPS's have keys that the operations on
  them do not name; the conversion of a quote names the list only; the admin's page
  deletes a DNS zone with the customer's hook, which knows the customer's keys; a reply
  to a ticket refetches the ticket while the replies have a key of their own; two pages
  write a role's permissions past the hooks; the product forms invalidate nothing.
* An operation of two requests of which the second fails leaves its pages as they were
  (`modules/admin/pages/roles/RoleEditPage.tsx:127`). So does a lost answer.
* Some pages call methods that their service does not have, or paths that the client's
  base address doubles (`Missing` in `Pages` and `AdminPages`).
* The timer of a socket that died in its grace deletes the entry of its successor from
  the manager (`terminalSocketManager.ts:81`): a terminal that mounts then opens a second
  connection, although the first is "kept alive for 10 minutes in case we remount"
  (`VPSTerminal.tsx:166`). A socket that is left while it connects is never closed, since
  `detach` sets the timer for open ones only; a frame that runs after the cleanup
  attaches a component that nothing detaches; a component that attaches to an open
  socket never gets its `onOpen` and shows "Disconnected"; a server that accepts and
  closes (`hosting/routes/client.py:917-953, 1184`) resets the attempts each time, so that
  ten are never reached and the terminal tries for ever.
* The entry that follows a dead one takes its listeners (`terminalSocketManager.ts:30`).
  When a late frame makes it, the component hears it open and shows "Connected" while its
  own handle is the closed socket, so what is typed is answered "Not connected". If the
  grace of an older entry then takes the key away, the component's first frame attaches it
  to a third socket, and "Connected" stays while that one is still connecting; this is why
  `ConnectedIsOpen` speaks of attaching.
* A refused refresh clears the storages and leaves the persisted store signed in
  (`client.ts:183-187`); a sign-in with "remember me" does not clear the session storage,
  which the interceptor looks at first; a wrong password goes through the same
  interceptor, and the reload of the login page loses the message.
* The notification stream takes its token once and is not opened again after it ends
  (`shared/hooks/useNotifications.ts:58-77`); polling remains.

## 6. Not modelled, and why

`upgrade_subscription` (its pro-rated invoice belongs to the planned billing
module); invoice numbers; PDF, e-mail and page rendering; permissions; metrics and
logs (every sample is an insert of its own); backups (archive I/O); products,
customers, users and settings of the back end (single-row CRUD). To the modules of the
back end the front end is the environment: its requests are the actions that nothing
forces to happen; to the modules of the front end the back end is what answers.

Of the front end: methods of services and hooks that no routed page reaches, pages
without a route, and the maps beside the route table that nobody reads; filters, forms,
validation and rendering; the role guards, which are functions of the role; other tabs,
which share localStorage with this one; the UI kit, landing pages and type
declarations.

## 7. Plan

Written in this order, most important behaviour first:

1. `VPSLifecycle`, `AddressAllocation`, `Invoices` and `InvoiceLedger`, with their
   proofs: done. `Services` to `Screens` with `QueryCache`, `Session` and `Terminal`, with
   their proofs: done.
2. `Quotes`: submit, approve, send, accept, decline, new version, the batch expiry
   on a list read before, and the conversion, which commits the invoice and then the
   quote. Abstract specification: a chain of versions of which one is latest, and a
   quote converted at most once. Composition with `Invoices` (the created invoice)
   and with `VPSLifecycle` (the request that creates the quote).
3. `SmsGateway`: queue, polling device, duplicated and late reports; abstract
   specification: a message is pending, taken, and finally sent or failed.
4. `Tickets` and `Orders`: transition tables under overlapping requests and the
   daily sweep.
5. `ImageBuild` and `DnsZones`: pipelines that commit step by step, with worker
   deaths; the serial against the files. `ServiceDomains` after it.
6. `Registration`: flags and status.

Proofs to add: the invariants of the new modules, and for two requests at a time what is
left of the contract of a subscription.
