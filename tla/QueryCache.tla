----------------------------- MODULE QueryCache ------------------------------
(***************************************************************************)
(* What the pages show of the server. Every page reads through one query   *)
(* client (app/providers.tsx): an answer is kept under the query's key for *)
(* gcTime and taken for fresh for staleTime, so a page shows what it saw   *)
(* last unless something has invalidated the entry since. Keeping the      *)
(* screen right after an operation is the business of the keys that the    *)
(* operation's onSuccess names and of the page it leads to.                *)
(*                                                                         *)
(* A behaviour follows one query and one operation, from Cases: entries do *)
(* not interact. The server's data is the number of writes so far to what  *)
(* the query reads; a copy is the number of writes it has seen.            *)
(*                                                                         *)
(* The client library is modelled as version 5 works: mounting shares a    *)
(* fetch in flight, invalidating restarts it only when there is data and a *)
(* page mounts it, setQueryData leaves it running, and an answer makes the *)
(* entry valid again whatever has happened since it was asked for.         *)
(***************************************************************************)
EXTENDS DataFlow

CONSTANTS Cases,        \* what a behaviour may be about: the query, the operation,
                        \* the paths the user visits, the ones that mount the
                        \* query and the ones that offer the operation
          KnownGaps,    \* pairs <<operation, key>> known to leave the key stale
          MaxWrites     \* bound on the writes of a behaviour

\* An operation has steps, and a step has requests.
ASSUME CasesAssumption ==
    \A c \in Cases :
        /\ Len(c.op.steps) \in Nat \ {0} /\ DOMAIN c.op.steps = 1 .. Len(c.op.steps)
        /\ \A i \in DOMAIN c.op.steps :
              LET requests == c.op.steps[i].requests
              IN Len(requests) \in Nat \ {0} /\ DOMAIN requests = 1 .. Len(requests)
ASSUME BoundAssumption == MaxWrites \in Nat

VARIABLES case,         \* what this behaviour is about: fixed
          screen,       \* the path the user is on
          now,          \* writes so far to what the query reads
          entry,        \* the query's entry in the query client
          task,         \* the operation under way
          cause         \* whose the last write was: "own", "elsewhere" ...

vars == <<case, screen, now, entry, task, cause>>

query == case.query
op == case.op

NoEntry == [ loaded |-> FALSE, asOf |-> 0, invalid |-> FALSE, error |-> FALSE,
             fetching |-> FALSE, sentAt |-> 0, overtaken |-> FALSE ]
NoTask == [pc |-> "idle", step |-> 1, request |-> 1, from |-> screen, servedAt |-> 0]

\* ---------------------------------------------------------------- the client
Mounted == screen \in case.mounting

Matches(prefix, key) ==
    Len(prefix) <= Len(key) /\ \A i \in DOMAIN prefix : prefix[i] = key[i]
Hit(prefixes) == \E p \in prefixes : Matches(p, query.key)

\* The i-th step of c's operation writes what c's query reads; it names a key
\* that hits the query.
WritesAt(c, i) ==
    \E j \in DOMAIN c.op.steps[i].requests :
        c.op.steps[i].requests[j].writes \cap c.query.reads # {}
CoversAt(c, i) ==
    \E p \in c.op.steps[i].invalidates \cup c.op.steps[i].removes
                 \cup c.op.steps[i].refetches \cup c.op.steps[i].stores : Matches(p, c.query.key)

\* Every write to what the query reads is followed, in its own step or a later
\* one, by a key that hits the query, or the pair is a known gap.
NoOtherGaps ==
    \A c \in Cases :
        \/ <<c.op.name, c.query.key>> \in KnownGaps
        \/ \A i \in DOMAIN c.op.steps :
               WritesAt(c, i) => \E k \in i .. Len(c.op.steps) : CoversAt(c, k)

\* A fetch in flight that something newer has passed: its answer may be old
\* and will be taken for the truth.
Overtake(e) == IF e.fetching THEN [e EXCEPT !.overtaken = TRUE] ELSE e

Send(e) == [e EXCEPT !.fetching = TRUE, !.sentAt = now, !.overtaken = FALSE]
Join(e) == IF e.fetching THEN e ELSE Send(e)
\* fetch with cancelRefetch: the one in flight is dropped, if there is data.
Restart(e) == IF e.fetching /\ ~e.loaded THEN Overtake(e) ELSE Send(e)

\* The entries of path are observed: fetched if absent, invalid or aged.
Observe(e, path, aged) ==
    IF path \in case.mounting /\ (~e.loaded \/ e.invalid \/ aged) THEN Join(e) ELSE e

Stored(e, hit, asOf) ==
    IF hit
    THEN [Overtake(e) EXCEPT !.loaded = TRUE, !.asOf = asOf,
                             !.invalid = FALSE, !.error = FALSE]
    ELSE e
Invalidated(e, hit) ==
    CASE ~hit          -> e
      [] hit /\ Mounted  -> Restart([e EXCEPT !.invalid = TRUE])
      [] hit /\ ~Mounted -> Overtake([e EXCEPT !.invalid = TRUE])
\* A page that still mounts the query renders again, and finds no entry.
Removed(e, hit) ==
    CASE ~hit          -> e
      [] hit /\ Mounted  -> Send(NoEntry)
      [] hit /\ ~Mounted -> NoEntry
Refetched(e, hit) == IF hit THEN Restart(e) ELSE e

\* ------------------------------------------------------------------ the user
\* The user goes to another page.
Open ==
    /\ \E path \in case.visits \ {screen}, aged \in BOOLEAN :
           /\ screen' = path
           /\ entry' = Observe(entry, path, aged)
    /\ UNCHANGED <<case, now, task, cause>>

\* gcTime after the last page that mounted it has gone.
Forget ==
    /\ ~Mounted /\ ~entry.fetching /\ entry # NoEntry
    /\ entry' = NoEntry
    /\ UNCHANGED <<case, screen, now, task, cause>>

\* A mutant of Poll: the timer stops when the first answer is in.
PollUntilLoaded ==
    /\ query.polled /\ Mounted /\ ~entry.fetching /\ ~entry.loaded
    /\ entry' = Send(entry)
    /\ UNCHANGED <<case, screen, now, task, cause>>

\* refetchInterval
Poll ==
    /\ query.polled /\ Mounted /\ ~entry.fetching
    /\ entry' = Send(entry)
    /\ UNCHANGED <<case, screen, now, task, cause>>

\* The timer of the page. Whether it runs is a matter of what the page shows.
Watch ==
    /\ query.watched /\ Mounted /\ entry.loaded
    /\ entry' = Restart(entry)
    /\ UNCHANGED <<case, screen, now, task, cause>>

\* An event of the notification stream.
Push ==
    /\ query.pushed /\ Mounted
    /\ entry' = Invalidated(entry, TRUE)
    /\ UNCHANGED <<case, screen, now, task, cause>>

Answer ==
    /\ entry.fetching /\ query.exists
    /\ \E n \in entry.sentAt .. now :
           entry' = [entry EXCEPT !.loaded = TRUE, !.asOf = n, !.invalid = FALSE,
                                  !.error = FALSE, !.fetching = FALSE]
    /\ UNCHANGED <<case, screen, now, task, cause>>

\* After its retry.
Fail ==
    /\ entry.fetching
    /\ entry' = [entry EXCEPT !.error = TRUE, !.fetching = FALSE]
    /\ UNCHANGED <<case, screen, now, task, cause>>

\* ------------------------------------------------------------- the operation
Requests == op.steps[task.step].requests
ThisRequest == Requests[task.request]
WritesHere(r) == r.writes \cap query.reads # {}

Begin ==
    /\ task.pc = "idle"
    /\ screen \in case.offering
    /\ task' = [NoTask EXCEPT !.pc = "asked"]
    /\ UNCHANGED <<case, screen, now, entry, cause>>

\* The server carries the request out.
Serve ==
    /\ task.pc = "asked" /\ ThisRequest.exists
    /\ IF WritesHere(ThisRequest)
       THEN /\ now < MaxWrites
            /\ now' = now + 1
            /\ cause' = "own"
       ELSE UNCHANGED <<now, cause>>
    /\ task' = [task EXCEPT !.pc = "served", !.servedAt = now']
    /\ UNCHANGED <<case, screen, entry>>

\* A mutant of Continue: the last request has a next one.
ContinueOnceMore ==
    /\ task.pc = "served" /\ task.request <= Len(Requests)
    /\ task' = [task EXCEPT !.pc = "asked", !.request = @ + 1]
    /\ UNCHANGED <<case, screen, now, entry, cause>>

\* The next request of the same call.
Continue ==
    /\ task.pc = "served" /\ task.request < Len(Requests)
    /\ task' = [task EXCEPT !.pc = "asked", !.request = @ + 1]
    /\ UNCHANGED <<case, screen, now, entry, cause>>

\* The last answer of a step is in: onSuccess, the code after the await, and
\* the page the operation leads to.
Lands == op.late \/ screen = task.from
Effects(step) ==
    LET stored      == Stored(entry, Hit(step.stores), task.servedAt)
        invalidated == Invalidated(stored, Hit(step.invalidates))
        removed     == Removed(invalidated, Hit(step.removes))
    IN Refetched(removed, Hit(step.refetches))

\* A mutant of Settle: the callbacks are the page's own (of mutate, not of
\* useMutation), and do not run once it has gone.
SettleWhileMounted ==
    /\ task.pc = "served" /\ task.request = Len(Requests)
    /\ LET e == IF screen = task.from THEN Effects(op.steps[task.step]) ELSE entry
       IN IF task.step < Len(op.steps)
          THEN /\ task' = [task EXCEPT !.pc = "asked", !.step = @ + 1, !.request = 1]
               /\ entry' = e
               /\ UNCHANGED screen
          ELSE /\ task' = [task EXCEPT !.pc = "idle"]
               /\ IF op.leads \in case.visits /\ Lands
                  THEN /\ screen' = op.leads
                       /\ \E aged \in BOOLEAN : entry' = Observe(e, op.leads, aged)
                  ELSE entry' = e /\ UNCHANGED screen
    /\ UNCHANGED <<case, now, cause>>

Settle ==
    /\ task.pc = "served" /\ task.request = Len(Requests)
    /\ LET e == Effects(op.steps[task.step])
       IN IF task.step < Len(op.steps)
          THEN /\ task' = [task EXCEPT !.pc = "asked", !.step = @ + 1, !.request = 1]
               /\ entry' = e
               /\ UNCHANGED screen
          ELSE /\ task' = [task EXCEPT !.pc = "idle"]
               /\ IF op.leads \in case.visits /\ Lands
                  THEN /\ screen' = op.leads
                       /\ \E aged \in BOOLEAN : entry' = Observe(e, op.leads, aged)
                  ELSE entry' = e /\ UNCHANGED screen
    /\ UNCHANGED <<case, now, cause>>

\* An own write the code has not been told of, or has not gone on from.
Tear == cause' = IF cause = "own" THEN "torn" ELSE cause

\* The server refuses, or the request does not reach it.
Refuse ==
    /\ task.pc = "asked"
    /\ task' = [task EXCEPT !.pc = "idle"]
    /\ Tear
    /\ UNCHANGED <<case, screen, now, entry>>

\* The answer does not come back: onError, and nothing is invalidated.
Lose ==
    /\ task.pc = "served"
    /\ task' = [task EXCEPT !.pc = "idle"]
    /\ Tear
    /\ UNCHANGED <<case, screen, now, entry>>

\* Somebody else's write, or another tab's.
Elsewhere ==
    /\ now < MaxWrites
    /\ now' = now + 1
    /\ cause' = "elsewhere"
    /\ UNCHANGED <<case, screen, entry, task>>

\* --------------------------------------------------------------------- spec
Init ==
    /\ case \in Cases
    /\ screen \in case.visits
    /\ now = 0
    /\ entry = IF Mounted THEN Send(NoEntry) ELSE NoEntry
    /\ task = NoTask
    /\ cause = "none"

Next ==
    \/ Open \/ Forget \/ Poll \/ Watch \/ Push \/ Answer \/ Fail
    \/ Begin \/ Serve \/ Continue \/ Settle \/ Refuse \/ Lose
    \/ Elsewhere

Spec == Init /\ [][Next]_vars

\* The timer of a polled query fires, and a server that is asked again and
\* again answers in the end.
Fairness == WF_vars(Poll) /\ SF_vars(Answer)
LiveSpec == Spec /\ Fairness

\* --------------------------------------------------------------- properties
TypeOK ==
    /\ screen \in case.visits
    /\ now \in 0 .. MaxWrites
    /\ entry \in [ loaded : BOOLEAN, asOf : 0 .. now, invalid : BOOLEAN, error : BOOLEAN,
                   fetching : BOOLEAN, sentAt : 0 .. now, overtaken : BOOLEAN ]
    /\ task \in [ pc : {"idle", "asked", "served"}, step : DOMAIN op.steps,
                  request : Nat \ {0}, from : case.visits, servedAt : 0 .. now ]
    /\ task.pc # "idle" => task.request \in DOMAIN Requests
    /\ cause \in {"none", "own", "torn", "elsewhere"}

Gap == <<op.name, query.key>> \in KnownGaps

\* The page shows a copy, and neither a spinner nor an error with it.
Showing == Mounted /\ entry.loaded /\ ~entry.fetching /\ ~entry.error

\* Once the user's operation is over, the page it was made on and the page it
\* led to (the ones a case mounts the query on) show nothing older than what the
\* operation did: every operation that writes what such a page reads invalidates,
\* refetches or stores it. Exempt are a copy that an overtaken fetch brought, a
\* write whose answer was lost or that a later step of the operation failed
\* after, and the pairs of KnownGaps.
OwnScreenIsCurrent ==
    task.pc = "idle" /\ Showing /\ ~entry.overtaken
        /\ cause = "own" /\ ~Gap
    => entry.asOf = now

\* A page left open on a polled query shows in the end whatever anyone wrote.
PolledCatchesUp ==
    query.polled /\ query.exists =>
        \A n \in 0 .. MaxWrites :
            <>[](Mounted /\ now = n) => <>[](entry.loaded /\ entry.asOf = n)
=============================================================================
