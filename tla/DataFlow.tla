------------------------------ MODULE DataFlow -------------------------------
(***************************************************************************)
(* The vocabulary of the front end's data flow. A call of the service      *)
(* layer is a sequence of requests; a query names the cache entry a call's *)
(* answer is kept under; an operation is what a button does: one mutation  *)
(* or several awaited in order, the keys each invalidates, refetches or    *)
(* stores in its onSuccess, and the page the user is taken to at the end.  *)
(*                                                                         *)
(* A screen is what a component mounts and offers, with its parts'.        *)
(***************************************************************************)
EXTENDS Sequences, Naturals

\* -------------------------------------------------------------------- calls
Request(reads, writes, exists) == [reads |-> reads, writes |-> writes, exists |-> exists]

Reads(R) == <<Request(R, {}, TRUE)>>
Writes(R) == <<Request({}, R, TRUE)>>
Nothing == <<Request({}, {}, TRUE)>>

\* A call of a method the service does not have, or of a path the client's
\* base address doubles: it is refused every time.
Missing == <<Request({}, {}, FALSE)>>

\* ------------------------------------------------------------------ queries
Query(key, call) ==
    [ key    |-> key,
      reads  |-> UNION {call[i].reads : i \in DOMAIN call},
      exists |-> \A i \in DOMAIN call : call[i].exists,
      polled |-> FALSE,
      watched |-> FALSE,
      pushed |-> FALSE ]

\* useQuery with a refetchInterval.
Polled(key, call) == [Query(key, call) EXCEPT !.polled = TRUE]

\* The page has a timer of its own, which refetches q while, or once, something is
\* so of what the page shows.
Watching(q) == [q EXCEPT !.watched = TRUE]

\* The layouts hold the notification stream open: each event invalidates q.
Pushed(q) == [q EXCEPT !.pushed = TRUE]

\* --------------------------------------------------------------- operations
Step(call, invalidates) ==
    [ requests |-> call, invalidates |-> invalidates, removes |-> {},
      refetches |-> {}, stores |-> {} ]

Mutation(name, call, invalidates) ==
    [ name |-> name, steps |-> <<Step(call, invalidates)>>, leads |-> "here", late |-> FALSE ]

\* o with another last step.
WithLast(o, step) == [o EXCEPT !.steps[Len(o.steps)] = step]
LastStep(o) == o.steps[Len(o.steps)]

\* onSuccess puts the answer under the keys itself (setQueryData).
Storing(o, keys) == WithLast(o, [LastStep(o) EXCEPT !.stores = keys])

\* onSuccess drops the entries under the keys (removeQueries).
Removing(o, keys) == WithLast(o, [LastStep(o) EXCEPT !.removes = keys])

\* The page calls the refetch of a query it mounts when the answer is in.
AndRefetch(o, keys) == WithLast(o, [LastStep(o) EXCEPT !.refetches = @ \cup keys])
Refetching(name, call, keys) == AndRefetch(Mutation(name, call, {}), keys)

\* o, and when it has succeeded p.
Then(o, p) == [o EXCEPT !.name = p.name, !.steps = @ \o p.steps]

\* A page reload: every key, for every key has the empty prefix.
Everything == {<< >>}

\* The callback of mutate, dropped with the page, navigates ...
Leads(o, path) == [o EXCEPT !.leads = path]
\* ... and the code after an await, or a mutation's own onSuccess, which runs
\* wherever the user is by then.
LeadsLate(o, path) == [o EXCEPT !.leads = path, !.late = TRUE]
\* The page of the row o has just created: its entries are not the cached ones.
LeadsNew(o) == LeadsLate(o, "new")

\* ------------------------------------------------------------------ screens
Screen(mounts, offers) == [mounts |-> mounts, offers |-> offers]
Blank == Screen({}, {})

Embed(s, parts) ==
    Screen(s.mounts \cup UNION {p.mounts : p \in parts},
           s.offers \cup UNION {p.offers : p \in parts})

\* The form's onSuccess, given by the page that embeds it.
Landing(s, path) == Screen(s.mounts, {LeadsLate(o, path) : o \in s.offers})

LandingNew(s) == Landing(s, "new")

\* Every page of a section is shown inside its layout.
Under(layout, pages) == [path \in DOMAIN pages |-> Embed(pages[path], {layout})]
=============================================================================
