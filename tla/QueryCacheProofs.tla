-------------------------- MODULE QueryCacheProofs ---------------------------
(***************************************************************************)
(* OwnScreenIsCurrent, for every set of cases in which the pairs that lack *)
(* an invalidation are among KnownGaps.                                    *)
(*                                                                         *)
(* The invariant says what the property does not: how a copy that is not   *)
(* current is on its way to be replaced. While the keys that cover a write *)
(* are still to come (Pending) nothing is known of the entry; from then on *)
(* it is current, or invalid, or being fetched by a request sent since, or *)
(* in error, or overtaken; and a mounted entry is not left invalid unless  *)
(* its fetch has failed.                                                   *)
(***************************************************************************)
EXTENDS QueryCache, TLAPS

Entry == [ loaded : BOOLEAN, asOf : 0 .. now, invalid : BOOLEAN, error : BOOLEAN,
           fetching : BOOLEAN, sentAt : 0 .. now, overtaken : BOOLEAN ]

Pending ==
    task.pc # "idle" /\ \E k \in task.step .. Len(op.steps) : CoversAt(case, k)

\* e is current or will be.
Due(e) ==
    /\ e.fetching /\ ~e.overtaken => e.sentAt = now
    /\ e.loaded /\ ~e.overtaken =>
           e.asOf = now \/ e.invalid \/ e.fetching \/ e.error

\* An entry that pages observe is not left invalid.
Tended(e) == e.loaded /\ e.invalid /\ ~e.fetching => e.error

IInv ==
    /\ case \in Cases
    /\ TypeOK
    /\ task.pc = "served" /\ cause = "own" => task.servedAt = now
    /\ Mounted => Tended(entry)
    /\ NoOtherGaps /\ cause = "own" /\ ~Gap /\ ~Pending => Due(entry)

-----------------------------------------------------------------------------
\* What the client does to an entry keeps it one, and never undoes Due.
LEMMA SendDue ==
    ASSUME NEW e \in Entry, now \in Nat
    PROVE Send(e) \in Entry /\ Due(Send(e)) /\ Tended(Send(e)) /\ Send(e).fetching
  <1>1. now \in 0 .. now
    OBVIOUS
  <1>2. Send(e) \in Entry
    BY <1>1, Zenon DEF Entry, Send
  <1>3. Send(e).fetching = TRUE /\ Send(e).sentAt = now
    BY DEF Entry, Send
  <1> QED
    BY <1>2, <1>3 DEF Due, Tended

LEMMA OvertakeDue ==
    ASSUME NEW e \in Entry, now \in Nat
    PROVE /\ Overtake(e) \in Entry
          /\ Due(e) => Due(Overtake(e))
          /\ Tended(e) => Tended(Overtake(e))
          /\ e.fetching \/ e.invalid => Due(Overtake(e))
          /\ e.fetching => Overtake(e).fetching
  <1>1. CASE e.fetching
    <2>1. Overtake(e) \in Entry
      BY <1>1, Zenon DEF Entry, Overtake
    <2>2. Overtake(e).fetching = TRUE /\ Overtake(e).overtaken = TRUE
      BY <1>1 DEF Entry, Overtake
    <2> QED
      BY <2>1, <2>2 DEF Due, Tended
  <1>2. CASE ~e.fetching
    BY <1>2 DEF Overtake, Due
  <1> QED
    BY <1>1, <1>2

LEMMA RestartDue ==
    ASSUME NEW e \in Entry, now \in Nat
    PROVE Restart(e) \in Entry /\ Due(Restart(e)) /\ Tended(Restart(e))
  <1>1. CASE e.fetching /\ ~e.loaded
    <2>1. Restart(e) = Overtake(e)
      BY <1>1 DEF Restart
    <2>2. Tended(Overtake(e))
      BY <1>1, OvertakeDue DEF Tended
    <2> QED
      BY <1>1, <2>1, <2>2, OvertakeDue
  <1>2. CASE ~(e.fetching /\ ~e.loaded)
    BY <1>2, SendDue DEF Restart
  <1> QED
    BY <1>1, <1>2

LEMMA ObserveDue ==
    ASSUME NEW e \in Entry, now \in Nat, NEW path, NEW aged \in BOOLEAN
    PROVE /\ Observe(e, path, aged) \in Entry
          /\ Due(e) => Due(Observe(e, path, aged))
          /\ path \in case.mounting => Tended(Observe(e, path, aged))
  <1>1. Join(e) \in Entry /\ (Due(e) => Due(Join(e))) /\ Join(e).fetching
    BY SendDue DEF Join
  <1>2. CASE path \in case.mounting /\ (~e.loaded \/ e.invalid \/ aged)
    BY <1>1, <1>2 DEF Observe, Tended
  <1>3. CASE ~(path \in case.mounting /\ (~e.loaded \/ e.invalid \/ aged))
    BY <1>3 DEF Observe, Tended
  <1> QED
    BY <1>2, <1>3

LEMMA StoredDue ==
    ASSUME NEW e \in Entry, now \in Nat, NEW hit \in BOOLEAN, NEW asOf \in 0 .. now
    PROVE /\ Stored(e, hit, asOf) \in Entry
          /\ Tended(e) => Tended(Stored(e, hit, asOf))
          /\ hit /\ asOf = now => Due(Stored(e, hit, asOf))
          /\ ~hit => Stored(e, hit, asOf) = e
  <1>1. CASE hit
    <2> DEFINE f == Overtake(e)
               g == [f EXCEPT !.loaded = TRUE, !.asOf = asOf,
                              !.invalid = FALSE, !.error = FALSE]
    <2>1. Stored(e, hit, asOf) = g
      BY <1>1 DEF Stored
    <2>2. f \in Entry /\ (f.fetching => f.overtaken)
      <3>1. f \in Entry
        BY OvertakeDue
      <3>2. f.fetching => f.overtaken
        BY DEF Entry, Overtake
      <3> QED
        BY <3>1, <3>2
    <2> HIDE DEF f
    <2>3. g \in Entry
      BY <2>2, Zenon DEF Entry
    <2>4. /\ g.fetching = f.fetching /\ g.overtaken = f.overtaken
          /\ g.asOf = asOf /\ g.invalid = FALSE
      BY <2>2 DEF Entry
    <2> HIDE DEF g
    <2> QED
      BY <1>1, <2>1, <2>2, <2>3, <2>4 DEF Due, Tended
  <1>2. CASE ~hit
    BY <1>2 DEF Stored
  <1> QED
    BY <1>1, <1>2

LEMMA InvalidatedDue ==
    ASSUME NEW e \in Entry, now \in Nat, NEW hit \in BOOLEAN
    PROVE /\ Invalidated(e, hit) \in Entry
          /\ Mounted /\ Tended(e) => Tended(Invalidated(e, hit))
          /\ hit \/ Due(e) => Due(Invalidated(e, hit))
          /\ ~hit => Invalidated(e, hit) = e
  <1> DEFINE f == [e EXCEPT !.invalid = TRUE]
  <1>1. f \in Entry /\ f.invalid
    <2>1. f \in Entry
      BY Zenon DEF Entry
    <2>2. f.invalid
      BY DEF Entry
    <2> QED
      BY <2>1, <2>2
  <1> HIDE DEF f
  <1>2. CASE hit /\ Mounted
    BY <1>1, <1>2, RestartDue DEF Invalidated, f
  <1>3. CASE hit /\ ~Mounted
    BY <1>1, <1>3, OvertakeDue DEF Invalidated, f
  <1>4. CASE ~hit
    BY <1>4 DEF Invalidated
  <1> QED
    BY <1>2, <1>3, <1>4

LEMMA RemovedDue ==
    ASSUME NEW e \in Entry, now \in Nat, NEW hit \in BOOLEAN
    PROVE /\ Removed(e, hit) \in Entry
          /\ Tended(e) => Tended(Removed(e, hit))
          /\ hit \/ Due(e) => Due(Removed(e, hit))
          /\ ~hit => Removed(e, hit) = e
  <1>1. NoEntry \in Entry /\ Tended(NoEntry) /\ Due(NoEntry)
    <2>1. 0 \in 0 .. now
      OBVIOUS
    <2>2. NoEntry \in Entry
      BY <2>1, Zenon DEF NoEntry, Entry
    <2> QED
      BY <2>2 DEF NoEntry, Tended, Due
  <1>2. CASE hit /\ Mounted
    BY <1>1, <1>2, SendDue DEF Removed
  <1>3. CASE hit /\ ~Mounted
    BY <1>1, <1>3 DEF Removed
  <1>4. CASE ~hit
    BY <1>4 DEF Removed
  <1> QED
    BY <1>2, <1>3, <1>4

LEMMA RefetchedDue ==
    ASSUME NEW e \in Entry, now \in Nat, NEW hit \in BOOLEAN
    PROVE /\ Refetched(e, hit) \in Entry
          /\ Tended(e) => Tended(Refetched(e, hit))
          /\ hit \/ Due(e) => Due(Refetched(e, hit))
          /\ ~hit => Refetched(e, hit) = e
  BY RestartDue DEF Refetched

-----------------------------------------------------------------------------
\* The steps of an operation, of the case a behaviour is about.
LEMMA CaseShape ==
    ASSUME case \in Cases
    PROVE /\ Len(op.steps) \in Nat \ {0} /\ DOMAIN op.steps = 1 .. Len(op.steps)
          /\ \A i \in DOMAIN op.steps :
                /\ Len(op.steps[i].requests) \in Nat \ {0}
                /\ DOMAIN op.steps[i].requests = 1 .. Len(op.steps[i].requests)
  BY CasesAssumption DEF op

LEMMA InitIInv == Init => IInv
  <1> SUFFICES ASSUME Init PROVE IInv
    OBVIOUS
  <1>1. now = 0 /\ now \in Nat /\ now \in 0 .. MaxWrites /\ 0 \in 0 .. now
    BY BoundAssumption DEF Init
  <1>2. NoEntry \in Entry
    BY <1>1, Zenon DEF Entry, NoEntry
  <1>3. entry \in Entry /\ Tended(entry)
    BY <1>1, <1>2, SendDue DEF Init, Tended, NoEntry
  <1>4. 1 \in DOMAIN op.steps /\ 1 \in Nat \ {0}
    BY CaseShape DEF Init
  <1>5. task \in [ pc : {"idle", "asked", "served"}, step : DOMAIN op.steps,
                   request : Nat \ {0}, from : case.visits, servedAt : 0 .. now ]
    BY <1>1, <1>4, Zenon DEF Init, NoTask
  <1>6. task.pc = "idle" /\ cause = "none"
    BY DEF Init, NoTask
  <1> QED
    BY <1>1, <1>3, <1>5, <1>6 DEF IInv, TypeOK, Init, Entry

\* The steps that leave the task alone, and the writes: the entry moves.
LEMMA EntryStep ==
    ASSUME IInv, case' = case, UNCHANGED <<now, task, cause>>, screen' \in case.visits,
           entry' \in Entry, Mounted' => Tended(entry'), Due(entry) => Due(entry')
    PROVE IInv'
  <1>1. query' = query /\ op' = op
    BY DEF query, op
  <1>2. TypeOK'
    BY <1>1 DEF IInv, TypeOK, Entry, Requests
  <1>3. (Gap <=> Gap') /\ (Pending <=> Pending')
    BY <1>1 DEF Gap, Pending
  <1>4. Due(entry)' <=> Due(entry')
    BY DEF Due
  <1>5. Tended(entry)' <=> Tended(entry')
    BY DEF Tended
  <1> QED
    BY <1>2, <1>3, <1>4, <1>5 DEF IInv

\* The steps of the operation that leave entry, screen and case alone.
LEMMA TaskStep ==
    ASSUME IInv, UNCHANGED <<case, screen, entry>>,
           now' \in Nat, now <= now', now' <= MaxWrites,
           task' \in [ pc : {"idle", "asked", "served"}, step : DOMAIN op.steps,
                       request : Nat \ {0}, from : case.visits, servedAt : 0 .. now' ],
           task'.pc # "idle" =>
               task'.request \in DOMAIN op.steps[task'.step].requests,
           cause' \in {"none", "own", "torn", "elsewhere"},
           task'.pc = "served" /\ cause' = "own" => task'.servedAt = now',
           NoOtherGaps /\ cause' = "own" /\ ~Gap /\ ~Pending' => now' = now /\ Due(entry)
    PROVE IInv'
  <1>1. query' = query /\ op' = op
    BY DEF query, op
  <1>2. entry \in Entry
    BY DEF IInv, TypeOK, Entry
  <1>3. entry' \in [ loaded : BOOLEAN, asOf : 0 .. now', invalid : BOOLEAN,
                     error : BOOLEAN, fetching : BOOLEAN, sentAt : 0 .. now',
                     overtaken : BOOLEAN ]
    <2>1. now \in Nat
      BY DEF IInv, TypeOK
    <2>2. 0 .. now \subseteq 0 .. now'
      BY <2>1
    <2> QED
      BY <1>2, <2>2, Zenon DEF Entry
  <1>4. TypeOK'
    <2>1. now' \in 0 .. MaxWrites
      BY BoundAssumption
    <2>2. screen' \in case'.visits
      BY DEF IInv, TypeOK
    <2>3. (task.pc # "idle" => task.request \in DOMAIN Requests)'
      BY <1>1 DEF Requests
    <2> QED
      BY <1>1, <1>3, <2>1, <2>2, <2>3 DEF TypeOK
  <1>5. (Gap' <=> Gap) /\ case' \in Cases /\ (Mounted' => Tended(entry)')
    BY <1>1 DEF IInv, Gap, Mounted, Tended
  <1>6. now' = now /\ Due(entry) => Due(entry)'
    BY DEF Due
  <1> QED
    BY <1>4, <1>5, <1>6 DEF IInv

\* The last answer of a step: what the step's keys do to the entry.
LEMMA EffectsDue ==
    ASSUME IInv, task.pc = "served", NEW step,
           step = op.steps[task.step]
    PROVE /\ Effects(step) \in Entry
          /\ Mounted => Tended(Effects(step))
          /\ cause = "own" /\ CoversAt(case, task.step) => Due(Effects(step))
          /\ ~CoversAt(case, task.step) => Effects(step) = entry
  <1> DEFINE a == Stored(entry, Hit(step.stores), task.servedAt)
             b == Invalidated(a, Hit(step.invalidates))
             d == Removed(b, Hit(step.removes))
             c == Refetched(d, Hit(step.refetches))
  <1>1. /\ Hit(step.stores) \in BOOLEAN /\ Hit(step.invalidates) \in BOOLEAN
        /\ Hit(step.removes) \in BOOLEAN /\ Hit(step.refetches) \in BOOLEAN
    BY DEF Hit
  <1>2. /\ entry \in Entry /\ now \in Nat /\ task.servedAt \in 0 .. now
        /\ Mounted => Tended(entry)
        /\ cause = "own" => task.servedAt = now
    BY DEF IInv, TypeOK, Entry
  <1>3. /\ a \in Entry
        /\ Mounted => Tended(a)
        /\ cause = "own" /\ Hit(step.stores) => Due(a)
        /\ ~Hit(step.stores) => a = entry
    BY <1>1, <1>2, StoredDue
  <1>4. /\ b \in Entry
        /\ Mounted => Tended(b)
        /\ Hit(step.invalidates) \/ Due(a) => Due(b)
        /\ ~Hit(step.invalidates) => b = a
    <2> HIDE DEF a
    <2> QED
      BY <1>1, <1>2, <1>3, InvalidatedDue
  <1>5. /\ d \in Entry
        /\ Mounted => Tended(d)
        /\ Hit(step.removes) \/ Due(b) => Due(d)
        /\ ~Hit(step.removes) => d = b
    <2> HIDE DEF b
    <2> QED
      BY <1>1, <1>2, <1>4, RemovedDue
  <1>6. /\ c \in Entry
        /\ Mounted => Tended(c)
        /\ Hit(step.refetches) \/ Due(d) => Due(c)
        /\ ~Hit(step.refetches) => c = d
    <2> HIDE DEF d
    <2> QED
      BY <1>1, <1>2, <1>5, RefetchedDue
  <1>7. CoversAt(case, task.step) <=>
            \/ Hit(step.stores) \/ Hit(step.invalidates)
            \/ Hit(step.removes) \/ Hit(step.refetches)
    BY DEF CoversAt, Hit, op, query
  <1>8. Effects(step) = c
    BY DEF Effects
  <1> HIDE DEF a, b, c, d
  <1> QED
    BY <1>3, <1>4, <1>5, <1>6, <1>7, <1>8

\* A write of the operation leaves a key that covers it to come.
LEMMA WritePends ==
    ASSUME IInv, NoOtherGaps, ~Gap, task.pc = "asked", WritesHere(ThisRequest)
    PROVE \E k \in task.step .. Len(op.steps) : CoversAt(case, k)
  <1>1. task.step \in DOMAIN op.steps /\ task.request \in DOMAIN Requests
    BY DEF IInv, TypeOK
  <1>2. WritesAt(case, task.step)
    BY <1>1 DEF WritesAt, WritesHere, ThisRequest, Requests, op, query
  <1> QED
    BY <1>1, <1>2 DEF NoOtherGaps, Gap, op, query, IInv

LEMMA SettleIInv == ASSUME IInv, Settle PROVE IInv'
  <1> DEFINE e == Effects(op.steps[task.step])
             n == Len(op.steps)
  <1>1. /\ case' = case /\ now' = now /\ cause' = cause
        /\ query' = query /\ op' = op
    BY DEF Settle, query, op
  <1>2. /\ now \in Nat /\ task.step \in 1 .. n /\ n \in Nat /\ task.pc = "served"
        /\ case \in Cases /\ screen \in case.visits
    BY CaseShape DEF IInv, TypeOK, Settle
  <1>3. /\ e \in Entry
        /\ Mounted => Tended(e)
        /\ cause = "own" /\ CoversAt(case, task.step) => Due(e)
        /\ ~CoversAt(case, task.step) => e = entry
    BY <1>2, EffectsDue
  <1> HIDE DEF e
  <1>4. SUFFICES ASSUME entry' \in Entry, screen' \in case.visits,
                        Mounted' => Tended(entry'), Due(e) => Due(entry'),
                        task' \in [ pc : {"idle", "asked", "served"},
                                    step : DOMAIN op.steps, request : Nat \ {0},
                                    from : case.visits, servedAt : 0 .. now ],
                        task'.pc # "idle" => task'.request \in DOMAIN op.steps[task'.step].requests,
                        task'.pc # "served",
                        Pending /\ ~CoversAt(case, task.step) => Pending'
                 PROVE IInv'
    <2>1. CASE task.step < n
      <3>1. /\ task' = [task EXCEPT !.pc = "asked", !.step = @ + 1, !.request = 1]
            /\ entry' = e /\ screen' = screen
        BY <2>1 DEF Settle, e, n
      <3>2. task.step + 1 \in DOMAIN op.steps /\ 1 \in Nat \ {0}
        BY <1>2, <2>1, CaseShape
      <3>3. task' \in [ pc : {"idle", "asked", "served"}, step : DOMAIN op.steps,
                        request : Nat \ {0}, from : case.visits, servedAt : 0 .. now ]
        BY <3>1, <3>2, Zenon DEF IInv, TypeOK
      <3>4. task'.pc = "asked" /\ task'.step = task.step + 1 /\ task'.request = 1
        BY <3>1 DEF IInv, TypeOK
      <3>5. 1 \in DOMAIN op.steps[task'.step].requests
        BY <1>2, <3>2, <3>4, CaseShape
      <3>6. Mounted' <=> Mounted
        BY <1>1, <3>1 DEF Mounted
      <3>7. Pending /\ ~CoversAt(case, task.step) => Pending'
        <4> SUFFICES ASSUME Pending, ~CoversAt(case, task.step) PROVE Pending'
          OBVIOUS
        <4>1. PICK k \in task.step .. n : CoversAt(case, k)
          BY DEF Pending
        <4>2. k \in task'.step .. Len(op'.steps)
          BY <1>1, <1>2, <3>4, <4>1
        <4>3. task'.pc # "idle"
          BY <3>4
        <4> QED
          BY <1>1, <4>1, <4>2, <4>3 DEF Pending
      <3> QED
        BY <1>2, <1>3, <3>1, <3>3, <3>4, <3>5, <3>6, <3>7
    <2>2. CASE ~(task.step < n)
      <3>1. task' = [task EXCEPT !.pc = "idle"]
        BY <2>2 DEF Settle, n
      <3>2. task' \in [ pc : {"idle", "asked", "served"}, step : DOMAIN op.steps,
                        request : Nat \ {0}, from : case.visits, servedAt : 0 .. now ]
        BY <3>1, Zenon DEF IInv, TypeOK
      <3>3. task'.pc = "idle"
        BY <3>1 DEF IInv, TypeOK
      <3>4. Pending => CoversAt(case, task.step)
        <4> SUFFICES ASSUME Pending PROVE CoversAt(case, task.step)
          OBVIOUS
        <4>1. PICK k \in task.step .. n : CoversAt(case, k)
          BY DEF Pending
        <4>2. k = task.step
          BY <1>2, <2>2, <4>1
        <4> QED
          BY <4>1, <4>2
      <3>5. \/ \E aged \in BOOLEAN : /\ screen' = op.leads /\ op.leads \in case.visits
                                     /\ entry' = Observe(e, op.leads, aged)
            \/ entry' = e /\ screen' = screen
        BY <2>2 DEF Settle, e, n
      <3>6. CASE \E aged \in BOOLEAN : /\ screen' = op.leads /\ op.leads \in case.visits
                                       /\ entry' = Observe(e, op.leads, aged)
        <4>1. Mounted' => op.leads \in case.mounting
          BY <1>1, <3>6 DEF Mounted
        <4>2. /\ entry' \in Entry /\ (Due(e) => Due(entry')) /\ screen' \in case.visits
              /\ op.leads \in case.mounting => Tended(entry')
          BY <1>2, <1>3, <3>6, ObserveDue
        <4> QED
          BY <3>2, <3>3, <3>4, <4>1, <4>2
      <3>7. CASE entry' = e /\ screen' = screen
        <4>1. Mounted' <=> Mounted
          BY <1>1, <3>7 DEF Mounted
        <4> QED
          BY <1>2, <1>3, <3>2, <3>3, <3>4, <3>7, <4>1
      <3> QED
        BY <3>5, <3>6, <3>7
    <2> QED
      BY <2>1, <2>2
  <1>5. TypeOK'
    BY <1>1, <1>2, <1>4 DEF TypeOK, Entry, Requests, IInv
  <1>6. (Gap' <=> Gap) /\ case' \in Cases
    BY <1>1, <1>2 DEF Gap
  <1>7. (Mounted => Tended(entry))'
    BY <1>4 DEF Tended
  <1>8. NoOtherGaps /\ cause' = "own" /\ ~Gap /\ ~Pending' => Due(entry)'
    <2> SUFFICES ASSUME NoOtherGaps, cause = "own", ~Gap, ~Pending' PROVE Due(entry)'
      BY <1>1
    <2>1. Due(e)
      <3>1. CASE CoversAt(case, task.step)
        BY <1>3, <3>1
      <3>2. CASE ~CoversAt(case, task.step)
        BY <1>3, <1>4, <3>2 DEF IInv
      <3> QED
        BY <3>1, <3>2
    <2> QED
      BY <1>1, <1>4, <2>1 DEF Due
  <1> QED
    BY <1>4, <1>5, <1>6, <1>7, <1>8 DEF IInv

LEMMA NextIInv == ASSUME IInv, [Next]_vars PROVE IInv'
  <1>0. /\ now \in Nat /\ now <= MaxWrites /\ entry \in Entry /\ case \in Cases
        /\ screen \in case.visits
        /\ task \in [ pc : {"idle", "asked", "served"}, step : DOMAIN op.steps,
                      request : Nat \ {0}, from : case.visits, servedAt : 0 .. now ]
        /\ task.pc # "idle" => task.request \in DOMAIN Requests
        /\ Mounted => Tended(entry)
    BY BoundAssumption DEF IInv, TypeOK, Entry
  <1>1. CASE Open
    <2>1. PICK path \in case.visits \ {screen}, aged \in BOOLEAN :
              screen' = path /\ entry' = Observe(entry, path, aged)
      BY <1>1 DEF Open
    <2>2. case' = case /\ UNCHANGED <<now, task, cause>>
      BY <1>1 DEF Open
    <2>3. Mounted' => path \in case.mounting
      BY <2>1, <2>2 DEF Mounted
    <2> QED
      BY <1>0, <2>1, <2>2, <2>3, ObserveDue, EntryStep
  <1>2. CASE Forget
    <2>1. NoEntry \in Entry /\ Tended(NoEntry) /\ Due(NoEntry)
      <3>1. 0 \in 0 .. now
        BY <1>0
      <3>2. NoEntry \in Entry
        BY <3>1, Zenon DEF NoEntry, Entry
      <3> QED
        BY <3>2 DEF NoEntry, Tended, Due
    <2>2. case' = case /\ UNCHANGED <<screen, now, task, cause>> /\ entry' = NoEntry
      BY <1>2 DEF Forget
    <2> QED
      BY <1>0, <2>1, <2>2, EntryStep
  <1>3. CASE Poll
    <2>1. case' = case /\ UNCHANGED <<screen, now, task, cause>> /\ entry' = Send(entry)
      BY <1>3 DEF Poll
    <2> QED
      BY <1>0, <2>1, SendDue, EntryStep
  <1>4. CASE Push
    <2>1. /\ case' = case /\ UNCHANGED <<screen, now, task, cause>> /\ Mounted
          /\ entry' = Invalidated(entry, TRUE)
      BY <1>4 DEF Push
    <2> QED
      BY <1>0, <2>1, InvalidatedDue, EntryStep
  <1>5. CASE Answer
    <2>1. PICK m \in entry.sentAt .. now :
              entry' = [entry EXCEPT !.loaded = TRUE, !.asOf = m, !.invalid = FALSE,
                                     !.error = FALSE, !.fetching = FALSE]
      BY <1>5 DEF Answer
    <2>2. case' = case /\ UNCHANGED <<screen, now, task, cause>> /\ entry.fetching
      BY <1>5 DEF Answer
    <2>3. m \in 0 .. now
      BY <1>0 DEF Entry
    <2>4. entry' \in Entry
      BY <1>0, <2>1, <2>3, Zenon DEF Entry
    <2>5. /\ entry'.asOf = m /\ entry'.invalid = FALSE /\ entry'.fetching = FALSE
          /\ entry'.overtaken = entry.overtaken
      BY <1>0, <2>1 DEF Entry
    <2>6. Due(entry) => Due(entry')
      <3> SUFFICES ASSUME Due(entry) PROVE Due(entry')
        OBVIOUS
      <3>1. ~entry.overtaken => m = now
        BY <1>0, <2>1, <2>2 DEF Due, Entry
      <3> QED
        BY <2>5, <3>1 DEF Due
    <2>7. Tended(entry')
      BY <2>5 DEF Tended
    <2> QED
      BY <1>0, <2>2, <2>4, <2>6, <2>7, EntryStep
  <1>6. CASE Fail
    <2>1. /\ case' = case /\ UNCHANGED <<screen, now, task, cause>>
          /\ entry' = [entry EXCEPT !.error = TRUE, !.fetching = FALSE]
      BY <1>6 DEF Fail
    <2>2. entry' \in Entry
      BY <1>0, <2>1, Zenon DEF Entry
    <2>3. entry'.error = TRUE /\ entry'.fetching = FALSE
      BY <1>0, <2>1 DEF Entry
    <2> QED
      BY <1>0, <2>1, <2>2, <2>3, EntryStep DEF Due, Tended
  <1>7. CASE Begin
    <2>1. /\ UNCHANGED <<case, screen, entry, now, cause>> /\ task.pc = "idle"
          /\ task' = [NoTask EXCEPT !.pc = "asked"]
      BY <1>7 DEF Begin
    <2>2. 1 \in DOMAIN op.steps /\ 1 \in Nat \ {0} /\ 0 \in 0 .. now
      BY <1>0, CaseShape
    <2>3. task' \in [ pc : {"idle", "asked", "served"}, step : DOMAIN op.steps,
                      request : Nat \ {0}, from : case.visits, servedAt : 0 .. now' ]
      <3>1. NoTask \in [ pc : {"idle", "asked", "served"}, step : DOMAIN op.steps,
                         request : Nat \ {0}, from : case.visits, servedAt : 0 .. now ]
        BY <1>0, <2>2, Zenon DEF NoTask
      <3> QED
        BY <2>1, <3>1, Zenon
    <2>4. task'.pc = "asked" /\ task'.step = 1 /\ task'.request = 1
      BY <2>1 DEF NoTask
    <2>5. task'.request \in DOMAIN op.steps[task'.step].requests
      BY <1>0, <2>2, <2>4, CaseShape
    <2>6. NoOtherGaps /\ cause = "own" /\ ~Gap => Due(entry)
      BY <2>1 DEF IInv, Pending
    <2>7. cause \in {"none", "own", "torn", "elsewhere"}
      BY DEF IInv, TypeOK
    <2>8. now' \in Nat /\ now <= now' /\ now' <= MaxWrites
      BY <1>0, <2>1
    <2> QED
      BY <2>1, <2>3, <2>4, <2>5, <2>6, <2>7, <2>8, TaskStep
  <1>8. CASE Serve
    <2>1. /\ UNCHANGED <<case, screen, entry>> /\ task.pc = "asked"
          /\ task' = [task EXCEPT !.pc = "served", !.servedAt = now']
      BY <1>8 DEF Serve
    <2>2. \/ WritesHere(ThisRequest) /\ now < MaxWrites /\ now' = now + 1 /\ cause' = "own"
          \/ ~WritesHere(ThisRequest) /\ now' = now /\ cause' = cause
      BY <1>8 DEF Serve
    <2>3. now' \in Nat /\ now <= now' /\ now' <= MaxWrites
      BY <1>0, <2>2, BoundAssumption
    <2>4. task' \in [ pc : {"idle", "asked", "served"}, step : DOMAIN op.steps,
                      request : Nat \ {0}, from : case.visits, servedAt : 0 .. now' ]
      <3>1. now' \in 0 .. now' /\ 0 .. now \subseteq 0 .. now'
        BY <1>0, <2>3
      <3>2. task \in [ pc : {"idle", "asked", "served"}, step : DOMAIN op.steps,
                       request : Nat \ {0}, from : case.visits, servedAt : 0 .. now' ]
        BY <1>0, <3>1, Zenon
      <3> QED
        BY <2>1, <3>1, <3>2, Zenon
    <2>5. /\ task'.pc = "served" /\ task'.servedAt = now' /\ task'.step = task.step
          /\ task'.request = task.request
      BY <1>0, <2>1
    <2>6. task'.request \in DOMAIN op.steps[task'.step].requests
      BY <1>0, <2>1, <2>5 DEF Requests
    <2>7. cause' \in {"none", "own", "torn", "elsewhere"}
      BY <2>2 DEF IInv, TypeOK
    <2>8. Pending' <=> \E k \in task.step .. Len(op.steps) : CoversAt(case, k)
      BY <2>1, <2>5 DEF Pending, op
    <2>9. NoOtherGaps /\ cause' = "own" /\ ~Gap /\ ~Pending' => now' = now /\ Due(entry)
      BY <2>1, <2>2, <2>8, WritePends DEF IInv, Pending
    <2> QED
      BY <2>1, <2>3, <2>4, <2>5, <2>6, <2>7, <2>9, TaskStep
  <1>9. CASE Continue
    <2>1. /\ UNCHANGED <<case, screen, now, entry, cause>> /\ task.pc = "served"
          /\ task' = [task EXCEPT !.pc = "asked", !.request = @ + 1]
          /\ task.request < Len(Requests)
      BY <1>9 DEF Continue
    <2>2. task.request + 1 \in Nat \ {0} /\ task.request + 1 \in DOMAIN Requests
      BY <1>0, <2>1, CaseShape DEF Requests
    <2>3. task' \in [ pc : {"idle", "asked", "served"}, step : DOMAIN op.steps,
                      request : Nat \ {0}, from : case.visits, servedAt : 0 .. now' ]
      BY <1>0, <2>1, <2>2, Zenon
    <2>4. task'.pc = "asked" /\ task'.request = task.request + 1 /\ task'.step = task.step
      BY <1>0, <2>1
    <2>5. task'.request \in DOMAIN op.steps[task'.step].requests
      BY <2>2, <2>4 DEF Requests
    <2>6. Pending' <=> Pending
      BY <2>1, <2>4 DEF Pending, op
    <2>7. cause' \in {"none", "own", "torn", "elsewhere"}
      BY <2>1 DEF IInv, TypeOK
    <2>8. now' \in Nat /\ now <= now' /\ now' <= MaxWrites
      BY <1>0, <2>1
    <2>9. NoOtherGaps /\ cause' = "own" /\ ~Gap /\ ~Pending' => now' = now /\ Due(entry)
      BY <2>1, <2>6 DEF IInv
    <2> QED
      BY <2>1, <2>3, <2>4, <2>5, <2>7, <2>8, <2>9, TaskStep
  <1>10. CASE Settle
    BY <1>10, SettleIInv
  <1>11. CASE Refuse \/ Lose
    <2>1. /\ UNCHANGED <<case, screen, now, entry>>
          /\ task' = [task EXCEPT !.pc = "idle"]
          /\ cause' = IF cause = "own" THEN "torn" ELSE cause
      BY <1>11 DEF Refuse, Lose, Tear
    <2>2. task' \in [ pc : {"idle", "asked", "served"}, step : DOMAIN op.steps,
                      request : Nat \ {0}, from : case.visits, servedAt : 0 .. now' ]
      BY <1>0, <2>1, Zenon
    <2>3. task'.pc = "idle"
      BY <1>0, <2>1
    <2>4. cause' # "own" /\ cause' \in {"none", "own", "torn", "elsewhere"}
      BY <2>1 DEF IInv, TypeOK
    <2>5. now' \in Nat /\ now <= now' /\ now' <= MaxWrites
      BY <1>0, <2>1
    <2> QED
      BY <2>1, <2>2, <2>3, <2>4, <2>5, TaskStep
  <1>12. CASE Elsewhere
    <2>1. /\ UNCHANGED <<case, screen, entry, task>> /\ now < MaxWrites
          /\ now' = now + 1 /\ cause' = "elsewhere"
      BY <1>12 DEF Elsewhere
    <2>2. now' \in Nat /\ now <= now' /\ now' <= MaxWrites
      BY <1>0, <2>1, BoundAssumption
    <2>3. 0 .. now \subseteq 0 .. now'
      BY <1>0, <2>2
    <2>4. task' \in [ pc : {"idle", "asked", "served"}, step : DOMAIN op.steps,
                      request : Nat \ {0}, from : case.visits, servedAt : 0 .. now' ]
      BY <1>0, <2>1, <2>3, Zenon
    <2>5. task'.pc # "idle" => task'.request \in DOMAIN op.steps[task'.step].requests
      BY <1>0, <2>1 DEF Requests
    <2> QED
      BY <2>1, <2>2, <2>4, <2>5, TaskStep
  <1>13. CASE Watch
    <2>1. case' = case /\ UNCHANGED <<screen, now, task, cause>> /\ entry' = Restart(entry)
      BY <1>13 DEF Watch
    <2> QED
      BY <1>0, <2>1, RestartDue, EntryStep
  <1>14. CASE UNCHANGED vars
    <2>1. case' = case /\ UNCHANGED <<screen, now, task, cause>> /\ entry' = entry
      BY <1>14 DEF vars
    <2>2. Mounted' <=> Mounted
      BY <2>1 DEF Mounted
    <2> QED
      BY <1>0, <2>1, <2>2, EntryStep
  <1> QED
    BY <1>1, <1>2, <1>3, <1>4, <1>5, <1>6, <1>7, <1>8, <1>9, <1>10, <1>11, <1>12, <1>13,
       <1>14 DEF Next

LEMMA Invariance == Spec => []IInv
  <1>1. IInv /\ [Next]_vars => IInv'
    BY NextIInv
  <1> QED
    BY <1>1, InitIInv, PTL DEF Spec

\* Every state of every behaviour is of its type.
THEOREM CacheTypes == Spec => []TypeOK
  <1>1. IInv => TypeOK
    BY DEF IInv
  <1> QED
    BY <1>1, Invariance, PTL

\* If every operation that writes what a page reads names a key that covers it, or
\* the pair is listed as a gap, the pages of an operation are current once it is
\* over: for every set of cases, every list of gaps and every number of writes.
THEOREM OwnScreens == NoOtherGaps => (Spec => []OwnScreenIsCurrent)
  <1> SUFFICES ASSUME NoOtherGaps PROVE Spec => []OwnScreenIsCurrent
    OBVIOUS
  <1>1. IInv => OwnScreenIsCurrent
    <2> SUFFICES ASSUME IInv, task.pc = "idle", Showing, ~entry.overtaken,
                        cause = "own", ~Gap
                 PROVE entry.asOf = now
      BY DEF OwnScreenIsCurrent
    <2>1. ~Pending
      BY DEF Pending
    <2>2. Due(entry) /\ Tended(entry)
      BY <2>1 DEF IInv, Showing
    <2> QED
      BY <2>2 DEF Due, Tended, Showing
  <1> QED
    BY <1>1, Invariance, PTL
=============================================================================
