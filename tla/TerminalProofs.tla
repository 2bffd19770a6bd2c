---------------------------- MODULE TerminalProofs -----------------------------
(***************************************************************************)
(* GraceOnlyForTheLeft and ConnectedIsOpen, for any number of sockets and  *)
(* of components that have gone.                                           *)
(*                                                                         *)
(* Whether a grace may run is decided by reference counts, which a dying   *)
(* entry hands on to the next. Counted is what makes them right: an entry  *)
(* counts at least the components that hold it or hear it, and one whose   *)
(* grace runs counts none. Succeeded says what it takes for the handle to  *)
(* have an heir: it is CLOSED, and no longer the entry under the key.      *)
(***************************************************************************)
EXTENDS Terminal, TLAPS

Counted ==
    /\ \A s \in Sockets : refCount[s] >= ghosts[s] + (IF Hears(s) THEN 1 ELSE 0)
    /\ \A s \in Sockets : closeTimer[s] => refCount[s] = 0

Succeeded ==
    view.heir # NoSocket =>
        view.handle \in Sockets /\ Closed(view.handle) /\ registered # view.handle

IInv == TypeOK /\ Counted /\ Succeeded /\ ConnectedIsOpen

\* The states of a socket.
States == {"CONNECTING", "OPEN", "CLOSING", "CLOSED", "ENDED"}
View == [ mounted : BOOLEAN, frame : Frames, handle : Sockets \cup {NoSocket},
          heir : Sockets \cup {NoSocket}, connecting : BOOLEAN, connected : BOOLEAN,
          attempts : 0 .. maxReconnectAttempts, retry : BOOLEAN ]

USE DEF States

-------------------------------------------------------------------------------
\* The conjunction of counts is about the left.
LEMMA CountedLeft ==
    ASSUME TypeOK, Counted
    PROVE GraceOnlyForTheLeft
  <1> SUFFICES ASSUME NEW s \in Sockets, closeTimer[s]
               PROVE ~Hears(s) /\ ghosts[s] = 0
    BY DEF GraceOnlyForTheLeft
  <1>1. refCount[s] = 0 /\ ghosts[s] \in Nat
    BY DEF Counted, TypeOK
  <1>2. 0 >= ghosts[s] + (IF Hears(s) THEN 1 ELSE 0)
    BY <1>1 DEF Counted
  <1> QED
    BY <1>1, <1>2

\* What an entry counts after detach.
LEMMA DetachCounts ==
    ASSUME TypeOK, Counted, NEW h \in Sockets, view.handle = h
    PROVE /\ RefsAfterDetach(h) \in [Sockets -> Nat]
          /\ TimersAfterDetach(h) \in [Sockets -> BOOLEAN]
          /\ \A s \in Sockets : RefsAfterDetach(h)[s] >= ghosts[s]
          /\ \A s \in Sockets : TimersAfterDetach(h)[s] => RefsAfterDetach(h)[s] = 0
          /\ \A s \in Sockets : closeTimer[s] => RefsAfterDetach(h)[s] = 0
  <1>1. refCount \in [Sockets -> Nat] /\ closeTimer \in [Sockets -> BOOLEAN]
        /\ ghosts \in [Sockets -> Nat]
    BY DEF TypeOK
  <1>2. refCount[h] >= ghosts[h] + 1 /\ refCount[h] > 0
    <2>1. Hears(h)
      BY SocketsAssumption DEF Hears
    <2> QED
      BY <1>1, <2>1 DEF Counted
  <1>3. /\ RefsAfterDetach(h) \in [Sockets -> Nat]
        /\ RefsAfterDetach(h)[h] = refCount[h] - 1
        /\ \A s \in Sockets \ {h} : RefsAfterDetach(h)[s] = refCount[s]
    BY <1>1, <1>2 DEF RefsAfterDetach
  <1>4. \A s \in Sockets \ {h} : refCount[s] >= ghosts[s]
    BY <1>1 DEF Counted
  <1>5. ~closeTimer[h]
    BY <1>2 DEF Counted
  <1>6. \A s \in Sockets : closeTimer[s] => s # h /\ RefsAfterDetach(h)[s] = 0
    BY <1>3, <1>5 DEF Counted
  <1>7. /\ TimersAfterDetach(h) \in [Sockets -> BOOLEAN]
        /\ \A s \in Sockets \ {h} : TimersAfterDetach(h)[s] = closeTimer[s]
        /\ TimersAfterDetach(h)[h] => RefsAfterDetach(h)[h] = 0
    BY <1>1, <1>5 DEF TimersAfterDetach
  <1> QED
    BY <1>1, <1>2, <1>3, <1>4, <1>6, <1>7

\* Attaching, when the entries count refs and hold timers, of which the one that
\* is attached to counts one holder more.
LEMMA AttachCounts ==
    ASSUME TypeOK, Ensurable,
           NEW sockets, NEW refs, NEW timers,
           sockets \in [Sockets -> States],
           refs \in [Sockets -> Nat], timers \in [Sockets -> BOOLEAN],
           \A s \in Sockets : refs[s] >= ghosts[s],
           \A s \in Sockets : timers[s] => refs[s] = 0,
           Attach(sockets, refs, timers)
    PROVE /\ Ensured \in Sockets
          /\ refCount' \in [Sockets -> Nat] /\ closeTimer' \in [Sockets -> BOOLEAN]
          /\ readyState' \in
                [Sockets -> States]
          /\ registered' = Ensured
          /\ refCount'[Ensured] >= ghosts[Ensured] + 1
          /\ \A s \in Sockets : refCount'[s] >= ghosts[s]
          /\ \A s \in Sockets : closeTimer'[s] => refCount'[s] = 0
  <1>1. Ensured \in Sockets
        /\ (Ensured = registered \/ ghosts[Ensured] = 0)
        /\ (Reusable => Ensured = registered)
    BY DEF Ensured, Ensurable, Unused, Reusable
  <1>2. ghosts \in [Sockets -> Nat] /\ registered \in Sockets \cup {NoSocket}
    BY DEF TypeOK
  <1> DEFINE n == IF registered = NoSocket THEN 0 ELSE refs[registered]
  <1>3. n \in Nat
    BY <1>2
  <1>4. refCount' = [refs EXCEPT ![Ensured] = n + 1]
    BY DEF Attach, AttachRefs
  <1>5. closeTimer' = [timers EXCEPT ![Ensured] = FALSE]
    BY DEF Attach, AttachTimers
  <1>6. n + 1 >= ghosts[Ensured] + 1
    <2>1. CASE Ensured = registered
      <3>1. n = refs[Ensured]
        BY <1>1, <2>1, SocketsAssumption
      <3> QED
        BY <1>1, <1>2, <3>1
    <2>2. CASE ghosts[Ensured] = 0
      BY <1>3, <2>2
    <2> QED
      BY <1>1, <2>1, <2>2
  <1> HIDE DEF n
  <1>7. refCount' \in [Sockets -> Nat] /\ refCount'[Ensured] = n + 1
        /\ \A s \in Sockets \ {Ensured} : refCount'[s] = refs[s]
    BY <1>1, <1>3, <1>4
  <1>8. closeTimer' \in [Sockets -> BOOLEAN] /\ ~closeTimer'[Ensured]
        /\ \A s \in Sockets \ {Ensured} : closeTimer'[s] = timers[s]
    BY <1>1, <1>5
  <1>9. registered' = Ensured /\ readyState' \in
            [Sockets -> States]
    BY <1>1 DEF Attach
  <1> QED
    BY <1>1, <1>2, <1>3, <1>6, <1>7, <1>8, <1>9

-------------------------------------------------------------------------------
\* A component that is attached to an entry. It is not connected yet, unless it was
\* through an heir of the entry it held before.
LEMMA HolderAttached ==
    ASSUME TypeOK, Ensurable,
           NEW sockets, NEW refs, NEW timers,
           sockets \in [Sockets -> States],
           refs \in [Sockets -> Nat], timers \in [Sockets -> BOOLEAN],
           \A s \in Sockets : refs[s] >= ghosts[s],
           \A s \in Sockets : timers[s] => refs[s] = 0,
           Attach(sockets, refs, timers),
           view' \in View, view'.handle = Ensured, view'.heir = NoSocket,
           view'.connected => sockets = readyState /\ view'.connecting /\ ~view'.retry,
           UNCHANGED <<ghosts, lateFrame, up>>
    PROVE IInv'
  <1>1. /\ Ensured \in Sockets
        /\ refCount' \in [Sockets -> Nat] /\ closeTimer' \in [Sockets -> BOOLEAN]
        /\ readyState' \in
              [Sockets -> States]
        /\ registered' = Ensured
        /\ refCount'[Ensured] >= ghosts[Ensured] + 1
        /\ \A s \in Sockets : refCount'[s] >= ghosts[s]
        /\ \A s \in Sockets : closeTimer'[s] => refCount'[s] = 0
    BY AttachCounts
  <1>2. TypeOK'
    BY <1>1 DEF TypeOK, View
  <1>3. Counted'
    <2>1. ghosts \in [Sockets -> Nat]
      BY DEF TypeOK
    <2> SUFFICES ASSUME NEW s \in Sockets
                 PROVE refCount'[s] >= ghosts[s] + (IF Hears(s)' THEN 1 ELSE 0)
      BY <1>1 DEF Counted
    <2>2. CASE s = Ensured
      BY <1>1, <2>1, <2>2
    <2>3. CASE s # Ensured
      <3>1. ~Hears(s)'
        BY <2>3 DEF Hears
      <3> QED
        BY <1>1, <2>1, <3>1
    <2> QED
      BY <2>2, <2>3
  <1>4. Succeeded'
    BY DEF Succeeded
  <1>5. ConnectedIsOpen'
    <2>0. Shown' = Ensured
      BY DEF Shown
    <2> SUFFICES ASSUME view'.connected
                 PROVE readyState'[Ensured] \notin {"CLOSED", "ENDED"}
      BY <1>1, <2>0 DEF ConnectedIsOpen, Closed
    <2>1. readyState' = IF Reusable THEN readyState
                                    ELSE [readyState EXCEPT ![Ensured] = "CONNECTING"]
      BY DEF Attach
    <2>2. readyState \in [Sockets -> States] /\ Ensured \in Sockets
      BY <1>1 DEF TypeOK
    <2>3. CASE Reusable
      BY <2>1, <2>3 DEF Closed, Reusable, Ensured
    <2>4. CASE ~Reusable
      BY <2>1, <2>2, <2>4
    <2> QED
      BY <2>3, <2>4
  <1> QED
    BY <1>2, <1>3, <1>4, <1>5 DEF IInv

\* connectWebSocket.
LEMMA ConnectKeeps ==
    ASSUME IInv, NEW v \in View, v.handle = view.handle, v.heir = view.heir,
           v.connected = view.connected, v.connecting = view.connecting,
           v.retry => view.retry,
           Connect(v), UNCHANGED <<ghosts, lateFrame, up>>
    PROVE IInv'
  <1> USE DEF manager
  <1>1. CASE v.connecting
    <2>1. view' = v /\ UNCHANGED manager
      BY <1>1 DEF Connect
    <2>2. TypeOK' /\ Counted' /\ Succeeded'
      BY <2>1 DEF IInv, TypeOK, Counted, Succeeded, Hears, Closed, View
    <2>3. ConnectedIsOpen'
      BY <2>1 DEF IInv, ConnectedIsOpen, Shown, Closed, IsOpen, View
    <2> QED
      BY <2>2, <2>3 DEF IInv
  <1>2. CASE ~v.connecting
    <2>1. Ensurable /\ view' = [v EXCEPT !.connecting = TRUE, !.handle = Ensured,
                                         !.heir = NoSocket]
      BY <1>2 DEF Connect
    <2>2. Ensured \in Sockets
      BY <2>1 DEF Ensured, Ensurable, Unused, Reusable
    <2>3. view' \in View
      BY <2>1, <2>2, Zenon DEF View
    <2>4. /\ view'.handle = Ensured /\ view'.heir = NoSocket /\ view'.connecting
          /\ view'.connected => ~view'.retry
      BY <2>1 DEF View, IInv, ConnectedIsOpen
    <2>5. CASE v.handle = NoSocket
      <3>1. Attach(readyState, refCount, closeTimer)
        BY <1>2, <2>5 DEF Connect
      <3>2. /\ refCount \in [Sockets -> Nat] /\ closeTimer \in [Sockets -> BOOLEAN]
            /\ readyState \in
                  [Sockets -> States]
            /\ ghosts \in [Sockets -> Nat]
        BY DEF IInv, TypeOK
      <3>3. \A s \in Sockets : refCount[s] >= ghosts[s]
        BY <3>2 DEF IInv, Counted
      <3>4. \A s \in Sockets : closeTimer[s] => refCount[s] = 0
        BY DEF IInv, Counted
      <3> QED
        BY <2>1, <2>3, <2>4, <3>1, <3>2, <3>3, <3>4, HolderAttached DEF IInv
    <2>6. CASE v.handle # NoSocket
      <3>1. v.handle \in Sockets
        BY <2>6 DEF View
      <3>2. Attach(readyState, RefsAfterDetach(v.handle), TimersAfterDetach(v.handle))
        BY <1>2, <2>6 DEF Connect
      <3>3. readyState \in
                [Sockets -> States]
        BY DEF IInv, TypeOK
      <3>4. /\ RefsAfterDetach(v.handle) \in [Sockets -> Nat]
            /\ TimersAfterDetach(v.handle) \in [Sockets -> BOOLEAN]
            /\ \A s \in Sockets : RefsAfterDetach(v.handle)[s] >= ghosts[s]
            /\ \A s \in Sockets :
                  TimersAfterDetach(v.handle)[s] => RefsAfterDetach(v.handle)[s] = 0
        BY <3>1, DetachCounts DEF IInv
      <3> QED
        BY <2>1, <2>3, <2>4, <3>2, <3>3, <3>4, HolderAttached DEF IInv
    <2> QED
      BY <2>5, <2>6
  <1> QED
    BY <1>1, <1>2

LEMMA InitIInv == Init => IInv
  <1> SUFFICES ASSUME Init PROVE IInv
    OBVIOUS
  <1>1. view = Away /\ registered = NoSocket
    BY DEF Init
  <1>2. Away \in View
    BY AttemptsAssumption DEF Away, View, Frames
  <1>3. TypeOK
    BY <1>1, <1>2 DEF Init, TypeOK, View
  <1>4. Counted
    BY <1>1, SocketsAssumption DEF Init, Counted, Hears, Away
  <1>5. Succeeded /\ ConnectedIsOpen
    BY <1>1 DEF Succeeded, ConnectedIsOpen, Away
  <1> QED
    BY <1>3, <1>4, <1>5 DEF IInv

-------------------------------------------------------------------------------
\* Steps that leave the counts, the holders and the timers alone.
LEMMA EventKeeps ==
    ASSUME IInv, NEW s \in Sockets, ~Closed(s),
           NEW state \in {"OPEN", "CLOSED", "ENDED"},
           readyState' = [readyState EXCEPT ![s] = state],
           view' \in View, view'.handle = view.handle, view'.heir = view.heir,
           ~Hears(s) => view' = view,
           Hears(s) /\ view'.connected => state = "OPEN" /\ ~view'.retry,
           UNCHANGED <<refCount, closeTimer, registered, ghosts, lateFrame, up>>
    PROVE IInv'
  <1>1. readyState \in [Sockets -> States]
    BY DEF IInv, TypeOK
  <1>2. readyState'[s] = state /\ \A t \in Sockets \ {s} : readyState'[t] = readyState[t]
    BY <1>1
  <1>3. TypeOK'
    BY <1>1 DEF IInv, TypeOK, View
  <1>4. Counted'
    BY DEF IInv, Counted, Hears
  <1>5. Succeeded'
    <2> SUFFICES ASSUME view.heir # NoSocket PROVE Closed(view.handle)'
      BY DEF IInv, Succeeded
    <2>1. view.handle \in Sockets \ {s} /\ Closed(view.handle)
      BY DEF IInv, Succeeded
    <2> QED
      BY <1>2, <2>1 DEF Closed
  <1>6. ConnectedIsOpen'
    <2> SUFFICES ASSUME view'.connected
                 PROVE /\ Shown' \in Sockets
                       /\ readyState'[Shown'] \notin {"CLOSED", "ENDED"}
                       /\ readyState'[Shown'] = "OPEN" \/ view'.connecting
                       /\ ~view'.retry
      BY DEF ConnectedIsOpen, Closed, IsOpen
    <2>1. CASE Hears(s)
      <3>1. Shown = s /\ Shown' = s
        BY <2>1 DEF IInv, Succeeded, Hears, Shown
      <3> QED
        BY <1>2, <2>1, <3>1
    <2>2. CASE ~Hears(s)
      <3>1. Shown \in Sockets \ {s} /\ Shown' = Shown /\ view' = view
        BY <2>2, SocketsAssumption DEF IInv, ConnectedIsOpen, Hears, Shown
      <3> QED
        BY <1>2, <2>2, <3>1 DEF IInv, ConnectedIsOpen, Closed, IsOpen
    <2> QED
      BY <2>1, <2>2
  <1> QED
    BY <1>3, <1>4, <1>5, <1>6 DEF IInv

LEMMA CloseKeeps ==
    ASSUME IInv, NEW s \in Sockets, NEW code \in {"CLOSED", "ENDED"}, ~Closed(s),
           Close(s, code)
    PROVE IInv'
  <1>1. view \in View
    BY DEF IInv, TypeOK, View
  <1>2. /\ readyState' = [readyState EXCEPT ![s] = code]
        /\ UNCHANGED <<refCount, closeTimer, registered, ghosts, lateFrame, up>>
    BY DEF Close
  <1>3. CASE ~Hears(s)
    <2>1. view' = view
      BY <1>3 DEF Close, OnClose
    <2> QED
      BY <1>1, <1>2, <1>3, <2>1, EventKeeps
  <1>4. CASE Hears(s)
    <2> DEFINE again == ~(code = "ENDED") /\ view.attempts < maxReconnectAttempts
               n == IF again THEN view.attempts + 1 ELSE view.attempts
    <2>1. view' = [view EXCEPT !.connecting = FALSE, !.connected = FALSE,
                               !.attempts = n, !.retry = again \/ view.retry]
      BY <1>4 DEF Close, OnClose
    <2>2. n \in 0 .. maxReconnectAttempts
      BY <1>1, AttemptsAssumption DEF View
    <2>3. (again \/ view.retry) \in BOOLEAN
      BY <1>1 DEF View
    <2> HIDE DEF n, again
    <2>4. view' \in View
      BY <1>1, <2>1, <2>2, <2>3, Zenon DEF View
    <2>5. view'.handle = view.handle /\ view'.heir = view.heir /\ ~view'.connected
      BY <1>1, <2>1 DEF View
    <2> QED
      BY <1>2, <1>4, <2>4, <2>5, EventKeeps
  <1> QED
    BY <1>3, <1>4

LEMMA OpenedKeeps ==
    ASSUME IInv, NEW s \in Sockets, Opened(s)
    PROVE IInv'
  <1>1. view \in View /\ ~Closed(s)
    BY DEF IInv, TypeOK, View, Opened, Closed
  <1>2. /\ readyState' = [readyState EXCEPT ![s] = "OPEN"]
        /\ UNCHANGED <<refCount, closeTimer, registered, ghosts, lateFrame, up>>
    BY DEF Opened
  <1>3. CASE ~Hears(s)
    <2>1. view' = view
      BY <1>3 DEF Opened
    <2> QED
      BY <1>1, <1>2, <1>3, <2>1, EventKeeps
  <1>4. CASE Hears(s)
    <2>1. view' = [view EXCEPT !.connecting = FALSE, !.connected = TRUE,
                               !.attempts = 0, !.retry = FALSE]
      BY <1>4 DEF Opened
    <2>2. 0 \in 0 .. maxReconnectAttempts
      BY AttemptsAssumption
    <2>3. view' \in View
      BY <1>1, <2>1, <2>2, Zenon DEF View
    <2>4. view'.handle = view.handle /\ view'.heir = view.heir /\ ~view'.retry
      BY <1>1, <2>1 DEF View
    <2> QED
      BY <1>1, <1>2, <1>4, <2>3, <2>4, EventKeeps
  <1> QED
    BY <1>3, <1>4

LEMMA GraceOverKeeps ==
    ASSUME IInv, NEW s \in Sockets, GraceOver(s)
    PROVE IInv'
  <1>1. ~Hears(s)
    BY CountedLeft DEF IInv, GraceOnlyForTheLeft, GraceOver
  <1>2. TypeOK'
    BY DEF IInv, TypeOK, GraceOver
  <1>3. Counted'
    BY DEF IInv, TypeOK, Counted, Hears, GraceOver
  <1>4. /\ view' = view /\ registered' = NoSocket
        /\ \A t \in Sockets \ {s} : readyState'[t] = readyState[t]
    BY DEF IInv, TypeOK, GraceOver
  <1>5. Succeeded'
    <2> SUFFICES ASSUME view.heir # NoSocket
                 PROVE /\ view.handle \in Sockets /\ Closed(view.handle)'
                       /\ registered' # view.handle
      BY <1>4 DEF Succeeded
    <2>1. view.handle \in Sockets \ {s} /\ Closed(view.handle)
      BY <1>1, SocketsAssumption DEF IInv, Succeeded, Hears
    <2> QED
      BY <1>4, <2>1, SocketsAssumption DEF Closed
  <1>6. ConnectedIsOpen'
    <2>1. Shown' = Shown
      BY <1>4 DEF Shown
    <2>2. Shown \in Sockets => Shown # s
      BY <1>1, SocketsAssumption DEF Hears, Shown
    <2> QED
      BY <1>4, <2>1, <2>2 DEF IInv, ConnectedIsOpen, IsOpen, Closed
  <1> QED
    BY <1>2, <1>3, <1>5, <1>6 DEF IInv

LEMMA UnmountKeeps == IInv /\ Unmount => IInv'
  <1> SUFFICES ASSUME IInv, Unmount PROVE IInv'
    OBVIOUS
  <1>1. view' = Away /\ ghosts' = ghosts /\ readyState' = readyState
        /\ registered' = registered /\ lateFrame' \in BOOLEAN /\ up' = up
    BY DEF Unmount, IInv, TypeOK
  <1>2. /\ Away \in View /\ Away.handle = NoSocket /\ Away.heir = NoSocket
        /\ ~Away.connected
    BY AttemptsAssumption DEF Away, View, Frames
  <1>3. /\ refCount' \in [Sockets -> Nat] /\ closeTimer' \in [Sockets -> BOOLEAN]
        /\ \A s \in Sockets : refCount'[s] >= ghosts[s]
        /\ \A s \in Sockets : closeTimer'[s] => refCount'[s] = 0
    <2>1. CASE view.handle = NoSocket
      <3>1. UNCHANGED <<refCount, closeTimer>>
        BY <2>1 DEF Unmount
      <3>2. refCount \in [Sockets -> Nat] /\ ghosts \in [Sockets -> Nat]
            /\ closeTimer \in [Sockets -> BOOLEAN]
        BY DEF IInv, TypeOK
      <3>3. \A s \in Sockets : refCount[s] >= ghosts[s]
        BY <3>2 DEF IInv, Counted
      <3> QED
        BY <3>1, <3>2, <3>3 DEF IInv, Counted
    <2>2. CASE view.handle # NoSocket
      <3>1. view.handle \in Sockets
        BY <2>2 DEF IInv, TypeOK
      <3>2. /\ refCount' = RefsAfterDetach(view.handle)
            /\ closeTimer' = TimersAfterDetach(view.handle)
        BY <2>2 DEF Unmount
      <3> QED
        BY <3>1, <3>2, DetachCounts DEF IInv
    <2> QED
      BY <2>1, <2>2
  <1>4. TypeOK'
    BY <1>1, <1>2, <1>3 DEF IInv, TypeOK, View
  <1>5. Counted'
    BY <1>1, <1>2, <1>3, SocketsAssumption DEF IInv, TypeOK, Counted, Hears
  <1>6. Succeeded' /\ ConnectedIsOpen'
    BY <1>1, <1>2 DEF Succeeded, ConnectedIsOpen
  <1> QED
    BY <1>4, <1>5, <1>6 DEF IInv

LEMMA LateConnectKeeps == IInv /\ LateConnect => IInv'
  <1> SUFFICES ASSUME IInv, LateConnect PROVE IInv'
    OBVIOUS
  <1>1. /\ refCount \in [Sockets -> Nat] /\ closeTimer \in [Sockets -> BOOLEAN]
        /\ readyState \in
              [Sockets -> States]
        /\ ghosts \in [Sockets -> Nat]
    BY DEF IInv, TypeOK
  <1>2. \A s \in Sockets : refCount[s] >= ghosts[s]
    BY <1>1 DEF IInv, Counted
  <1>3. /\ Ensurable /\ Attach(readyState, refCount, closeTimer)
        /\ view' = [view EXCEPT !.heir = Inherited]
        /\ ghosts' = [ghosts EXCEPT ![Ensured] = @ + 1] /\ up' = up /\ lateFrame' = FALSE
    BY DEF LateConnect
  <1>4. /\ Ensured \in Sockets
        /\ refCount' \in [Sockets -> Nat] /\ closeTimer' \in [Sockets -> BOOLEAN]
        /\ readyState' \in
              [Sockets -> States]
        /\ registered' = Ensured
        /\ \A s \in Sockets : closeTimer'[s] => refCount'[s] = 0
    BY <1>1, <1>2, <1>3, AttachCounts DEF IInv, Counted
  <1>5. view \in View /\ Inherited \in Sockets \cup {NoSocket}
    BY <1>4 DEF IInv, TypeOK, View, Inherited
  <1>6. view' \in View
    BY <1>3, <1>5, Zenon DEF View
  <1>7. /\ view'.handle = view.handle /\ view'.heir = Inherited
        /\ view'.connected = view.connected /\ view'.connecting = view.connecting
        /\ view'.retry = view.retry
    BY <1>3, <1>5 DEF View
  <1>8. /\ Reusable => /\ Ensured = registered /\ Inherited = view.heir
                       /\ readyState' = readyState
        /\ ~Reusable => /\ ghosts[Ensured] = 0 /\ ~Hears(Ensured)
                        /\ Ensured # view.handle
                        /\ readyState' = [readyState EXCEPT ![Ensured] = "CONNECTING"]
    BY <1>3 DEF Attach, Ensured, Ensurable, Unused, Reusable, Inherited, Hears
  <1>9. TypeOK'
    <2>1. ghosts' \in [Sockets -> Nat]
      BY <1>1, <1>3, <1>4
    <2> QED
      BY <1>3, <1>4, <1>6, <2>1 DEF IInv, TypeOK, View
  <1>10. Counted'
    <2> SUFFICES ASSUME NEW s \in Sockets
                 PROVE refCount'[s] >= ghosts'[s] + (IF Hears(s)' THEN 1 ELSE 0)
      BY <1>4 DEF Counted
    <2>1. refCount[s] >= ghosts[s] + (IF Hears(s) THEN 1 ELSE 0)
      BY DEF IInv, Counted
    <2>2. /\ refCount' = [refCount EXCEPT ![Ensured] =
                             (IF registered = NoSocket THEN 0 ELSE refCount[registered]) + 1]
          /\ registered \in Sockets \cup {NoSocket}
      BY <1>3 DEF Attach, AttachRefs, IInv, TypeOK
    <2>3. CASE s # Ensured
      <3>1. Hears(s)' => Hears(s)
        BY <1>7, <2>3 DEF Hears, Inherited
      <3> QED
        BY <1>1, <1>3, <1>4, <2>1, <2>2, <2>3, <3>1
    <2>4. CASE s = Ensured /\ Reusable
      <3>1. refCount'[s] = refCount[s] + 1
        BY <1>1, <1>4, <1>8, <2>2, <2>4, SocketsAssumption
      <3>2. ghosts'[s] = ghosts[s] + 1
        BY <1>1, <1>3, <1>4, <2>4
      <3>3. Hears(s)' <=> Hears(s)
        BY <1>7, <1>8, <2>4 DEF Hears
      <3> QED
        BY <1>1, <2>1, <3>1, <3>2, <3>3
    <2>5. CASE s = Ensured /\ ~Reusable
      <3>1. ghosts'[s] = 1
        BY <1>1, <1>3, <1>4, <1>8, <2>5
      <3>2. CASE Hears(registered)
        <4>1. registered \in Sockets
          BY <2>2, <3>2 DEF Hears
        <4>2. refCount[registered] >= 1
          BY <1>1, <3>2, <4>1 DEF IInv, Counted
        <4>3. refCount'[s] = refCount[registered] + 1
          BY <1>1, <1>4, <2>2, <2>5, <4>1, SocketsAssumption
        <4> QED
          BY <1>1, <3>1, <4>1, <4>2, <4>3
      <3>3. CASE ~Hears(registered)
        <4>1. ~Hears(s)'
          BY <1>7, <1>8, <2>5, <3>3 DEF Hears, Inherited
        <4>2. refCount'[s] >= 1
          BY <1>1, <1>4, <2>2, <2>5
        <4> QED
          BY <3>1, <4>1, <4>2
      <3> QED
        BY <3>2, <3>3
    <2> QED
      BY <2>3, <2>4, <2>5
  <1>11. Succeeded'
    <2> SUFFICES ASSUME view'.heir # NoSocket
                 PROVE /\ view.handle \in Sockets
                       /\ readyState'[view.handle] \in {"CLOSED", "ENDED"}
                       /\ registered' # view.handle
      BY <1>7 DEF Succeeded, Closed
    <2>1. CASE view.heir # NoSocket
      <3>1. view.handle \in Sockets /\ Closed(view.handle) /\ registered # view.handle
        BY <2>1 DEF IInv, Succeeded
      <3> QED
        BY <1>1, <1>4, <1>8, <3>1 DEF Closed
    <2>2. CASE view.heir = NoSocket
      <3>1. ~Reusable /\ Hears(registered)
        BY <1>7, <2>2 DEF Inherited
      <3>2. registered = view.handle /\ registered # NoSocket
        BY <2>2, <3>1 DEF Hears
      <3>3. view.handle \in Sockets /\ Closed(view.handle)
        BY <3>1, <3>2 DEF Reusable, IInv, TypeOK
      <3> QED
        BY <1>1, <1>4, <1>8, <3>1, <3>3 DEF Closed
    <2> QED
      BY <2>1, <2>2
  <1>12. ConnectedIsOpen'
    <2> SUFFICES ASSUME view.connected
                 PROVE /\ Shown' \in Sockets /\ ~Closed(Shown)'
                       /\ IsOpen(Shown)' \/ view.connecting
                       /\ ~view.retry
      BY <1>7 DEF ConnectedIsOpen
    <2>1. /\ Shown \in Sockets /\ ~Closed(Shown) /\ ~view.retry
          /\ IsOpen(Shown) \/ view.connecting
      BY DEF IInv, ConnectedIsOpen
    <2>2. Inherited = view.heir
      <3> SUFFICES ASSUME ~Reusable, Hears(registered) PROVE FALSE
        BY DEF Inherited
      <3>1. registered \in Sockets /\ Closed(registered)
        BY DEF Reusable, IInv, TypeOK, Hears
      <3>2. registered # Shown
        BY <2>1, <3>1
      <3>3. registered = view.handle /\ view.heir # NoSocket
        BY <3>2 DEF Hears, Shown
      <3> QED
        BY <3>3 DEF IInv, Succeeded
    <2>3. Shown' = Shown
      BY <1>7, <2>2 DEF Shown
    <2>4. readyState'[Shown] = readyState[Shown]
      <3>1. CASE Reusable
        BY <1>8, <3>1
      <3>2. CASE ~Reusable
        <4>1. Shown # Ensured
          BY <1>8, <2>1, <3>2, SocketsAssumption DEF Hears, Shown
        <4> QED
          BY <1>1, <1>4, <1>8, <2>1, <3>2, <4>1
      <3> QED
        BY <3>1, <3>2
    <2> QED
      BY <2>1, <2>3, <2>4 DEF Closed, IsOpen
  <1> QED
    BY <1>9, <1>10, <1>11, <1>12 DEF IInv

LEMMA ReconnectKeeps == IInv /\ Reconnect => IInv'
  <1> SUFFICES ASSUME IInv, Reconnect PROVE IInv'
    OBVIOUS
  <1> DEFINE h == view.handle
             closing == [readyState EXCEPT ![h] = IF Closed(h) THEN @ ELSE "CLOSING"]
  <1>1. /\ refCount \in [Sockets -> Nat] /\ closeTimer \in [Sockets -> BOOLEAN]
        /\ readyState \in
              [Sockets -> States]
        /\ ghosts \in [Sockets -> Nat]
    BY DEF IInv, TypeOK
  <1>2. Ensurable /\ UNCHANGED <<ghosts, lateFrame, up>>
    BY DEF Reconnect
  <1>3. Ensured \in Sockets
    BY <1>2 DEF Ensured, Ensurable, Unused, Reusable
  <1>4. view \in View /\ 0 \in 0 .. maxReconnectAttempts
    BY AttemptsAssumption DEF IInv, TypeOK, View
  <1>5. view' = [view EXCEPT !.retry = FALSE, !.attempts = 0, !.connected = FALSE,
                             !.connecting = TRUE, !.handle = Ensured, !.heir = NoSocket]
    BY DEF Reconnect
  <1>6. view' \in View
    BY <1>3, <1>4, <1>5, Zenon DEF View
  <1>7. view'.handle = Ensured /\ view'.heir = NoSocket /\ ~view'.connected
    BY <1>4, <1>5 DEF View
  <1>8. \A s \in Sockets : closeTimer[s] => refCount[s] = 0
    BY DEF IInv, Counted
  <1>9. CASE h = NoSocket
    <2>1. Attach(readyState, refCount, closeTimer)
      BY <1>9 DEF Reconnect
    <2>2. \A s \in Sockets : refCount[s] >= ghosts[s]
      BY <1>1 DEF IInv, Counted
    <2> QED
      BY <1>1, <1>2, <1>6, <1>7, <1>8, <2>1, <2>2, HolderAttached DEF IInv
  <1>10. CASE h # NoSocket
    <2>1. h \in Sockets
      BY <1>10 DEF IInv, TypeOK
    <2>2. Attach(closing, RefsAfterDetach(h), closeTimer)
      BY <1>10 DEF Reconnect
    <2>3. closing \in [Sockets -> States]
      BY <1>1, <2>1
    <2>4. /\ RefsAfterDetach(h) \in [Sockets -> Nat]
          /\ \A s \in Sockets : RefsAfterDetach(h)[s] >= ghosts[s]
          /\ \A s \in Sockets : closeTimer[s] => RefsAfterDetach(h)[s] = 0
      BY <2>1, DetachCounts DEF IInv
    <2> HIDE DEF closing
    <2> QED
      BY <1>1, <1>2, <1>6, <1>7, <2>2, <2>3, <2>4, HolderAttached DEF IInv
  <1> QED
    BY <1>9, <1>10

LEMMA FirstConnectKeeps == IInv /\ FirstConnect => IInv'
  <1> SUFFICES ASSUME IInv, FirstConnect PROVE IInv'
    OBVIOUS
  <1> DEFINE v == [view EXCEPT !.frame = "none"]
  <1>1. view \in View
    BY DEF IInv, TypeOK, View
  <1>2. v \in View /\ v.handle = view.handle /\ v.heir = view.heir
        /\ v.connected = view.connected
        /\ v.retry = view.retry /\ v.connecting = view.connecting
    BY <1>1 DEF View, Frames
  <1>3. UNCHANGED <<ghosts, lateFrame, up>>
    BY DEF FirstConnect
  <1> HIDE DEF v
  <1>4. CASE v.connecting \/ IsOpen(v.handle)
    <2>1. view' = v /\ UNCHANGED manager
      BY <1>4 DEF FirstConnect, v
    <2>2. TypeOK' /\ Counted' /\ Succeeded'
      BY <1>2, <1>3, <2>1
         DEF IInv, TypeOK, Counted, Succeeded, Hears, Closed, View, manager
    <2>3. ConnectedIsOpen'
      BY <1>2, <2>1 DEF IInv, ConnectedIsOpen, Shown, Closed, IsOpen, manager
    <2> QED
      BY <2>2, <2>3 DEF IInv
  <1>5. CASE ~(v.connecting \/ IsOpen(v.handle))
    <2>1. Connect(v)
      BY <1>5 DEF FirstConnect, v
    <2> QED
      BY <1>2, <1>3, <2>1, ConnectKeeps
  <1> QED
    BY <1>4, <1>5

LEMMA RetryKeeps == IInv /\ Retry => IInv'
  <1> SUFFICES ASSUME IInv, Retry PROVE IInv'
    OBVIOUS
  <1> DEFINE v == [view EXCEPT !.retry = FALSE]
  <1>1. view \in View
    BY DEF IInv, TypeOK, View
  <1>2. /\ v \in View /\ v.handle = view.handle /\ v.heir = view.heir
        /\ v.connected = view.connected /\ v.connecting = view.connecting /\ ~v.retry
    BY <1>1 DEF View
  <1>3. Connect(v) /\ UNCHANGED <<ghosts, lateFrame, up>>
    BY DEF Retry
  <1> HIDE DEF v
  <1> QED
    BY <1>2, <1>3, ConnectKeeps

LEMMA NextIInv == IInv /\ [Next]_vars => IInv'
  <1> SUFFICES ASSUME IInv, [Next]_vars PROVE IInv'
    OBVIOUS
  <1>1. view \in View
    BY DEF IInv, TypeOK, View
  <1>2. CASE Mount
    <2>1. /\ view' = [Away EXCEPT !.mounted = TRUE, !.frame = "open"]
          /\ UNCHANGED <<readyState, refCount, closeTimer, registered, ghosts, lateFrame, up>>
      BY <1>2 DEF Mount, manager
    <2>0. view' = [ mounted |-> TRUE, frame |-> "open", handle |-> NoSocket,
                    heir |-> NoSocket, connecting |-> FALSE, connected |-> FALSE, attempts |-> 0,
                    retry |-> FALSE ]
      BY <2>1 DEF Away
    <2>2. /\ view' \in View /\ view'.handle = NoSocket /\ view'.heir = NoSocket
          /\ ~view'.connected
      BY <2>0, AttemptsAssumption DEF View, Frames
    <2>3. TypeOK'
      BY <2>1, <2>2 DEF IInv, TypeOK, View
    <2>4. Counted'
      BY <2>1, <2>2, SocketsAssumption DEF IInv, TypeOK, Counted, Hears
    <2>5. Succeeded' /\ ConnectedIsOpen'
      BY <2>2 DEF Succeeded, ConnectedIsOpen
    <2> QED
      BY <2>3, <2>4, <2>5 DEF IInv
  <1>3. CASE Open
    <2>1. /\ view' = [view EXCEPT !.frame = "connect"]
          /\ UNCHANGED <<readyState, refCount, closeTimer, registered, ghosts, lateFrame, up>>
      BY <1>3 DEF Open, manager
    <2>2. /\ view' \in View /\ view'.handle = view.handle /\ view'.heir = view.heir
          /\ view'.connected = view.connected /\ view'.connecting = view.connecting
          /\ view'.retry = view.retry
      BY <1>1, <2>1 DEF View, Frames
    <2>3. TypeOK' /\ Counted' /\ Succeeded' /\ ConnectedIsOpen'
      BY <2>1, <2>2 DEF IInv, TypeOK, Counted, Succeeded, ConnectedIsOpen, Hears, Shown,
                        Closed, IsOpen, View
    <2> QED
      BY <2>3 DEF IInv
  <1>4. CASE FirstConnect
    BY <1>4, FirstConnectKeeps
  <1>5. CASE Unmount
    BY <1>5, UnmountKeeps
  <1>6. CASE LateConnect
    BY <1>6, LateConnectKeeps
  <1>7. CASE Retry
    BY <1>7, RetryKeeps
  <1>8. CASE Reconnect
    BY <1>8, ReconnectKeeps
  <1>9. ASSUME NEW s \in Sockets,
               \/ Opened(s) \/ Dropped(s) \/ Ended(s) \/ Rejected(s)
               \/ ClosingDone(s) \/ GraceOver(s)
        PROVE IInv'
    BY <1>9, OpenedKeeps, CloseKeeps, GraceOverKeeps
       DEF Dropped, Ended, Rejected, ClosingDone, Closed
  <1>10. CASE Switch
    BY <1>10 DEF Switch, manager, IInv, TypeOK, Counted, Succeeded, ConnectedIsOpen,
                 Hears, Shown, Closed, IsOpen
  <1>11. CASE UNCHANGED vars
    BY <1>11 DEF vars, IInv, TypeOK, Counted, Succeeded, ConnectedIsOpen,
                 Hears, Shown, Closed, IsOpen
  <1> QED
    BY <1>2, <1>3, <1>4, <1>5, <1>6, <1>7, <1>8, <1>9, <1>10, <1>11 DEF Next

\* IInv is an invariant.
LEMMA Invariance == Spec => []IInv
  <1> QED
    BY InitIInv, NextIInv, PTL DEF Spec

\* Every state of the terminal is typed: the attempts stay within their limit.
THEOREM TerminalTypes == Spec => []TypeOK
  <1>1. IInv => TypeOK
    BY DEF IInv
  <1> QED
    BY <1>1, Invariance, PTL

\* The manager gives a grace only to sockets that nobody holds, and so closes no
\* connection in use.
THEOREM Graces == Spec => []GraceOnlyForTheLeft
  <1>1. IInv => GraceOnlyForTheLeft
    BY CountedLeft DEF IInv
  <1> QED
    BY <1>1, Invariance, PTL

\* A terminal that says it is connected shows an open socket or is attaching to one
\* that is not closed, through all that sockets share, inherit and outlive.
THEOREM Indicator == Spec => []ConnectedIsOpen
  <1>1. IInv => ConnectedIsOpen
    BY DEF IInv
  <1> QED
    BY <1>1, Invariance, PTL
===============================================================================
