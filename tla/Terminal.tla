------------------------------- MODULE Terminal --------------------------------
(***************************************************************************)
(* The terminal of one VPS: the socket manager that keeps a WebSocket per  *)
(* subscription alive across tab switches (terminalSocketManager.ts), and  *)
(* the component that attaches to it (VPSTerminal.tsx), of which a browser *)
(* tab shows at most one at a time.                                        *)
(*                                                                         *)
(* An entry of the manager is named by its socket. An entry that succeeds  *)
(* one whose socket is CLOSED takes over its set of listeners, so that the *)
(* component hears the events of its handle and of the entry that has      *)
(* succeeded its handle since (the heir); the ones in between are CLOSED   *)
(* and have no more events. The times (the backoff, the ten minutes of     *)
(* grace) are left out: a timer that is set may fire.                      *)
(***************************************************************************)
EXTENDS Naturals, FiniteSets, Functions

CONSTANTS Sockets,              \* names for WebSockets: reused when out of use
          NoSocket,
          maxReconnectAttempts,
          MaxLate               \* bound on the frames that run too late

ASSUME SocketsAssumption == NoSocket \notin Sockets
ASSUME AttemptsAssumption == maxReconnectAttempts \in Nat

VARIABLES readyState,   \* of each WebSocket; "ENDED" is CLOSED with code 1000
          refCount, closeTimer,         \* of each entry
          registered,   \* the entry the manager has under the key
          view,         \* the component
          ghosts,       \* for each entry, the components gone that still hold it
          lateFrame,    \* a frame of a component that has gone is still to run
          up            \* the server accepts connections and keeps them

manager == <<readyState, refCount, closeTimer, registered>>
vars == <<readyState, refCount, closeTimer, registered, view, ghosts, lateFrame, up>>

Frames == {"none", "open", "connect"}
Away == [ mounted |-> FALSE, frame |-> "none", handle |-> NoSocket, heir |-> NoSocket,
          connecting |-> FALSE, connected |-> FALSE, attempts |-> 0, retry |-> FALSE ]

Closed(s) == readyState[s] \in {"CLOSED", "ENDED"}
IsOpen(s) == s \in Sockets /\ readyState[s] = "OPEN"

\* The component's listener is in the set of entry s, which may yet have events.
Hears(s) == s \in {view.handle, view.heir} \ {NoSocket}

\* Names that nothing refers to any more.
Unused == {s \in Sockets : /\ Closed(s) /\ ~closeTimer[s] /\ ghosts[s] = 0
                           /\ s \notin {registered, view.handle, view.heir}}

\* A terminal is opened only while names are left for it: a bound of the model.
NamesLeft == Cardinality(Unused) >= IF lateFrame THEN 3 ELSE 2
LateOnes == FoldFunction(+, 0, ghosts)

\* -------------------------------------------------------------- the manager
\* detach: entry s loses a holder, and gets its grace if that was the last and
\* the socket is open at that moment.
RefsAfterDetach(s) ==
    [refCount EXCEPT ![s] = IF @ > 0 THEN @ - 1 ELSE 0]
TimersAfterDetach(s) ==
    [closeTimer EXCEPT ![s] = @ \/ (RefsAfterDetach(s)[s] = 0 /\ readyState[s] = "OPEN")]

\* A mutant of Reusable: also when its socket is CLOSED.
ReusableEver == registered \in Sockets

\* ensureEntry: the entry under the key, unless its socket is CLOSED.
Reusable == registered \in Sockets /\ ~Closed(registered)
Ensured == IF Reusable THEN registered ELSE CHOOSE s \in Unused : TRUE
Ensurable == Reusable \/ Unused # {}

\* A mutant of AttachTimers: the grace of a reused entry runs on.
AttachTimersOnGrace(timers) ==
    IF Reusable THEN timers ELSE [timers EXCEPT ![Ensured] = FALSE]

\* attachTerminalSocket. A reused entry's grace is over; a new entry takes the
\* reference count of the one that has died.
AttachTimers(timers) == [timers EXCEPT ![Ensured] = FALSE]
AttachRefs(refs) ==
    [refs EXCEPT ![Ensured] = (IF registered = NoSocket THEN 0 ELSE refs[registered]) + 1]
Attach(sockets, refs, timers) ==
    /\ registered' = Ensured
    /\ readyState' = IF Reusable THEN sockets
                                 ELSE [sockets EXCEPT ![Ensured] = "CONNECTING"]
    /\ refCount' = AttachRefs(refs)
    /\ closeTimer' = AttachTimers(timers)

\* ------------------------------------------------------------ the component
\* connectWebSocket, when the component is v.
Connect(v) ==
    IF v.connecting
    THEN view' = v /\ UNCHANGED manager
    ELSE /\ Ensurable
         /\ view' = [v EXCEPT !.connecting = TRUE, !.handle = Ensured, !.heir = NoSocket]
         /\ IF v.handle = NoSocket
            THEN Attach(readyState, refCount, closeTimer)
            ELSE Attach(readyState, RefsAfterDetach(v.handle), TimersAfterDetach(v.handle))

Mount ==
    /\ ~view.mounted /\ NamesLeft
    /\ view' = [Away EXCEPT !.mounted = TRUE, !.frame = "open"]
    /\ UNCHANGED <<manager, ghosts, lateFrame, up>>

\* tryOpen: the terminal is in the page, and a frame later it will connect.
\* Frames run in the order they were asked for.
Open ==
    /\ view.frame = "open" /\ ~lateFrame
    /\ view' = [view EXCEPT !.frame = "connect"]
    /\ UNCHANGED <<manager, ghosts, lateFrame, up>>

FirstConnect ==
    /\ view.frame = "connect"
    /\ LET v == [view EXCEPT !.frame = "none"]
       IN IF v.connecting \/ IsOpen(v.handle)
          THEN view' = v /\ UNCHANGED manager
          ELSE Connect(v)
    /\ UNCHANGED <<ghosts, lateFrame, up>>

\* The cleanup of the effect: the retry is called off and the handle detached.
\* The frame that is to connect is not.
Unmount ==
    /\ view.mounted
    /\ view' = Away
    /\ lateFrame' = (lateFrame \/ (view.frame = "connect" /\ ~view.connecting))
    /\ lateFrame' => LateOnes < MaxLate
    /\ IF view.handle = NoSocket
       THEN UNCHANGED <<refCount, closeTimer>>
       ELSE /\ refCount' = RefsAfterDetach(view.handle)
            /\ closeTimer' = TimersAfterDetach(view.handle)
    /\ UNCHANGED <<readyState, registered, ghosts, up>>

\* The entry that a late frame makes has the listeners of the one under the key.
Inherited == IF ~Reusable /\ Hears(registered) THEN Ensured ELSE view.heir

\* It attaches a component that has gone, and that nothing will detach.
LateConnect ==
    /\ lateFrame /\ Ensurable
    /\ Attach(readyState, refCount, closeTimer)
    /\ view' = [view EXCEPT !.heir = Inherited]
    /\ ghosts' = [ghosts EXCEPT ![Ensured] = @ + 1]
    /\ lateFrame' = FALSE
    /\ UNCHANGED up

\* The timer of the backoff.
Retry ==
    /\ view.retry
    /\ Connect([view EXCEPT !.retry = FALSE])
    /\ UNCHANGED <<ghosts, lateFrame, up>>

\* The Reconnect button, which is shown while the component is not connected:
\* close, detach, and attach again, to the same entry if it is still closing.
Reconnect ==
    /\ view.mounted /\ ~view.connected
    /\ Ensurable
    /\ view' = [view EXCEPT !.retry = FALSE, !.attempts = 0, !.connected = FALSE,
                            !.connecting = TRUE, !.handle = Ensured, !.heir = NoSocket]
    /\ LET h == view.handle
       IN IF h = NoSocket
          THEN Attach(readyState, refCount, closeTimer)
          ELSE Attach([readyState EXCEPT ![h] = IF Closed(h) THEN @ ELSE "CLOSING"],
                      RefsAfterDetach(h), closeTimer)
    /\ UNCHANGED <<ghosts, lateFrame, up>>

\* ---------------------------------------------------------------- the events
Opened(s) ==
    /\ readyState[s] = "CONNECTING" /\ up
    /\ readyState' = [readyState EXCEPT ![s] = "OPEN"]
    /\ view' = IF Hears(s)
               THEN [view EXCEPT !.connecting = FALSE, !.connected = TRUE,
                                 !.attempts = 0, !.retry = FALSE]
               ELSE view
    /\ UNCHANGED <<refCount, closeTimer, registered, ghosts, lateFrame, up>>

\* Mutants of OnClose: one attempt too many; a session that ended still shows.
OnCloseOnceMore(s, normally) ==
    IF ~Hears(s) THEN view
    ELSE LET again == ~normally /\ view.attempts <= maxReconnectAttempts
         IN [view EXCEPT !.connecting = FALSE, !.connected = FALSE,
                         !.attempts = IF again THEN @ + 1 ELSE @,
                         !.retry = again \/ @]
OnCloseQuietly(s, normally) ==
    IF ~Hears(s) THEN view
    ELSE LET again == ~normally /\ view.attempts < maxReconnectAttempts
         IN [view EXCEPT !.connecting = FALSE, !.connected = normally /\ @,
                         !.attempts = IF again THEN @ + 1 ELSE @,
                         !.retry = again \/ @]

\* onClose, and the onError that precedes it when there is one: another attempt,
\* unless the server ended the session or there have been too many.
OnClose(s, normally) ==
    IF ~Hears(s) THEN view
    ELSE LET again == ~normally /\ view.attempts < maxReconnectAttempts
         IN [view EXCEPT !.connecting = FALSE, !.connected = FALSE,
                         !.attempts = IF again THEN @ + 1 ELSE @,
                         !.retry = again \/ @]

Close(s, code) ==
    /\ readyState' = [readyState EXCEPT ![s] = code]
    /\ view' = OnClose(s, code = "ENDED")
    /\ UNCHANGED <<refCount, closeTimer, registered, ghosts, lateFrame, up>>

\* The connection is refused, or breaks.
Dropped(s) == readyState[s] \in {"CONNECTING", "OPEN"} /\ ~up /\ Close(s, "CLOSED")

\* The server closes: the shell has ended, or there is none to be had.
Ended(s) == readyState[s] = "OPEN" /\ Close(s, "ENDED")

\* The server accepts and closes, with 1008 for the token, the user or the
\* subscription, with 1011 for an error of its own.
Rejected(s) == readyState[s] = "OPEN" /\ up /\ Close(s, "CLOSED")

\* The closing handshake that the browser began is over: code 1005 or 1006.
ClosingDone(s) == readyState[s] = "CLOSING" /\ Close(s, "CLOSED")

\* The grace of entry s is over. What goes from the manager is what is under
\* the key by then.
GraceOver(s) ==
    /\ closeTimer[s]
    /\ closeTimer' = [closeTimer EXCEPT ![s] = FALSE]
    /\ readyState' = [readyState EXCEPT ![s] = IF Closed(s) THEN @ ELSE "CLOSING"]
    /\ registered' = NoSocket
    /\ UNCHANGED <<refCount, view, ghosts, lateFrame, up>>

\* The network, or the server, comes and goes.
Switch == up' = ~up /\ UNCHANGED <<manager, view, ghosts, lateFrame>>

\* --------------------------------------------------------------------- spec
Init ==
    /\ readyState = [s \in Sockets |-> "CLOSED"]
    /\ refCount = [s \in Sockets |-> 0]
    /\ closeTimer = [s \in Sockets |-> FALSE]
    /\ registered = NoSocket
    /\ view = Away
    /\ ghosts = [s \in Sockets |-> 0]
    /\ lateFrame = FALSE
    /\ up \in BOOLEAN

Next ==
    \/ Mount \/ Open \/ FirstConnect \/ Unmount \/ LateConnect
    \/ Retry \/ Reconnect
    \/ \E s \in Sockets : \/ Opened(s) \/ Dropped(s) \/ Ended(s) \/ Rejected(s)
                          \/ ClosingDone(s) \/ GraceOver(s)
    \/ Switch

Spec == Init /\ [][Next]_vars

\* Frames and timers run, and a handshake ends one way or the other.
Fairness ==
    /\ WF_vars(Open) /\ WF_vars(FirstConnect) /\ WF_vars(LateConnect) /\ WF_vars(Retry)
    /\ \A s \in Sockets : /\ WF_vars(Opened(s) \/ Dropped(s))
                          /\ WF_vars(ClosingDone(s))
                          /\ WF_vars(GraceOver(s))
LiveSpec == Spec /\ Fairness

\* --------------------------------------------------------------- properties
TypeOK ==
    /\ readyState \in [Sockets -> {"CONNECTING", "OPEN", "CLOSING", "CLOSED", "ENDED"}]
    /\ refCount \in [Sockets -> Nat] /\ ghosts \in [Sockets -> Nat]
    /\ closeTimer \in [Sockets -> BOOLEAN]
    /\ registered \in Sockets \cup {NoSocket}
    /\ view \in [ mounted : BOOLEAN, frame : Frames, handle : Sockets \cup {NoSocket},
                  heir : Sockets \cup {NoSocket}, connecting : BOOLEAN, connected : BOOLEAN,
                  attempts : 0 .. maxReconnectAttempts, retry : BOOLEAN ]
    /\ lateFrame \in BOOLEAN /\ up \in BOOLEAN

\* A socket whose grace runs is held and heard by nobody, not even a component that
\* has gone: the manager never closes the connection of a terminal in use, however
\* attaching, dying sockets and the timers of earlier entries interleave.
GraceOnlyForTheLeft ==
    \A s \in Sockets : closeTimer[s] => ~Hears(s) /\ ghosts[s] = 0

\* The socket whose output the component shows.
Shown == IF view.heir = NoSocket THEN view.handle ELSE view.heir

\* A terminal that says it is connected shows an open socket, or is attaching to
\* another that is not closed, and no second attempt is on its way. The open socket
\* need not be the one it types into: that is its handle, which may be CLOSED while
\* its heir is open.
ConnectedIsOpen ==
    view.connected =>
        /\ Shown \in Sockets /\ ~Closed(Shown)
        /\ IsOpen(Shown) \/ view.connecting
        /\ ~view.retry

\* The component waits for the user.
GivenUp ==
    /\ Shown \in Sockets
    /\ \/ readyState[Shown] = "ENDED"
       \/ readyState[Shown] = "CLOSED" /\ view.attempts = maxReconnectAttempts

\* While the terminal is mounted, the server is there and turns nobody away, and the
\* user leaves the button alone, it shows an open socket in the end, unless the server
\* ended the session or the attempts are used up.
Rejects == \E s \in Sockets : Rejected(s)
Connects ==
    <>[](view.mounted /\ up) /\ <>[][~Reconnect /\ ~Rejects]_vars
        => <>[](IsOpen(Shown) \/ GivenUp)
===============================================================================
