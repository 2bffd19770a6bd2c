----------------------------- MODULE SessionProofs -----------------------------
(***************************************************************************)
(* OneRefresh, for any requests, and ActsAsShown, for any users.           *)
(*                                                                         *)
(* OneRefresh is inductive with the types. ActsAsShown needs to know whose *)
(* every token is, the ones requests carry included (Owned), that nobody's *)
(* is left while somebody signs in (Entering), and that where the header   *)
(* of the last refresh would be sent, there is none (Unarmed): storages    *)
(* are emptied under a user only by what also leaves the page.             *)
(***************************************************************************)
EXTENDS Session, TLAPS

Mine(x) == x \in {store.user, NoUser}

\* Whether the token of a call matters.
Counts(c) == c.kind = "profile" \/ (c.kind = "data" /\ ~leaving)

Owned ==
    /\ store.token = store.user /\ store.refreshToken = store.user
    /\ Mine(local.access) /\ Mine(local.refresh)
    /\ Mine(session.access) /\ Mine(session.refresh)
    /\ \A r \in Requests : /\ Counts(req[r]) => Mine(req[r].as)
                           /\ req[r].pc = "refreshing" =>
                                  Mine(req[r].as) /\ req[r].as # NoUser

Entering ==
    \A r \in Requests : req[r].kind = "login" =>
        /\ req[r].who \in Users
        /\ local = Empty /\ session = Empty
        /\ \A q \in Requests : /\ Counts(req[q]) => req[q].as = NoUser
                               /\ req[q].pc # "refreshing"
                               /\ req[q].kind = "login" => q = r

Unarmed == ~leaving /\ store.user # NoUser /\ AccessToken = NoUser => default = NoUser

IInv == TypeOK /\ OneRefresh
Owners == Patient /\ Tidy => Owned /\ Entering /\ Unarmed

-------------------------------------------------------------------------------
LEMMA SettledCall == Settled \in Call /\ Settled.pc = "none" /\ Settled.as = NoUser
                     /\ Settled.kind = "data"
  BY DEF Settled, Call, SomeUser

LEMMA EmptyTokens == Empty \in [access : SomeUser, refresh : SomeUser]
                     /\ Empty.access = NoUser /\ Empty.refresh = NoUser
  BY DEF Empty, SomeUser

\* What setAuth leaves in the storages and the store.
LEMMA SetAuthTypes ==
    ASSUME TypeOK, NEW u \in SomeUser, NEW t \in SomeUser, NEW f \in SomeUser,
           NEW remember \in BOOLEAN, SetAuth(u, t, f, remember)
    PROVE /\ local' \in [access : SomeUser, refresh : SomeUser]
          /\ session' \in [access : SomeUser, refresh : SomeUser]
          /\ store' \in [user : SomeUser, token : SomeUser, refreshToken : SomeUser]
  BY EmptyTokens DEF TypeOK, SetAuth, First

\* One request changes, and is not refreshing before or after; none waits for it.
LEMMA OneCallKeeps ==
    ASSUME OneRefresh, NEW r \in Requests, req \in [Requests -> Call],
           NEW c \in Call, req' = [req EXCEPT ![r] = c],
           req[r].pc # "refreshing", c.pc # "refreshing",
           c.pc = "queued" => isRefreshing, isRefreshing' = isRefreshing
    PROVE OneRefresh'
  <1>1. req'[r] = c /\ \A q \in Requests \ {r} : req'[q] = req[q]
    OBVIOUS
  <1>2. \A q \in Requests : req'[q].pc = "refreshing" <=> req[q].pc = "refreshing"
    BY <1>1
  <1>3. \A q \in Requests : req'[q].pc = "queued" => req[q].pc = "queued" \/ isRefreshing
    BY <1>1
  <1> QED
    BY <1>2, <1>3 DEF OneRefresh

\* The type of one call at a time.
LEMMA OneCallTypes ==
    ASSUME TypeOK, NEW r \in Requests, NEW c \in Call, req' = [req EXCEPT ![r] = c],
           c.pc = "none" => c = Settled
    PROVE /\ req' \in [Requests -> Call]
          /\ \A q \in Requests : req'[q].pc = "none" => req'[q] = Settled
  <1>1. req \in [Requests -> Call]
    BY DEF TypeOK
  <1>2. req'[r] = c /\ \A q \in Requests \ {r} : req'[q] = req[q]
    BY <1>1
  <1> QED
    BY <1>1, <1>2 DEF TypeOK

LEMMA IssueKeeps ==
    ASSUME IInv, NEW r \in Requests, NEW kind \in {"data", "login", "profile"},
           NEW who \in SomeUser, NEW remember \in BOOLEAN, Issue(r, kind, who, remember)
    PROVE IInv'
  <1> DEFINE c == [ pc |-> "sent", kind |-> kind, as |-> First(AccessToken, default),
                    who |-> who, remember |-> remember, _retry |-> FALSE ]
  <1>1. First(AccessToken, default) \in SomeUser
    BY DEF IInv, TypeOK, AccessToken, First
  <1>2. c \in Call /\ c.pc = "sent"
    BY <1>1 DEF Call
  <1>3. req' = [req EXCEPT ![r] = c]
    BY DEF Issue
  <1>4. /\ req[r].pc = "none" /\ isRefreshing' = isRefreshing
        /\ UNCHANGED <<local, session, store, default, leaving>> /\ issued' \in 0 .. MaxIssued
    BY IssuedAssumption DEF Issue, IInv, TypeOK
  <1> HIDE DEF c
  <1>5. TypeOK'
    BY <1>2, <1>3, <1>4, OneCallTypes DEF IInv, TypeOK
  <1>6. OneRefresh'
    BY <1>2, <1>3, <1>4, OneCallKeeps DEF IInv, TypeOK
  <1> QED
    BY <1>5, <1>6 DEF IInv

\* Settling one request that is not refreshing.
LEMMA SettleKeepsIInv ==
    ASSUME IInv, NEW r \in Requests, Settle(r), req[r].pc # "refreshing",
           local' \in [access : SomeUser, refresh : SomeUser],
           session' \in [access : SomeUser, refresh : SomeUser],
           store' \in [user : SomeUser, token : SomeUser, refreshToken : SomeUser],
           leaving' \in BOOLEAN, UNCHANGED <<isRefreshing, default, issued>>
    PROVE IInv'
  <1>1. req' = [req EXCEPT ![r] = Settled]
    BY DEF Settle
  <1>2. TypeOK'
    BY <1>1, SettledCall, OneCallTypes DEF IInv, TypeOK
  <1>3. OneRefresh'
    BY <1>1, SettledCall, OneCallKeeps DEF IInv, TypeOK
  <1> QED
    BY <1>2, <1>3 DEF IInv

\* The refresh of r ends: nobody is refreshing or queued any more.
LEMMA RefreshEnds ==
    ASSUME IInv, NEW r \in Requests, req[r].pc = "refreshing",
           req' \in [Requests -> Call], isRefreshing' = FALSE,
           \A q \in Requests :
              IF q = r \/ req[q].pc = "queued"
              THEN req'[q].pc \in {"sent", "none"} ELSE req'[q] = req[q]
    PROVE OneRefresh'
  <1>1. \A q \in Requests : q # r => req[q].pc # "refreshing"
    BY DEF IInv, OneRefresh
  <1>2. \A q \in Requests : req'[q].pc \notin {"refreshing", "queued"}
    BY <1>1
  <1> QED
    BY <1>2 DEF OneRefresh

LEMMA SucceedKeeps ==
    ASSUME IInv, NEW r \in Requests, Succeed(r)
    PROVE IInv'
  <1>1. req[r] \in Call
    BY DEF IInv, TypeOK
  <1>2. /\ local' \in [access : SomeUser, refresh : SomeUser]
        /\ session' \in [access : SomeUser, refresh : SomeUser]
        /\ store' \in [user : SomeUser, token : SomeUser, refreshToken : SomeUser]
    <2>1. CASE req[r].kind = "data"
      BY <2>1 DEF Succeed, tokens, IInv, TypeOK
    <2>2. CASE req[r].kind = "login"
      <3>1. req[r].who \in SomeUser /\ req[r].remember \in BOOLEAN
        BY <1>1 DEF Call
      <3>2. \/ SetAuth(req[r].who, req[r].who, req[r].who, req[r].remember)
            \/ UNCHANGED <<local, session, store>>
        BY <2>2 DEF Succeed, tokens
      <3> QED
        BY <3>1, <3>2, SetAuthTypes DEF IInv, TypeOK
    <2>3. CASE req[r].kind = "profile"
      <3>1. req[r].as \in SomeUser /\ store.token \in SomeUser
            /\ store.refreshToken \in SomeUser
        BY <1>1 DEF Call, IInv, TypeOK
      <3>2. \/ SetAuth(req[r].as, store.token, store.refreshToken, TRUE)
            \/ UNCHANGED <<local, session, store>>
        BY <2>3 DEF Succeed, tokens
      <3> QED
        BY <3>1, <3>2, SetAuthTypes DEF IInv, TypeOK
    <2> QED
      BY <1>1, <2>1, <2>2, <2>3 DEF Call
  <1> QED
    BY <1>2, SettleKeepsIInv DEF Succeed, IInv, TypeOK

LEMMA RefreshKeeps ==
    ASSUME IInv, NEW r \in Requests, Refresh(r)
    PROVE IInv'
  <1> DEFINE c == [req[r] EXCEPT !.pc = "refreshing", !._retry = TRUE, !.as = RefreshToken]
  <1>1. req \in [Requests -> Call] /\ RefreshToken \in SomeUser
    BY DEF IInv, TypeOK, RefreshToken, First
  <1>2. c \in Call /\ c.pc = "refreshing"
    BY <1>1 DEF Call
  <1>3. req' = [req EXCEPT ![r] = c]
    BY DEF Refresh
  <1>4. isRefreshing = FALSE /\ isRefreshing' = TRUE
        /\ UNCHANGED <<local, session, store, default, leaving, issued>>
    BY DEF Refresh, MayRefresh, IInv, TypeOK, tokens
  <1> HIDE DEF c
  <1>5. TypeOK'
    BY <1>2, <1>3, <1>4, OneCallTypes DEF IInv, TypeOK
  <1>6. \A q \in Requests : req[q].pc # "refreshing"
    BY <1>4 DEF IInv, OneRefresh
  <1>7. req'[r].pc = "refreshing" /\ \A q \in Requests \ {r} : req'[q].pc # "refreshing"
    BY <1>1, <1>2, <1>3, <1>6
  <1>8. OneRefresh'
    BY <1>4, <1>7 DEF OneRefresh
  <1> QED
    BY <1>5, <1>8 DEF IInv

LEMMA EnqueueKeeps ==
    ASSUME IInv, NEW r \in Requests, Enqueue(r)
    PROVE IInv'
  <1> DEFINE c == [req[r] EXCEPT !.pc = "queued"]
  <1>1. c \in Call /\ c.pc = "queued" /\ req[r].pc = "sent"
    BY DEF IInv, TypeOK, Call, Enqueue
  <1>2. req' = [req EXCEPT ![r] = c]
    BY DEF Enqueue
  <1>3. isRefreshing /\ UNCHANGED <<local, session, store, isRefreshing, default, leaving, issued>>
    BY DEF Enqueue, MayRefresh, tokens
  <1> HIDE DEF c
  <1>4. TypeOK'
    BY <1>1, <1>2, <1>3, OneCallTypes DEF IInv, TypeOK
  <1>5. OneRefresh'
    BY <1>1, <1>2, <1>3, OneCallKeeps DEF IInv, TypeOK
  <1> QED
    BY <1>4, <1>5 DEF IInv

LEMMA RefreshedKeeps ==
    ASSUME IInv, NEW r \in Requests, Refreshed(r)
    PROVE IInv'
  <1> DEFINE again(q) == [req[q] EXCEPT !.pc = "sent", !.as = AccessToken']
  <1>1. req \in [Requests -> Call] /\ req[r].as \in SomeUser
    BY DEF IInv, TypeOK, Call
  <1>2. /\ local' \in [access : SomeUser, refresh : SomeUser]
        /\ session' \in [access : SomeUser, refresh : SomeUser]
        /\ store' \in [user : SomeUser, token : SomeUser, refreshToken : SomeUser]
        /\ default' \in SomeUser
    BY <1>1 DEF Refreshed, IInv, TypeOK
  <1>3. AccessToken' \in SomeUser
    BY <1>2 DEF AccessToken, First
  <1>4. \A q \in Requests : again(q) \in Call /\ again(q).pc = "sent"
    BY <1>1, <1>3 DEF Call
  <1>5. req' = [q \in Requests |->
                   IF q = r \/ req[q].pc = "queued" THEN again(q) ELSE req[q]]
    BY DEF Refreshed
  <1>6. isRefreshing' = FALSE /\ UNCHANGED <<leaving, issued>> /\ req[r].pc = "refreshing"
    BY DEF Refreshed
  <1> HIDE DEF again
  <1>7. /\ req' \in [Requests -> Call]
        /\ \A q \in Requests :
              IF q = r \/ req[q].pc = "queued"
              THEN req'[q].pc = "sent" ELSE req'[q] = req[q]
    BY <1>1, <1>4, <1>5
  <1>8. TypeOK'
    BY <1>2, <1>6, <1>7 DEF IInv, TypeOK
  <1>9. OneRefresh'
    BY <1>6, <1>7, RefreshEnds
  <1> QED
    BY <1>8, <1>9 DEF IInv

LEMMA RefreshFailedKeeps ==
    ASSUME IInv, NEW r \in Requests, RefreshFailed(r)
    PROVE IInv'
  <1>1. req \in [Requests -> Call]
    BY DEF IInv, TypeOK
  <1>2. req' = [q \in Requests |->
                   IF q = r \/ req[q].pc = "queued" THEN Settled ELSE req[q]]
    BY DEF RefreshFailed
  <1>3. isRefreshing' = FALSE /\ leaving' = TRUE /\ UNCHANGED <<store, default, issued>>
        /\ local' = Empty /\ session' = Empty /\ req[r].pc = "refreshing"
    BY DEF RefreshFailed
  <1>4. /\ req' \in [Requests -> Call]
        /\ \A q \in Requests :
              IF q = r \/ req[q].pc = "queued"
              THEN req'[q] = Settled ELSE req'[q] = req[q]
    BY <1>1, <1>2, SettledCall
  <1>5. TypeOK'
    BY <1>3, <1>4, EmptyTokens DEF IInv, TypeOK
  <1>6. OneRefresh'
    BY <1>3, <1>4, SettledCall, RefreshEnds
  <1> QED
    BY <1>5, <1>6 DEF IInv

LEMMA InitIInv == Init => IInv
  <1> SUFFICES ASSUME Init PROVE IInv
    OBVIOUS
  <1>1. req \in [Requests -> Call] /\ \A r \in Requests : req[r] = Settled
    BY SettledCall DEF Init
  <1>2. TypeOK
    <2>1. store \in [user : SomeUser, token : SomeUser, refreshToken : SomeUser]
      BY DEF Init, SignedOut, SomeUser
    <2>2. issued \in 0 .. MaxIssued
      BY IssuedAssumption DEF Init
    <2>3. local = Empty /\ session = Empty /\ isRefreshing = FALSE /\ leaving = FALSE
          /\ default \in SomeUser
      BY DEF Init, SomeUser
    <2> QED
      BY <1>1, <2>1, <2>2, <2>3, EmptyTokens DEF TypeOK
  <1>3. OneRefresh
    BY <1>1, SettledCall DEF Init, OneRefresh
  <1> QED
    BY <1>2, <1>3 DEF IInv

LEMMA NextIInv == IInv /\ [Next]_vars => IInv'
  <1> SUFFICES ASSUME IInv, [Next]_vars PROVE IInv'
    OBVIOUS
  <1>1. ASSUME NEW r \in Requests, SignIn(r) \/ Fetch(r) \/ SaveProfile(r) PROVE IInv'
    <2>1. NoUser \in SomeUser /\ Users \subseteq SomeUser
      BY DEF SomeUser
    <2> QED
      BY <1>1, <2>1, IssueKeeps DEF SignIn, Fetch, SaveProfile
  <1>2. ASSUME NEW r \in Requests, Succeed(r) PROVE IInv'
    BY <1>2, SucceedKeeps
  <1>3. ASSUME NEW r \in Requests, Fail(r) \/ Reject(r) \/ NoRefresh(r) PROVE IInv'
    <2>1. NoUser \in SomeUser
      BY DEF SomeUser
    <2> QED
      BY <1>3, <2>1, SettleKeepsIInv
         DEF Fail, Reject, NoRefresh, MayRefresh, tokens, IInv, TypeOK
  <1>4. ASSUME NEW r \in Requests, Enqueue(r) PROVE IInv'
    BY <1>4, EnqueueKeeps
  <1>5. ASSUME NEW r \in Requests, Refresh(r) PROVE IInv'
    BY <1>5, RefreshKeeps
  <1>6. ASSUME NEW r \in Requests, Refreshed(r) PROVE IInv'
    BY <1>6, RefreshedKeeps
  <1>7. ASSUME NEW r \in Requests, RefreshFailed(r) PROVE IInv'
    BY <1>7, RefreshFailedKeeps
  <1>8. CASE SignOut
    <2>1. SignedOut \in [user : SomeUser, token : SomeUser, refreshToken : SomeUser]
      BY DEF SignedOut, SomeUser
    <2> QED
      BY <1>8, <2>1, EmptyTokens DEF SignOut, ClearAuth, IInv, TypeOK, OneRefresh
  <1>9. CASE Reload
    <2>1. \A r \in Requests : req'[r] = Settled
      BY <1>9 DEF Reload
    <2>2. TypeOK'
      BY <1>9, <2>1, SettledCall DEF Reload, tokens, IInv, TypeOK, SomeUser
    <2>3. OneRefresh'
      BY <1>9, <2>1, SettledCall DEF Reload, OneRefresh
    <2> QED
      BY <2>2, <2>3 DEF IInv
  <1>10. CASE UNCHANGED vars
    BY <1>10 DEF vars, IInv, TypeOK, OneRefresh
  <1> QED
    BY <1>1, <1>2, <1>3, <1>4, <1>5, <1>6, <1>7, <1>8, <1>9, <1>10 DEF Next

\* The types and OneRefresh are inductive together.
LEMMA Invariance == Spec => []IInv
  <1> QED
    BY InitIInv, NextIInv, PTL DEF Spec

\* Every state is typed, and a settled request leaves nothing behind.
THEOREM SessionTypes == Spec => []TypeOK
  <1>1. IInv => TypeOK
    BY DEF IInv
  <1> QED
    BY <1>1, Invariance, PTL

\* At most one request refreshes the token, and nobody waits without one.
THEOREM Refreshes == Spec => []OneRefresh
  <1>1. IInv => OneRefresh
    BY DEF IInv
  <1> QED
    BY <1>1, Invariance, PTL

-------------------------------------------------------------------------------
\* Whose the token of a request is that is sent now.
LEMMA TokensMine ==
    ASSUME Owned
    PROVE /\ Mine(AccessToken) /\ Mine(RefreshToken)
          /\ (local = Empty /\ session = Empty
                => AccessToken = NoUser /\ RefreshToken = NoUser)
  BY DEF Owned, Mine, AccessToken, RefreshToken, First, Empty

\* One call changes, and the users do not; storages that lose a token are those of a
\* page that is about to be left.
LEMMA OneCallOwned ==
    ASSUME IInv, Owned, Entering, Unarmed, NEW r \in Requests, NEW c \in Call,
           req' = [req EXCEPT ![r] = c], UNCHANGED <<store, default>>,
           Counts(c) => Mine(c.as),
           c.pc = "refreshing" => Mine(c.as) /\ c.as # NoUser,
           c.kind = "login" => req[r].kind = "login" /\ c.who = req[r].who,
           \A q \in Requests : req[q].kind = "login" =>
               (Counts(c) => c.as = NoUser) /\ c.pc # "refreshing",
           leaving => leaving',
           leaving' \/ UNCHANGED <<local, session>>,
           local' \in [access : SomeUser, refresh : SomeUser],
           session' \in [access : SomeUser, refresh : SomeUser],
           local'.access \in {local.access, NoUser}, local'.refresh = local.refresh,
           session'.access \in {session.access, NoUser}, session'.refresh = session.refresh
    PROVE Owned' /\ Entering' /\ Unarmed'
  <1>1. req \in [Requests -> Call]
    BY DEF IInv, TypeOK
  <1>2. req'[r] = c /\ \A q \in Requests \ {r} : req'[q] = req[q]
    BY <1>1
  <1>3. Owned'
    BY <1>2 DEF Owned, Mine, Counts
  <1>4. Entering'
    <2> SUFFICES ASSUME NEW p \in Requests, req'[p].kind = "login"
                 PROVE /\ req'[p].who \in Users
                       /\ local' = Empty /\ session' = Empty
                       /\ \A q \in Requests :
                             /\ Counts(req[q])' => req'[q].as = NoUser
                             /\ req'[q].pc # "refreshing"
                             /\ req'[q].kind = "login" => q = p
      BY DEF Entering
    <2>1. req[p].kind = "login" /\ req'[p].who = req[p].who
      BY <1>2
    <2>2. /\ req[p].who \in Users /\ local = Empty /\ session = Empty
          /\ \A q \in Requests : /\ Counts(req[q]) => req[q].as = NoUser
                                 /\ req[q].pc # "refreshing"
                                 /\ req[q].kind = "login" => q = p
      BY <2>1 DEF Entering
    <2>3. local' = Empty /\ session' = Empty
      <3>1. /\ local'.access = NoUser /\ local'.refresh = NoUser
            /\ session'.access = NoUser /\ session'.refresh = NoUser
        BY <2>2 DEF Empty
      <3> QED
        BY <3>1 DEF Empty
    <2> QED
      BY <1>2, <2>1, <2>2, <2>3 DEF Counts
  <1>5. Unarmed'
    BY DEF Unarmed, AccessToken, First
  <1> QED
    BY <1>3, <1>4, <1>5

\* Where the storages are empty there is no header either.
LEMMA FetchOwned ==
    ASSUME IInv, Owned, Entering, Unarmed, NEW r \in Requests, NEW kind \in {"data", "profile"},
           store.user # NoUser, kind = "profile" => ~leaving, Issue(r, kind, NoUser, FALSE)
    PROVE Owned' /\ Entering' /\ Unarmed'
  <1> DEFINE c == [ pc |-> "sent", kind |-> kind, as |-> First(AccessToken, default),
                    who |-> NoUser, remember |-> FALSE, _retry |-> FALSE ]
  <1>1. First(AccessToken, default) \in SomeUser
    BY DEF IInv, TypeOK, AccessToken, First
  <1>2. /\ c \in Call /\ c.pc = "sent" /\ c.kind = kind /\ c.kind # "login"
        /\ c.as = First(AccessToken, default)
    BY <1>1 DEF Call, SomeUser
  <1>3. req' = [req EXCEPT ![r] = c] /\ UNCHANGED <<local, session, store, default, leaving>>
    BY DEF Issue
  <1> HIDE DEF c
  <1>4. Counts(c) => c.as = AccessToken
    BY <1>2 DEF Counts, Unarmed, First
  <1>5. \A q \in Requests : req[q].kind = "login" => AccessToken = NoUser
    BY TokensMine DEF Entering
  <1>6. local \in [access : SomeUser, refresh : SomeUser]
        /\ session \in [access : SomeUser, refresh : SomeUser]
    BY DEF IInv, TypeOK
  <1>7. Counts(c) => Mine(c.as)
    BY <1>4, TokensMine
  <1> QED
    BY <1>2, <1>3, <1>4, <1>5, <1>6, <1>7, OneCallOwned

\* Nothing is under way and no token left when somebody signs in.
LEMMA SignInOwned ==
    ASSUME IInv, Owned, Entering, Unarmed, Patient, Tidy, NEW r \in Requests, SignIn(r)
    PROVE Owned' /\ Entering' /\ Unarmed'
  <1> PICK u \in Users, remember \in BOOLEAN : Issue(r, "login", u, remember)
    BY DEF SignIn
  <1> DEFINE c == [ pc |-> "sent", kind |-> "login", as |-> First(AccessToken, default),
                    who |-> u, remember |-> remember, _retry |-> FALSE ]
  <1>1. Quiet
    BY DEF SignIn
  <1>2. /\ local.access = NoUser /\ local.refresh = NoUser
        /\ session.access = NoUser /\ session.refresh = NoUser
    BY DEF SignIn, Owned, Mine, AccessToken, RefreshToken, First
  <1>3. local = Empty /\ session = Empty
    BY <1>2 DEF Empty, IInv, TypeOK
  <1>4. \A q \in Requests : req[q] = Settled
    BY <1>1 DEF Quiet, IInv, TypeOK
  <1>5. /\ req' = [req EXCEPT ![r] = c] /\ req \in [Requests -> Call]
        /\ UNCHANGED <<local, session, store, default, leaving>>
    BY DEF Issue, IInv, TypeOK
  <1>6. c.kind = "login" /\ c.pc = "sent" /\ c.who = u
    OBVIOUS
  <1> HIDE DEF c
  <1>7. req'[r] = c /\ \A q \in Requests \ {r} : req'[q] = Settled
    BY <1>4, <1>5
  <1>8. Owned'
    BY <1>5, <1>6, <1>7, SettledCall DEF Owned, Mine, Counts
  <1>9. Entering'
    BY <1>3, <1>5, <1>6, <1>7, SettledCall DEF Entering, Counts
  <1>10. Unarmed'
    BY <1>5 DEF Unarmed, AccessToken
  <1> QED
    BY <1>8, <1>9, <1>10

\* A call is settled, with the tokens as they are or fewer.
LEMMA SettleOwned ==
    ASSUME IInv, Owned, Entering, Unarmed, NEW r \in Requests, Settle(r),
           UNCHANGED <<store, default>>, leaving => leaving',
           leaving' \/ UNCHANGED <<local, session>>,
           local' \in [access : SomeUser, refresh : SomeUser],
           session' \in [access : SomeUser, refresh : SomeUser],
           local'.access \in {local.access, NoUser}, local'.refresh = local.refresh,
           session'.access \in {session.access, NoUser}, session'.refresh = session.refresh
    PROVE Owned' /\ Entering' /\ Unarmed'
  <1>1. Mine(Settled.as)
    BY SettledCall DEF Mine
  <1>2. req' = [req EXCEPT ![r] = Settled]
    BY DEF Settle
  <1> QED
    BY <1>1, <1>2, SettledCall, OneCallOwned

\* setAuth by the user a login was for, or by the one who is signed in.
LEMMA SucceedOwned ==
    ASSUME IInv, Owned, Entering, Unarmed, NEW r \in Requests, Succeed(r)
    PROVE Owned' /\ Entering' /\ Unarmed'
  <1>1. req \in [Requests -> Call] /\ req' = [req EXCEPT ![r] = Settled]
    BY DEF Succeed, Settle, IInv, TypeOK
  <1>2. req'[r] = Settled /\ \A q \in Requests \ {r} : req'[q] = req[q]
    BY <1>1, SettledCall
  <1>3. CASE UNCHANGED <<local, session, store>>
    BY <1>3, SettleOwned DEF Succeed, IInv, TypeOK
  <1>0. UNCHANGED <<default, leaving>>
    BY DEF Succeed
  <1>4. CASE req[r].kind = "login" /\ ~UNCHANGED <<local, session, store>>
    <2> DEFINE u == req[r].who
    <2>1. /\ u \in Users /\ local = Empty /\ session = Empty
          /\ \A q \in Requests : /\ Counts(req[q]) => req[q].as = NoUser
                                 /\ req[q].pc # "refreshing"
                                 /\ req[q].kind = "login" => q = r
      BY <1>4 DEF Entering
    <2>2. SetAuth(u, u, u, req[r].remember)
      BY <1>4 DEF Succeed, tokens
    <2>3. u # NoUser
      BY <2>1, UsersAssumption
    <2> HIDE DEF u
    <2>4. store' = [user |-> u, token |-> u, refreshToken |-> u]
          /\ local' \in {[access |-> u, refresh |-> u], Empty}
          /\ session' \in {[access |-> u, refresh |-> u], Empty}
      BY <2>1, <2>2, <2>3 DEF SetAuth, First
    <2>5. Owned'
      BY <1>0, <1>2, <2>1, <2>4, SettledCall DEF Owned, Mine, Empty, Counts
    <2>6. Entering'
      BY <1>2, <2>1, SettledCall DEF Entering
    <2>7. AccessToken' # NoUser
      BY <2>1, <2>2, <2>3 DEF SetAuth, AccessToken, First
    <2> QED
      BY <2>5, <2>6, <2>7 DEF Unarmed
  <1>5. CASE req[r].kind = "profile" /\ ~UNCHANGED <<local, session, store>>
    <2>1. req[r].as # NoUser /\ req[r].as \in {store.user, NoUser}
      BY <1>5 DEF Succeed, Owned, Mine, Counts
    <2>2. req[r].as = store.user /\ store.token = store.user
          /\ store.refreshToken = store.user /\ store.user # NoUser
      BY <2>1 DEF Owned
    <2>3. SetAuth(store.user, store.user, store.user, TRUE)
      BY <1>5, <2>2 DEF Succeed, tokens
    <2>4. store'.user = store.user /\ store'.token = store.user
          /\ store'.refreshToken = store.user
          /\ local' = [access |-> store.user, refresh |-> store.user]
          /\ session' = session
      BY <2>2, <2>3 DEF SetAuth, First
    <2>5. Owned'
      BY <1>0, <1>2, <2>4, SettledCall DEF Owned, Mine, Counts
    <2>6. \A q \in Requests : req[q].kind # "login"
      BY <1>5, <2>1 DEF Entering, Counts
    <2>7. Entering'
      BY <1>2, <2>6, SettledCall DEF Entering
    <2>8. AccessToken' # NoUser
      BY <2>2, <2>4 DEF AccessToken, First
    <2> QED
      BY <2>5, <2>7, <2>8 DEF Unarmed
  <1>6. req[r].kind = "data" => UNCHANGED <<local, session, store>>
    BY DEF Succeed, tokens
  <1> QED
    BY <1>1, <1>3, <1>4, <1>5, <1>6 DEF Call

LEMMA RefreshOwned ==
    ASSUME IInv, Owned, Entering, Unarmed, NEW r \in Requests, Refresh(r)
    PROVE Owned' /\ Entering' /\ Unarmed'
  <1> DEFINE c == [req[r] EXCEPT !.pc = "refreshing", !._retry = TRUE, !.as = RefreshToken]
  <1>1. req \in [Requests -> Call] /\ RefreshToken \in SomeUser
    BY DEF IInv, TypeOK, RefreshToken, First
  <1>2. c \in Call /\ c.pc = "refreshing" /\ c.as = RefreshToken /\ c.kind = req[r].kind
        /\ c.who = req[r].who
    BY <1>1 DEF Call
  <1>3. req' = [req EXCEPT ![r] = c] /\ UNCHANGED <<local, session, store, default, leaving>>
        /\ RefreshToken # NoUser
    BY DEF Refresh, tokens
  <1>4. \A q \in Requests : req[q].kind # "login"
    BY <1>3, TokensMine DEF Entering
  <1>5. local \in [access : SomeUser, refresh : SomeUser]
        /\ session \in [access : SomeUser, refresh : SomeUser]
    BY DEF IInv, TypeOK
  <1> HIDE DEF c
  <1> QED
    BY <1>2, <1>3, <1>4, <1>5, TokensMine, OneCallOwned

LEMMA EnqueueOwned ==
    ASSUME IInv, Owned, Entering, Unarmed, NEW r \in Requests, Enqueue(r)
    PROVE Owned' /\ Entering' /\ Unarmed'
  <1> DEFINE c == [req[r] EXCEPT !.pc = "queued"]
  <1>1. req \in [Requests -> Call]
    BY DEF IInv, TypeOK
  <1>2. c \in Call /\ c.pc = "queued" /\ c.as = req[r].as /\ c.kind = req[r].kind
        /\ c.who = req[r].who
    BY <1>1 DEF Call
  <1>3. req' = [req EXCEPT ![r] = c] /\ UNCHANGED <<local, session, store, default, leaving>>
    BY DEF Enqueue, tokens
  <1>4. Counts(c) =>
            Mine(c.as) /\ \A q \in Requests : req[q].kind = "login" => c.as = NoUser
    BY <1>2 DEF Owned, Entering, Counts
  <1>5. local \in [access : SomeUser, refresh : SomeUser]
        /\ session \in [access : SomeUser, refresh : SomeUser]
    BY DEF IInv, TypeOK
  <1> HIDE DEF c
  <1> QED
    BY <1>2, <1>3, <1>4, <1>5, OneCallOwned

\* The refresh was for the user who is signed in.
LEMMA RefreshedOwned ==
    ASSUME IInv, Owned, Entering, Unarmed, NEW r \in Requests, Refreshed(r)
    PROVE Owned' /\ Entering' /\ Unarmed'
  <1>1. req[r].pc = "refreshing" /\ req[r].as = store.user /\ store.user # NoUser
    BY DEF Refreshed, Owned, Mine
  <1>2. \A q \in Requests : req[q].kind # "login"
    BY <1>1 DEF Entering
  <1>3. /\ local' \in {local, [local EXCEPT !.access = store.user]}
        /\ session' \in {session, [session EXCEPT !.access = store.user]}
        /\ store' = [store EXCEPT !.token = store.user]
        /\ leaving' = leaving
        /\ \/ local' = [local EXCEPT !.access = store.user]
           \/ session' = [session EXCEPT !.access = store.user]
    BY <1>1 DEF Refreshed
  <1>4. /\ local \in [access : SomeUser, refresh : SomeUser]
        /\ session \in [access : SomeUser, refresh : SomeUser]
        /\ store \in [user : SomeUser, token : SomeUser, refreshToken : SomeUser]
        /\ req \in [Requests -> Call]
    BY DEF IInv, TypeOK
  <1>5. /\ local'.access \in {store.user, NoUser} /\ local'.refresh \in {store.user, NoUser}
        /\ session'.access \in {store.user, NoUser}
        /\ session'.refresh \in {store.user, NoUser}
    BY <1>3, <1>4 DEF Owned, Mine
  <1>6. store'.user = store.user /\ store'.token = store.user
        /\ store'.refreshToken = store.user
    BY <1>3, <1>4 DEF Owned
  <1>7. AccessToken' \in {store.user, NoUser}
    BY <1>5 DEF AccessToken, First
  <1>8. \A q \in Requests :
           /\ req'[q].kind = req[q].kind
           /\ req'[q].as = AccessToken' \/ req'[q].as = req[q].as
           /\ req'[q].pc # "refreshing"
    <2> TAKE q \in Requests
    <2>1. req[q] \in Call
      BY <1>4
    <2>2. CASE q = r \/ req[q].pc = "queued"
      <3>1. req'[q] = [req[q] EXCEPT !.pc = "sent", !.as = AccessToken']
        BY <2>2 DEF Refreshed
      <3> QED
        BY <2>1, <3>1 DEF Call
    <2>3. CASE ~(q = r \/ req[q].pc = "queued")
      <3>1. req'[q] = req[q]
        BY <2>3 DEF Refreshed
      <3>2. req[q].pc # "refreshing"
        BY <1>1, <2>3 DEF IInv, OneRefresh
      <3> QED
        BY <3>1, <3>2
    <2> QED
      BY <2>2, <2>3
  <1>9. Owned'
    BY <1>3, <1>5, <1>6, <1>7, <1>8 DEF Owned, Mine, Counts
  <1>10. Entering'
    BY <1>2, <1>8 DEF Entering
  <1>11. AccessToken' # NoUser
    BY <1>1, <1>3, <1>4 DEF AccessToken, First
  <1> QED
    BY <1>9, <1>10, <1>11 DEF Unarmed

LEMMA RefreshFailedOwned ==
    ASSUME IInv, Owned, Entering, Unarmed, NEW r \in Requests, RefreshFailed(r)
    PROVE Owned' /\ Entering' /\ Unarmed'
  <1>1. req[r].pc = "refreshing" /\ store' = store /\ local' = Empty /\ session' = Empty
        /\ leaving' = TRUE
    BY DEF RefreshFailed
  <1>2. \A q \in Requests : req[q].kind # "login"
    BY <1>1 DEF Entering
  <1>3. \A q \in Requests : req'[q] \in {req[q], Settled}
    BY DEF RefreshFailed
  <1>4. Owned'
    BY <1>1, <1>3, EmptyTokens, SettledCall DEF Owned, Mine, Counts
  <1>5. Entering'
    BY <1>2, <1>3, SettledCall DEF Entering
  <1> QED
    BY <1>1, <1>4, <1>5 DEF Unarmed

LEMMA NextOwners == IInv /\ Owners /\ [Next]_vars => Owners'
  <1> SUFFICES ASSUME IInv, Owned, Entering, Unarmed, Patient, Tidy, [Next]_vars
               PROVE Owned' /\ Entering' /\ Unarmed'
    BY DEF Owners
  <1>1. ASSUME NEW r \in Requests, SignIn(r) PROVE Owned' /\ Entering' /\ Unarmed'
    BY <1>1, SignInOwned
  <1>2. ASSUME NEW r \in Requests, Fetch(r) \/ SaveProfile(r) PROVE Owned' /\ Entering' /\ Unarmed'
    BY <1>2, FetchOwned DEF Fetch, SaveProfile
  <1>3. ASSUME NEW r \in Requests, Succeed(r) PROVE Owned' /\ Entering' /\ Unarmed'
    BY <1>3, SucceedOwned
  <1>4. ASSUME NEW r \in Requests, Fail(r) \/ Reject(r) PROVE Owned' /\ Entering' /\ Unarmed'
    <2>1. Settle(r) /\ UNCHANGED <<local, session, store, default, leaving>>
      BY <1>4 DEF Fail, Reject, tokens
    <2> QED
      BY <2>1, SettleOwned DEF IInv, TypeOK
  <1>5. ASSUME NEW r \in Requests, NoRefresh(r) PROVE Owned' /\ Entering' /\ Unarmed'
    <2>1. /\ local \in [access : SomeUser, refresh : SomeUser]
          /\ session \in [access : SomeUser, refresh : SomeUser] /\ NoUser \in SomeUser
      BY DEF IInv, TypeOK, SomeUser
    <2>2. /\ local' = [local EXCEPT !.access = NoUser]
          /\ session' = [session EXCEPT !.access = NoUser]
          /\ Settle(r) /\ UNCHANGED <<store, default>> /\ leaving' = TRUE
      BY <1>5 DEF NoRefresh
    <2> QED
      BY <2>1, <2>2, SettleOwned
  <1>6. ASSUME NEW r \in Requests, Enqueue(r) PROVE Owned' /\ Entering' /\ Unarmed'
    BY <1>6, EnqueueOwned
  <1>7. ASSUME NEW r \in Requests, Refresh(r) PROVE Owned' /\ Entering' /\ Unarmed'
    BY <1>7, RefreshOwned
  <1>8. ASSUME NEW r \in Requests, Refreshed(r) PROVE Owned' /\ Entering' /\ Unarmed'
    BY <1>8, RefreshedOwned
  <1>9. ASSUME NEW r \in Requests, RefreshFailed(r) PROVE Owned' /\ Entering' /\ Unarmed'
    BY <1>9, RefreshFailedOwned
  <1>10. CASE SignOut
    <2>1. \A q \in Requests : req'[q] = Settled
      BY <1>10 DEF SignOut, Quiet, IInv, TypeOK
    <2>2. local' = Empty /\ session' = Empty /\ store' = SignedOut
      BY <1>10 DEF SignOut, ClearAuth
    <2> QED
      BY <2>1, <2>2, SettledCall, EmptyTokens
         DEF Owned, Entering, Unarmed, Mine, Counts, SignedOut
  <1>11. CASE Reload
    <2>1. \A q \in Requests : req'[q] = Settled
      BY <1>11 DEF Reload
    <2>2. UNCHANGED <<local, session, store>> /\ default' = NoUser
      BY <1>11 DEF Reload, tokens
    <2> QED
      BY <2>1, <2>2, SettledCall DEF Owned, Entering, Unarmed, Mine, Counts
  <1>12. CASE UNCHANGED vars
    BY <1>12 DEF vars, Owned, Entering, Unarmed, Mine, Counts, AccessToken
  <1> QED
    BY <1>1, <1>2, <1>3, <1>4, <1>5, <1>6, <1>7, <1>8, <1>9, <1>10, <1>11, <1>12 DEF Next

LEMMA InitOwners == Init => Owners
  BY SettledCall, EmptyTokens
     DEF Init, Owners, Owned, Entering, Unarmed, Mine, Counts, SignedOut

\* With patient and tidy users, the tokens are of the user who is shown, and so is
\* what is sent, until the page is about to be left.
THEOREM Identity == Spec => []ActsAsShown
  <1>1. IInv /\ Owners => ActsAsShown
    <2> SUFFICES ASSUME IInv, Owned, Unarmed, store.user # NoUser
                 PROVE /\ store.token = store.user
                       /\ AccessToken \in {store.user, NoUser}
                       /\ ~leaving => \A r \in Requests :
                              req[r].pc = "sent" /\ req[r].kind # "login" =>
                                  req[r].as \in {store.user, NoUser}
      BY DEF Owners, ActsAsShown
    <2>1. store.token = store.user /\ AccessToken \in {store.user, NoUser}
      BY TokensMine DEF Owned, Mine
    <2>2. ASSUME ~leaving, NEW r \in Requests, req[r].kind # "login"
          PROVE req[r].as \in {store.user, NoUser}
      BY <2>2 DEF IInv, TypeOK, Call, Owned, Mine, Counts
    <2> QED
      BY <2>1, <2>2
  <1>2. Spec => []Owners
    BY InitOwners, NextOwners, Invariance, PTL DEF Spec
  <1> QED
    BY <1>1, <1>2, Invariance, PTL
===============================================================================
