-------------------------------- MODULE Session --------------------------------
(***************************************************************************)
(* Who the front end acts as: the tokens in the two web storages, the      *)
(* store that says who is signed in, and the interceptors of the API       *)
(* client, which answer a 401 by refreshing the access token once for all  *)
(* the requests that wait for it (shared/api/client.ts, authStore.ts,      *)
(* useAuth.ts), in one browser tab.                                        *)
(*                                                                         *)
(* A token is its owner: whether it has expired is the server's word, so   *)
(* any request may be answered with a 401. The store is persisted, and     *)
(* what a redirect to /login loses is the requests and the queue.          *)
(***************************************************************************)
EXTENDS Naturals, FiniteSets

CONSTANTS Users, NoUser,
          Requests,     \* names for requests, used again once settled
          MaxIssued,    \* bound on the requests of a behaviour
          Patient,      \* users come and go only while nothing is under way, and
                        \* save nothing on a page that is about to be left
          Tidy          \* nobody signs in over somebody, or twice at once

ASSUME UsersAssumption == NoUser \notin Users
ASSUME IssuedAssumption == MaxIssued \in Nat
ASSUME MannersAssumption == Patient \in BOOLEAN /\ Tidy \in BOOLEAN

VARIABLES local, session,       \* localStorage, sessionStorage
          store,                \* useAuthStore
          req,                  \* the requests
          isRefreshing,
          default,      \* the Authorization header a refresh leaves in the client
          leaving,              \* window.location.href has been set
          issued

vars == <<local, session, store, req, isRefreshing, default, leaving, issued>>
tokens == <<local, session>>

SomeUser == Users \cup {NoUser}
Empty == [access |-> NoUser, refresh |-> NoUser]
SignedOut == [user |-> NoUser, token |-> NoUser, refreshToken |-> NoUser]
Settled == [ pc |-> "none", kind |-> "data", as |-> NoUser, who |-> NoUser,
             remember |-> FALSE, _retry |-> FALSE ]

\* What the request interceptor and the refresh find, session first.
First(a, b) == IF a # NoUser THEN a ELSE b
AccessToken == First(session.access, local.access)
RefreshToken == First(session.refresh, local.refresh)

Quiet == isRefreshing = FALSE /\ \A r \in Requests : req[r].pc = "none"

\* ------------------------------------------------------------------ the store
\* setAuth. It clears the other storage in one direction only.
SetAuth(user, token, refreshToken, remember) ==
    /\ store' = [user |-> user, token |-> token, refreshToken |-> refreshToken]
    /\ IF remember
       THEN /\ local' = [ access |-> token, refresh |-> First(refreshToken, local.refresh) ]
            /\ UNCHANGED session
       ELSE /\ session' = [ access |-> token,
                            refresh |-> First(refreshToken, session.refresh) ]
            /\ local' = Empty

\* A mutant of ClearAuth: what authService.logout clears.
ClearAuthLocal ==
    /\ store' = SignedOut
    /\ local' = Empty
    /\ UNCHANGED session

ClearAuth ==
    /\ store' = SignedOut
    /\ local' = Empty /\ session' = Empty

\* ---------------------------------------------------------------- the requests
\* The request interceptor. Without a token in the storages it leaves the header
\* as it is, which is the default of the client, and that of the last refresh.
Issue(r, kind, who, remember) ==
    /\ req[r].pc = "none"
    /\ issued < MaxIssued
    /\ issued' = issued + 1
    /\ req' = [req EXCEPT ![r] = [ pc |-> "sent", kind |-> kind,
                                   as |-> First(AccessToken, default),
                                   who |-> who, remember |-> remember,
                                   _retry |-> FALSE ]]
    /\ UNCHANGED <<local, session, store, isRefreshing, default, leaving>>

\* useLogin, useCompleteLogin2FA, useRegister
SignIn(r) ==
    /\ Patient => Quiet
    /\ Tidy => /\ store.user = NoUser \/ (AccessToken = NoUser /\ RefreshToken = NoUser)
               /\ \A q \in Requests : req[q].kind # "login"
    /\ \E u \in Users, remember \in BOOLEAN : Issue(r, "login", u, remember)

\* Any query or mutation of a protected page, ...
Fetch(r) == store.user # NoUser /\ Issue(r, "data", NoUser, FALSE)

\* ... and useUpdateProfile.
SaveProfile(r) ==
    /\ store.user # NoUser
    /\ Patient => ~leaving
    /\ Issue(r, "profile", NoUser, FALSE)

\* useLogout
SignOut ==
    /\ store.user # NoUser
    /\ Patient => Quiet
    /\ ClearAuth
    /\ UNCHANGED <<req, isRefreshing, default, leaving, issued>>

\* A mutant of Settle: the name keeps what it has been through.
SettleKeeps(r) == req' = [req EXCEPT ![r].pc = "none"]

Settle(r) == req' = [req EXCEPT ![r] = Settled]

\* onSuccess. A login may ask for a code instead, which is another request.
Succeed(r) ==
    /\ req[r].pc = "sent" /\ (req[r].kind = "login" \/ req[r].as # NoUser)
    /\ CASE req[r].kind = "data" -> UNCHANGED <<tokens, store>>
         [] req[r].kind = "login" ->
              \/ SetAuth(req[r].who, req[r].who, req[r].who, req[r].remember)
              \/ UNCHANGED <<tokens, store>>
         [] req[r].kind = "profile" ->
              IF store.token # NoUser /\ store.refreshToken # NoUser
              THEN SetAuth(req[r].as, store.token, store.refreshToken, TRUE)
              ELSE UNCHANGED <<tokens, store>>
    /\ Settle(r)
    /\ UNCHANGED <<isRefreshing, default, leaving, issued>>

\* Any answer but a success or a 401, or none in time.
Fail(r) ==
    /\ req[r].pc = "sent"
    /\ Settle(r)
    /\ UNCHANGED <<tokens, store, isRefreshing, default, leaving, issued>>

\* Mutants of MayRetry and MayRefresh: a request is never marked, and each
\* refreshes for itself.
MayRetryEver(r) == TRUE
MayRefreshEver(r) == TRUE

MayRetry(r) == ~req[r]._retry
MayRefresh(r) == ~isRefreshing

\* The response interceptor, on a 401: give up, ...
Reject(r) ==
    /\ req[r].pc = "sent" /\ ~MayRetry(r)
    /\ Settle(r)
    /\ UNCHANGED <<tokens, store, isRefreshing, default, leaving, issued>>

\* ... wait for the refresh under way, ...
Enqueue(r) ==
    /\ req[r].pc = "sent" /\ MayRetry(r) /\ ~MayRefresh(r)
    /\ req' = [req EXCEPT ![r].pc = "queued"]
    /\ UNCHANGED <<tokens, store, isRefreshing, default, leaving, issued>>

\* ... begin one, ...
Refresh(r) ==
    /\ req[r].pc = "sent" /\ MayRetry(r) /\ MayRefresh(r)
    /\ RefreshToken # NoUser
    /\ isRefreshing' = TRUE
    /\ req' = [req EXCEPT ![r].pc = "refreshing", ![r]._retry = TRUE, ![r].as = RefreshToken]
    /\ UNCHANGED <<tokens, store, default, leaving, issued>>

\* ... or go to the login page, for want of a token to refresh with.
NoRefresh(r) ==
    /\ req[r].pc = "sent" /\ MayRetry(r) /\ MayRefresh(r)
    /\ RefreshToken = NoUser
    /\ local' = [local EXCEPT !.access = NoUser]
    /\ session' = [session EXCEPT !.access = NoUser]
    /\ Settle(r)
    /\ leaving' = TRUE
    /\ UNCHANGED <<store, isRefreshing, default, issued>>

\* The refresh that r began is answered: the token goes where a refresh token is
\* now, and r and the queue are sent again, with what is stored by then.
Refreshed(r) ==
    /\ req[r].pc = "refreshing"
    /\ LET token == req[r].as
       IN /\ IF session.refresh # NoUser
             THEN session' = [session EXCEPT !.access = token] /\ UNCHANGED local
             ELSE local' = [local EXCEPT !.access = token] /\ UNCHANGED session
          /\ store' = IF store.user # NoUser THEN [store EXCEPT !.token = token] ELSE store
          /\ default' = token
    /\ req' = [q \in Requests |->
                  IF q = r \/ req[q].pc = "queued"
                  THEN [req[q] EXCEPT !.pc = "sent", !.as = AccessToken']
                  ELSE req[q]]
    /\ isRefreshing' = FALSE
    /\ UNCHANGED <<leaving, issued>>

\* The refresh is refused or fails: everyone is rejected, and the tokens go, but
\* not the store.
RefreshFailed(r) ==
    /\ req[r].pc = "refreshing"
    /\ local' = Empty /\ session' = Empty
    /\ req' = [q \in Requests |->
                  IF q = r \/ req[q].pc = "queued" THEN Settled ELSE req[q]]
    /\ isRefreshing' = FALSE
    /\ leaving' = TRUE
    /\ UNCHANGED <<store, default, issued>>

\* The page is loaded again: only storages and the persisted store survive.
Reload ==
    /\ leaving
    /\ leaving' = FALSE
    /\ req' = [r \in Requests |-> Settled]
    /\ isRefreshing' = FALSE
    /\ default' = NoUser
    /\ UNCHANGED <<tokens, store, issued>>

\* --------------------------------------------------------------------- spec
Init ==
    /\ local = Empty /\ session = Empty
    /\ store = SignedOut
    /\ req = [r \in Requests |-> Settled]
    /\ isRefreshing = FALSE
    /\ default = NoUser
    /\ leaving = FALSE
    /\ issued = 0

Next ==
    \/ \E r \in Requests :
          \/ SignIn(r) \/ Fetch(r) \/ SaveProfile(r)
          \/ Succeed(r) \/ Fail(r)
          \/ Reject(r) \/ Enqueue(r) \/ Refresh(r) \/ NoRefresh(r)
          \/ Refreshed(r) \/ RefreshFailed(r)
    \/ SignOut
    \/ Reload

Spec == Init /\ [][Next]_vars

\* Requests have a timeout of their own, so each is answered or fails, and the
\* browser loads the page it was told to.
Fairness ==
    /\ \A r \in Requests :
          /\ WF_vars(Succeed(r) \/ Fail(r) \/ Reject(r) \/ Enqueue(r)
                        \/ Refresh(r) \/ NoRefresh(r))
          /\ WF_vars(Refreshed(r) \/ RefreshFailed(r))
    /\ WF_vars(Reload)
LiveSpec == Spec /\ Fairness

\* --------------------------------------------------------------- properties
Call == [ pc : {"none", "sent", "refreshing", "queued"},
          kind : {"data", "login", "profile"}, as : SomeUser, who : SomeUser,
          remember : BOOLEAN, _retry : BOOLEAN ]

TypeOK ==
    /\ local \in [access : SomeUser, refresh : SomeUser]
    /\ session \in [access : SomeUser, refresh : SomeUser]
    /\ store \in [user : SomeUser, token : SomeUser, refreshToken : SomeUser]
    /\ req \in [Requests -> Call]
    /\ \A r \in Requests : req[r].pc = "none" => req[r] = Settled
    /\ isRefreshing \in BOOLEAN /\ leaving \in BOOLEAN /\ default \in SomeUser
    /\ issued \in 0 .. MaxIssued

\* Of the requests that meet a 401 at once, one refreshes, and the others wait
\* only while it does: processQueue is called once more for every request that
\* has been queued, whatever the refresh comes to.
OneRefresh ==
    /\ \A r, q \in Requests :
          req[r].pc = "refreshing" /\ req[q].pc = "refreshing" => r = q
    /\ isRefreshing <=> \E r \in Requests : req[r].pc = "refreshing"
    /\ (\E q \in Requests : req[q].pc = "queued") => isRefreshing

\* The pages show the user whose tokens there are, and until the page is about to be
\* left, the requests under way are sent as that user or as nobody, if users are
\* patient and tidy: whatever was refreshed, refused or lost on the way, and although
\* the header of the last refresh outlives the user it was for.
ActsAsShown ==
    Patient /\ Tidy /\ store.user # NoUser =>
        /\ store.token = store.user
        /\ AccessToken \in {store.user, NoUser}
        /\ ~leaving => \A r \in Requests :
               req[r].pc = "sent" /\ req[r].kind # "login" =>
                   req[r].as \in {store.user, NoUser}

\* A request is settled in the end, however often it is sent again.
Settles == \A r \in Requests : req[r].pc # "none" ~> req[r].pc = "none"

\* client.ts:161, "Update authStore state to keep it in sync": after a refresh
\* the token in the store, and so the one that requests carry, is of its user.
KeepsInSync ==
    [][\A r \in Requests : Refreshed(r) /\ store.user # NoUser
          => store'.token = store'.user]_vars

\* client.ts:74, "Token storage: sessionStorage (rememberMe=false) or localStorage":
\* a request carries the token of the user who is signed in, or, when the storages
\* have been emptied, none.
SentFromStorage ==
    [][\A r \in Requests : Fetch(r) => req'[r].as \in {store.user, NoUser}]_vars
===============================================================================
