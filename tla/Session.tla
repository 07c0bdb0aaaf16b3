------------------------------ MODULE Session ------------------------------
(***************************************************************************)
(* The session of one browser: the auth package of api-service and the     *)
(* token handling of the web client.                                       *)
(*                                                                         *)
(* The browser has one cookie jar and several tabs.  A loaded page keeps   *)
(* an access token in memory and shares one refresh between everything in  *)
(* it that needs one.  On the server a refresh is three Redis commands:    *)
(* GET, DEL of the old token, SET of the new one.                          *)
(*                                                                         *)
(* Tokens are issued in pairs with the same number; 0 stands for no token. *)
(* An access token is good until it has expired, a refresh token while it  *)
(* is in Redis.  Requests to the auth endpoints stay in calls when they    *)
(* have been answered, as the history the properties refer to.             *)
(***************************************************************************)
EXTENDS Naturals

CONSTANTS
    Tabs,
    Fetches,     \* SWR hooks of the pages
    Mounted,     \* those on the page that each tab shows
    Climate,     \* those with the fetcher of useClimate, which never redirects
    MaxCalls,    \* bound on the requests to the auth endpoints
    MaxMishaps   \* bound on failing Redis commands, lost answers, expiring refresh tokens and
                 \* pages that the user loads

ASSUME SessionAssumption ==
    /\ Tabs # {} /\ Climate \subseteq Fetches /\ Mounted \in [Tabs -> SUBSET Fetches]
    /\ MaxCalls \in Nat /\ MaxMishaps \in Nat

VARIABLES
    stored,   \* refresh tokens in Redis
    issued,   \* number of pairs generated
    expired,  \* access tokens up to this one are past their exp
    cookie,   \* refresh_token in the jar
    page,     \* number of the page loaded in each tab
    view,     \* "login", "checking" (ProtectedRoute) or "app"
    auth,     \* tabs with isAuthenticated
    asking,   \* tabs in which a ProtectedRoute, mounted or not, waits for doRefresh
    access,   \* accessToken of the page
    fetch,    \* what each SWR hook of the page waits for, and the token it sent
    calls,    \* requests to /auth/refresh, /auth/login and /auth/logout
    sent,     \* how many of them there are
    mishaps,  \* failed Redis commands, lost answers, expired refresh tokens and pages loaded
    lost      \* history: tokens that ended by TTL, or with an answer that never came, be it
              \* the server's or that of Redis

vars == <<stored, issued, expired, cookie, page, view, auth, asking, access,
          fetch, calls, sent, mishaps, lost>>
server == <<stored, issued, expired, mishaps>>
tabs == <<page, view, auth, asking, access, fetch>>

Idle == [at |-> "idle", tok |-> 0]
NoFetch == [h \in Fetches |-> Idle]

\* A slot of calls that is not in use.
Unused == [kind |-> "none", tab |-> CHOOSE t \in Tabs : TRUE, page |-> 0, step |-> "none",
           tok |-> 0, bearer |-> 0, pair |-> 0, done |-> TRUE]

\* The browser starts without a session or with the cookie of an earlier visit.
Init ==
    /\ issued \in {0, 1} /\ stored = 1 .. issued /\ cookie = issued /\ expired = issued
    /\ page = [t \in Tabs |-> 1] /\ view = [t \in Tabs |-> "login"]
    /\ auth = {} /\ asking = {}
    /\ access = [t \in Tabs |-> 0] /\ fetch = [t \in Tabs |-> NoFetch]
    /\ calls = [i \in 1 .. MaxCalls |-> Unused]
    /\ sent = 0 /\ mishaps = 0 /\ lost = {}

-----------------------------------------------------------------------------
(* api-service *)

ValidateAccessToken(a) == a > expired

\* A request of page p with the cookie and the bearer token that its handler looks at.
Post(kind, step, t, p, tok, bearer) ==
    /\ sent < MaxCalls
    /\ sent' = sent + 1
    /\ calls' = [calls EXCEPT ![sent + 1] =
                    [kind |-> kind, tab |-> t, page |-> p, step |-> step, tok |-> tok,
                     bearer |-> bearer, pair |-> 0, done |-> FALSE]]

At(i, kind, step) == i <= sent /\ calls[i].kind = kind /\ calls[i].step = step
Goto(i, step) == calls' = [calls EXCEPT ![i].step = step]

\* The page that sent the request is gone: the browser has dropped the connection.
Gone(c) == c.page # page[c.tab]

\* A Redis command of request i fails; it is cancelled with the request's context
\* when the page is gone.
Fail(i) ==
    /\ Goto(i, "error")
    /\ \/ Gone(calls[i]) /\ UNCHANGED mishaps
       \/ mishaps < MaxMishaps /\ mishaps' = mishaps + 1

\* Mutant: the service passes on the repository's error for a token that is gone, which
\* the handler does not know.
GetUserIDUnmapped(i) ==
    /\ At(i, "refresh", "get")
    /\ \/ Goto(i, IF calls[i].tok \in stored THEN "del" ELSE "notfound") /\ UNCHANGED mishaps
       \/ calls[i].tok # 0 /\ Fail(i)
    /\ UNCHANGED <<stored, issued, expired, cookie, tabs, sent, lost>>

\* GetUserID of Refresh; without a cookie the handler has answered before it.
GetUserID(i) ==
    /\ At(i, "refresh", "get")
    /\ \/ Goto(i, IF calls[i].tok \in stored THEN "del" ELSE "unauthorized") /\ UNCHANGED mishaps
       \/ calls[i].tok # 0 /\ Fail(i)
    /\ UNCHANGED <<stored, issued, expired, cookie, tabs, sent, lost>>

\* A DEL that returns an error may have been executed.
FailDelete(i) ==
    /\ Fail(i)
    /\ \/ UNCHANGED <<stored, lost>>
       \/ stored' = stored \ {calls[i].tok} /\ lost' = lost \cup ({calls[i].tok} \cap stored)

\* Mutant: the old token is left to its TTL.
DeleteNothing(i) ==
    /\ At(i, "refresh", "del")
    /\ Goto(i, "set")
    /\ UNCHANGED <<server, cookie, tabs, sent, lost>>

\* Delete of Refresh: a token that another refresh has deleted meanwhile is no error.
Delete(i) ==
    /\ At(i, "refresh", "del")
    /\ \/ /\ stored' = stored \ {calls[i].tok}
          /\ Goto(i, "set")
          /\ UNCHANGED <<mishaps, lost>>
       \/ FailDelete(i)
    /\ UNCHANGED <<issued, expired, cookie, tabs, sent>>

\* Store of issueTokenPair, for a refresh or a login.  When it fails after Delete the
\* session has no token left, although Redis may have the one that nobody is told.
Store(i) ==
    /\ At(i, "refresh", "set") \/ At(i, "login", "set")
    /\ \/ /\ issued' = issued + 1
          /\ stored' = stored \cup {issued + 1}
          /\ calls' = [calls EXCEPT ![i].step = "ok", ![i].pair = issued + 1]
          /\ UNCHANGED <<mishaps, lost>>
       \/ /\ Fail(i)
          /\ lost' = lost \cup ({calls[i].tok} \ (stored \cup {0}))
          /\ \/ UNCHANGED <<issued, stored>>
             \/ issued' = issued + 1 /\ stored' = stored \cup {issued + 1}
    /\ UNCHANGED <<expired, cookie, tabs, sent>>

\* Wrong credentials.
Reject(i) ==
    /\ At(i, "login", "set")
    /\ Goto(i, "unauthorized")
    /\ UNCHANGED <<server, cookie, tabs, sent, lost>>

\* Middleware and Logout: the access token must be valid and the cookie there.
LogoutDelete(i) ==
    /\ At(i, "logout", "del")
    /\ \/ /\ ~ValidateAccessToken(calls[i].bearer) \/ calls[i].tok = 0
          /\ Goto(i, "unauthorized")
          /\ UNCHANGED <<stored, mishaps, lost>>
       \/ /\ ValidateAccessToken(calls[i].bearer) /\ calls[i].tok # 0
          /\ \/ /\ stored' = stored \ {calls[i].tok}
                /\ Goto(i, "ok")
                /\ UNCHANGED <<mishaps, lost>>
             \/ FailDelete(i)
    /\ UNCHANGED <<issued, expired, cookie, tabs, sent>>

\* Access tokens expire in the order in which they were issued.
ExpireAccess ==
    /\ expired < issued
    /\ expired' = expired + 1
    /\ UNCHANGED <<stored, issued, cookie, tabs, calls, sent, mishaps, lost>>

\* The TTL of Repository.Store, which the oldest token reaches first.
ExpireRefresh(r) ==
    /\ r \in stored /\ \A q \in stored : r <= q
    /\ mishaps < MaxMishaps /\ mishaps' = mishaps + 1
    /\ stored' = stored \ {r} /\ lost' = lost \cup {r}
    /\ UNCHANGED <<issued, expired, cookie, tabs, calls, sent>>

-----------------------------------------------------------------------------
(* web client *)

\* refreshPromise of the page that t has loaded.
InFlight(t) ==
    \E i \in 1 .. sent : /\ calls[i].kind = "refresh" /\ ~calls[i].done
                         /\ calls[i].tab = t /\ calls[i].page = page[t]

\* Mutant: every caller starts a refresh of its own.
DoRefreshEach(t, p) == Post("refresh", "get", t, p, cookie, 0)

\* doRefresh on page p of t: join the refresh that is in flight, or start one.
DoRefresh(t, p) ==
    \/ InFlight(t) /\ p = page[t] /\ UNCHANGED <<calls, sent>>
    \/ ~(InFlight(t) /\ p = page[t]) /\ Post("refresh", "get", t, p, cookie, 0)

\* The browser loads the app (a bookmark, a reload): ProtectedRoute finds no token.
Load(t) ==
    /\ mishaps < MaxMishaps /\ mishaps' = mishaps + 1
    /\ page' = [page EXCEPT ![t] = @ + 1]
    /\ view' = [view EXCEPT ![t] = "checking"]
    /\ auth' = auth \ {t} /\ asking' = asking \cup {t}
    /\ access' = [access EXCEPT ![t] = 0]
    /\ fetch' = [fetch EXCEPT ![t] = NoFetch]
    /\ DoRefresh(t, page[t] + 1)
    /\ UNCHANGED <<stored, issued, expired, cookie, lost>>

\* The user goes from /login to a protected route.  With a token in memory it does not
\* ask for another one, and leads back to /login unless isAuthenticated.
Visit(t) ==
    /\ view[t] = "login"
    /\ \/ /\ access[t] = 0
          /\ view' = [view EXCEPT ![t] = "checking"]
          /\ asking' = asking \cup {t}
          /\ DoRefresh(t, page[t])
       \/ /\ access[t] # 0 /\ t \in auth
          /\ view' = [view EXCEPT ![t] = "app"]
          /\ UNCHANGED <<asking, calls, sent>>
    /\ UNCHANGED <<server, cookie, page, auth, access, fetch, lost>>

Login(t) ==
    /\ view[t] = "login"
    /\ Post("login", "set", t, page[t], 0, 0)
    /\ UNCHANGED <<server, cookie, tabs, lost>>

\* handleLogout of Nav, which is there while ProtectedRoute still checks, does not wait
\* for the answer.
Logout(t) ==
    /\ view[t] # "login"
    /\ Post("logout", "del", t, page[t], cookie, access[t])
    /\ access' = [access EXCEPT ![t] = 0]
    /\ view' = [view EXCEPT ![t] = "login"]
    /\ auth' = auth \ {t}
    /\ UNCHANGED <<server, cookie, page, asking, fetch, lost>>

\* sendRequest
SendRequest(t, h) ==
    /\ h \in Mounted[t] /\ view[t] # "login" /\ fetch[t][h] = Idle
    /\ fetch' = [fetch EXCEPT ![t][h] = [at |-> "sent", tok |-> access[t]]]
    /\ UNCHANGED <<server, cookie, page, view, auth, asking, access, calls, sent, lost>>

\* The request is answered, or fails, or it is answered with 401 and the hook waits for a
\* refresh.
Answer(t, h) ==
    /\ fetch[t][h].at = "sent"
    /\ \/ /\ fetch' = [fetch EXCEPT ![t][h] = Idle]
          /\ UNCHANGED <<calls, sent>>
       \/ /\ ~ValidateAccessToken(fetch[t][h].tok)
          /\ fetch' = [fetch EXCEPT ![t][h] = [Idle EXCEPT !.at = "waiting"]]
          /\ DoRefresh(t, page[t])
    /\ UNCHANGED <<server, cookie, page, view, auth, asking, access, lost>>

\* window.location.href = '/login' loads a new page.
Redirect(t) ==
    /\ page' = [page EXCEPT ![t] = @ + 1]
    /\ view' = [view EXCEPT ![t] = "login"]
    /\ auth' = auth \ {t} /\ asking' = asking \ {t}
    /\ access' = [access EXCEPT ![t] = 0]
    /\ fetch' = [fetch EXCEPT ![t] = NoFetch]

\* The retry is answered or fails: with a second 401 the global fetcher gives up.
AnswerRetry(t, h) ==
    /\ fetch[t][h].at = "resent"
    /\ \/ /\ fetch' = [fetch EXCEPT ![t][h] = Idle]
          /\ UNCHANGED <<page, view, auth, asking, access>>
       \/ ~ValidateAccessToken(fetch[t][h].tok) /\ h \notin Climate /\ Redirect(t)
    /\ UNCHANGED <<server, cookie, calls, sent, lost>>

Waiting(t) == {h \in Fetches : fetch[t][h].at = "waiting"}

Answered(i) == i <= sent /\ ~calls[i].done /\ calls[i].step \in {"ok", "unauthorized", "error", "lost"}
Done(i) == calls' = [calls EXCEPT ![i].done = TRUE]

\* The connection breaks before all of the answer is there; the browser may already have
\* the header with the cookie (0 for a logout).
AnswerLost(i) ==
    /\ Answered(i) /\ ~Gone(calls[i]) /\ calls[i].step = "ok"
    /\ Goto(i, "lost")
    /\ mishaps < MaxMishaps /\ mishaps' = mishaps + 1
    /\ \/ cookie' = calls[i].pair /\ UNCHANGED lost
       \/ lost' = lost \cup ({calls[i].tok} \ (stored \cup {0})) /\ UNCHANGED cookie
    /\ UNCHANGED <<stored, issued, expired, tabs, sent>>

\* Mutant: the answer to a refresh comes without setRefreshCookie.
RefreshedNoCookie(i) ==
    LET t == calls[i].tab  n == calls[i].pair IN
    /\ Answered(i) /\ ~Gone(calls[i]) /\ calls[i].kind = "refresh" /\ calls[i].step = "ok"
    /\ Done(i)
    /\ access' = [access EXCEPT ![t] = n]
    /\ fetch' = [fetch EXCEPT ![t] = [h \in Fetches |->
                    IF h \in Waiting(t) THEN [at |-> "resent", tok |-> n] ELSE @[h]]]
    /\ view' = [view EXCEPT ![t] = IF @ = "checking" THEN "app" ELSE @]
    /\ auth' = auth \cup ({t} \cap asking) /\ asking' = asking \ {t}
    /\ UNCHANGED <<server, cookie, page, sent, lost>>

\* refreshPromise resolves: the token is set, the hooks that waited send again, and
\* ProtectedRoute logs in.
Refreshed(i) ==
    LET t == calls[i].tab  n == calls[i].pair IN
    /\ Answered(i) /\ ~Gone(calls[i]) /\ calls[i].kind = "refresh" /\ calls[i].step = "ok"
    /\ Done(i)
    /\ cookie' = n
    /\ access' = [access EXCEPT ![t] = n]
    /\ fetch' = [fetch EXCEPT ![t] = [h \in Fetches |->
                    IF h \in Waiting(t) THEN [at |-> "resent", tok |-> n] ELSE @[h]]]
    /\ view' = [view EXCEPT ![t] = IF @ = "checking" THEN "app" ELSE @]
    /\ auth' = auth \cup ({t} \cap asking) /\ asking' = asking \ {t}
    /\ UNCHANGED <<server, page, sent, lost>>

\* Mutant: setChecking(false) only after a refresh that succeeded.
RefreshFailedKeepsChecking(i) ==
    LET t == calls[i].tab IN
    /\ Answered(i) /\ ~Gone(calls[i]) /\ calls[i].kind = "refresh" /\ calls[i].step # "ok"
    /\ Done(i)
    /\ IF Waiting(t) \subseteq Climate
       THEN /\ fetch' = [fetch EXCEPT ![t] = [h \in Fetches |->
                            IF h \in Waiting(t) THEN Idle ELSE @[h]]]
            /\ asking' = asking \ {t}
            /\ UNCHANGED <<page, view, auth, access>>
       ELSE Redirect(t)
    /\ UNCHANGED <<server, cookie, sent, lost>>

\* refreshPromise rejects: the global fetcher redirects, ProtectedRoute navigates to
\* /login, the fetcher of useClimate throws.
RefreshFailed(i) ==
    LET t == calls[i].tab IN
    /\ Answered(i) /\ ~Gone(calls[i]) /\ calls[i].kind = "refresh" /\ calls[i].step # "ok"
    /\ Done(i)
    /\ IF Waiting(t) \subseteq Climate
       THEN /\ fetch' = [fetch EXCEPT ![t] = [h \in Fetches |->
                            IF h \in Waiting(t) THEN Idle ELSE @[h]]]
            /\ view' = [view EXCEPT ![t] = IF @ = "checking" THEN "login" ELSE @]
            /\ asking' = asking \ {t}
            /\ UNCHANGED <<page, auth, access>>
       ELSE Redirect(t)
    /\ UNCHANGED <<server, cookie, sent, lost>>

\* LoginPage: login(token) and navigate('/dashboard'), or an error message.
LoggedIn(i) ==
    LET t == calls[i].tab  ok == calls[i].step = "ok" IN
    /\ Answered(i) /\ ~Gone(calls[i]) /\ calls[i].kind = "login"
    /\ Done(i)
    /\ cookie' = IF ok THEN calls[i].pair ELSE cookie
    /\ access' = IF ok THEN [access EXCEPT ![t] = calls[i].pair] ELSE access
    /\ view' = IF ok THEN [view EXCEPT ![t] = "app"] ELSE view
    /\ auth' = IF ok THEN auth \cup {t} ELSE auth
    /\ UNCHANGED <<server, page, asking, fetch, sent, lost>>

\* clearRefreshCookie; the client ignores the answer.
LoggedOut(i) ==
    /\ Answered(i) /\ ~Gone(calls[i]) /\ calls[i].kind = "logout"
    /\ Done(i)
    /\ cookie' = IF calls[i].step = "ok" THEN 0 ELSE cookie
    /\ UNCHANGED <<server, tabs, sent, lost>>

\* The answer for a page that is gone reaches nobody, and its cookie is not set.
Dropped(i) ==
    /\ Answered(i) /\ Gone(calls[i])
    /\ Done(i)
    /\ lost' = lost \cup ({calls[i].tok} \ (stored \cup {0}))
    /\ UNCHANGED <<server, cookie, tabs, sent>>

Handle(i) == GetUserID(i) \/ Delete(i) \/ Store(i) \/ LogoutDelete(i)

Deliver(i) == AnswerLost(i) \/ Refreshed(i) \/ RefreshFailed(i) \/ LoggedIn(i) \/ LoggedOut(i) \/ Dropped(i)

User(t) == Load(t) \/ Visit(t) \/ Login(t) \/ Logout(t)

Fetch(t, h) == SendRequest(t, h) \/ Answer(t, h) \/ AnswerRetry(t, h)

Next ==
    \/ \E i \in 1 .. MaxCalls : Handle(i) \/ Reject(i) \/ Deliver(i)
    \/ \E t \in Tabs : User(t) \/ (\E h \in Fetches : Fetch(t, h))
    \/ ExpireAccess
    \/ \E r \in 1 .. MaxCalls + 1 : ExpireRefresh(r)

Spec == Init /\ [][Next]_vars

-----------------------------------------------------------------------------
(* Properties *)

Kinds == {"none", "refresh", "login", "logout"}
Steps == {"none", "get", "del", "set", "ok", "unauthorized", "error", "lost"}

CallType == [kind : Kinds, tab : Tabs, page : Nat, step : Steps, tok : Nat, bearer : Nat,
             pair : Nat, done : BOOLEAN]
HookType == [at : {"idle", "sent", "waiting", "resent"}, tok : Nat]

TypeOK ==
    /\ stored \subseteq Nat /\ issued \in Nat /\ expired \in Nat /\ cookie \in Nat /\ lost \subseteq Nat
    /\ page \in [Tabs -> Nat] /\ view \in [Tabs -> {"login", "checking", "app"}]
    /\ auth \subseteq Tabs /\ asking \subseteq Tabs
    /\ access \in [Tabs -> Nat] /\ fetch \in [Tabs -> [Fetches -> HookType]]
    /\ calls \in [1 .. MaxCalls -> CallType] /\ sent \in 0 .. MaxCalls /\ mishaps \in Nat

\* The token in the jar is one the server knows, unless a request that carried it is
\* still on its way, its answer was lost, a Redis command failed at the DEL, or between it
\* and the SET of its rotation, or its TTL has passed.
JarAlive ==
    \/ cookie \in {0} \cup stored \cup lost
    \/ \E i \in 1 .. sent : calls[i].tok = cookie /\ ~calls[i].done

\* Refresh rotates: once a refresh has a new token the one it presented is dead for good,
\* whatever other tabs did with it at the same time.
RotatedIsDead ==
    \A i \in 1 .. sent :
        calls[i].kind = "refresh" /\ calls[i].pair # 0 => calls[i].tok \notin stored

\* auth.jsx: "only one POST /auth/refresh fires".  A page presents a token it has
\* presented before only when the first attempt failed or its answer was lost, so its hooks
\* never race each other.
OncePerPage ==
    \A i, j \in 1 .. sent :
        /\ i < j
        /\ calls[i].kind = "refresh" /\ calls[j].kind = "refresh"
        /\ calls[i].tab = calls[j].tab /\ calls[i].page = calls[j].page
        /\ calls[i].tok = calls[j].tok /\ calls[i].tok # 0
        => calls[i].pair = 0 \/ calls[i].step = "lost"

\* ProtectedRoute renders nothing and a hook keeps loading only while a refresh of the
\* page is in flight, whose answer wakes them: neither is left waiting for nothing.
NobodyStranded ==
    \A t \in Tabs : view[t] = "checking" \/ t \in asking \/ Waiting(t) # {} => InFlight(t)
=============================================================================
