---------------------------- MODULE SessionProofs ----------------------------
(***************************************************************************)
(* Proofs about Session, for any number of tabs, hooks and requests.       *)
(***************************************************************************)
EXTENDS Session, TLAPS

CallsOK == calls \in [1 .. MaxCalls -> CallType] /\ sent \in 0 .. MaxCalls

\* Everything but calls and sent.
RestOK ==
    /\ stored \subseteq Nat /\ issued \in Nat /\ expired \in Nat /\ cookie \in Nat /\ lost \subseteq Nat
    /\ page \in [Tabs -> Nat] /\ view \in [Tabs -> {"login", "checking", "app"}]
    /\ auth \subseteq Tabs /\ asking \subseteq Tabs
    /\ access \in [Tabs -> Nat] /\ fetch \in [Tabs -> [Fetches -> HookType]] /\ mishaps \in Nat

LEMMA TypeSplit == TypeOK <=> RestOK /\ CallsOK
BY DEF TypeOK, RestOK, CallsOK

LEMMA CallFields ==
    ASSUME CallsOK, NEW i \in 1 .. MaxCalls
    PROVE  /\ calls[i].kind \in Kinds /\ calls[i].tab \in Tabs /\ calls[i].page \in Nat
           /\ calls[i].step \in Steps /\ calls[i].tok \in Nat /\ calls[i].bearer \in Nat
           /\ calls[i].pair \in Nat /\ calls[i].done \in BOOLEAN
BY DEF CallsOK, CallType

LEMMA SentCalls == ASSUME CallsOK, NEW i \in 1 .. sent PROVE i \in 1 .. MaxCalls
BY SessionAssumption DEF CallsOK

-----------------------------------------------------------------------------
(* How the steps change the requests. *)

Answers == {"ok", "unauthorized", "error", "lost"}

\* Everything but the step, the pair and done stays.
Keeps(j) ==
    /\ calls'[j].kind = calls[j].kind /\ calls'[j].tab = calls[j].tab
    /\ calls'[j].page = calls[j].page /\ calls'[j].tok = calls[j].tok

OnlyCall(i) ==
    /\ i \in 1 .. sent /\ sent' = sent /\ CallsOK'
    /\ \A j \in 1 .. sent : j # i => calls'[j] = calls[j]
    /\ Keeps(i)

LEMMA GotoFacts ==
    ASSUME CallsOK, NEW i \in 1 .. MaxCalls, i <= sent, sent' = sent, NEW s \in Steps, Goto(i, s)
    PROVE  /\ OnlyCall(i) /\ calls'[i].step = s
           /\ calls'[i].pair = calls[i].pair /\ calls'[i].done = calls[i].done
<1> DEFINE c == [calls[i] EXCEPT !.step = s]
<1>1. calls[i] \in CallType /\ calls' = [calls EXCEPT ![i] = c]
  BY DEF CallsOK, Goto
<1>2. /\ c \in CallType /\ c.step = s /\ c.kind = calls[i].kind /\ c.tab = calls[i].tab
      /\ c.page = calls[i].page /\ c.tok = calls[i].tok /\ c.pair = calls[i].pair
      /\ c.done = calls[i].done
  BY <1>1 DEF CallType
<1> HIDE DEF c
<1>3. calls'[i] = c /\ \A j \in 1 .. MaxCalls : j # i => calls'[j] = calls[j]
  BY <1>1 DEF CallsOK
<1>4. CallsOK'
  BY <1>1, <1>2 DEF CallsOK
<1> QED
  BY <1>2, <1>3, <1>4, SentCalls DEF Keeps, OnlyCall, CallsOK

LEMMA DoneFacts ==
    ASSUME CallsOK, NEW i \in 1 .. MaxCalls, i <= sent, sent' = sent, Done(i)
    PROVE  /\ OnlyCall(i) /\ calls'[i].step = calls[i].step
           /\ calls'[i].pair = calls[i].pair /\ calls'[i].done = TRUE
<1> DEFINE c == [calls[i] EXCEPT !.done = TRUE]
<1>1. calls[i] \in CallType /\ calls' = [calls EXCEPT ![i] = c]
  BY DEF CallsOK, Done
<1>2. /\ c \in CallType /\ c.step = calls[i].step /\ c.kind = calls[i].kind /\ c.tab = calls[i].tab
      /\ c.page = calls[i].page /\ c.tok = calls[i].tok /\ c.pair = calls[i].pair
      /\ c.done = TRUE
  BY <1>1 DEF CallType
<1> HIDE DEF c
<1>3. calls'[i] = c /\ \A j \in 1 .. MaxCalls : j # i => calls'[j] = calls[j]
  BY <1>1 DEF CallsOK
<1>4. CallsOK'
  BY <1>1, <1>2 DEF CallsOK
<1> QED
  BY <1>2, <1>3, <1>4, SentCalls DEF Keeps, OnlyCall, CallsOK

\* Store's answer.
LEMMA PairFacts ==
    ASSUME CallsOK, issued \in Nat, NEW i \in 1 .. MaxCalls, i <= sent, sent' = sent,
           calls' = [calls EXCEPT ![i].step = "ok", ![i].pair = issued + 1]
    PROVE  /\ OnlyCall(i) /\ calls'[i].step = "ok"
           /\ calls'[i].pair = issued + 1 /\ calls'[i].done = calls[i].done
<1> DEFINE c == [calls[i] EXCEPT !.step = "ok", !.pair = issued + 1]
<1>1. calls[i] \in CallType /\ issued + 1 \in Nat
  BY DEF CallsOK
<1>2. calls' = [calls EXCEPT ![i] = c]
  BY <1>1 DEF CallsOK, CallType
<1>3. /\ c \in CallType /\ c.step = "ok" /\ c.kind = calls[i].kind /\ c.tab = calls[i].tab
      /\ c.page = calls[i].page /\ c.tok = calls[i].tok /\ c.pair = issued + 1
      /\ c.done = calls[i].done
  BY <1>1 DEF CallType, Steps
<1> HIDE DEF c
<1>4. calls'[i] = c /\ \A j \in 1 .. MaxCalls : j # i => calls'[j] = calls[j]
  BY <1>2 DEF CallsOK
<1>5. CallsOK'
  BY <1>2, <1>3 DEF CallsOK
<1> QED
  BY <1>3, <1>4, <1>5, SentCalls DEF Keeps, OnlyCall, CallsOK

\* Request sent + 1 of page p of t is new.
Sends(t, p, kind) ==
    /\ CallsOK' /\ sent' = sent + 1 /\ sent' \in 1 .. MaxCalls
    /\ \A j \in 1 .. sent : calls'[j] = calls[j]
    /\ calls'[sent'].kind = kind /\ calls'[sent'].tab = t /\ calls'[sent'].page = p
    /\ calls'[sent'].step \in {"get", "del", "set"}
    /\ calls'[sent'].tok \in {0, cookie}
    /\ calls'[sent'].pair = 0 /\ calls'[sent'].done = FALSE
    /\ kind = "refresh" => calls'[sent'].step = "get"

LEMMA PostFacts ==
    ASSUME TypeOK, NEW t \in Tabs, NEW p \in Nat,
           NEW kind \in {"refresh", "login", "logout"}, NEW step \in {"get", "del", "set"},
           kind = "refresh" => step = "get",
           NEW tok \in {0, cookie}, NEW bearer \in Nat, Post(kind, step, t, p, tok, bearer)
    PROVE  Sends(t, p, kind)
<1> DEFINE c == [kind |-> kind, tab |-> t, page |-> p, step |-> step, tok |-> tok,
                 bearer |-> bearer, pair |-> 0, done |-> FALSE]
<1>1. CallsOK /\ tok \in Nat
  BY DEF TypeOK, CallsOK
<1>2. c \in CallType
  BY <1>1 DEF CallType, Kinds, Steps
<1>3. /\ c.kind = kind /\ c.tab = t /\ c.page = p /\ c.step = step /\ c.tok = tok
      /\ c.pair = 0 /\ c.done = FALSE
  OBVIOUS
<1>4. sent + 1 \in 1 .. MaxCalls /\ sent' = sent + 1 /\ calls' = [calls EXCEPT ![sent + 1] = c]
  BY <1>1, SessionAssumption DEF Post, CallsOK
<1> HIDE DEF c
<1>5. CallsOK' /\ calls'[sent + 1] = c
  BY <1>1, <1>2, <1>4 DEF CallsOK
<1>6. \A j \in 1 .. sent : calls'[j] = calls[j]
  BY <1>1, <1>4, SentCalls DEF CallsOK
<1> QED
  BY <1>3, <1>4, <1>5, <1>6 DEF Sends

\* doRefresh
LEMMA DoRefreshFacts ==
    ASSUME TypeOK, NEW t \in Tabs, NEW p \in Nat, DoRefresh(t, p)
    PROVE  \/ p = page[t] /\ InFlight(t) /\ UNCHANGED <<calls, sent>>
           \/ ~(p = page[t] /\ InFlight(t)) /\ Sends(t, p, "refresh")
<1>1. cookie \in Nat /\ 0 \in Nat
  BY DEF TypeOK
<1> QED
  BY <1>1, PostFacts DEF DoRefresh

-----------------------------------------------------------------------------
(* What a step does to the tokens, the pages and the requests: api-service     *)
(* works on a request, issues a pair, or its answer arrives; the client sends  *)
(* one; or the requests are left alone.                                        *)

\* The request has deleted the token it presented.
Consumed(c) ==
    \/ c.kind = "refresh" /\ c.step \in {"set", "ok"}
    \/ c.kind = "logout" /\ c.step = "ok"

Serves(i) ==
    /\ OnlyCall(i) /\ calls[i].step \notin Answers /\ ~Consumed(calls[i])
    /\ calls'[i].pair = calls[i].pair /\ calls'[i].done = calls[i].done
    /\ UNCHANGED <<issued, cookie, page>>
    /\ \/ /\ UNCHANGED <<stored, lost>>
          /\ calls'[i].step \in {"del", "unauthorized", "error"}
       \/ /\ stored' = stored \ {calls[i].tok} /\ lost' = lost
          /\ calls[i].kind \in {"refresh", "logout"}
          /\ calls'[i].step = IF calls[i].kind = "refresh" THEN "set" ELSE "ok"
       \/ /\ stored' = stored \ {calls[i].tok}
          /\ lost' = lost \cup ({calls[i].tok} \cap stored)
          /\ calls'[i].step = "error"

Stores(i) ==
    /\ OnlyCall(i) /\ calls[i].step = "set" /\ calls[i].kind \in {"refresh", "login"}
    /\ calls'[i].done = calls[i].done /\ UNCHANGED <<cookie, page>>
    /\ \/ /\ calls'[i].step = "ok" /\ calls'[i].pair = issued + 1
          /\ issued' = issued + 1 /\ stored' = stored \cup {issued + 1} /\ lost' = lost
       \/ /\ calls'[i].step = "error" /\ calls'[i].pair = calls[i].pair
          /\ \/ issued' = issued /\ stored' = stored
             \/ issued' = issued + 1 /\ stored' = stored \cup {issued + 1}
          /\ lost' = lost \cup ({calls[i].tok} \ (stored \cup {0}))

Loses(i) ==
    /\ OnlyCall(i) /\ calls[i].step = "ok" /\ ~calls[i].done
    /\ calls'[i].step = "lost" /\ calls'[i].pair = calls[i].pair /\ calls'[i].done = calls[i].done
    /\ UNCHANGED <<issued, stored, page>>
    /\ \/ cookie' = calls[i].pair /\ lost' = lost
       \/ cookie' = cookie /\ lost' = lost \cup ({calls[i].tok} \ (stored \cup {0}))

Delivers(i) ==
    /\ OnlyCall(i) /\ calls[i].step \in Answers /\ ~calls[i].done
    /\ calls'[i].step = calls[i].step /\ calls'[i].pair = calls[i].pair /\ calls'[i].done = TRUE
    /\ UNCHANGED <<issued, stored>>
    /\ \/ /\ calls[i].step = "ok" /\ calls[i].kind \in {"refresh", "login"}
          /\ cookie' = calls[i].pair /\ UNCHANGED <<page, lost>>
       \/ /\ calls[i].step = "ok" /\ calls[i].kind = "logout"
          /\ cookie' = 0 /\ UNCHANGED <<page, lost>>
       \/ /\ calls[i].step # "ok" /\ UNCHANGED <<cookie, lost>>
          /\ page' = page \/ page' = [page EXCEPT ![calls[i].tab] = @ + 1]
       \/ /\ Gone(calls[i]) /\ UNCHANGED <<cookie, page>>
          /\ lost' = lost \cup ({calls[i].tok} \ (stored \cup {0}))

Arises(t, kind) ==
    /\ UNCHANGED <<stored, issued, cookie, lost>>
    /\ \/ Sends(t, page[t], kind) /\ page' = page /\ (kind = "refresh" => ~InFlight(t))
       \/ Sends(t, page[t] + 1, kind) /\ page' = [page EXCEPT ![t] = @ + 1]

Rests ==
    /\ UNCHANGED <<calls, sent, issued, cookie>>
    /\ page' = page \/ \E t \in Tabs : page' = [page EXCEPT ![t] = @ + 1]
    /\ \/ UNCHANGED <<stored, lost>>
       \/ \E r \in Nat : stored' = stored \ {r} /\ lost' = lost \cup {r}

LEMMA ServerSteps ==
    ASSUME TypeOK, NEW i \in 1 .. MaxCalls, Handle(i) \/ Reject(i)
    PROVE  Serves(i) \/ Stores(i)
<1>1. CallsOK /\ i <= sent /\ sent' = sent /\ issued \in Nat /\ UNCHANGED <<cookie, page>>
  BY DEF TypeOK, CallsOK, Handle, GetUserID, Delete, Store, LogoutDelete, Reject, At, tabs
<1>2. CASE GetUserID(i)
  <2>1. PICK s \in {"del", "unauthorized", "error"} : Goto(i, s)
    BY <1>2 DEF GetUserID, Fail
  <2>2. s \in Steps
    BY DEF Steps
  <2> QED
    BY <1>1, <1>2, <2>1, <2>2, GotoFacts DEF GetUserID, At, Serves, Consumed, Answers
<1>3. CASE Delete(i)
  <2>1. {"set", "error"} \subseteq Steps
    BY DEF Steps
  <2>2. CASE Goto(i, "set") /\ stored' = stored \ {calls[i].tok} /\ lost' = lost
    BY <1>1, <1>3, <2>1, <2>2, GotoFacts DEF Delete, FailDelete, At, Serves, Consumed, Answers
  <2>3. CASE FailDelete(i)
    <3>1. Goto(i, "error")
      BY <2>3 DEF FailDelete, Fail
    <3> QED
      BY <1>1, <1>3, <2>1, <2>3, <3>1, GotoFacts
      DEF Delete, FailDelete, At, Serves, Consumed, Answers
  <2> QED
    BY <1>3, <2>2, <2>3 DEF Delete
<1>4. CASE Store(i)
  <2>1. "error" \in Steps
    BY DEF Steps
  <2>2. CASE /\ calls' = [calls EXCEPT ![i].step = "ok", ![i].pair = issued + 1]
             /\ issued' = issued + 1 /\ stored' = stored \cup {issued + 1} /\ lost' = lost
    BY <1>1, <1>4, <2>2, PairFacts DEF Store, At, Stores
  <2>3. CASE /\ Goto(i, "error")
             /\ \/ UNCHANGED <<issued, stored>>
                \/ issued' = issued + 1 /\ stored' = stored \cup {issued + 1}
             /\ lost' = lost \cup ({calls[i].tok} \ (stored \cup {0}))
    BY <1>1, <1>4, <2>1, <2>3, GotoFacts DEF Store, At, Stores
  <2> QED
    BY <1>4, <2>2, <2>3 DEF Store, Fail
<1>5. CASE LogoutDelete(i)
  <2>1. {"ok", "unauthorized", "error"} \subseteq Steps
    BY DEF Steps
  <2>2. CASE Goto(i, "ok") /\ stored' = stored \ {calls[i].tok} /\ lost' = lost
    BY <1>1, <1>5, <2>1, <2>2, GotoFacts DEF LogoutDelete, At, Serves, Consumed, Answers
  <2>3. CASE Goto(i, "unauthorized") /\ UNCHANGED <<stored, lost>>
    BY <1>1, <1>5, <2>1, <2>3, GotoFacts DEF LogoutDelete, At, Serves, Consumed, Answers
  <2>4. CASE FailDelete(i)
    <3>1. Goto(i, "error")
      BY <2>4 DEF FailDelete, Fail
    <3> QED
      BY <1>1, <1>5, <2>1, <2>4, <3>1, GotoFacts
      DEF LogoutDelete, FailDelete, At, Serves, Consumed, Answers
  <2> QED
    BY <1>5, <2>2, <2>3, <2>4 DEF LogoutDelete
<1>6. CASE Reject(i)
  <2>1. "unauthorized" \in Steps
    BY DEF Steps
  <2> QED
    BY <1>1, <1>6, <2>1, GotoFacts DEF Reject, At, Serves, Consumed, Answers, server
<1> QED
  BY <1>2, <1>3, <1>4, <1>5, <1>6 DEF Handle

LEMMA LoseSteps ==
    ASSUME TypeOK, NEW i \in 1 .. MaxCalls, AnswerLost(i)
    PROVE  Loses(i)
<1>1. /\ CallsOK /\ i <= sent /\ sent' = sent /\ Goto(i, "lost") /\ "lost" \in Steps
      /\ calls[i].step = "ok" /\ ~calls[i].done /\ UNCHANGED <<issued, stored, page>>
  BY DEF TypeOK, CallsOK, AnswerLost, Answered, Steps, tabs
<1> QED
  BY <1>1, GotoFacts DEF AnswerLost, Loses

LEMMA DeliverSteps ==
    ASSUME TypeOK, NEW i \in 1 .. MaxCalls, Deliver(i), ~AnswerLost(i)
    PROVE  Delivers(i)
<1>1. /\ CallsOK /\ i <= sent /\ sent' = sent /\ Done(i) /\ ~calls[i].done
      /\ calls[i].step \in Answers /\ UNCHANGED <<issued, stored>>
  BY DEF TypeOK, CallsOK, Deliver, Refreshed, RefreshFailed, LoggedIn, LoggedOut, Dropped,
         Answered, Answers, server
<1>2. /\ OnlyCall(i) /\ calls'[i].step = calls[i].step
      /\ calls'[i].pair = calls[i].pair /\ calls'[i].done = TRUE
  BY <1>1, DoneFacts
<1>3. CASE Refreshed(i)
  BY <1>1, <1>2, <1>3 DEF Refreshed, Delivers
<1>4. CASE RefreshFailed(i)
  BY <1>1, <1>2, <1>4 DEF RefreshFailed, Redirect, Delivers
<1>5. CASE LoggedIn(i)
  BY <1>1, <1>2, <1>5 DEF LoggedIn, Delivers
<1>6. CASE LoggedOut(i)
  BY <1>1, <1>2, <1>6 DEF LoggedOut, Delivers, tabs
<1>7. CASE Dropped(i)
  BY <1>1, <1>2, <1>7 DEF Dropped, Delivers, tabs
<1> QED
  BY <1>3, <1>4, <1>5, <1>6, <1>7 DEF Deliver

LEMMA UserSteps ==
    ASSUME TypeOK, NEW t \in Tabs, User(t)
    PROVE  (\E kind \in {"refresh", "login", "logout"} : Arises(t, kind)) \/ Rests
<1>1. page[t] \in Nat /\ page[t] + 1 \in Nat /\ page[t] + 1 # page[t] /\ access[t] \in Nat
  BY DEF TypeOK
<1>2. CASE Load(t)
  <2>1. Sends(t, page[t] + 1, "refresh")
    BY <1>1, <1>2, DoRefreshFacts DEF Load
  <2> QED
    BY <1>2, <2>1 DEF Load, Arises
<1>3. CASE Visit(t)
  BY <1>1, <1>3, DoRefreshFacts DEF Visit, Arises, Rests, server
<1>4. CASE Login(t)
  <2>1. Sends(t, page[t], "login")
    BY <1>1, <1>4, PostFacts DEF Login
  <2> QED
    BY <1>4, <2>1 DEF Login, Arises, server, tabs
<1>5. CASE Logout(t)
  <2>1. Sends(t, page[t], "logout")
    BY <1>1, <1>5, PostFacts DEF Logout
  <2> QED
    BY <1>5, <2>1 DEF Logout, Arises, server
<1> QED
  BY <1>2, <1>3, <1>4, <1>5 DEF User

LEMMA FetchSteps ==
    ASSUME TypeOK, NEW t \in Tabs, NEW h \in Fetches, Fetch(t, h)
    PROVE  Arises(t, "refresh") \/ Rests
<1>1. CASE SendRequest(t, h)
  BY <1>1 DEF SendRequest, Rests, server
<1>2. CASE Answer(t, h)
  <2>1. page[t] \in Nat
    BY DEF TypeOK
  <2> QED
    BY <1>2, <2>1, DoRefreshFacts DEF Answer, Arises, Rests, server
<1>3. CASE AnswerRetry(t, h)
  BY <1>3 DEF AnswerRetry, Redirect, Rests, server
<1> QED
  BY <1>1, <1>2, <1>3 DEF Fetch

LEMMA NextSteps ==
    ASSUME TypeOK, [Next]_vars
    PROVE  \/ \E i \in 1 .. MaxCalls : Serves(i) \/ Stores(i) \/ Loses(i) \/ Delivers(i)
           \/ \E t \in Tabs, kind \in {"refresh", "login", "logout"} : Arises(t, kind)
           \/ Rests
<1>1. CASE ExpireAccess
  BY <1>1 DEF ExpireAccess, Rests, tabs
<1>2. ASSUME NEW r \in 1 .. MaxCalls + 1, ExpireRefresh(r) PROVE Rests
  BY <1>2, SessionAssumption DEF ExpireRefresh, Rests, tabs
<1>3. CASE UNCHANGED vars
  BY <1>3 DEF vars, Rests
<1> QED
  BY <1>1, <1>2, <1>3, ServerSteps, LoseSteps, DeliverSteps, UserSteps, FetchSteps DEF Next

-----------------------------------------------------------------------------
(* Type correctness. *)

LEMMA HookTypes ==
    /\ Idle \in HookType /\ [Idle EXCEPT !.at = "waiting"] \in HookType
    /\ \A n \in Nat : [at |-> "sent", tok |-> n] \in HookType /\ [at |-> "resent", tok |-> n] \in HookType
    /\ NoFetch \in [Fetches -> HookType]
BY DEF Idle, HookType, NoFetch

\* The state of the server and the jar.
ServerOK ==
    /\ stored \subseteq Nat /\ issued \in Nat /\ expired \in Nat /\ cookie \in Nat
    /\ lost \subseteq Nat /\ mishaps \in Nat

\* The state of the pages.
TabsOK ==
    /\ page \in [Tabs -> Nat] /\ view \in [Tabs -> {"login", "checking", "app"}]
    /\ auth \subseteq Tabs /\ asking \subseteq Tabs
    /\ access \in [Tabs -> Nat] /\ fetch \in [Tabs -> [Fetches -> HookType]]

LEMMA RestSplit == RestOK <=> ServerOK /\ TabsOK
BY DEF RestOK, ServerOK, TabsOK

LEMMA ServerKeepsTypes ==
    ASSUME RestOK, CallsOK, NEW i \in 1 .. MaxCalls, Handle(i) \/ Reject(i)
    PROVE  RestOK'
<1>1. TabsOK'
  BY RestSplit
  DEF TabsOK, Handle, GetUserID, Delete, Store, LogoutDelete, Reject, tabs
<1>2. CASE Store(i)
  <2>1. calls[i].tok \in Nat
    BY CallFields
  <2> QED
    BY <1>1, <1>2, <2>1 DEF RestOK, ServerOK, TabsOK, Store, Fail
<1>3. CASE ~Store(i)
  <2>1. /\ stored' \subseteq stored /\ lost' \subseteq lost \cup stored
        /\ UNCHANGED <<issued, expired, cookie>>
        /\ mishaps' = mishaps \/ mishaps' = mishaps + 1
    BY <1>3 DEF Handle, GetUserID, Delete, LogoutDelete, Reject, Fail, FailDelete, server
  <2> QED
    BY <1>1, <2>1 DEF RestOK, ServerOK, TabsOK
<1> QED
  BY <1>2, <1>3

LEMMA RedirectKeepsTypes ==
    ASSUME TabsOK, NEW t \in Tabs, Redirect(t)
    PROVE  TabsOK'
BY HookTypes DEF TabsOK, Redirect

\* The hooks that waited get on, the others stay as they are.
LEMMA WakeTypes ==
    ASSUME TabsOK, NEW t \in Tabs, NEW x \in HookType
    PROVE  [fetch EXCEPT ![t] = [h \in Fetches |-> IF h \in Waiting(t) THEN x ELSE @[h]]]
               \in [Tabs -> [Fetches -> HookType]]
BY DEF TabsOK

LEMMA DeliverKeepsTypes ==
    ASSUME RestOK, CallsOK, NEW i \in 1 .. MaxCalls, Deliver(i)
    PROVE  RestOK'
<1> DEFINE t == calls[i].tab
<1>1. ServerOK /\ TabsOK /\ t \in Tabs /\ calls[i].pair \in Nat /\ calls[i].tok \in Nat
  BY RestSplit, CallFields
<1>2. CASE Refreshed(i)
  <2>1. ServerOK'
    BY <1>1, <1>2 DEF ServerOK, Refreshed, server
  <2>2. [at |-> "resent", tok |-> calls[i].pair] \in HookType
    BY <1>1, HookTypes
  <2>3. fetch' \in [Tabs -> [Fetches -> HookType]]
    BY <1>1, <1>2, <2>2, WakeTypes DEF Refreshed
  <2>4. /\ view' = [view EXCEPT ![t] = IF @ = "checking" THEN "app" ELSE @]
        /\ access' = [access EXCEPT ![t] = calls[i].pair] /\ page' = page
        /\ auth' \subseteq auth \cup {t} /\ asking' \subseteq asking
    BY <1>2 DEF Refreshed
  <2>5. TabsOK'
    BY <1>1, <2>3, <2>4 DEF TabsOK
  <2> QED
    BY <2>1, <2>5 DEF RestOK, ServerOK, TabsOK
<1>3. CASE RefreshFailed(i)
  <2>1. ServerOK'
    BY <1>1, <1>3 DEF ServerOK, RefreshFailed, server
  <2>2. CASE Redirect(t)
    BY <1>1, <2>1, <2>2, RedirectKeepsTypes DEF RestOK, ServerOK, TabsOK
  <2>3. CASE Waiting(t) \subseteq Climate
    <3>1. fetch' \in [Tabs -> [Fetches -> HookType]]
      BY <1>1, <1>3, <2>3, HookTypes, WakeTypes DEF RefreshFailed
    <3>2. /\ view' = [view EXCEPT ![t] = IF @ = "checking" THEN "login" ELSE @]
          /\ asking' \subseteq asking /\ UNCHANGED <<page, auth, access>>
      BY <1>3, <2>3 DEF RefreshFailed
    <3>3. TabsOK'
      BY <1>1, <3>1, <3>2 DEF TabsOK
    <3> QED
      BY <2>1, <3>3 DEF RestOK, ServerOK, TabsOK
  <2> QED
    BY <1>3, <2>2, <2>3 DEF RefreshFailed
<1>4. CASE LoggedIn(i)
  BY <1>1, <1>4 DEF RestOK, ServerOK, TabsOK, LoggedIn, server
<1>5. CASE LoggedOut(i)
  BY <1>1, <1>5 DEF RestOK, ServerOK, TabsOK, LoggedOut, server, tabs
<1>6. CASE Dropped(i)
  BY <1>1, <1>6 DEF RestOK, ServerOK, TabsOK, Dropped, server, tabs
<1>7. CASE AnswerLost(i)
  <2>1. ServerOK'
    <3>1. stored' = stored /\ issued' = issued /\ expired' = expired /\ mishaps' = mishaps + 1
      BY <1>7 DEF AnswerLost
    <3>2. cookie' \in {cookie, calls[i].pair} /\ lost' \subseteq lost \cup {calls[i].tok}
      BY <1>7 DEF AnswerLost
    <3> QED
      BY <1>1, <3>1, <3>2 DEF ServerOK
  <2>2. TabsOK'
    BY <1>1, <1>7 DEF TabsOK, AnswerLost, tabs
  <2> QED
    BY <2>1, <2>2 DEF RestOK, ServerOK, TabsOK
<1> QED
  BY <1>2, <1>3, <1>4, <1>5, <1>6, <1>7 DEF Deliver

LEMMA UserKeepsTypes ==
    ASSUME RestOK, NEW t \in Tabs, User(t)
    PROVE  RestOK'
<1>1. CASE Load(t)
  BY <1>1, HookTypes DEF RestOK, Load
<1>2. CASE Visit(t)
  BY <1>2 DEF RestOK, Visit, server
<1>3. CASE Login(t)
  BY <1>3 DEF RestOK, Login, server, tabs
<1>4. CASE Logout(t)
  BY <1>4 DEF RestOK, Logout, server
<1> QED
  BY <1>1, <1>2, <1>3, <1>4 DEF User

LEMMA FetchKeepsTypes ==
    ASSUME RestOK, NEW t \in Tabs, NEW h \in Fetches, Fetch(t, h)
    PROVE  RestOK'
<1>1. ServerOK /\ TabsOK /\ access[t] \in Nat /\ UNCHANGED <<server, cookie, lost>>
  BY RestSplit DEF TabsOK, Fetch, SendRequest, Answer, AnswerRetry
<1>2. SUFFICES TabsOK'
  BY <1>1 DEF RestOK, ServerOK, TabsOK, server
<1>3. ASSUME NEW x \in HookType, fetch' = [fetch EXCEPT ![t][h] = x],
             UNCHANGED <<page, view, auth, asking, access>>
      PROVE  TabsOK'
  BY <1>1, <1>3 DEF TabsOK
<1>4. CASE SendRequest(t, h)
  <2>1. [at |-> "sent", tok |-> access[t]] \in HookType
    BY <1>1, HookTypes
  <2> QED
    BY <1>3, <1>4, <2>1 DEF SendRequest
<1>5. CASE Answer(t, h)
  <2>1. \E x \in {Idle, [Idle EXCEPT !.at = "waiting"]} : fetch' = [fetch EXCEPT ![t][h] = x]
    BY <1>5 DEF Answer
  <2> QED
    BY <1>3, <1>5, <2>1, HookTypes DEF Answer
<1>6. CASE AnswerRetry(t, h)
  <2>1. CASE Redirect(t)
    BY <1>1, <2>1, RedirectKeepsTypes
  <2>2. CASE fetch' = [fetch EXCEPT ![t][h] = Idle] /\ UNCHANGED <<page, view, auth, asking, access>>
    BY <1>3, <2>2, HookTypes
  <2> QED
    BY <1>6, <2>1, <2>2 DEF AnswerRetry
<1> QED
  BY <1>4, <1>5, <1>6 DEF Fetch

LEMMA TypeNext == ASSUME TypeOK, [Next]_vars PROVE TypeOK'
<1>1. RestOK /\ CallsOK
  BY TypeSplit
<1>2. CallsOK'
  BY <1>1, NextSteps, SessionAssumption
  DEF Serves, Stores, Loses, Delivers, Arises, Rests, OnlyCall, Sends, CallsOK
<1>3. ASSUME ExpireAccess PROVE RestOK'
  BY <1>1, <1>3 DEF RestOK, ExpireAccess, tabs
<1>4. ASSUME NEW r \in 1 .. MaxCalls + 1, ExpireRefresh(r) PROVE RestOK'
  BY <1>1, <1>4, SessionAssumption DEF RestOK, ExpireRefresh, tabs
<1>5. ASSUME UNCHANGED vars PROVE RestOK'
  BY <1>1, <1>5 DEF RestOK, vars
<1>6. RestOK'
  BY <1>1, <1>3, <1>4, <1>5, ServerKeepsTypes, DeliverKeepsTypes, UserKeepsTypes, FetchKeepsTypes
  DEF Next
<1> QED
  BY <1>2, <1>6 DEF TypeOK, RestOK, CallsOK

LEMMA InitTypes == Init => TypeOK
<1> SUFFICES ASSUME Init PROVE TypeOK
  OBVIOUS
<1>1. (CHOOSE t \in Tabs : TRUE) \in Tabs
  BY SessionAssumption
<1>2. Unused \in CallType
  BY <1>1 DEF Unused, CallType, Kinds, Steps
<1>3. calls \in [1 .. MaxCalls -> CallType]
  BY <1>2 DEF Init
<1> QED
  BY <1>3, HookTypes, SessionAssumption DEF Init, TypeOK

\* Session's types hold, for any number of tabs, hooks and requests.
THEOREM SessionTypesHold == Spec => []TypeOK
BY InitTypes, TypeNext, PTL DEF Spec

-----------------------------------------------------------------------------
(***************************************************************************)
(* The inductive invariant of the tokens.  JarAlive and OncePerPage rest   *)
(* on the freshness of a pair whose answer is on its way: nobody can have  *)
(* presented it, so nobody can have deleted it or put it into the jar.     *)
(***************************************************************************)
Bounded ==
    /\ stored \subseteq 1 .. issued /\ cookie <= issued
    /\ \A i \in 1 .. sent : calls[i].tok <= issued /\ calls[i].pair <= issued

\* How far a request is, and what it has by then.
Shape ==
    \A i \in 1 .. sent :
        /\ calls[i].done => calls[i].step \in Answers
        /\ calls[i].pair # 0 => calls[i].step \in {"ok", "lost"} /\ calls[i].kind # "logout"
        /\ calls[i].step = "ok" /\ calls[i].kind # "logout" => calls[i].pair # 0
        /\ calls[i].page <= page[calls[i].tab]

Fresh ==
    \A i \in 1 .. sent : calls[i].pair # 0 =>
        /\ \A k \in 1 .. sent : k # i => calls[k].pair # calls[i].pair
        /\ ~calls[i].done /\ calls[i].step = "ok" =>
             /\ calls[i].pair \in stored \cup lost
             /\ cookie # calls[i].pair
             /\ \A k \in 1 .. sent : calls[k].tok # calls[i].pair

Jar ==
    \/ cookie \in {0} \cup stored \cup lost
    \/ \E i \in 1 .. sent : calls[i].tok = cookie /\ ~calls[i].done /\ Consumed(calls[i])

Rotated ==
    \A i \in 1 .. sent :
        calls[i].kind = "refresh" /\ calls[i].step \in {"set", "ok", "lost"} =>
            calls[i].tok \notin stored

SamePage(i, j) ==
    /\ calls[i].kind = "refresh" /\ calls[j].kind = "refresh"
    /\ calls[i].tab = calls[j].tab /\ calls[i].page = calls[j].page

\* The refreshes of a page follow each other.
Single == \A i, j \in 1 .. sent : i < j /\ SamePage(i, j) => calls[i].done

\* What a refresh of the page has rotated is no longer in the jar.
Replaced ==
    \A i \in 1 .. sent :
        /\ calls[i].kind = "refresh" /\ calls[i].step = "ok" /\ calls[i].done
        /\ calls[i].page = page[calls[i].tab] /\ calls[i].tok # 0
        => cookie # calls[i].tok

TokenInv ==
    TypeOK /\ Bounded /\ Shape /\ Fresh /\ Jar /\ Rotated /\ Single /\ Replaced /\ OncePerPage

LEMMA SentFields ==
    ASSUME CallsOK
    PROVE  /\ sent \in Nat
           /\ \A j \in 1 .. sent :
                /\ calls[j].tok \in Nat /\ calls[j].pair \in Nat /\ calls[j].page \in Nat
                /\ calls[j].tab \in Tabs
BY CallFields, SentCalls DEF CallsOK

\* The requests that a step does not work on.
LEMMA Others ==
    ASSUME NEW i, OnlyCall(i)
    PROVE  \A j \in 1 .. sent : Keeps(j) /\ (j # i => calls'[j] = calls[j])
BY DEF OnlyCall, Keeps

\* The requests after one has been sent.
LEMMA SentAfter ==
    ASSUME CallsOK, sent' = sent + 1
    PROVE  \A j \in 1 .. sent' : j \in 1 .. sent \/ j = sent'
BY DEF CallsOK

LEMMA PageGrows ==
    ASSUME TypeOK, [Next]_vars, NEW t \in Tabs
    PROVE  page[t] \in Nat /\ page'[t] \in Nat /\ page[t] <= page'[t]
<1>1. page' = page \/ \E u \in Tabs : page' = [page EXCEPT ![u] = @ + 1]
  <2>1. ASSUME NEW i \in 1 .. MaxCalls, Delivers(i)
        PROVE  page' = page \/ \E u \in Tabs : page' = [page EXCEPT ![u] = @ + 1]
    BY <2>1, TypeSplit, CallFields DEF Delivers
  <2> QED
    BY <2>1, NextSteps DEF Serves, Stores, Loses, Arises, Rests
<1>2. page \in [Tabs -> Nat]
  BY DEF TypeOK
<1> QED
  BY <1>1, <1>2

LEMMA BoundedNext == ASSUME TokenInv, [Next]_vars PROVE Bounded'
<1>1. CallsOK /\ TypeOK /\ Bounded /\ issued \in Nat /\ cookie \in Nat
  BY TypeSplit DEF TokenInv, RestOK
<1>2. ASSUME NEW i \in 1 .. MaxCalls, Serves(i) PROVE Bounded'
  BY <1>1, <1>2, Others, SentFields DEF Serves, OnlyCall, Keeps, Bounded
<1>3. ASSUME NEW i \in 1 .. MaxCalls, Stores(i) PROVE Bounded'
  <2>1. \A j \in 1 .. sent : calls'[j].tok <= issued /\ (calls'[j].pair <= issued \/ calls'[j].pair = issued')
    BY <1>1, <1>3, Others DEF Stores, OnlyCall, Keeps, Bounded
  <2>2. \A j \in 1 .. sent : calls'[j].tok \in Nat /\ calls'[j].pair \in Nat
    <3>1. /\ calls' \in [1 .. MaxCalls -> CallType] /\ sent' = sent /\ sent \in 0 .. MaxCalls
      BY <1>1, <1>3 DEF Stores, OnlyCall, CallsOK
    <3>2. \A j \in 1 .. sent : calls'[j] \in CallType
      BY <1>1, <3>1, SentCalls
    <3> QED
      BY <3>2 DEF CallType
  <2>3. issued' \in Nat /\ issued <= issued' /\ cookie' <= issued' /\ sent' = sent
    BY <1>1, <1>3 DEF Stores, OnlyCall, Bounded
  <2>4. stored' \subseteq 1 .. issued'
    <3>1. stored' \subseteq stored \cup {issued'} /\ stored \subseteq 1 .. issued
      BY <1>1, <1>3 DEF Stores, Bounded
    <3>2. issued' = issued \/ issued' = issued + 1
      BY <1>3 DEF Stores
    <3>3. stored' = stored \/ issued' = issued + 1
      BY <1>3 DEF Stores
    <3> QED
      BY <1>1, <3>1, <3>2, <3>3
  <2> QED
    BY <1>1, <2>1, <2>2, <2>3, <2>4 DEF Bounded
<1>4. ASSUME NEW i \in 1 .. MaxCalls, Delivers(i) PROVE Bounded'
  BY <1>1, <1>4, Others, SentFields DEF Delivers, OnlyCall, Keeps, Bounded
<1>5. ASSUME NEW t \in Tabs, NEW kind \in {"refresh", "login", "logout"}, Arises(t, kind)
      PROVE  Bounded'
  BY <1>1, <1>5, SentFields, SentAfter DEF Arises, Sends, Bounded
<1>6. CASE Rests
  BY <1>1, <1>6 DEF Rests, Bounded
<1>7. ASSUME NEW i \in 1 .. MaxCalls, Loses(i) PROVE Bounded'
  BY <1>1, <1>7, Others, SentFields DEF Loses, OnlyCall, Keeps, Bounded
<1> QED
  BY <1>1, <1>2, <1>3, <1>4, <1>5, <1>6, <1>7, NextSteps

LEMMA ShapeNext == ASSUME TokenInv, [Next]_vars PROVE Shape'
<1>1. CallsOK /\ TypeOK /\ Shape /\ issued \in Nat
  BY TypeSplit DEF TokenInv, RestOK
<1> DEFINE Later == \A j \in 1 .. sent : calls[j].page <= page'[calls[j].tab]
<1>2. Later
  BY <1>1, PageGrows, SentFields DEF Shape
<1> HIDE DEF Later
<1>3. ASSUME NEW i \in 1 .. MaxCalls, Serves(i) PROVE Shape'
  BY <1>1, <1>3, Others DEF Serves, OnlyCall, Keeps, Shape, Answers
<1>4. ASSUME NEW i \in 1 .. MaxCalls, Stores(i) PROVE Shape'
  BY <1>1, <1>4, Others DEF Stores, OnlyCall, Keeps, Shape, Answers
<1>5. ASSUME NEW i \in 1 .. MaxCalls, Delivers(i) PROVE Shape'
  BY <1>1, <1>2, <1>5, Others DEF Delivers, OnlyCall, Keeps, Shape, Later
<1>6. ASSUME NEW t \in Tabs, NEW kind \in {"refresh", "login", "logout"}, Arises(t, kind)
      PROVE  Shape'
  <2>1. page[t] \in Nat /\ page'[t] \in Nat /\ calls'[sent'].page = page'[t]
    BY <1>1, <1>6, PageGrows DEF Arises, Sends, TypeOK
  <2> QED
    BY <1>1, <1>2, <1>6, <2>1, SentAfter DEF Arises, Sends, Shape, Answers, Later
<1>7. CASE Rests
  BY <1>1, <1>2, <1>7 DEF Rests, Shape, Later
<1>8. ASSUME NEW i \in 1 .. MaxCalls, Loses(i) PROVE Shape'
  BY <1>1, <1>8, Others DEF Loses, OnlyCall, Keeps, Shape, Answers
<1> QED
  BY <1>1, <1>3, <1>4, <1>5, <1>6, <1>7, <1>8, NextSteps

LEMMA FreshNext == ASSUME TokenInv, [Next]_vars PROVE Fresh'
<1>1. CallsOK /\ TypeOK /\ Bounded /\ Shape /\ Fresh /\ issued \in Nat /\ cookie \in Nat
  BY TypeSplit DEF TokenInv, RestOK
<1>2. ASSUME NEW i \in 1 .. MaxCalls, Serves(i) PROVE Fresh'
  BY <1>1, <1>2, Others DEF Serves, OnlyCall, Keeps, Fresh, Shape, Answers
<1>3. ASSUME NEW i \in 1 .. MaxCalls, Stores(i) PROVE Fresh'
  BY <1>1, <1>3, Others, SentFields DEF Stores, OnlyCall, Keeps, Fresh, Bounded, Shape
<1>4. ASSUME NEW i \in 1 .. MaxCalls, Delivers(i) PROVE Fresh'
  BY <1>1, <1>4, Others DEF Delivers, OnlyCall, Keeps, Fresh, Shape
<1>5. ASSUME NEW t \in Tabs, NEW kind \in {"refresh", "login", "logout"}, Arises(t, kind)
      PROVE  Fresh'
  BY <1>1, <1>5, SentAfter DEF Arises, Sends, Fresh
<1>6. CASE Rests
  BY <1>1, <1>6 DEF Rests, Fresh
<1>7. ASSUME NEW i \in 1 .. MaxCalls, Loses(i) PROVE Fresh'
  BY <1>1, <1>7, Others DEF Loses, OnlyCall, Keeps, Fresh, Shape
<1> QED
  BY <1>1, <1>2, <1>3, <1>4, <1>5, <1>6, <1>7, NextSteps

LEMMA JarNext == ASSUME TokenInv, [Next]_vars PROVE Jar'
<1>1. CallsOK /\ TypeOK /\ Shape /\ Fresh /\ Jar
  BY TypeSplit DEF TokenInv
<1>2. ASSUME NEW i \in 1 .. MaxCalls, Serves(i) PROVE Jar'
  BY <1>1, <1>2, Others DEF Serves, OnlyCall, Keeps, Shape, Jar, Consumed, Answers
<1>3. ASSUME NEW i \in 1 .. MaxCalls, Stores(i) PROVE Jar'
  BY <1>1, <1>3, Others DEF Stores, OnlyCall, Keeps, Shape, Jar, Consumed
<1>4. ASSUME NEW i \in 1 .. MaxCalls, Delivers(i) PROVE Jar'
  BY <1>1, <1>4, Others DEF Delivers, OnlyCall, Keeps, Shape, Fresh, Jar, Consumed, Answers
<1>5. ASSUME NEW t \in Tabs, NEW kind \in {"refresh", "login", "logout"}, Arises(t, kind)
      PROVE  Jar'
  BY <1>1, <1>5, SentFields DEF Arises, Sends, Jar, Consumed
<1>6. CASE Rests
  BY <1>1, <1>6 DEF Rests, Jar, Consumed
<1>7. ASSUME NEW i \in 1 .. MaxCalls, Loses(i) PROVE Jar'
  BY <1>1, <1>7, Others DEF Loses, OnlyCall, Keeps, Shape, Fresh, Jar, Consumed, Answers
<1> QED
  BY <1>1, <1>2, <1>3, <1>4, <1>5, <1>6, <1>7, NextSteps

LEMMA RotatedNext == ASSUME TokenInv, [Next]_vars PROVE Rotated'
<1>1. CallsOK /\ TypeOK /\ Bounded /\ Rotated /\ issued \in Nat
  BY TypeSplit DEF TokenInv, RestOK
<1>2. ASSUME NEW i \in 1 .. MaxCalls, Serves(i) PROVE Rotated'
  BY <1>1, <1>2, Others DEF Serves, OnlyCall, Keeps, Rotated
<1>3. ASSUME NEW i \in 1 .. MaxCalls, Stores(i) PROVE Rotated'
  BY <1>1, <1>3, Others, SentFields DEF Stores, OnlyCall, Keeps, Rotated, Bounded
<1>4. ASSUME NEW i \in 1 .. MaxCalls, Delivers(i) PROVE Rotated'
  BY <1>1, <1>4, Others DEF Delivers, OnlyCall, Keeps, Rotated
<1>5. ASSUME NEW t \in Tabs, NEW kind \in {"refresh", "login", "logout"}, Arises(t, kind)
      PROVE  Rotated'
  BY <1>1, <1>5, SentAfter DEF Arises, Sends, Rotated
<1>6. CASE Rests
  BY <1>1, <1>6 DEF Rests, Rotated
<1>7. ASSUME NEW i \in 1 .. MaxCalls, Loses(i) PROVE Rotated'
  BY <1>1, <1>7, Others DEF Loses, OnlyCall, Keeps, Rotated
<1> QED
  BY <1>1, <1>2, <1>3, <1>4, <1>5, <1>6, <1>7, NextSteps

\* A new refresh finds those of its page done.
LEMMA NewRefresh ==
    ASSUME TokenInv, NEW t \in Tabs, Arises(t, "refresh"), NEW i \in 1 .. sent,
           calls[i].kind = "refresh", calls[i].tab = t, calls[i].page = calls'[sent'].page
    PROVE  calls[i].done /\ calls[i].page = page[t]
<1>1. CallsOK /\ Shape /\ page[t] \in Nat
  BY TypeSplit DEF TokenInv, RestOK
<1>2. calls[i].page <= page[t] /\ calls[i].page \in Nat
  BY <1>1, SentFields DEF Shape
<1>3. CASE Sends(t, page[t], "refresh") /\ ~InFlight(t)
  BY <1>3 DEF Sends, InFlight
<1>4. CASE Sends(t, page[t] + 1, "refresh")
  BY <1>1, <1>2, <1>4 DEF Sends
<1> QED
  BY <1>3, <1>4 DEF Arises

LEMMA SingleNext == ASSUME TokenInv, [Next]_vars PROVE Single'
<1>1. CallsOK /\ TypeOK /\ Single
  BY TypeSplit DEF TokenInv
<1>2. ASSUME NEW i \in 1 .. MaxCalls, Serves(i) PROVE Single'
  BY <1>1, <1>2, Others DEF Serves, OnlyCall, Keeps, Single, SamePage
<1>3. ASSUME NEW i \in 1 .. MaxCalls, Stores(i) PROVE Single'
  BY <1>1, <1>3, Others DEF Stores, OnlyCall, Keeps, Single, SamePage
<1>4. ASSUME NEW i \in 1 .. MaxCalls, Delivers(i) PROVE Single'
  BY <1>1, <1>4, Others DEF Delivers, OnlyCall, Keeps, Single, SamePage
<1>5. ASSUME NEW t \in Tabs, NEW kind \in {"refresh", "login", "logout"}, Arises(t, kind)
      PROVE  Single'
  <2> SUFFICES ASSUME NEW i \in 1 .. sent', NEW j \in 1 .. sent', i < j, SamePage(i, j)'
               PROVE  calls'[i].done
    BY DEF Single
  <2>1. sent' = sent + 1 /\ i \in 1 .. sent /\ calls'[i] = calls[i]
    BY <1>1, <1>5, SentAfter DEF Arises, Sends, CallsOK
  <2>2. CASE j \in 1 .. sent
    BY <1>1, <1>5, <2>1, <2>2 DEF Arises, Sends, Single, SamePage
  <2>3. CASE j = sent'
    <3>1. kind = "refresh" /\ calls'[j].tab = t /\ calls'[j].kind = kind
      BY <1>5, <2>3 DEF Arises, Sends, SamePage
    <3> QED
      BY <1>5, <2>1, <2>3, <3>1, NewRefresh DEF SamePage
  <2> QED
    BY <1>1, <2>1, <2>2, <2>3, SentAfter
<1>6. CASE Rests
  BY <1>1, <1>6 DEF Rests, Single, SamePage
<1>7. ASSUME NEW i \in 1 .. MaxCalls, Loses(i) PROVE Single'
  BY <1>1, <1>7, Others DEF Loses, OnlyCall, Keeps, Single, SamePage
<1> QED
  BY <1>1, <1>2, <1>3, <1>4, <1>5, <1>6, <1>7, NextSteps

LEMMA ReplacedNext == ASSUME TokenInv, [Next]_vars PROVE Replaced'
<1>1. CallsOK /\ TypeOK /\ Shape /\ Fresh /\ Replaced
  BY TypeSplit DEF TokenInv
\* Nobody comes back to a page that is gone.
<1>2. ASSUME NEW j \in 1 .. sent, calls[j].page = page'[calls[j].tab]
      PROVE  calls[j].page = page[calls[j].tab]
  BY <1>1, <1>2, PageGrows, SentFields DEF Shape
<1>3. ASSUME NEW i \in 1 .. MaxCalls, Serves(i) PROVE Replaced'
  BY <1>1, <1>3, Others DEF Serves, OnlyCall, Keeps, Replaced
<1>4. ASSUME NEW i \in 1 .. MaxCalls, Stores(i) PROVE Replaced'
  BY <1>1, <1>4, Others DEF Stores, OnlyCall, Keeps, Replaced, Shape, Answers
<1>5. ASSUME NEW i \in 1 .. MaxCalls, Delivers(i) PROVE Replaced'
  <2>1. ASSUME NEW j \in 1 .. sent, calls[j].kind = "refresh", calls[j].step = "ok", calls'[j].done,
               calls[j].page = page'[calls[j].tab], calls[j].tok # 0
        PROVE  cookie' # calls[j].tok
    BY <1>1, <1>2, <1>5, <2>1, Others DEF Delivers, OnlyCall, Replaced, Shape, Fresh, Gone
  <2> QED
    BY <1>5, <2>1, Others DEF Delivers, OnlyCall, Keeps, Replaced
<1>6. ASSUME NEW t \in Tabs, NEW kind \in {"refresh", "login", "logout"}, Arises(t, kind)
      PROVE  Replaced'
  BY <1>1, <1>2, <1>6, SentAfter DEF Arises, Sends, Replaced
<1>7. CASE Rests
  BY <1>1, <1>2, <1>7 DEF Rests, Replaced
<1>8. ASSUME NEW i \in 1 .. MaxCalls, Loses(i) PROVE Replaced'
  BY <1>1, <1>8, Others DEF Loses, OnlyCall, Keeps, Replaced, Fresh, Shape
<1> QED
  BY <1>1, <1>3, <1>4, <1>5, <1>6, <1>7, <1>8, NextSteps

LEMMA OncePerPageNext == ASSUME TokenInv, [Next]_vars PROVE OncePerPage'
<1>1. CallsOK /\ TypeOK /\ Shape /\ Single /\ Replaced /\ OncePerPage
  BY TypeSplit DEF TokenInv
<1>2. ASSUME NEW i \in 1 .. MaxCalls, Serves(i) PROVE OncePerPage'
  BY <1>1, <1>2, Others DEF Serves, OnlyCall, Keeps, OncePerPage, Shape, Answers
<1>3. ASSUME NEW i \in 1 .. MaxCalls, Stores(i) PROVE OncePerPage'
  <2>1. \A j \in 1 .. sent : i < j => ~SamePage(i, j)
    BY <1>1, <1>3 DEF Stores, OnlyCall, Shape, Single, Answers
  <2> QED
    BY <1>1, <1>3, <2>1, Others DEF Stores, OnlyCall, Keeps, OncePerPage, SamePage
<1>4. ASSUME NEW i \in 1 .. MaxCalls, Delivers(i) PROVE OncePerPage'
  BY <1>1, <1>4, Others DEF Delivers, OnlyCall, Keeps, OncePerPage
<1>5. ASSUME NEW t \in Tabs, NEW kind \in {"refresh", "login", "logout"}, Arises(t, kind)
      PROVE  OncePerPage'
  <2> SUFFICES ASSUME NEW i \in 1 .. sent', NEW j \in 1 .. sent', i < j,
                      calls'[i].kind = "refresh", calls'[j].kind = "refresh",
                      calls'[i].tab = calls'[j].tab, calls'[i].page = calls'[j].page,
                      calls'[i].tok = calls'[j].tok, calls'[i].tok # 0
               PROVE  calls'[i].pair = 0 \/ calls'[i].step = "lost"
    BY DEF OncePerPage
  <2>1. sent' = sent + 1 /\ i \in 1 .. sent /\ calls'[i] = calls[i]
    BY <1>1, <1>5, SentAfter DEF Arises, Sends, CallsOK
  <2>2. CASE j \in 1 .. sent
    BY <1>1, <1>5, <2>1, <2>2 DEF Arises, Sends, OncePerPage
  <2>3. CASE j = sent'
    <3>1. kind = "refresh" /\ calls'[j].tab = t /\ calls'[j].tok \in {0, cookie}
      BY <1>5, <2>3 DEF Arises, Sends
    <3>2. calls[i].done /\ calls[i].page = page[t]
      BY <1>5, <2>1, <2>3, <3>1, NewRefresh
    <3> QED
      BY <1>1, <2>1, <3>1, <3>2 DEF Replaced, Shape
  <2> QED
    BY <1>1, <2>1, <2>2, <2>3, SentAfter
<1>6. CASE Rests
  BY <1>1, <1>6 DEF Rests, OncePerPage
<1>7. ASSUME NEW i \in 1 .. MaxCalls, Loses(i) PROVE OncePerPage'
  BY <1>1, <1>7, Others DEF Loses, OnlyCall, Keeps, OncePerPage
<1> QED
  BY <1>1, <1>2, <1>3, <1>4, <1>5, <1>6, <1>7, NextSteps

LEMMA InitTokens == Init => TokenInv
<1> SUFFICES ASSUME Init PROVE TokenInv
  OBVIOUS
<1>1. TypeOK
  BY InitTypes
<1>2. sent = 0 /\ issued \in Nat /\ cookie = issued /\ stored = 1 .. issued
  BY DEF Init
<1>3. ~\E i \in 1 .. sent : TRUE
  BY <1>2
<1> QED
  BY <1>1, <1>2, <1>3
  DEF TokenInv, Bounded, Shape, Fresh, Jar, Rotated, Single, Replaced, OncePerPage

LEMMA TokenInvHolds == Spec => []TokenInv
<1>1. TokenInv /\ [Next]_vars => TokenInv'
  BY TypeNext, BoundedNext, ShapeNext, FreshNext, JarNext, RotatedNext, SingleNext,
     ReplacedNext, OncePerPageNext DEF TokenInv
<1> QED
  BY <1>1, InitTokens, PTL DEF Spec

\* The token in the jar is known to the server, or a request has it, or it is lost for a
\* reason: the rotation of the tokens (auth/service.go) does not log the browser out.
THEOREM JarAliveHolds == Spec => []JarAlive
<1>1. TokenInv => JarAlive
  BY DEF TokenInv, Jar, JarAlive
<1> QED
  BY <1>1, TokenInvHolds, PTL

\* Refresh (auth/service.go) leaves no way to present a token again that it has rotated,
\* whatever the other tabs do meanwhile.
THEOREM RotatedIsDeadHolds == Spec => []RotatedIsDead
<1>1. TokenInv => RotatedIsDead
  BY DEF TokenInv, Shape, Rotated, RotatedIsDead
<1> QED
  BY <1>1, TokenInvHolds, PTL

\* refreshPromise (auth.jsx) keeps the hooks of a page from presenting a token that one of
\* them has rotated.
THEOREM OncePerPageHolds == Spec => []OncePerPage
<1>1. TokenInv => OncePerPage
  BY DEF TokenInv
<1> QED
  BY <1>1, TokenInvHolds, PTL

-----------------------------------------------------------------------------
(* Nobody waits for nothing. *)

Awaits(t) == view[t] = "checking" \/ t \in asking \/ Waiting(t) # {}

\* The same without Waiting, for hooks one by one.
LEMMA AwaitsHook ==
    ASSUME NEW t \in Tabs
    PROVE  /\ Awaits(t) <=> \/ view[t] = "checking" \/ t \in asking
                            \/ \E h \in Fetches : fetch[t][h].at = "waiting"
           /\ Awaits(t)' <=> \/ view'[t] = "checking" \/ t \in asking'
                             \/ \E h \in Fetches : fetch'[t][h].at = "waiting"
BY DEF Awaits, Waiting

\* The refresh of t's page is in flight until its answer arrives.
LEMMA InFlightThroughCall ==
    ASSUME CallsOK, NEW t \in Tabs, InFlight(t), page'[t] = page[t], NEW i, OnlyCall(i),
           \/ calls'[i].done = calls[i].done \/ calls[i].kind # "refresh"
           \/ calls[i].tab # t \/ Gone(calls[i])
    PROVE  InFlight(t)'
<1>1. PICK k \in 1 .. sent : /\ calls[k].kind = "refresh" /\ ~calls[k].done
                             /\ calls[k].tab = t /\ calls[k].page = page[t]
  BY DEF InFlight
<1>2. sent' = sent /\ Keeps(k) /\ ~calls'[k].done
  BY <1>1, Others DEF OnlyCall, Gone
<1> QED
  BY <1>1, <1>2 DEF InFlight, Keeps

LEMMA InFlightThroughSend ==
    ASSUME CallsOK, NEW t \in Tabs, InFlight(t), page'[t] = page[t],
           NEW u, NEW p, NEW kind, Sends(u, p, kind)
    PROVE  InFlight(t)'
<1>1. PICK k \in 1 .. sent : /\ calls[k].kind = "refresh" /\ ~calls[k].done
                             /\ calls[k].tab = t /\ calls[k].page = page[t]
  BY DEF InFlight
<1>2. k \in 1 .. sent' /\ calls'[k] = calls[k]
  BY SentFields DEF Sends
<1> QED
  BY <1>1, <1>2 DEF InFlight

LEMMA InFlightUntouched ==
    ASSUME NEW t \in Tabs, InFlight(t), page'[t] = page[t], UNCHANGED <<calls, sent>>
    PROVE  InFlight(t)'
BY DEF InFlight

LEMMA SentInFlight ==
    ASSUME NEW t \in Tabs, Sends(t, page'[t], "refresh")
    PROVE  InFlight(t)'
BY DEF Sends, InFlight

\* doRefresh on the page that t keeps.
LEMMA RefreshInFlight ==
    ASSUME TypeOK, NEW t \in Tabs, DoRefresh(t, page[t]), page' = page, NEW u \in Tabs,
           u = t \/ InFlight(u)
    PROVE  InFlight(u)'
<1>1. CallsOK /\ page[t] \in Nat /\ "refresh" \in Kinds
  BY TypeSplit DEF RestOK, Kinds
<1>2. CASE InFlight(t) /\ UNCHANGED <<calls, sent>>
  BY <1>2, InFlightUntouched
<1>3. CASE Sends(t, page[t], "refresh")
  BY <1>1, <1>3, SentInFlight, InFlightThroughSend
<1> QED
  BY <1>1, <1>2, <1>3, DoRefreshFacts

LEMMA StrandedNext ==
    ASSUME TypeOK, NobodyStranded, [Next]_vars, NEW u \in Tabs, Awaits(u)'
    PROVE  InFlight(u)'
<1>1. /\ CallsOK /\ (Awaits(u) => InFlight(u))
      /\ page \in [Tabs -> Nat] /\ view \in [Tabs -> {"login", "checking", "app"}]
      /\ fetch \in [Tabs -> [Fetches -> HookType]]
  BY TypeSplit DEF NobodyStranded, Awaits, RestOK
<1>2. ASSUME NEW i \in 1 .. MaxCalls, Handle(i) \/ Reject(i) PROVE InFlight(u)'
  <2>1. OnlyCall(i) /\ calls'[i].done = calls[i].done
    BY <1>2, ServerSteps DEF Serves, Stores
  <2>2. UNCHANGED tabs
    BY <1>2 DEF Handle, GetUserID, Delete, Store, LogoutDelete, Reject
  <2>3. Awaits(u)
    BY <2>2 DEF tabs, Awaits, Waiting
  <2> QED
    BY <1>1, <2>1, <2>2, <2>3, InFlightThroughCall DEF tabs
<1>3. ASSUME NEW i \in 1 .. MaxCalls, Deliver(i), ~AnswerLost(i) PROVE InFlight(u)'
  <2>1. OnlyCall(i) /\ calls[i].tab \in Tabs
    <3>1. Delivers(i) /\ calls[i].tab \in Tabs
      BY <1>1, <1>3, DeliverSteps, CallFields
    <3> QED
      BY <3>1 DEF Delivers
  <2>2. CASE LoggedIn(i) \/ LoggedOut(i) \/ Dropped(i)
    <3>1. page' = page /\ (calls[i].kind # "refresh" \/ Gone(calls[i]))
      BY <2>2 DEF LoggedIn, LoggedOut, Dropped, tabs
    <3>2. Awaits(u)
      BY <1>1, <2>1, <2>2, AwaitsHook DEF LoggedIn, LoggedOut, Dropped, tabs
    <3> QED
      BY <1>1, <2>1, <3>1, <3>2, InFlightThroughCall
  <2>3. CASE Refreshed(i) \/ RefreshFailed(i)
    <3>1. PICK t \in Tabs : t = calls[i].tab
      BY <2>1
    <3>2. /\ u # t => page'[u] = page[u]
          /\ ~(u = t /\ Redirect(t))
      BY <1>1, <2>3, <3>1, AwaitsHook DEF Refreshed, RefreshFailed, Redirect, NoFetch, Idle
    <3>3. CASE Refreshed(i)
      <4>1. u # t
        BY <1>1, <3>1, <3>3, AwaitsHook DEF Refreshed, Waiting
      <4>2. Awaits(u)
        BY <1>1, <3>1, <3>3, <4>1, AwaitsHook DEF Refreshed
      <4> QED
        BY <1>1, <2>1, <3>1, <3>2, <4>1, <4>2, InFlightThroughCall
    <3>4. CASE RefreshFailed(i)
      <4>1. u # t
        <5>1. SUFFICES ASSUME u = t PROVE FALSE
          OBVIOUS
        <5>2. /\ fetch' = [fetch EXCEPT ![t] = [h \in Fetches |->
                             IF h \in Waiting(t) THEN Idle ELSE fetch[t][h]]]
              /\ view' = [view EXCEPT ![t] = IF view[t] = "checking" THEN "login" ELSE view[t]]
              /\ asking' = asking \ {t}
          BY <3>1, <3>2, <3>4, <5>1 DEF RefreshFailed
        <5>3. view'[t] # "checking" /\ t \notin asking'
          BY <1>1, <5>2
        <5>4. ASSUME NEW h \in Fetches PROVE fetch'[t][h].at # "waiting"
          <6>1. fetch'[t][h] = IF h \in Waiting(t) THEN Idle ELSE fetch[t][h]
            BY <1>1, <5>2
          <6> QED
            BY <6>1 DEF Waiting, Idle
        <5> QED
          BY <5>1, <5>3, <5>4, AwaitsHook
      <4>2. Awaits(u)
        BY <1>1, <3>1, <3>4, <4>1, AwaitsHook DEF RefreshFailed, Redirect
      <4> QED
        BY <1>1, <2>1, <3>1, <3>2, <4>1, <4>2, InFlightThroughCall
    <3> QED
      BY <2>3, <3>3, <3>4
  <2> QED
    BY <1>3, <2>2, <2>3 DEF Deliver
<1>4. ASSUME NEW t \in Tabs, Load(t) PROVE InFlight(u)'
  <2>1. page[t] + 1 \in Nat /\ page[t] + 1 # page[t] /\ "refresh" \in Kinds
    BY <1>1 DEF Kinds
  <2>2. Sends(t, page[t] + 1, "refresh")
    BY <1>4, <2>1, DoRefreshFacts DEF Load
  <2>3. page'[t] = page[t] + 1
    BY <1>1, <1>4 DEF Load
  <2>4. u # t => page'[u] = page[u] /\ Awaits(u)
    BY <1>1, <1>4, AwaitsHook DEF Load
  <2> QED
    BY <1>1, <2>1, <2>2, <2>3, <2>4, SentInFlight, InFlightThroughSend
<1>5. ASSUME NEW t \in Tabs, Visit(t) PROVE InFlight(u)'
  <2>1. u # t => Awaits(u)
    BY <1>1, <1>5, AwaitsHook DEF Visit
  <2>2. CASE DoRefresh(t, page[t])
    BY <1>1, <1>5, <2>1, <2>2, RefreshInFlight DEF Visit
  <2>3. CASE view' = [view EXCEPT ![t] = "app"] /\ UNCHANGED <<asking, calls, sent>>
    <3>1. Awaits(u) /\ page' = page
      BY <1>1, <1>5, <2>1, <2>3, AwaitsHook DEF Visit
    <3> QED
      BY <1>1, <2>3, <3>1, InFlightUntouched
  <2> QED
    BY <1>5, <2>2, <2>3 DEF Visit
<1>6. ASSUME NEW t \in Tabs, Login(t) \/ Logout(t) PROVE InFlight(u)'
  <2>1. Awaits(u) /\ page' = page
    BY <1>1, <1>6, AwaitsHook DEF Login, Logout, tabs
  <2>2. \E kind \in {"login", "logout"} : Sends(t, page[t], kind)
    <3>1. cookie \in Nat /\ access[t] \in Nat
      BY DEF TypeOK
    <3> QED
      BY <1>1, <1>6, <3>1, PostFacts DEF Login, Logout
  <2> QED
    BY <1>1, <2>1, <2>2, InFlightThroughSend
<1>7. ASSUME NEW t \in Tabs, NEW h \in Fetches, Answer(t, h) PROVE InFlight(u)'
  <2>1. page' = page /\ (u # t => Awaits(u))
    BY <1>1, <1>7, AwaitsHook DEF Answer
  <2>2. CASE DoRefresh(t, page[t])
    BY <1>1, <2>1, <2>2, RefreshInFlight
  <2>3. CASE fetch' = [fetch EXCEPT ![t][h] = Idle] /\ UNCHANGED <<calls, sent>>
    <3>1. Awaits(u)
      BY <1>1, <1>7, <2>3, AwaitsHook DEF Answer, Idle
    <3> QED
      BY <1>1, <2>1, <2>3, <3>1, InFlightUntouched
  <2> QED
    BY <1>7, <2>2, <2>3 DEF Answer
<1>8. ASSUME NEW t \in Tabs, NEW h \in Fetches, SendRequest(t, h) \/ AnswerRetry(t, h)
      PROVE  InFlight(u)'
  <2>1. UNCHANGED <<calls, sent>> /\ (page' = page \/ Redirect(t))
    BY <1>8 DEF SendRequest, AnswerRetry
  <2>2. u = t => ~Redirect(t)
    BY <1>1, AwaitsHook DEF Redirect, NoFetch, Idle
  <2>3. Awaits(u)
    <3>1. CASE SendRequest(t, h)
      BY <1>1, <3>1, AwaitsHook DEF SendRequest
    <3>2. CASE fetch' = [fetch EXCEPT ![t][h] = Idle] /\ UNCHANGED <<view, asking>>
      BY <1>1, <3>2, AwaitsHook DEF Idle
    <3>3. CASE Redirect(t)
      BY <1>1, <2>2, <3>3, AwaitsHook DEF Redirect
    <3> QED
      BY <1>8, <3>1, <3>2, <3>3 DEF AnswerRetry
  <2> QED
    BY <1>1, <2>1, <2>2, <2>3, InFlightUntouched DEF Redirect
<1>9. ASSUME ExpireAccess \/ (\E r \in 1 .. MaxCalls + 1 : ExpireRefresh(r)) \/ UNCHANGED vars
      PROVE  InFlight(u)'
  <2>1. UNCHANGED tabs /\ UNCHANGED <<calls, sent>>
    BY <1>9 DEF ExpireAccess, ExpireRefresh, vars, tabs
  <2> QED
    BY <1>1, <2>1, InFlightUntouched DEF tabs, Awaits, Waiting
<1>10. ASSUME NEW i \in 1 .. MaxCalls, AnswerLost(i) PROVE InFlight(u)'
  <2>1. OnlyCall(i) /\ calls'[i].done = calls[i].done
    BY <1>10, LoseSteps DEF Loses
  <2>2. UNCHANGED tabs
    BY <1>10 DEF AnswerLost
  <2>3. Awaits(u)
    BY <2>2 DEF tabs, Awaits, Waiting
  <2> QED
    BY <1>1, <2>1, <2>2, <2>3, InFlightThroughCall DEF tabs
<1> QED
  BY <1>2, <1>3, <1>4, <1>5, <1>6, <1>7, <1>8, <1>9, <1>10 DEF Next, User, Fetch

\* ProtectedRoute and the fetchers wait only for a refresh of their page that is in
\* flight: doRefresh (auth.jsx) never leaves a caller with a promise that nobody settles.
THEOREM NobodyStrandedHolds == Spec => []NobodyStranded
<1>1. Init => NobodyStranded
  BY DEF Init, NobodyStranded, Waiting, NoFetch, Idle
<1>2. TypeOK /\ NobodyStranded /\ [Next]_vars => NobodyStranded'
  BY StrandedNext DEF NobodyStranded, Awaits
<1> QED
  BY <1>1, <1>2, SessionTypesHold, PTL DEF Spec
=============================================================================
