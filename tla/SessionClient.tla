--------------------------- MODULE SessionClient ---------------------------
(***************************************************************************)
(* The browser's side of a session: the token pair that all tabs share in  *)
(* localStorage, each tab's requests with the interceptors that refresh an *)
(* expired access token and replay what it refused, the notification       *)
(* stream that refreshes on its own, sign-out, tenant switch and page      *)
(* loads.  A pair is named by the number of its issue, 0 is none.  The     *)
(* server keeps one pair per user (neocrates AuthHelper, external).        *)
(***************************************************************************)
EXTENDS Integers, Sequences, SequencesExt

CONSTANTS
  Tabs,           \* open browser tabs
  Calls,          \* API requests, each sent once and perhaps replayed
  Endings,        \* requests to sign out or to switch the tenant
  Streams,        \* createSSE connections
  None,           \* nothing
  MaxExpiries,    \* bound on access tokens that expire
  MaxLoads,       \* bound on reloads by the user, sign-ins, stream failures
  RefreshExpired  \* whether the refresh call itself may get TOKEN_EXPIRED

Requests == Calls \cup Endings

ASSUME NoneAssumption == None \notin Tabs \cup Requests \cup Streams
ASSUME BoundAssumption ==
  MaxExpiries \in Nat /\ MaxLoads \in Nat /\ RefreshExpired \in BOOLEAN

VARIABLES
  store,     \* STORAGE_ENUM.TOKEN: the stored pair
  server,    \* the pair the server accepts and whether its access token does
  issued,    \* pairs issued so far
  tab,       \* page, pending navigation, isRefreshing and failedQueue
  refresh,   \* refreshTokenPromise of each tab, with its answer
  request,   \* the progress of each request
  stream,    \* the progress of each connection
  expiries, loads   \* spent bounds

client == <<store, tab, refresh, stream>>
bounds == <<expiries, loads>>
vars == <<client, server, issued, request, bounds>>

Kinds == {"call", "logout", "switch"}
Pages == {"app", "signin"}
Answers == {"ok", "error", "expired", "unauthorized"}

FreshTab(page) ==
  [page |-> page, leaving |-> None, isRefreshing |-> FALSE, failedQueue |-> <<>>]
NoRefresh == [st |-> "none", pair |-> 0, got |-> 0, unauthorized |-> FALSE]
NewRequest ==
  [st |-> "new", tab |-> None, kind |-> "call", pair |-> 0, retry |-> FALSE,
   answer |-> None, got |-> 0, executed |-> 0]
\* Of a settled request only its outcome is kept.
Settled(r, st) == [NewRequest EXCEPT !.st = st, !.executed = request[r].executed]
NewStream == [st |-> "new", tab |-> None, closed |-> FALSE]
Gone == [NewStream EXCEPT !.st = "gone"]

Init ==
  /\ store = 1
  /\ server = [pair |-> 1, fresh |-> TRUE]
  /\ issued = 1
  /\ tab = [t \in Tabs |-> FreshTab("app")]
  /\ refresh = [t \in Tabs |-> NoRefresh]
  /\ request = [r \in Requests |-> NewRequest]
  /\ stream = [s \in Streams |-> NewStream]
  /\ expiries = 0
  /\ loads = 0

---------------------------------------------------------------------------
(* Requests and the server *)

\* The request interceptor takes the stored access token at the time it runs.
Send(t, r, kind) ==
  /\ request[r].st = "new"
  /\ kind = "call" <=> r \in Calls
  /\ tab[t].page = "app"
  /\ request' = [request EXCEPT
       ![r] = [NewRequest EXCEPT !.st = "sent", !.tab = t, !.kind = kind, !.pair = store]]
  /\ UNCHANGED <<client, server, issued, bounds>>

Accepts(p) == p # 0 /\ p = server.pair /\ server.fresh

Answered(r, answer, got, executed) ==
  request' = [request EXCEPT ![r].st = "answered", ![r].answer = answer, ![r].got = got,
                             ![r].executed = @ + executed]

\* What a call does on the server once its access token is accepted.
Effect(r) ==
  \/ request[r].kind = "call" /\ UNCHANGED <<server, issued>>
  \/ /\ request[r].kind = "logout"
     /\ server' = [pair |-> 0, fresh |-> FALSE]
     /\ UNCHANGED issued
  \/ /\ request[r].kind = "switch"
     /\ server' = [pair |-> issued + 1, fresh |-> TRUE]
     /\ issued' = issued + 1

\* The server executes the request; its answer may be lost to a network error.
Execute(r, answer) ==
  /\ request[r].st = "sent"
  /\ Accepts(request[r].pair)
  /\ Effect(r)
  /\ Answered(r, answer, IF request[r].kind = "switch" THEN issued + 1 ELSE 0, 1)
  /\ UNCHANGED <<client, bounds>>

\* A request that fails without an effect: refused, timed out, never arrived.
Reject(r) ==
  /\ request[r].st = "sent"
  /\ Answered(r, "error", 0, 0)
  /\ UNCHANGED <<client, server, issued, bounds>>

\* The access token is no longer accepted.
Refuse(r, answer) ==
  /\ request[r].st = "sent"
  /\ ~Accepts(request[r].pair)
  /\ request[r].pair = 0 => answer = "unauthorized"
  /\ Answered(r, answer, 0, 0)
  /\ UNCHANGED <<client, server, issued, bounds>>

AccessExpires ==
  /\ expiries < MaxExpiries
  /\ server.fresh
  /\ server' = [server EXCEPT !.fresh = FALSE]
  /\ expiries' = expiries + 1
  /\ UNCHANGED <<client, issued, request, loads>>

\* refresh_expires_at passed, or an administrator ended the session.
SessionExpires ==
  /\ expiries < MaxExpiries
  /\ server.pair # 0
  /\ server' = [pair |-> 0, fresh |-> FALSE]
  /\ expiries' = expiries + 1
  /\ UNCHANGED <<client, issued, request, loads>>

---------------------------------------------------------------------------
(* Response interceptor.  A response is handled in one step: nothing else  *)
(* of the tab runs between the microtasks it resolves.                      *)

Waiting(t) == {r \in Requests : request[r].tab = t /\ request[r].st \in {"queued", "waiting"}}

\* Sign-out drops the pair whatever the answer was; a tenant switch stores the
\* new one and loads the dashboard.
Receives(r, answer) == request[r].st = "answered" /\ request[r].answer = answer

Succeed(r) ==
  LET t == request[r].tab IN
  /\ Receives(r, "ok")
  /\ request' = [request EXCEPT ![r] = Settled(r, "done")]
  /\ store' = CASE request[r].kind = "logout" -> 0
                [] request[r].kind = "switch" -> request[r].got
                [] OTHER -> store
  /\ tab' = [tab EXCEPT ![t].leaving =
       CASE request[r].kind = "logout" -> "signin"
         [] request[r].kind = "switch" -> "app"
         [] OTHER -> @]
  /\ UNCHANGED <<server, issued, refresh, stream, bounds>>

\* handleAxiosError: an expired token on a replayed request only shows a toast.
Fail(r) ==
  LET t == request[r].tab IN
  /\ Receives(r, "error") \/ (Receives(r, "expired") /\ request[r].retry)
  /\ request' = [request EXCEPT ![r] = Settled(r, "failed")]
  /\ store' = IF request[r].kind = "logout" THEN 0 ELSE store
  /\ tab' = [tab EXCEPT ![t].leaving = IF request[r].kind = "logout" THEN "signin" ELSE @]
  /\ UNCHANGED <<server, issued, refresh, stream, bounds>>

\* handleBizError, UNAUTHORIZED.
Unauthorized(r) ==
  /\ Receives(r, "unauthorized")
  /\ request' = [request EXCEPT ![r] = Settled(r, "failed")]
  /\ store' = 0
  /\ tab' = [tab EXCEPT ![request[r].tab].leaving = "signin"]
  /\ UNCHANGED <<server, issued, refresh, stream, bounds>>

\* Mutant of Expired: any failed answer is refreshed for and replayed.
ExpiredOrFailed(r) ==
  /\ Receives(r, "expired") \/ Receives(r, "error")
  /\ ~request[r].retry

Expired(r) == Receives(r, "expired") /\ ~request[r].retry

\* A refresh is under way: the request waits in failedQueue, without _retry.
Enqueue(r) ==
  LET t == request[r].tab IN
  /\ Expired(r)
  /\ tab[t].isRefreshing
  /\ tab' = [tab EXCEPT ![t].failedQueue = Append(@, r)]
  /\ request' = [request EXCEPT ![r].st = "queued"]
  /\ UNCHANGED <<store, server, issued, refresh, stream, bounds>>

\* refreshToken: the tab's callers share one call, made with the stored pair.
RefreshCall(t) ==
  refresh' = IF refresh[t].st = "none"
             THEN [refresh EXCEPT ![t] = [NoRefresh EXCEPT !.st = "sent", !.pair = store]]
             ELSE refresh

\* The request starts a refresh, or joins the one a stream has started.
StartRefresh(r) ==
  LET t == request[r].tab IN
  /\ Expired(r)
  /\ ~tab[t].isRefreshing
  /\ refresh[t].st # "none" \/ store # 0
  /\ RefreshCall(t)
  /\ tab' = [tab EXCEPT ![t].isRefreshing = TRUE]
  /\ request' = [request EXCEPT ![r].st = "waiting", ![r].retry = TRUE]
  /\ UNCHANGED <<store, server, issued, stream, bounds>>

\* There is nothing to refresh with.
NothingToRefresh(r) ==
  LET t == request[r].tab IN
  /\ Expired(r)
  /\ ~tab[t].isRefreshing
  /\ refresh[t].st = "none" /\ store = 0
  /\ tab' = [tab EXCEPT ![t].leaving = "signin", ![t].failedQueue = <<>>]
  /\ request' = [q \in Requests |->
       IF q \in {r} \cup ToSet(tab[t].failedQueue) THEN Settled(q, "failed") ELSE request[q]]
  /\ UNCHANGED <<store, server, issued, refresh, stream, bounds>>

---------------------------------------------------------------------------
(* The refresh call *)

Refreshed(t, got, unauthorized) ==
  refresh' = [refresh EXCEPT ![t].st = "answered", ![t].got = got,
                             ![t].unauthorized = unauthorized]

\* Mutant of Rotate: the new pair is not recorded.
RotateUnrecorded(t, lost) ==
  /\ refresh[t].st = "sent"
  /\ refresh[t].pair = server.pair
  /\ server' = [pair |-> issued + 1, fresh |-> TRUE]
  /\ Refreshed(t, IF lost THEN 0 ELSE issued + 1, FALSE)
  /\ UNCHANGED <<issued, store, tab, stream, request, bounds>>

\* The server rotates the pair; the answer may be lost.
Rotate(t, lost) ==
  /\ refresh[t].st = "sent"
  /\ refresh[t].pair = server.pair
  /\ server' = [pair |-> issued + 1, fresh |-> TRUE]
  /\ issued' = issued + 1
  /\ Refreshed(t, IF lost THEN 0 ELSE issued + 1, FALSE)
  /\ UNCHANGED <<store, tab, stream, request, bounds>>

\* The refresh fails: the pair is not the current one, or the call breaks.
RefuseRefresh(t, unauthorized) ==
  /\ refresh[t].st = "sent"
  /\ unauthorized => refresh[t].pair # server.pair
  /\ Refreshed(t, 0, unauthorized)
  /\ UNCHANGED <<store, server, issued, tab, stream, request, bounds>>

\* The refresh passes the same interceptors: answered TOKEN_EXPIRED, it enters
\* failedQueue or awaits its own promise, and never settles.
RefreshSelfWait(t) ==
  /\ RefreshExpired
  /\ refresh[t].st = "sent"
  /\ refresh[t].pair # server.pair
  /\ refresh' = [refresh EXCEPT ![t].st = "stuck"]
  /\ tab' = [tab EXCEPT ![t].isRefreshing = TRUE]
  /\ UNCHANGED <<store, server, issued, stream, request, bounds>>

Awaiting(t) == {s \in Streams : stream[s].tab = t /\ stream[s].st = "waiting"}

\* processQueue (forgotten in the mutant ReleasedAlone), and the request that started the refresh.
ReleasedAlone(t) == {r \in Requests : request[r].tab = t /\ request[r].st = "waiting"}
Released(t) == ReleasedAlone(t) \cup ToSet(tab[t].failedQueue)

\* Reconnect unless closed meanwhile (ReconnectedAlways is the mutant).
ReconnectedAlways(s) == [stream[s] EXCEPT !.st = "open"]
Reconnected(s) == IF stream[s].closed THEN Gone ELSE [stream[s] EXCEPT !.st = "open"]

\* A new pair is stored, everything that waited is sent again with it, and the
\* streams that waited reconnect unless they were closed meanwhile.
RefreshSucceeds(t) ==
  LET got == refresh[t].got IN
  /\ refresh[t].st = "answered"
  /\ got # 0
  /\ store' = got
  /\ refresh' = [refresh EXCEPT ![t] = NoRefresh]
  /\ request' = [r \in Requests |->
       IF r \in Released(t) THEN [request[r] EXCEPT !.st = "sent", !.pair = got]
       ELSE request[r]]
  /\ tab' = [tab EXCEPT ![t] = [@ EXCEPT !.isRefreshing = FALSE, !.failedQueue = <<>>]]
  /\ stream' = [s \in Streams |->
       IF s \in Awaiting(t) THEN Reconnected(s) ELSE stream[s]]
  /\ UNCHANGED <<server, issued, bounds>>

\* Without a new pair the requests that waited fail.  A request that waited,
\* or an UNAUTHORIZED answer, also signs the user out; a stream only stops.
RefreshFails(t) ==
  LET signsOut == Released(t) # {} \/ refresh[t].unauthorized IN
  /\ refresh[t].st = "answered"
  /\ refresh[t].got = 0
  /\ refresh' = [refresh EXCEPT ![t] = NoRefresh]
  /\ request' = [r \in Requests |->
       IF r \in Released(t) THEN Settled(r, "failed") ELSE request[r]]
  /\ store' = IF signsOut THEN 0 ELSE store
  /\ tab' = [tab EXCEPT ![t] = [@ EXCEPT
       !.isRefreshing = FALSE, !.failedQueue = <<>>,
       !.leaving = IF signsOut THEN "signin" ELSE tab[t].leaving]]
  /\ stream' = [s \in Streams |->
       IF s \in Awaiting(t)
       THEN IF stream[s].closed THEN Gone ELSE [stream[s] EXCEPT !.st = "dead"]
       ELSE stream[s]]
  /\ UNCHANGED <<server, issued, bounds>>

---------------------------------------------------------------------------
(* The notification stream: createSSE, mounted with the bell *)

Mounted(t) == {s \in Streams : stream[s].tab = t /\ ~stream[s].closed /\ stream[s].st # "gone"}

OpenStream(t, s) ==
  /\ stream[s].st = "new"
  /\ tab[t].page = "app"
  /\ Mounted(t) = {}
  /\ stream' = [stream EXCEPT ![s] = [NewStream EXCEPT !.st = "open", !.tab = t]]
  /\ UNCHANGED <<store, server, issued, tab, refresh, request, bounds>>

\* The bell unmounts: close().
CloseStream(s) ==
  /\ stream[s].st \in {"open", "waiting", "dead"}
  /\ ~stream[s].closed
  /\ stream' = [stream EXCEPT
       ![s] = IF @.st = "waiting" THEN [@ EXCEPT !.closed = TRUE] ELSE Gone]
  /\ UNCHANGED <<store, server, issued, tab, refresh, request, bounds>>

\* An expired token in a message, or a fatal error: refresh, then reconnect.
StreamBreaks(s) ==
  LET t == stream[s].tab IN
  /\ loads < MaxLoads
  /\ loads' = loads + 1
  /\ stream[s].st = "open"
  /\ IF refresh[t].st = "none" /\ store = 0
     THEN stream' = [stream EXCEPT ![s].st = "dead"] /\ UNCHANGED refresh
     ELSE stream' = [stream EXCEPT ![s].st = "waiting"] /\ RefreshCall(t)
  /\ UNCHANGED <<store, server, issued, tab, request, expiries>>

---------------------------------------------------------------------------
(* Page loads *)

\* A reload asked for by the user.
Reload(t) ==
  /\ loads < MaxLoads
  /\ loads' = loads + 1
  /\ tab[t].leaving = None
  /\ tab' = [tab EXCEPT ![t].leaving = tab[t].page]
  /\ UNCHANGED <<store, server, issued, refresh, request, stream, expiries>>

\* The page unloads: everything the tab kept in memory is gone.  A refresh call
\* that was on its way may still be served.
Unload(t, served) ==
  /\ tab[t].leaving # None
  /\ served => refresh[t].st = "sent" /\ refresh[t].pair = server.pair
  /\ IF served
     THEN server' = [pair |-> issued + 1, fresh |-> TRUE] /\ issued' = issued + 1
     ELSE UNCHANGED <<server, issued>>
  /\ tab' = [tab EXCEPT ![t] = FreshTab(tab[t].leaving)]
  /\ refresh' = [refresh EXCEPT ![t] = NoRefresh]
  /\ request' = [r \in Requests |->
       IF request[r].tab = t THEN Settled(r, "gone") ELSE request[r]]
  /\ stream' = [s \in Streams |->
       IF stream[s].tab = t THEN Gone ELSE stream[s]]
  /\ UNCHANGED <<store, bounds>>

\* A new pair is stored and the app opens without a page load.
SignIn(t) ==
  /\ loads < MaxLoads
  /\ loads' = loads + 1
  /\ tab[t].page = "signin"
  /\ server' = [pair |-> issued + 1, fresh |-> TRUE]
  /\ issued' = issued + 1
  /\ store' = issued + 1
  /\ tab' = [tab EXCEPT ![t].page = "app"]
  /\ UNCHANGED <<refresh, request, stream, expiries>>

---------------------------------------------------------------------------
Next ==
  \/ \E t \in Tabs, r \in Requests, kind \in Kinds : Send(t, r, kind)
  \/ \E r \in Requests :
       \/ \E answer \in {"ok", "error"} : Execute(r, answer)
       \/ Reject(r)
       \/ \E answer \in {"expired", "unauthorized"} : Refuse(r, answer)
       \/ Succeed(r) \/ Fail(r) \/ Unauthorized(r)
       \/ Enqueue(r) \/ StartRefresh(r) \/ NothingToRefresh(r)
  \/ AccessExpires \/ SessionExpires
  \/ \E t \in Tabs :
       \/ \E lost \in BOOLEAN : Rotate(t, lost)
       \/ \E unauthorized \in BOOLEAN : RefuseRefresh(t, unauthorized)
       \/ RefreshSelfWait(t) \/ RefreshSucceeds(t) \/ RefreshFails(t)
       \/ \E s \in Streams : OpenStream(t, s)
       \/ Reload(t) \/ SignIn(t)
       \/ \E served \in BOOLEAN : Unload(t, served)
  \/ \E s \in Streams : CloseStream(s) \/ StreamBreaks(s)

\* The 180 s timeout answers every call, the event loop handles every answer,
\* and the browser completes a navigation.
Fairness ==
  /\ \A r \in Requests :
       /\ WF_vars(\/ \E answer \in {"ok", "error"} : Execute(r, answer)
                  \/ Reject(r)
                  \/ \E answer \in {"expired", "unauthorized"} : Refuse(r, answer))
       /\ WF_vars(\/ Succeed(r) \/ Fail(r) \/ Unauthorized(r)
                  \/ Enqueue(r) \/ StartRefresh(r) \/ NothingToRefresh(r))
  /\ \A t \in Tabs :
       /\ WF_vars(\/ \E lost \in BOOLEAN : Rotate(t, lost)
                  \/ \E unauthorized \in BOOLEAN : RefuseRefresh(t, unauthorized)
                  \/ RefreshSelfWait(t))
       /\ WF_vars(RefreshSucceeds(t) \/ RefreshFails(t))
       /\ WF_vars(\E served \in BOOLEAN : Unload(t, served))

Spec == Init /\ [][Next]_vars /\ Fairness

---------------------------------------------------------------------------
Pairs == 0 .. issued
TabType ==
  [page : Pages, leaving : Pages \cup {None}, isRefreshing : BOOLEAN,
   failedQueue : Seq(Requests)]
RefreshType ==
  [st : {"none", "sent", "answered", "stuck"}, pair : Pairs, got : Pairs,
   unauthorized : BOOLEAN]
RequestType ==
  [st : {"new", "sent", "answered", "queued", "waiting", "done", "failed", "gone"},
   tab : Tabs \cup {None}, kind : Kinds, pair : Pairs, retry : BOOLEAN,
   answer : Answers \cup {None}, got : Pairs, executed : Nat]
StreamType ==
  [st : {"new", "open", "waiting", "dead", "gone"}, tab : Tabs \cup {None},
   closed : BOOLEAN]

(* Every variable has its type: the stored pair, the interceptor's module  *)
(* state, and the progress of calls and connections.                        *)
TypeOK ==
  /\ issued \in Nat
  /\ store \in Pairs
  /\ server \in [pair : Pairs, fresh : BOOLEAN]
  /\ tab \in [Tabs -> TabType]
  /\ refresh \in [Tabs -> RefreshType]
  /\ request \in [Requests -> RequestType]
  /\ stream \in [Streams -> StreamType]
  /\ expiries \in 0 .. MaxExpiries /\ loads \in 0 .. MaxLoads

(* Nobody waits for a refresh that is not under way: a queued request is   *)
(* in the queue of its tab, and one that waits, a stream that waits, or    *)
(* isRefreshing itself has a refresh call still to settle.                  *)
WaitersHaveRefresh ==
  \A t \in Tabs :
    /\ {r \in Waiting(t) : request[r].st = "queued"} = ToSet(tab[t].failedQueue)
    /\ tab[t].failedQueue # <<>> => tab[t].isRefreshing
    /\ tab[t].isRefreshing \/ Awaiting(t) # {} \/ Waiting(t) # {}
         => refresh[t].st # "none"

(* A replay never repeats what the server has already executed: whatever   *)
(* tokens expire and calls get lost, each request takes effect at most      *)
(* once, and one reported as successful did take effect.                    *)
ExecutedOnce ==
  \A r \in Requests :
    /\ request[r].executed <= 1
    /\ request[r].st = "done" => request[r].executed = 1

(* A connection closed by its unmounted bell is never open again, even when *)
(* the close came while it waited for a refresh; a tab has at most one.     *)
OneLiveStream ==
  \A s \in Streams :
    stream[s].st = "open" =>
      /\ ~stream[s].closed
      /\ \A q \in Streams :
           stream[q].st = "open" /\ stream[q].tab = stream[s].tab => q = s

(* Every request a page made is settled or goes with its page, unless the  *)
(* tab's refresh was itself answered TOKEN_EXPIRED.                         *)
RequestsSettle ==
  \A r \in Requests :
    request[r].st \in {"sent", "answered", "queued", "waiting"} ~>
      \/ request[r].st \in {"done", "failed", "gone"}
      \/ \E t \in Tabs : request[r].tab = t /\ refresh[t].st = "stuck"

(* README.md:58: "Refresh tokens keep sessions alive without re-login": a   *)
(* tab refreshes with the pair the server accepts, while there is one.      *)
RefreshKeepsSession ==
  \A t \in Tabs :
    refresh[t].st = "sent" /\ server.pair # 0 => refresh[t].pair = server.pair
=============================================================================
