------------------------ MODULE SessionClientProofs ------------------------
(***************************************************************************)
(* Proofs about SessionClient for any number of tabs, requests and         *)
(* streams, any number of expiries and loads, and with the refresh call    *)
(* that waits for itself.                                                  *)
(***************************************************************************)
EXTENDS SessionClient, TLAPS

RefreshShape ==
  [st : {"none", "sent", "answered", "stuck"}, pair : Nat, got : Nat, unauthorized : BOOLEAN]
RequestShape ==
  [st : {"new", "sent", "answered", "queued", "waiting", "done", "failed", "gone"},
   tab : Tabs \cup {None}, kind : Kinds, pair : Nat, retry : BOOLEAN,
   answer : Answers \cup {None}, got : Nat, executed : Nat]

Shape ==
  /\ store \in Nat /\ issued \in Nat
  /\ server \in [pair : Nat, fresh : BOOLEAN]
  /\ tab \in [Tabs -> TabType]
  /\ refresh \in [Tabs -> RefreshShape]
  /\ request \in [Requests -> RequestShape]
  /\ stream \in [Streams -> StreamType]

Flying == {"sent", "answered", "queued", "waiting"}

\* A request on its way belongs to a tab, and so does a connection.
RequestPlaced(r) == request[r].st \in Flying => request[r].tab \in Tabs
StreamPlaced(s) == stream[s].st \in {"open", "waiting", "dead"} => stream[s].tab \in Tabs

\* What the server has done for a request by the time it is where it is.
Progress(r) ==
  /\ request[r].st \in {"new", "sent", "queued", "waiting"} => request[r].executed = 0
  /\ request[r].st = "answered" /\ request[r].answer \in {"expired", "unauthorized"}
       => request[r].executed = 0
  /\ request[r].st = "answered" /\ request[r].answer = "ok" => request[r].executed = 1
  /\ request[r].st = "done" => request[r].executed = 1
  /\ request[r].executed <= 1

\* The queue of a tab holds its queued requests, and whoever waits has a refresh.
TabWaits(t) ==
  /\ \A r \in Requests :
       request[r].tab = t /\ request[r].st = "queued" <=> r \in ToSet(tab[t].failedQueue)
  /\ tab[t].failedQueue # <<>> => tab[t].isRefreshing
  /\ tab[t].isRefreshing => refresh[t].st # "none"
  /\ \A r \in Requests :
       request[r].tab = t /\ request[r].st \in {"queued", "waiting"} => refresh[t].st # "none"
  /\ \A s \in Streams :
       stream[s].tab = t /\ stream[s].st = "waiting" => refresh[t].st # "none"

Live(s) == stream[s].st \in {"open", "waiting", "dead"} /\ ~stream[s].closed

\* Only a connection that waits can be closed and still be there, and a tab has
\* one that is not closed.
OneLive ==
  /\ \A s \in Streams : stream[s].closed => stream[s].st = "waiting"
  /\ \A s, q \in Streams : Live(s) /\ Live(q) /\ stream[s].tab = stream[q].tab => s = q

ClientInv ==
  /\ Shape
  /\ \A r \in Requests : RequestPlaced(r) /\ Progress(r)
  /\ \A s \in Streams : StreamPlaced(s)
  /\ \A t \in Tabs : TabWaits(t)
  /\ OneLive

---------------------------------------------------------------------------
(* What the invariant says *)

LEMMA WaitersFollow == ClientInv => WaitersHaveRefresh
<1> SUFFICES ASSUME ClientInv, NEW t \in Tabs
             PROVE  /\ {r \in Waiting(t) : request[r].st = "queued"} = ToSet(tab[t].failedQueue)
                    /\ tab[t].failedQueue # <<>> => tab[t].isRefreshing
                    /\ tab[t].isRefreshing \/ Awaiting(t) # {} \/ Waiting(t) # {}
                         => refresh[t].st # "none"
  BY DEF WaitersHaveRefresh
<1>1. TabWaits(t)
  BY DEF ClientInv
<1>2. ToSet(tab[t].failedQueue) \subseteq Requests
  <2>1. tab[t].failedQueue \in Seq(Requests)
    BY DEF ClientInv, Shape, TabType
  <2>2. QED
    BY <2>1 DEF ToSet
<1>3. {r \in Waiting(t) : request[r].st = "queued"} = ToSet(tab[t].failedQueue)
  BY <1>1, <1>2 DEF TabWaits, Waiting
<1>4. Awaiting(t) # {} \/ Waiting(t) # {} => refresh[t].st # "none"
  BY <1>1 DEF TabWaits, Waiting, Awaiting
<1>5. QED
  BY <1>1, <1>3, <1>4 DEF TabWaits

LEMMA ExecutionFollows == ClientInv => ExecutedOnce
  BY DEF ClientInv, Progress, ExecutedOnce

LEMMA OneStreamFollows == ClientInv => OneLiveStream
<1> SUFFICES ASSUME ClientInv, NEW s \in Streams, stream[s].st = "open"
             PROVE  /\ ~stream[s].closed
                    /\ \A q \in Streams :
                         stream[q].st = "open" /\ stream[q].tab = stream[s].tab => q = s
  BY DEF OneLiveStream
<1>1. \A q \in Streams : stream[q].st = "open" => ~stream[q].closed /\ Live(q)
  BY DEF ClientInv, OneLive, Live
<1>2. QED
  BY <1>1 DEF ClientInv, OneLive

---------------------------------------------------------------------------
(* The initial state *)

LEMMA ClientInit == ASSUME Init PROVE ClientInv
<1>1. NewRequest \in RequestShape /\ NewStream \in StreamType /\ NoRefresh \in RefreshShape
  BY DEF NewRequest, NewStream, NoRefresh, RequestShape, StreamType, RefreshShape, Kinds, Answers
<1>2. FreshTab("app") \in TabType
  BY DEF FreshTab, TabType, Pages
<1>3. Shape
  BY <1>1, <1>2 DEF Init, Shape
<1>4. \A r \in Requests : request[r].st = "new" /\ request[r].executed = 0
  BY DEF Init, NewRequest
<1>5. \A s \in Streams : stream[s].st = "new" /\ ~stream[s].closed
  BY DEF Init, NewStream
<1>6. ASSUME NEW t \in Tabs PROVE TabWaits(t)
  <2>1. tab[t].failedQueue = <<>> /\ ~tab[t].isRefreshing
    BY DEF Init, FreshTab
  <2>2. ToSet(tab[t].failedQueue) = {}
    BY <2>1 DEF ToSet
  <2>3. QED
    BY <1>4, <1>5, <2>1, <2>2 DEF TabWaits
<1>7. QED
  BY <1>3, <1>4, <1>5, <1>6 DEF ClientInv, RequestPlaced, Progress, StreamPlaced, OneLive, Live, Flying

---------------------------------------------------------------------------
(* Steps that leave the queues alone *)

\* One request moves and was not and is not waiting for a refresh.
LEMMA RequestMoves ==
  ASSUME ClientInv, Shape', NEW r \in Requests,
         \A q \in Requests : q # r => request'[q] = request[q],
         request[r].st \notin {"queued", "waiting"},
         request'[r].st \notin {"queued", "waiting"},
         RequestPlaced(r)', Progress(r)',
         \A t \in Tabs : /\ tab'[t].failedQueue = tab[t].failedQueue
                         /\ tab'[t].isRefreshing = tab[t].isRefreshing,
         UNCHANGED <<refresh, stream>>
  PROVE  ClientInv'
<1>1. \A q \in Requests : (RequestPlaced(q) /\ Progress(q))'
  BY DEF ClientInv, RequestPlaced, Progress
<1>2. ASSUME NEW t \in Tabs PROVE TabWaits(t)'
  BY DEF ClientInv, TabWaits
<1>3. (\A s \in Streams : StreamPlaced(s))' /\ OneLive'
  BY DEF ClientInv, StreamPlaced, OneLive, Live
<1>4. QED
  BY <1>1, <1>2, <1>3 DEF ClientInv

\* No request and no stream moves, and no refresh that is waited for ends.
LEMMA RefreshMoves ==
  ASSUME ClientInv, Shape', UNCHANGED <<request, stream>>,
         \A t \in Tabs : /\ tab'[t].failedQueue = tab[t].failedQueue
                         /\ tab[t].isRefreshing => tab'[t].isRefreshing
                         /\ tab'[t].isRefreshing => refresh'[t].st # "none"
                         /\ refresh[t].st # "none" => refresh'[t].st # "none"
  PROVE  ClientInv'
<1>1. \A q \in Requests : (RequestPlaced(q) /\ Progress(q))'
  BY DEF ClientInv, RequestPlaced, Progress
<1>2. ASSUME NEW t \in Tabs PROVE TabWaits(t)'
  BY DEF ClientInv, TabWaits
<1>3. (\A s \in Streams : StreamPlaced(s))' /\ OneLive'
  BY DEF ClientInv, StreamPlaced, OneLive, Live
<1>4. QED
  BY <1>1, <1>2, <1>3 DEF ClientInv

\* A settled request has its outcome and nothing else.
LEMMA SettledShape ==
  ASSUME Shape, NEW r \in Requests, NEW st \in {"done", "failed", "gone"}
  PROVE  /\ Settled(r, st) \in RequestShape
         /\ Settled(r, st).st = st
         /\ Settled(r, st).tab = None
         /\ Settled(r, st).executed = request[r].executed
BY DEF Shape, Settled, NewRequest, RequestShape, Kinds, Answers

LEMMA StaysPut == ASSUME ClientInv, UNCHANGED vars PROVE ClientInv'
<1>1. Shape'
  BY DEF ClientInv, Shape, vars, client
<1>2. QED
  BY <1>1, RefreshMoves DEF ClientInv, TabWaits, vars, client

---------------------------------------------------------------------------
(* Requests and the server *)

LEMMA SendStep ==
  ASSUME ClientInv, NEW t \in Tabs, NEW r \in Requests, NEW kind \in Kinds, Send(t, r, kind)
  PROVE  ClientInv'
<1>1. /\ request' \in [Requests -> RequestShape]
      /\ request'[r].st = "sent" /\ request'[r].tab = t /\ request'[r].executed = 0
      /\ \A q \in Requests : q # r => request'[q] = request[q]
      /\ request[r].st = "new"
  BY DEF ClientInv, Shape, Send, NewRequest, RequestShape, Answers
<1>2. Shape'
  BY <1>1 DEF ClientInv, Shape, Send, client
<1>3. RequestPlaced(r)' /\ Progress(r)'
  BY <1>1 DEF RequestPlaced, Progress
<1>4. QED
  BY <1>1, <1>2, <1>3, RequestMoves DEF Send, client

\* What an answer is does to the request.
LEMMA AnsweredShape ==
  ASSUME ClientInv, NEW r \in Requests, request[r].st = "sent", NEW answer \in Answers,
         NEW got \in Nat, NEW n \in {0, 1}, Answered(r, answer, got, n)
  PROVE  /\ request' \in [Requests -> RequestShape]
         /\ request'[r].st = "answered" /\ request'[r].tab = request[r].tab
         /\ request'[r].answer = answer /\ request'[r].executed = n
         /\ \A q \in Requests : q # r => request'[q] = request[q]
         /\ request[r].tab \in Tabs
<1>1. request[r].executed = 0 /\ request[r].tab \in Tabs
  BY DEF ClientInv, Progress, RequestPlaced, Flying
<1>2. request \in [Requests -> RequestShape]
  BY DEF ClientInv, Shape
<1>3. request[r].executed + n = n /\ n \in Nat
  BY <1>1
<1>4. \A q \in Requests : q # r => request'[q] = request[q]
  BY <1>2 DEF Answered
<1>5. /\ request'[r].st = "answered" /\ request'[r].tab = request[r].tab
      /\ request'[r].answer = answer /\ request'[r].executed = n
  BY <1>2, <1>3 DEF Answered, RequestShape
<1>6. request' \in [Requests -> RequestShape]
  <2>1. [request[r] EXCEPT !.st = "answered", !.answer = answer, !.got = got,
                           !.executed = @ + n] \in RequestShape
    BY <1>2, <1>3 DEF RequestShape
  <2>2. request' = [request EXCEPT ![r] =
          [request[r] EXCEPT !.st = "answered", !.answer = answer, !.got = got,
                             !.executed = @ + n]]
    BY <1>2 DEF Answered, RequestShape
  <2>3. QED
    BY <1>2, <2>1, <2>2
<1>7. QED
  BY <1>1, <1>4, <1>5, <1>6

LEMMA ExecuteStep ==
  ASSUME ClientInv, NEW r \in Requests, NEW answer \in {"ok", "error"}, Execute(r, answer)
  PROVE  ClientInv'
<1>0. issued \in Nat /\ issued' \in Nat /\ server' \in [pair : Nat, fresh : BOOLEAN]
  <2>1. /\ issued \in Nat /\ server \in [pair : Nat, fresh : BOOLEAN]
        /\ request[r].kind \in {"call", "logout", "switch"} /\ Effect(r)
    BY DEF ClientInv, Shape, Execute, RequestShape, Kinds
  <2>2. /\ [pair |-> 0, fresh |-> FALSE] \in [pair : Nat, fresh : BOOLEAN]
        /\ [pair |-> issued + 1, fresh |-> TRUE] \in [pair : Nat, fresh : BOOLEAN]
        /\ issued + 1 \in Nat
    BY <2>1
  <2>3. QED
    BY <2>1, <2>2, Zenon DEF Effect
<1>1. /\ request' \in [Requests -> RequestShape]
      /\ request'[r].st = "answered" /\ request'[r].tab = request[r].tab
      /\ request'[r].answer = answer /\ request'[r].executed = 1
      /\ \A q \in Requests : q # r => request'[q] = request[q]
      /\ request[r].tab \in Tabs
  <2>1. (IF request[r].kind = "switch" THEN issued + 1 ELSE 0) \in Nat
    BY <1>0
  <2>2. PICK got \in Nat : Answered(r, answer, got, 1)
    BY <2>1 DEF Execute
  <2>3. QED
    BY <2>2, AnsweredShape DEF Execute, Answers
<1>2. Shape'
  BY <1>0, <1>1 DEF ClientInv, Shape, Execute, client
<1>3. RequestPlaced(r)' /\ Progress(r)'
  BY <1>1 DEF RequestPlaced, Progress
<1>4. QED
  BY <1>1, <1>2, <1>3, RequestMoves DEF Execute, client

LEMMA RefusalStep ==
  ASSUME ClientInv, NEW r \in Requests,
         Reject(r) \/ \E answer \in {"expired", "unauthorized"} : Refuse(r, answer)
  PROVE  ClientInv'
<1>1. PICK answer \in {"error", "expired", "unauthorized"} :
        /\ request[r].st = "sent" /\ Answered(r, answer, 0, 0)
        /\ UNCHANGED <<client, server, issued, bounds>>
  BY DEF Reject, Refuse
<1>2. /\ request' \in [Requests -> RequestShape]
      /\ request'[r].st = "answered" /\ request'[r].tab = request[r].tab
      /\ request'[r].answer = answer /\ request'[r].executed = 0
      /\ \A q \in Requests : q # r => request'[q] = request[q]
      /\ request[r].tab \in Tabs
  BY <1>1, AnsweredShape DEF Answers
<1>3. Shape'
  BY <1>1, <1>2 DEF ClientInv, Shape, client
<1>4. RequestPlaced(r)' /\ Progress(r)'
  BY <1>2 DEF RequestPlaced, Progress
<1>5. QED
  BY <1>1, <1>2, <1>3, <1>4, RequestMoves DEF client

---------------------------------------------------------------------------
(* Responses *)

\* A tab that only prepares to leave keeps its queue.
LEMMA TabLeaves ==
  ASSUME Shape, NEW t \in Tabs, NEW page \in Pages \cup {None},
         tab' = [tab EXCEPT ![t].leaving = page]
  PROVE  /\ tab' \in [Tabs -> TabType]
         /\ \A u \in Tabs : /\ tab'[u].failedQueue = tab[u].failedQueue
                            /\ tab'[u].isRefreshing = tab[u].isRefreshing
BY DEF Shape, TabType

LEMMA OutcomeStep ==
  ASSUME ClientInv, NEW r \in Requests, Succeed(r) \/ Fail(r) \/ Unauthorized(r)
  PROVE  ClientInv'
<1>0. /\ request[r].st = "answered" /\ request[r].tab \in Tabs /\ Shape
      /\ request[r].got \in Nat /\ store \in Nat
  BY DEF ClientInv, Shape, RequestPlaced, Flying, Succeed, Fail, Unauthorized, Receives, RequestShape
<1>1. PICK st \in {"done", "failed"} :
        /\ request' = [request EXCEPT ![r] = Settled(r, st)]
        /\ st = "done" => request[r].answer = "ok"
  BY DEF Succeed, Fail, Unauthorized, Receives
<1>2. /\ request' \in [Requests -> RequestShape]
      /\ request'[r].st = st /\ request'[r].tab = None
      /\ request'[r].executed = request[r].executed
      /\ \A q \in Requests : q # r => request'[q] = request[q]
  BY <1>0, <1>1, SettledShape DEF Shape
<1>3. store' \in Nat /\ UNCHANGED <<server, issued, refresh, stream>>
  BY <1>0 DEF Succeed, Fail, Unauthorized
<1>4. /\ tab' \in [Tabs -> TabType]
      /\ \A u \in Tabs : /\ tab'[u].failedQueue = tab[u].failedQueue
                         /\ tab'[u].isRefreshing = tab[u].isRefreshing
  <2>1. tab[request[r].tab].leaving \in Pages \cup {None}
    BY <1>0 DEF Shape, TabType
  <2>2. PICK page \in Pages \cup {None} : tab' = [tab EXCEPT ![request[r].tab].leaving = page]
    BY <2>1 DEF Succeed, Fail, Unauthorized, Pages
  <2>3. QED
    BY <1>0, <2>2, TabLeaves
<1>5. Shape'
  BY <1>0, <1>2, <1>3, <1>4 DEF Shape
<1>6. RequestPlaced(r)' /\ Progress(r)'
  <2>1. /\ request[r].executed \in {0, 1}
        /\ st = "done" => request[r].executed = 1
    BY <1>0, <1>1 DEF ClientInv, Progress, Shape, RequestShape
  <2>2. QED
    BY <1>2, <2>1 DEF RequestPlaced, Progress, Flying
<1>7. QED
  BY <1>0, <1>2, <1>3, <1>4, <1>5, <1>6, RequestMoves

LEMMA AppendedSet ==
  ASSUME NEW S, NEW q \in Seq(S), NEW x \in S
  PROVE  ToSet(Append(q, x)) = ToSet(q) \cup {x} /\ Append(q, x) # <<>>
<1>1. DOMAIN Append(q, x) = DOMAIN q \cup {Len(q) + 1}
  OBVIOUS
<1>2. /\ \A i \in DOMAIN q : Append(q, x)[i] = q[i]
      /\ Append(q, x)[Len(q) + 1] = x
  OBVIOUS
<1>3. QED
  BY <1>1, <1>2 DEF ToSet

LEMMA EnqueueStep == ASSUME ClientInv, NEW r \in Requests, Enqueue(r) PROVE ClientInv'
<1> DEFINE t == request[r].tab
<1>0. /\ request[r].st = "answered" /\ request[r].answer = "expired" /\ t \in Tabs
      /\ request[r].executed = 0 /\ tab[t].isRefreshing /\ tab[t].failedQueue \in Seq(Requests)
  BY DEF ClientInv, Shape, RequestPlaced, Progress, Flying, Enqueue, Expired, Receives, TabType
<1>1. /\ request' \in [Requests -> RequestShape]
      /\ request'[r].st = "queued" /\ request'[r].tab = t /\ request'[r].executed = 0
      /\ \A q \in Requests : q # r => request'[q] = request[q]
  BY <1>0 DEF ClientInv, Shape, Enqueue, RequestShape
<1>2. /\ tab' \in [Tabs -> TabType]
      /\ tab'[t].failedQueue = Append(tab[t].failedQueue, r)
      /\ tab'[t].isRefreshing
      /\ \A u \in Tabs : u # t => tab'[u] = tab[u]
  <2>1. Append(tab[t].failedQueue, r) \in Seq(Requests)
    BY <1>0
  <2>2. tab' = [tab EXCEPT ![t].failedQueue = Append(tab[t].failedQueue, r)]
    BY DEF Enqueue
  <2>3. QED
    BY <1>0, <2>1, <2>2 DEF ClientInv, Shape, TabType
<1>3. ToSet(tab'[t].failedQueue) = ToSet(tab[t].failedQueue) \cup {r}
  BY <1>0, <1>2, AppendedSet
<1>4. Shape'
  BY <1>1, <1>2 DEF ClientInv, Shape, Enqueue
<1>5. \A q \in Requests : (RequestPlaced(q) /\ Progress(q))'
  BY <1>0, <1>1 DEF ClientInv, RequestPlaced, Progress
<1>6. ASSUME NEW u \in Tabs PROVE TabWaits(u)'
  <2>1. UNCHANGED <<refresh, stream>>
    BY DEF Enqueue
  <2>2. TabWaits(u)
    BY DEF ClientInv
  <2>3. CASE u = t
    <3>1. refresh[t].st # "none"
      BY <1>0, <2>2, <2>3 DEF TabWaits
    <3>2. QED
      BY <1>0, <1>1, <1>2, <1>3, <2>1, <2>2, <2>3, <3>1 DEF TabWaits
  <2>4. CASE u # t
    BY <1>0, <1>1, <1>2, <2>1, <2>2, <2>4 DEF TabWaits
  <2>5. QED
    BY <2>3, <2>4
<1>7. (\A s \in Streams : StreamPlaced(s))' /\ OneLive'
  BY DEF ClientInv, StreamPlaced, OneLive, Live, Enqueue
<1>8. QED
  BY <1>4, <1>5, <1>6, <1>7 DEF ClientInv

\* After a call of refreshToken the tab has a refresh, and the others what they had.
LEMMA CalledRefresh ==
  ASSUME Shape, NEW t \in Tabs, RefreshCall(t)
  PROVE  /\ refresh' \in [Tabs -> RefreshShape]
         /\ refresh'[t].st # "none"
         /\ \A u \in Tabs : u # t => refresh'[u] = refresh[u]
<1>1. CASE refresh[t].st = "none"
  <2>1. [NoRefresh EXCEPT !.st = "sent", !.pair = store] \in RefreshShape
    BY DEF Shape, NoRefresh, RefreshShape
  <2>2. [NoRefresh EXCEPT !.st = "sent", !.pair = store].st = "sent"
    BY DEF NoRefresh
  <2>3. QED
    BY <1>1, <2>1, <2>2 DEF RefreshCall, Shape
<1>2. CASE refresh[t].st # "none"
  BY <1>2 DEF RefreshCall, Shape
<1>3. QED
  BY <1>1, <1>2

LEMMA StartRefreshStep == ASSUME ClientInv, NEW r \in Requests, StartRefresh(r) PROVE ClientInv'
<1> DEFINE t == request[r].tab
<1>0. /\ request[r].st = "answered" /\ request[r].answer = "expired" /\ t \in Tabs
      /\ request[r].executed = 0 /\ Shape
  BY DEF ClientInv, Shape, RequestPlaced, Progress, Flying, StartRefresh, Expired, Receives
<1>1. /\ request' \in [Requests -> RequestShape]
      /\ request'[r].st = "waiting" /\ request'[r].tab = t /\ request'[r].executed = 0
      /\ \A q \in Requests : q # r => request'[q] = request[q]
  BY <1>0 DEF Shape, StartRefresh, RequestShape
<1>2. /\ tab' \in [Tabs -> TabType]
      /\ tab'[t].isRefreshing
      /\ \A u \in Tabs : tab'[u].failedQueue = tab[u].failedQueue
      /\ \A u \in Tabs : u # t => tab'[u] = tab[u]
  BY <1>0 DEF Shape, TabType, StartRefresh
<1>3. /\ refresh' \in [Tabs -> RefreshShape]
      /\ refresh'[t].st # "none"
      /\ \A u \in Tabs : u # t => refresh'[u] = refresh[u]
  BY <1>0, CalledRefresh DEF StartRefresh
<1>4. Shape'
  BY <1>0, <1>1, <1>2, <1>3 DEF Shape, StartRefresh
<1>5. \A q \in Requests : (RequestPlaced(q) /\ Progress(q))'
  BY <1>0, <1>1 DEF ClientInv, RequestPlaced, Progress
<1>6. ASSUME NEW u \in Tabs PROVE TabWaits(u)'
  <2>1. TabWaits(u) /\ UNCHANGED stream
    BY DEF ClientInv, StartRefresh
  <2>2. \A q \in Requests :
          request'[q].tab = u /\ request'[q].st = "queued" <=> q \in ToSet(tab'[u].failedQueue)
    BY <1>0, <1>1, <1>2, <2>1 DEF TabWaits
  <2>3. CASE u = t
    BY <1>2, <1>3, <2>2, <2>3 DEF TabWaits
  <2>4. CASE u # t
    BY <1>0, <1>1, <1>2, <1>3, <2>1, <2>2, <2>4 DEF TabWaits
  <2>5. QED
    BY <2>3, <2>4
<1>7. (\A s \in Streams : StreamPlaced(s))' /\ OneLive'
  BY DEF ClientInv, StreamPlaced, OneLive, Live, StartRefresh
<1>8. QED
  BY <1>4, <1>5, <1>6, <1>7 DEF ClientInv

\* Without a refresh nobody is queued.
LEMMA NothingQueued ==
  ASSUME ClientInv, NEW t \in Tabs, ~tab[t].isRefreshing
  PROVE  tab[t].failedQueue = <<>> /\ ToSet(tab[t].failedQueue) = {}
<1>1. tab[t].failedQueue = <<>>
  BY DEF ClientInv, TabWaits
<1>2. QED
  BY <1>1 DEF ToSet

LEMMA NothingStep == ASSUME ClientInv, NEW r \in Requests, NothingToRefresh(r) PROVE ClientInv'
<1> DEFINE t == request[r].tab
<1>0. /\ request[r].st = "answered" /\ t \in Tabs /\ Shape
      /\ request[r].executed = 0 /\ ~tab[t].isRefreshing
      /\ request[r].answer = "expired"
  BY DEF ClientInv, Shape, RequestPlaced, Progress, Flying, NothingToRefresh, Expired, Receives
<1>1. tab[t].failedQueue = <<>> /\ ToSet(tab[t].failedQueue) = {}
  BY <1>0, NothingQueued
<1>2. /\ request' \in [Requests -> RequestShape]
      /\ request'[r].st = "failed" /\ request'[r].tab = None /\ request'[r].executed = 0
      /\ \A q \in Requests : q # r => request'[q] = request[q]
  BY <1>0, <1>1, SettledShape DEF Shape, NothingToRefresh
<1>3. /\ tab' \in [Tabs -> TabType]
      /\ \A u \in Tabs : /\ tab'[u].failedQueue = tab[u].failedQueue
                         /\ tab'[u].isRefreshing = tab[u].isRefreshing
  <2>1. <<>> \in Seq(Requests)
    OBVIOUS
  <2>2. QED
    BY <1>0, <1>1, <2>1 DEF Shape, TabType, NothingToRefresh, Pages
<1>4. Shape'
  BY <1>0, <1>2, <1>3 DEF Shape, NothingToRefresh
<1>5. RequestPlaced(r)' /\ Progress(r)'
  BY <1>2 DEF RequestPlaced, Progress, Flying
<1>6. QED
  BY <1>0, <1>2, <1>3, <1>4, <1>5, RequestMoves DEF NothingToRefresh
---------------------------------------------------------------------------
(* Expiry, the refresh call and page loads *)

LEMMA IssuedShape ==
  ASSUME Shape
  PROVE  /\ [pair |-> 0, fresh |-> FALSE] \in [pair : Nat, fresh : BOOLEAN]
         /\ [pair |-> issued + 1, fresh |-> TRUE] \in [pair : Nat, fresh : BOOLEAN]
         /\ issued + 1 \in Nat
<1>1. issued \in Nat
  BY DEF Shape
<1>2. QED
  BY <1>1

LEMMA ExpiryStep == ASSUME ClientInv, AccessExpires \/ SessionExpires PROVE ClientInv'
<1>1. server' \in [pair : Nat, fresh : BOOLEAN]
  <2>1. CASE AccessExpires
    BY <2>1 DEF ClientInv, Shape, AccessExpires
  <2>2. CASE SessionExpires
    <3>1. Shape
      BY DEF ClientInv
    <3>2. server' = [pair |-> 0, fresh |-> FALSE]
      BY <2>2 DEF SessionExpires
    <3>3. QED
      BY <3>1, <3>2, IssuedShape, Zenon
  <2>3. QED
    BY <2>1, <2>2
<1>2. UNCHANGED <<store, tab, refresh, stream, issued, request>>
  BY DEF AccessExpires, SessionExpires, client
<1>3. Shape'
  BY <1>1, <1>2 DEF ClientInv, Shape
<1>4. QED
  BY <1>2, <1>3, RefreshMoves DEF ClientInv, TabWaits

\* The answer to a refresh call.
LEMMA RefreshedShape ==
  ASSUME Shape, NEW t \in Tabs, NEW got \in Nat, NEW unauthorized \in BOOLEAN,
         Refreshed(t, got, unauthorized)
  PROVE  /\ refresh' \in [Tabs -> RefreshShape]
         /\ refresh'[t].st = "answered"
         /\ \A u \in Tabs : u # t => refresh'[u] = refresh[u]
<1>1. refresh \in [Tabs -> RefreshShape]
  BY DEF Shape
<1>2. [refresh[t] EXCEPT !.st = "answered", !.got = got, !.unauthorized = unauthorized]
        \in RefreshShape
  BY <1>1 DEF RefreshShape
<1>3. refresh' = [refresh EXCEPT ![t] =
        [refresh[t] EXCEPT !.st = "answered", !.got = got, !.unauthorized = unauthorized]]
  BY <1>1 DEF Refreshed, RefreshShape
<1>4. [refresh[t] EXCEPT !.st = "answered", !.got = got, !.unauthorized = unauthorized].st
        = "answered"
  BY <1>1 DEF RefreshShape
<1>5. QED
  BY <1>1, <1>2, <1>3, <1>4

LEMMA AnswerRefreshStep ==
  ASSUME ClientInv, NEW t \in Tabs,
         \/ \E lost \in BOOLEAN : Rotate(t, lost)
         \/ \E unauthorized \in BOOLEAN : RefuseRefresh(t, unauthorized)
  PROVE  ClientInv'
<1>0. Shape /\ issued \in Nat /\ issued + 1 \in Nat /\ server \in [pair : Nat, fresh : BOOLEAN]
  BY DEF ClientInv, Shape
<1>1. issued' \in Nat /\ server' \in [pair : Nat, fresh : BOOLEAN]
  BY <1>0, IssuedShape, Zenon DEF Rotate, RefuseRefresh
<1>2. PICK got \in Nat, unauthorized \in BOOLEAN : Refreshed(t, got, unauthorized)
  <2>1. ASSUME NEW lost \in BOOLEAN, Rotate(t, lost)
        PROVE  \E got \in Nat, unauthorized \in BOOLEAN : Refreshed(t, got, unauthorized)
    <3>1. (IF lost THEN 0 ELSE issued + 1) \in Nat
      BY <1>0
    <3>2. QED
      BY <2>1, <3>1 DEF Rotate
  <2>2. ASSUME NEW unauthorized \in BOOLEAN, RefuseRefresh(t, unauthorized)
        PROVE  \E got \in Nat, b \in BOOLEAN : Refreshed(t, got, b)
    BY <2>2 DEF RefuseRefresh
  <2>3. QED
    BY <2>1, <2>2
<1>3. /\ refresh' \in [Tabs -> RefreshShape]
      /\ refresh'[t].st = "answered"
      /\ \A u \in Tabs : u # t => refresh'[u] = refresh[u]
  BY <1>0, <1>2, RefreshedShape
<1>4. UNCHANGED <<store, tab, stream, request>>
  BY DEF Rotate, RefuseRefresh
<1>5. Shape'
  BY <1>0, <1>1, <1>3, <1>4 DEF Shape
<1>6. QED
  BY <1>3, <1>4, <1>5, RefreshMoves DEF ClientInv, TabWaits

LEMMA SelfWaitStep == ASSUME ClientInv, NEW t \in Tabs, RefreshSelfWait(t) PROVE ClientInv'
<1>0. Shape /\ \A u \in Tabs : tab[u].isRefreshing => refresh[u].st # "none"
  BY DEF ClientInv, TabWaits
<1>1. /\ refresh' \in [Tabs -> RefreshShape]
      /\ refresh'[t].st = "stuck"
      /\ \A u \in Tabs : u # t => refresh'[u] = refresh[u]
  BY <1>0 DEF Shape, RefreshShape, RefreshSelfWait
<1>2. /\ tab' \in [Tabs -> TabType]
      /\ tab'[t].isRefreshing /\ tab'[t].failedQueue = tab[t].failedQueue
      /\ \A u \in Tabs : u # t => tab'[u] = tab[u]
  BY <1>0 DEF Shape, TabType, RefreshSelfWait
<1>3. Shape'
  BY <1>0, <1>1, <1>2 DEF Shape, RefreshSelfWait
<1>4. QED
  BY <1>0, <1>1, <1>2, <1>3, RefreshMoves DEF RefreshSelfWait

LEMMA ReloadStep == ASSUME ClientInv, NEW t \in Tabs, Reload(t) PROVE ClientInv'
<1>0. Shape /\ tab[t].page \in Pages
  BY DEF ClientInv, Shape, TabType
<1>1. /\ tab' \in [Tabs -> TabType]
      /\ \A u \in Tabs : /\ tab'[u].failedQueue = tab[u].failedQueue
                         /\ tab'[u].isRefreshing = tab[u].isRefreshing
  BY <1>0, TabLeaves DEF Reload
<1>2. Shape'
  BY <1>0, <1>1 DEF Shape, Reload
<1>3. QED
  BY <1>1, <1>2, RefreshMoves DEF Reload, ClientInv, TabWaits

LEMMA SignInStep == ASSUME ClientInv, NEW t \in Tabs, SignIn(t) PROVE ClientInv'
<1>0. Shape /\ issued + 1 \in Nat
  BY DEF ClientInv, Shape
<1>1. server' \in [pair : Nat, fresh : BOOLEAN] /\ issued' \in Nat /\ store' \in Nat
  BY <1>0, IssuedShape, Zenon DEF SignIn
<1>2. /\ tab' \in [Tabs -> TabType]
      /\ \A u \in Tabs : /\ tab'[u].failedQueue = tab[u].failedQueue
                         /\ tab'[u].isRefreshing = tab[u].isRefreshing
  BY <1>0 DEF Shape, TabType, SignIn, Pages
<1>3. Shape'
  BY <1>0, <1>1, <1>2 DEF Shape, SignIn
<1>4. QED
  BY <1>2, <1>3, RefreshMoves DEF SignIn, ClientInv, TabWaits

---------------------------------------------------------------------------
(* The streams *)

LEMMA OpenStep ==
  ASSUME ClientInv, NEW t \in Tabs, NEW s \in Streams, OpenStream(t, s) PROVE ClientInv'
<1>0. Shape /\ UNCHANGED <<store, server, issued, tab, refresh, request>>
  BY DEF ClientInv, OpenStream
<1>1. /\ stream' \in [Streams -> StreamType]
      /\ stream'[s].st = "open" /\ stream'[s].tab = t /\ ~stream'[s].closed
      /\ \A q \in Streams : q # s => stream'[q] = stream[q]
  BY <1>0 DEF Shape, OpenStream, NewStream, StreamType
<1>2. Shape'
  BY <1>0, <1>1 DEF Shape
<1>3. \A q \in Streams : Live(q) => stream[q].tab # t
  BY DEF OpenStream, Mounted, Live
<1>4. OneLive'
  BY <1>1, <1>3 DEF ClientInv, OneLive, Live
<1>5. (\A q \in Streams : StreamPlaced(q))'
  BY <1>1 DEF ClientInv, StreamPlaced
<1>6. ASSUME NEW u \in Tabs PROVE TabWaits(u)'
  BY <1>0, <1>1 DEF ClientInv, TabWaits
<1>7. (\A r \in Requests : RequestPlaced(r) /\ Progress(r))'
  BY <1>0 DEF ClientInv, RequestPlaced, Progress
<1>8. QED
  BY <1>2, <1>4, <1>5, <1>6, <1>7 DEF ClientInv

LEMMA CloseStep == ASSUME ClientInv, NEW s \in Streams, CloseStream(s) PROVE ClientInv'
<1>0. Shape /\ UNCHANGED <<store, server, issued, tab, refresh, request>>
  BY DEF ClientInv, CloseStream
<1>1. /\ stream' \in [Streams -> StreamType]
      /\ \/ /\ stream'[s].st = "waiting" /\ stream[s].st = "waiting"
            /\ stream'[s].tab = stream[s].tab
         \/ stream'[s].st = "gone" /\ ~stream'[s].closed
      /\ ~Live(s)'
      /\ \A q \in Streams : q # s => stream'[q] = stream[q]
  <2>1. Gone \in StreamType /\ Gone.st = "gone" /\ Gone.closed = FALSE
    BY DEF Gone, NewStream, StreamType
  <2>2. CASE stream[s].st = "waiting"
    BY <1>0, <2>2 DEF Shape, CloseStream, StreamType, Live
  <2>3. CASE stream[s].st # "waiting"
    BY <1>0, <2>1, <2>3 DEF Shape, CloseStream, Live
  <2>4. QED
    BY <2>2, <2>3
<1>2. Shape'
  BY <1>0, <1>1 DEF Shape
<1>4. OneLive'
  BY <1>1 DEF ClientInv, OneLive, Live
<1>5. (\A q \in Streams : StreamPlaced(q))'
  BY <1>1 DEF ClientInv, StreamPlaced
<1>6. ASSUME NEW u \in Tabs PROVE TabWaits(u)'
  BY <1>0, <1>1 DEF ClientInv, TabWaits
<1>7. (\A r \in Requests : RequestPlaced(r) /\ Progress(r))'
  BY <1>0 DEF ClientInv, RequestPlaced, Progress
<1>8. QED
  BY <1>2, <1>4, <1>5, <1>6, <1>7 DEF ClientInv

LEMMA BreakStep == ASSUME ClientInv, NEW s \in Streams, StreamBreaks(s) PROVE ClientInv'
<1> DEFINE t == stream[s].tab
<1>0. /\ Shape /\ UNCHANGED <<store, server, issued, tab, request>>
      /\ stream[s].st = "open" /\ t \in Tabs /\ ~stream[s].closed
  BY DEF ClientInv, StreamBreaks, StreamPlaced, OneLive
<1>1. /\ refresh' \in [Tabs -> RefreshShape]
      /\ \A u \in Tabs : refresh[u].st # "none" => refresh'[u].st # "none"
      /\ stream'[s].st = "waiting" => refresh'[t].st # "none"
      /\ stream' \in [Streams -> StreamType]
      /\ stream'[s].st \in {"dead", "waiting"}
      /\ stream'[s].tab = t /\ ~stream'[s].closed
      /\ \A q \in Streams : q # s => stream'[q] = stream[q]
  <2>1. CASE refresh[t].st = "none" /\ store = 0
    BY <1>0, <2>1 DEF Shape, StreamBreaks, StreamType
  <2>2. CASE ~(refresh[t].st = "none" /\ store = 0)
    <3>1. RefreshCall(t) /\ stream' = [stream EXCEPT ![s].st = "waiting"]
      BY <2>2 DEF StreamBreaks
    <3>2. /\ refresh' \in [Tabs -> RefreshShape]
          /\ refresh'[t].st # "none"
          /\ \A u \in Tabs : u # t => refresh'[u] = refresh[u]
      BY <1>0, <3>1, CalledRefresh
    <3>3. QED
      BY <1>0, <3>1, <3>2 DEF Shape, StreamType
  <2>3. QED
    BY <2>1, <2>2
<1>2. Shape'
  BY <1>0, <1>1 DEF Shape
<1>4. OneLive'
  BY <1>0, <1>1 DEF ClientInv, OneLive, Live
<1>5. (\A q \in Streams : StreamPlaced(q))'
  BY <1>0, <1>1 DEF ClientInv, StreamPlaced
<1>6. ASSUME NEW u \in Tabs PROVE TabWaits(u)'
  BY <1>0, <1>1 DEF ClientInv, TabWaits
<1>7. (\A r \in Requests : RequestPlaced(r) /\ Progress(r))'
  BY <1>0 DEF ClientInv, RequestPlaced, Progress
<1>8. QED
  BY <1>2, <1>4, <1>5, <1>6, <1>7 DEF ClientInv
---------------------------------------------------------------------------
(* The end of a refresh, and of a page *)

\* Whoever is released waits, or is queued, in the tab.
LEMMA ReleasedWait ==
  ASSUME ClientInv, NEW t \in Tabs, NEW r \in Requests
  PROVE  r \in Released(t) <=> request[r].tab = t /\ request[r].st \in {"queued", "waiting"}
<1>1. TabWaits(t)
  BY DEF ClientInv
<1>2. QED
  BY <1>1 DEF TabWaits, Released, ReleasedAlone

\* A tab whose refresh is over, with its requests moved on and its streams settled.
LEMMA RefreshEnds ==
  ASSUME ClientInv, Shape', NEW t \in Tabs,
         tab'[t].failedQueue = <<>>, ~tab'[t].isRefreshing,
         \A u \in Tabs : u # t => tab'[u] = tab[u] /\ refresh'[u] = refresh[u],
         \A r \in Requests : r \notin Released(t) /\ request[r].tab # t => request'[r] = request[r],
         \A r \in Requests : request'[r] # request[r] => request'[r].tab \in {t, None},
         \A r \in Requests :
           request'[r].tab = t => request'[r].st \notin {"queued", "waiting"},
         \A r \in Requests : (RequestPlaced(r) /\ Progress(r))',
         \A s \in Streams : stream[s].tab # t => stream'[s] = stream[s],
         \A s \in Streams :
           stream[s].tab = t =>
             /\ stream'[s].st # "waiting"
             /\ stream'[s].tab \in {t, None} /\ ~stream'[s].closed
             /\ stream'[s].st \in {"open", "dead"} => Live(s) /\ stream'[s].tab = t
             /\ stream'[s].tab = None => stream'[s].st \notin {"open", "waiting", "dead"}
  PROVE  ClientInv'
<1>0. None \notin Tabs
  BY NoneAssumption
<1>1. ASSUME NEW u \in Tabs PROVE TabWaits(u)'
  <2>1. TabWaits(u)
    BY DEF ClientInv
  <2>2. CASE u = t
    <3>1. ToSet(tab'[t].failedQueue) = {}
      BY DEF ToSet
    <3>2. \A s \in Streams : stream'[s].tab = t => stream'[s].st # "waiting"
      OBVIOUS
    <3>3. QED
      BY <2>2, <3>1, <3>2 DEF TabWaits
  <2>3. CASE u # t
    <3>1. \A r \in Requests :
            request'[r].tab = u <=> request[r].tab = u /\ request'[r] = request[r]
      <4>1. SUFFICES ASSUME NEW r \in Requests
                     PROVE  request'[r].tab = u <=> request[r].tab = u /\ request'[r] = request[r]
        OBVIOUS
      <4>2. request[r].tab = u => r \notin Released(t)
        BY <2>3, ReleasedWait
      <4>3. QED
        BY <1>0, <2>3, <4>2
    <3>2. \A s \in Streams : stream'[s].tab = u => stream'[s] = stream[s]
      BY <1>0, <2>3
    <3>3. \A r \in Requests : request[r].tab = u => request'[r] = request[r]
      BY <2>3, ReleasedWait
    <3>4. tab'[u] = tab[u] /\ refresh'[u] = refresh[u]
      BY <2>3
    <3>5. \A r \in Requests :
            request'[r].tab = u /\ request'[r].st = "queued" <=> r \in ToSet(tab'[u].failedQueue)
      BY <2>1, <3>1, <3>3, <3>4 DEF TabWaits
    <3>6. QED
      BY <2>1, <3>1, <3>2, <3>4, <3>5 DEF TabWaits
  <2>4. QED
    BY <2>2, <2>3
<1>2. (\A s \in Streams : StreamPlaced(s))'
  BY DEF ClientInv, StreamPlaced
<1>3. \A s \in Streams :
        /\ Live(s)' => Live(s) /\ stream'[s].tab = stream[s].tab
        /\ stream'[s].closed => stream'[s].st = "waiting"
  BY DEF ClientInv, OneLive, Live
<1>4. OneLive'
  BY <1>3 DEF ClientInv, OneLive
<1>5. QED
  BY <1>1, <1>2, <1>4 DEF ClientInv

LEMMA GoneShape ==
  /\ Gone \in StreamType /\ Gone.st = "gone" /\ Gone.closed = FALSE /\ Gone.tab = None
  /\ NoRefresh \in RefreshShape
  /\ \A page \in Pages : /\ FreshTab(page) \in TabType
                         /\ FreshTab(page).failedQueue = <<>>
                         /\ FreshTab(page).isRefreshing = FALSE
<1>1. Gone \in StreamType /\ Gone.st = "gone" /\ Gone.closed = FALSE /\ Gone.tab = None
  BY DEF Gone, NewStream, StreamType
<1>2. NoRefresh \in RefreshShape
  BY DEF NoRefresh, RefreshShape
<1>3. ASSUME NEW page \in Pages
      PROVE  /\ FreshTab(page) \in TabType
             /\ FreshTab(page).failedQueue = <<>>
             /\ FreshTab(page).isRefreshing = FALSE
  <2>1. <<>> \in Seq(Requests)
    OBVIOUS
  <2>2. QED
    BY <2>1 DEF FreshTab, TabType
<1>4. QED
  BY <1>1, <1>2, <1>3

\* A stream that waited and was closed is gone, the others go on or are dead.
LEMMA StreamsSettled ==
  ASSUME ClientInv, NEW t \in Tabs, NEW st \in {"open", "dead"},
         stream' = [s \in Streams |->
           IF s \in Awaiting(t)
           THEN IF stream[s].closed THEN Gone ELSE [stream[s] EXCEPT !.st = st]
           ELSE stream[s]]
  PROVE  /\ stream' \in [Streams -> StreamType]
         /\ \A s \in Streams : stream[s].tab # t => stream'[s] = stream[s]
         /\ \A s \in Streams :
              stream[s].tab = t =>
                /\ stream'[s].st # "waiting"
                /\ stream'[s].tab \in {t, None} /\ ~stream'[s].closed
                /\ stream'[s].st \in {"open", "dead"} => Live(s) /\ stream'[s].tab = t
                /\ stream'[s].tab = None => stream'[s].st \notin {"open", "waiting", "dead"}
<1> SUFFICES ASSUME NEW s \in Streams
             PROVE  /\ stream'[s] \in StreamType
                    /\ stream[s].tab # t => stream'[s] = stream[s]
                    /\ stream[s].tab = t =>
                         /\ stream'[s].st # "waiting"
                         /\ stream'[s].tab \in {t, None} /\ ~stream'[s].closed
                         /\ stream'[s].st \in {"open", "dead"} => Live(s) /\ stream'[s].tab = t
                         /\ stream'[s].tab = None =>
                              stream'[s].st \notin {"open", "waiting", "dead"}
  OBVIOUS
<1>0. /\ stream[s] \in StreamType /\ None \notin Tabs
      /\ stream[s].closed => stream[s].st = "waiting"
  BY NoneAssumption DEF ClientInv, Shape, OneLive
<1>1. CASE s \in Awaiting(t) /\ stream[s].closed
  BY <1>0, <1>1, GoneShape DEF Awaiting
<1>2. CASE s \in Awaiting(t) /\ ~stream[s].closed
  <2>1. stream'[s] = [stream[s] EXCEPT !.st = st]
    BY <1>2
  <2>2. stream[s].tab = t /\ stream[s].st = "waiting" /\ Live(s)
    BY <1>2 DEF Awaiting, Live
  <2>3. /\ stream'[s] \in StreamType /\ stream'[s].st = st
        /\ stream'[s].tab = t /\ stream'[s].closed = stream[s].closed
    BY <1>0, <2>1, <2>2 DEF StreamType
  <2>4. QED
    BY <1>0, <1>2, <2>2, <2>3
<1>3. CASE s \notin Awaiting(t)
  <2>1. stream'[s] = stream[s]
    BY <1>3
  <2>2. stream[s].tab = t => stream[s].st # "waiting" /\ ~stream[s].closed
    BY <1>0, <1>3 DEF Awaiting
  <2>3. stream[s].tab = t /\ stream[s].st \in {"open", "dead"} => Live(s)
    BY <2>2 DEF Live
  <2>4. stream[s].tab = t => stream[s].tab # None
    BY <1>0
  <2>5. QED
    BY <1>0, <2>1, <2>2, <2>3, <2>4
<1>4. QED
  BY <1>1, <1>2, <1>3

\* The tab after its refresh.
LEMMA TabRefreshed ==
  ASSUME Shape, NEW t \in Tabs, NEW page \in Pages \cup {None},
         \/ tab' = [tab EXCEPT ![t] = [@ EXCEPT !.isRefreshing = FALSE, !.failedQueue = <<>>]]
         \/ tab' = [tab EXCEPT ![t] = [@ EXCEPT
                               !.isRefreshing = FALSE, !.failedQueue = <<>>, !.leaving = page]]
  PROVE  /\ tab' \in [Tabs -> TabType]
         /\ tab'[t].failedQueue = <<>> /\ ~tab'[t].isRefreshing
         /\ \A u \in Tabs : u # t => tab'[u] = tab[u]
<1>1. tab \in [Tabs -> TabType] /\ <<>> \in Seq(Requests)
  BY DEF Shape
<1>2. tab[t] \in TabType
  BY <1>1
<1>3. PICK left \in TabType :
        /\ tab' = [tab EXCEPT ![t] = left]
        /\ left.failedQueue = <<>> /\ left.isRefreshing = FALSE
  <2>1. CASE tab' = [tab EXCEPT ![t] = [@ EXCEPT !.isRefreshing = FALSE, !.failedQueue = <<>>]]
    <3> DEFINE left == [tab[t] EXCEPT !.isRefreshing = FALSE, !.failedQueue = <<>>]
    <3>1. /\ left \in TabType
          /\ left.failedQueue = <<>> /\ left.isRefreshing = FALSE
      BY <1>1, <1>2 DEF TabType
    <3>2. tab' = [tab EXCEPT ![t] = left]
      BY <2>1
    <3>3. QED
      BY <3>1, <3>2
  <2>2. CASE tab' = [tab EXCEPT ![t] = [@ EXCEPT
                                !.isRefreshing = FALSE, !.failedQueue = <<>>, !.leaving = page]]
    <3> DEFINE left == [tab[t] EXCEPT
                          !.isRefreshing = FALSE, !.failedQueue = <<>>, !.leaving = page]
    <3>1. /\ left \in TabType
          /\ left.failedQueue = <<>> /\ left.isRefreshing = FALSE
      BY <1>1, <1>2 DEF TabType
    <3>2. tab' = [tab EXCEPT ![t] = left]
      BY <2>2
    <3>3. QED
      BY <3>1, <3>2
  <2>3. QED
    BY <2>1, <2>2
<1>4. QED
  BY <1>1, <1>3
---------------------------------------------------------------------------
LEMMA RefreshSucceedsStep == ASSUME ClientInv, NEW t \in Tabs, RefreshSucceeds(t) PROVE ClientInv'
<1> DEFINE got == refresh[t].got
<1>0. /\ Shape /\ got \in Nat /\ UNCHANGED <<server, issued>> /\ store' = got
      /\ request \in [Requests -> RequestShape]
  BY DEF ClientInv, Shape, RefreshShape, RefreshSucceeds
<1>1. \A r \in Requests :
        IF r \in Released(t)
        THEN /\ request'[r] \in RequestShape
             /\ request'[r].st = "sent" /\ request'[r].tab = t /\ request'[r].executed = 0
        ELSE request'[r] = request[r]
  <2>1. SUFFICES ASSUME NEW r \in Requests, r \in Released(t)
                 PROVE  /\ request'[r] \in RequestShape
                        /\ request'[r].st = "sent" /\ request'[r].tab = t
                        /\ request'[r].executed = 0
    BY DEF RefreshSucceeds
  <2>2. request'[r] = [request[r] EXCEPT !.st = "sent", !.pair = got]
    BY <2>1 DEF RefreshSucceeds
  <2>3. /\ request[r].tab = t /\ request[r].executed = 0
    BY <2>1, ReleasedWait DEF ClientInv, Progress
  <2>4. request[r] \in RequestShape /\ got \in Nat
    BY <1>0
  <2>5. request'[r] \in RequestShape
    BY <2>2, <2>4 DEF RequestShape
  <2>6. /\ request'[r].st = "sent" /\ request'[r].tab = request[r].tab
        /\ request'[r].executed = request[r].executed
    BY <2>2, <2>4 DEF RequestShape
  <2>7. QED
    BY <2>3, <2>5, <2>6
<1>2. request' \in [Requests -> RequestShape]
  <2>1. request' = [r \in Requests |->
          IF r \in Released(t) THEN [request[r] EXCEPT !.st = "sent", !.pair = got]
          ELSE request[r]]
    BY DEF RefreshSucceeds
  <2>2. QED
    BY <1>0, <1>1, <2>1
<1>3. /\ tab' \in [Tabs -> TabType]
      /\ tab'[t].failedQueue = <<>> /\ ~tab'[t].isRefreshing
      /\ \A u \in Tabs : u # t => tab'[u] = tab[u]
  BY <1>0, TabRefreshed DEF RefreshSucceeds
<1>4. /\ refresh' \in [Tabs -> RefreshShape]
      /\ \A u \in Tabs : u # t => refresh'[u] = refresh[u]
  BY <1>0, GoneShape DEF Shape, RefreshSucceeds
<1>5. stream' = [s \in Streams |->
        IF s \in Awaiting(t)
        THEN IF stream[s].closed THEN Gone ELSE [stream[s] EXCEPT !.st = "open"]
        ELSE stream[s]]
  BY DEF RefreshSucceeds, Reconnected
<1>6. /\ stream' \in [Streams -> StreamType]
      /\ \A s \in Streams : stream[s].tab # t => stream'[s] = stream[s]
      /\ \A s \in Streams :
           stream[s].tab = t =>
             /\ stream'[s].st # "waiting"
             /\ stream'[s].tab \in {t, None} /\ ~stream'[s].closed
             /\ stream'[s].st \in {"open", "dead"} => Live(s) /\ stream'[s].tab = t
             /\ stream'[s].tab = None => stream'[s].st \notin {"open", "waiting", "dead"}
  BY <1>5, StreamsSettled
<1>7. Shape'
  BY <1>0, <1>2, <1>3, <1>4, <1>6 DEF Shape
<1>8. \A r \in Requests : (RequestPlaced(r) /\ Progress(r))'
  BY <1>1 DEF ClientInv, RequestPlaced, Progress
<1>9. \A r \in Requests : request'[r].tab = t => request'[r].st \notin {"queued", "waiting"}
  BY <1>1, ReleasedWait
<1>10. QED
  BY <1>1, <1>3, <1>4, <1>6, <1>7, <1>8, <1>9, RefreshEnds

LEMMA RefreshFailsStep == ASSUME ClientInv, NEW t \in Tabs, RefreshFails(t) PROVE ClientInv'
<1>0. /\ Shape /\ UNCHANGED <<server, issued>> /\ store' \in Nat
      /\ request \in [Requests -> RequestShape]
      /\ tab[t].leaving \in Pages \cup {None}
  BY DEF ClientInv, Shape, RefreshFails, TabType
<1>1. \A r \in Requests :
        IF r \in Released(t)
        THEN /\ request'[r] \in RequestShape
             /\ request'[r].st = "failed" /\ request'[r].tab = None /\ request'[r].executed = 0
        ELSE request'[r] = request[r]
  <2>1. SUFFICES ASSUME NEW r \in Requests, r \in Released(t)
                 PROVE  /\ request'[r] \in RequestShape
                        /\ request'[r].st = "failed" /\ request'[r].tab = None
                        /\ request'[r].executed = 0
    BY DEF RefreshFails
  <2>2. request'[r] = Settled(r, "failed")
    BY <2>1 DEF RefreshFails
  <2>3. request[r].executed = 0
    BY <2>1, ReleasedWait DEF ClientInv, Progress
  <2>4. QED
    BY <1>0, <2>2, <2>3, SettledShape
<1>2. request' \in [Requests -> RequestShape]
  <2>1. request' = [r \in Requests |->
          IF r \in Released(t) THEN Settled(r, "failed") ELSE request[r]]
    BY DEF RefreshFails
  <2>2. QED
    BY <1>0, <1>1, <2>1
<1>3. /\ tab' \in [Tabs -> TabType]
      /\ tab'[t].failedQueue = <<>> /\ ~tab'[t].isRefreshing
      /\ \A u \in Tabs : u # t => tab'[u] = tab[u]
  <2>1. PICK page \in Pages \cup {None} :
          tab' = [tab EXCEPT ![t] = [@ EXCEPT
                             !.isRefreshing = FALSE, !.failedQueue = <<>>, !.leaving = page]]
    <3> DEFINE away == IF Released(t) # {} \/ refresh[t].unauthorized
                       THEN "signin" ELSE tab[t].leaving
    <3>1. away \in Pages \cup {None}
      BY <1>0 DEF Shape, TabType, Pages
    <3>2. tab' = [tab EXCEPT ![t] = [@ EXCEPT
                   !.isRefreshing = FALSE, !.failedQueue = <<>>, !.leaving = away]]
      BY DEF RefreshFails
    <3>3. QED
      BY <3>1, <3>2
  <2>2. QED
    BY <1>0, <2>1, TabRefreshed
<1>4. /\ refresh' \in [Tabs -> RefreshShape]
      /\ \A u \in Tabs : u # t => refresh'[u] = refresh[u]
  BY <1>0, GoneShape DEF Shape, RefreshFails
<1>5. stream' = [s \in Streams |->
        IF s \in Awaiting(t)
        THEN IF stream[s].closed THEN Gone ELSE [stream[s] EXCEPT !.st = "dead"]
        ELSE stream[s]]
  BY DEF RefreshFails
<1>6. /\ stream' \in [Streams -> StreamType]
      /\ \A s \in Streams : stream[s].tab # t => stream'[s] = stream[s]
      /\ \A s \in Streams :
           stream[s].tab = t =>
             /\ stream'[s].st # "waiting"
             /\ stream'[s].tab \in {t, None} /\ ~stream'[s].closed
             /\ stream'[s].st \in {"open", "dead"} => Live(s) /\ stream'[s].tab = t
             /\ stream'[s].tab = None => stream'[s].st \notin {"open", "waiting", "dead"}
  BY <1>5, StreamsSettled
<1>7. Shape'
  BY <1>0, <1>2, <1>3, <1>4, <1>6 DEF Shape
<1>8. \A r \in Requests : (RequestPlaced(r) /\ Progress(r))'
  BY <1>1 DEF ClientInv, RequestPlaced, Progress, Flying
<1>9. \A r \in Requests : request'[r].tab = t => request'[r].st \notin {"queued", "waiting"}
  BY <1>1, ReleasedWait, NoneAssumption
<1>10. QED
  BY <1>1, <1>3, <1>4, <1>6, <1>7, <1>8, <1>9, RefreshEnds

LEMMA UnloadStep ==
  ASSUME ClientInv, NEW t \in Tabs, NEW served \in BOOLEAN, Unload(t, served) PROVE ClientInv'
<1>0. /\ Shape /\ UNCHANGED store /\ request \in [Requests -> RequestShape]
      /\ tab[t].leaving \in Pages /\ None \notin Tabs
  BY NoneAssumption DEF ClientInv, Shape, Unload, TabType
<1>1. server' \in [pair : Nat, fresh : BOOLEAN] /\ issued' \in Nat
  <2>1. CASE served
    BY <1>0, <2>1, IssuedShape, Zenon DEF Unload
  <2>2. CASE ~served
    BY <1>0, <2>2 DEF Unload, Shape
  <2>3. QED
    BY <2>1, <2>2
<1>2. \A r \in Requests :
        IF request[r].tab = t
        THEN /\ request'[r] \in RequestShape /\ request'[r].st = "gone"
             /\ request'[r].tab = None /\ request'[r].executed = request[r].executed
        ELSE request'[r] = request[r]
  <2>1. SUFFICES ASSUME NEW r \in Requests, request[r].tab = t
                 PROVE  /\ request'[r] \in RequestShape /\ request'[r].st = "gone"
                        /\ request'[r].tab = None
                        /\ request'[r].executed = request[r].executed
    BY DEF Unload
  <2>2. request'[r] = Settled(r, "gone")
    BY <2>1 DEF Unload
  <2>3. QED
    BY <1>0, <2>2, SettledShape
<1>3. request' \in [Requests -> RequestShape]
  <2>1. request' = [r \in Requests |->
          IF request[r].tab = t THEN Settled(r, "gone") ELSE request[r]]
    BY DEF Unload
  <2>2. QED
    BY <1>0, <1>2, <2>1
<1>4. /\ tab' \in [Tabs -> TabType]
      /\ tab'[t].failedQueue = <<>> /\ ~tab'[t].isRefreshing
      /\ \A u \in Tabs : u # t => tab'[u] = tab[u]
  BY <1>0, GoneShape DEF Shape, Unload
<1>5. /\ refresh' \in [Tabs -> RefreshShape]
      /\ \A u \in Tabs : u # t => refresh'[u] = refresh[u]
  BY <1>0, GoneShape DEF Shape, Unload
<1>6. /\ stream' \in [Streams -> StreamType]
      /\ \A s \in Streams :
           IF stream[s].tab = t
           THEN stream'[s].st = "gone" /\ stream'[s].tab = None /\ ~stream'[s].closed
           ELSE stream'[s] = stream[s]
  BY <1>0, GoneShape DEF Shape, Unload
<1>7. Shape'
  BY <1>0, <1>1, <1>3, <1>4, <1>5, <1>6 DEF Shape
<1>8. \A r \in Requests : (RequestPlaced(r) /\ Progress(r))'
  <2>1. SUFFICES ASSUME NEW r \in Requests PROVE (RequestPlaced(r) /\ Progress(r))'
    OBVIOUS
  <2>2. RequestPlaced(r) /\ Progress(r)
    BY DEF ClientInv
  <2>3. CASE request[r].tab = t
    BY <1>2, <2>2, <2>3 DEF RequestPlaced, Progress, Flying
  <2>4. CASE request[r].tab # t
    BY <1>2, <2>2, <2>4 DEF RequestPlaced, Progress
  <2>5. QED
    BY <2>3, <2>4
<1>9. \A r \in Requests : r \in Released(t) => request[r].tab = t
  BY ReleasedWait
<1>10. /\ \A r \in Requests : request'[r] # request[r] => request'[r].tab \in {t, None}
       /\ \A r \in Requests : request'[r].tab = t => request'[r].st \notin {"queued", "waiting"}
       /\ \A r \in Requests :
            r \notin Released(t) /\ request[r].tab # t => request'[r] = request[r]
  BY <1>0, <1>2
<1>11. QED
  BY <1>0, <1>4, <1>5, <1>6, <1>7, <1>8, <1>10, RefreshEnds

---------------------------------------------------------------------------
(* Every step, and the theorems *)

LEMMA ClientStep == ASSUME ClientInv, [Next]_vars PROVE ClientInv'
<1>1. CASE UNCHANGED vars
  BY <1>1, StaysPut
<1>2. CASE \E t \in Tabs, r \in Requests, kind \in Kinds : Send(t, r, kind)
  BY <1>2, SendStep
<1>3. ASSUME NEW r \in Requests,
             \/ \E answer \in {"ok", "error"} : Execute(r, answer)
             \/ Reject(r)
             \/ \E answer \in {"expired", "unauthorized"} : Refuse(r, answer)
             \/ Succeed(r) \/ Fail(r) \/ Unauthorized(r)
             \/ Enqueue(r) \/ StartRefresh(r) \/ NothingToRefresh(r)
      PROVE  ClientInv'
  BY <1>3, ExecuteStep, RefusalStep, OutcomeStep, EnqueueStep, StartRefreshStep, NothingStep
<1>4. CASE AccessExpires \/ SessionExpires
  BY <1>4, ExpiryStep
<1>5. ASSUME NEW t \in Tabs,
             \/ \E lost \in BOOLEAN : Rotate(t, lost)
             \/ \E unauthorized \in BOOLEAN : RefuseRefresh(t, unauthorized)
             \/ RefreshSelfWait(t) \/ RefreshSucceeds(t) \/ RefreshFails(t)
             \/ \E s \in Streams : OpenStream(t, s)
             \/ Reload(t) \/ SignIn(t)
             \/ \E served \in BOOLEAN : Unload(t, served)
      PROVE  ClientInv'
  BY <1>5, AnswerRefreshStep, SelfWaitStep, RefreshSucceedsStep, RefreshFailsStep, OpenStep,
     ReloadStep, SignInStep, UnloadStep
<1>6. CASE \E s \in Streams : CloseStream(s) \/ StreamBreaks(s)
  BY <1>6, CloseStep, BreakStep
<1>7. QED
  BY <1>1, <1>2, <1>3, <1>4, <1>5, <1>6 DEF Next

---------------------------------------------------------------------------
(* Every pair anybody has was issued *)

Within(x, n) == x.pair <= n /\ x.got <= n

Issued ==
  /\ store <= issued /\ server.pair <= issued
  /\ \A t \in Tabs : Within(refresh[t], issued)
  /\ \A r \in Requests : Within(request[r], issued)
  /\ expiries \in 0 .. MaxExpiries /\ loads \in 0 .. MaxLoads

\* What a step leaves alone was issued before it.
LEMMA IssuedStays ==
  ASSUME Shape, Shape', Issued, issued' \in {issued, issued + 1},
         store' = store \/ store' <= issued',
         server'.pair = server.pair \/ server'.pair <= issued',
         \A t \in Tabs : refresh'[t] = refresh[t] \/ Within(refresh'[t], issued'),
         \A r \in Requests : request'[r] = request[r] \/ Within(request'[r], issued'),
         expiries' = expiries \/ (expiries < MaxExpiries /\ expiries' = expiries + 1),
         loads' = loads \/ (loads < MaxLoads /\ loads' = loads + 1)
  PROVE  Issued'
<1>1. issued \in Nat /\ issued' \in Nat /\ issued <= issued'
  BY DEF Shape
<1>2. store' <= issued'
  BY <1>1 DEF Issued, Shape
<1>3. server'.pair <= issued'
  BY <1>1 DEF Issued, Shape
<1>4. ASSUME NEW t \in Tabs PROVE Within(refresh'[t], issued')
  <2>1. refresh[t].pair \in Nat /\ refresh[t].got \in Nat
    BY DEF Shape, RefreshShape
  <2>2. QED
    BY <1>1, <2>1 DEF Issued, Within
<1>5. ASSUME NEW r \in Requests PROVE Within(request'[r], issued')
  <2>1. request[r].pair \in Nat /\ request[r].got \in Nat
    BY DEF Shape, RequestShape
  <2>2. QED
    BY <1>1, <2>1 DEF Issued, Within
<1>6. expiries' \in 0 .. MaxExpiries /\ loads' \in 0 .. MaxLoads
  BY BoundAssumption DEF Issued
<1>7. QED
  BY <1>2, <1>3, <1>4, <1>5, <1>6 DEF Issued

\* No pair, or the one just issued.
LEMMA NewWithin ==
  ASSUME NEW r \in Requests, NEW st
  PROVE  \A n \in Nat : Within(Settled(r, st), n)
BY DEF Within, NewRequest, NoRefresh, Settled

LEMMA NothingWithin == ASSUME NEW n \in Nat PROVE Within(NoRefresh, n)
  BY DEF Within, NoRefresh

\* A refresh is called with the stored pair.
LEMMA CalledWithin ==
  ASSUME Shape, Issued, NEW t, RefreshCall(t), issued' = issued
  PROVE  \A u \in Tabs : refresh'[u] = refresh[u] \/ Within(refresh'[u], issued')
<1>1. CASE refresh' = [refresh EXCEPT ![t] = [NoRefresh EXCEPT !.st = "sent", !.pair = store]]
  <2>1. Within([NoRefresh EXCEPT !.st = "sent", !.pair = store], issued')
    BY DEF Shape, Issued, Within, NoRefresh
  <2>2. \A u \in Tabs : \/ refresh'[u] = refresh[u]
                        \/ refresh'[u] = [NoRefresh EXCEPT !.st = "sent", !.pair = store]
    BY <1>1 DEF Shape
  <2>3. QED
    BY <2>1, <2>2
<1>2. CASE UNCHANGED refresh
  BY <1>2
<1>3. QED
  BY <1>1, <1>2 DEF RefreshCall

LEMMA RequestIssued ==
  ASSUME ClientInv, Shape', Issued, NEW r \in Requests,
         \/ \E t \in Tabs, kind \in Kinds : Send(t, r, kind)
         \/ \E answer \in {"ok", "error"} : Execute(r, answer)
         \/ Reject(r)
         \/ \E answer \in {"expired", "unauthorized"} : Refuse(r, answer)
  PROVE  Issued'
<1>1. /\ Shape /\ issued \in Nat /\ store <= issued /\ 0 <= issued /\ issued + 1 \in Nat
      /\ Within(request[r], issued) /\ request[r] \in RequestShape /\ store \in Nat
      /\ request \in [Requests -> RequestShape]
  BY DEF ClientInv, Shape, Issued
<1>2. CASE \E t \in Tabs, kind \in Kinds : Send(t, r, kind)
  <2>1. /\ \A q \in Requests : q # r => request'[q] = request[q]
        /\ request'[r].pair = store /\ request'[r].got = 0
        /\ UNCHANGED <<store, server, issued, refresh, expiries, loads>>
    BY <1>1, <1>2 DEF Send, client, bounds, NewRequest
  <2>2. Within(request'[r], issued')
    BY <1>1, <2>1 DEF Within
  <2>3. QED
    BY <1>1, <2>1, <2>2, IssuedStays
<1>3. ASSUME NEW answer, NEW got \in Nat, NEW executed, Answered(r, answer, got, executed),
             got <= issued', issued' \in {issued, issued + 1}
      PROVE  \A q \in Requests : request'[q] = request[q] \/ Within(request'[q], issued')
  <2>1. /\ \A q \in Requests : q # r => request'[q] = request[q]
        /\ request'[r].pair = request[r].pair /\ request'[r].got = got
    BY <1>1, <1>3 DEF Answered, RequestShape
  <2>2. request[r].pair \in Nat /\ request[r].pair <= issued'
    BY <1>1, <1>3 DEF Within, RequestShape
  <2>3. QED
    BY <1>3, <2>1, <2>2 DEF Within
<1>4. ASSUME NEW answer \in {"ok", "error"}, Execute(r, answer) PROVE Issued'
  <2>1. /\ Answered(r, answer, IF request[r].kind = "switch" THEN issued + 1 ELSE 0, 1)
        /\ UNCHANGED <<store, refresh, expiries, loads>>
        /\ \/ request[r].kind = "call" /\ UNCHANGED <<server, issued>>
           \/ request[r].kind = "logout" /\ server' = [pair |-> 0, fresh |-> FALSE] /\ issued' = issued
           \/ /\ request[r].kind = "switch"
              /\ server' = [pair |-> issued + 1, fresh |-> TRUE] /\ issued' = issued + 1
    BY <1>4 DEF Execute, Effect, client, bounds
  <2>2. /\ issued' \in {issued, issued + 1}
        /\ server'.pair = server.pair \/ server'.pair <= issued'
        /\ (IF request[r].kind = "switch" THEN issued + 1 ELSE 0) \in Nat
        /\ (IF request[r].kind = "switch" THEN issued + 1 ELSE 0) <= issued'
    BY <1>1, <2>1
  <2>3. \A q \in Requests : request'[q] = request[q] \/ Within(request'[q], issued')
    BY <1>3, <2>1, <2>2
  <2>4. QED
    BY <1>1, <2>1, <2>2, <2>3, IssuedStays
<1>5. ASSUME NEW answer, Answered(r, answer, 0, 0), UNCHANGED <<client, server, issued, bounds>>
      PROVE  Issued'
  <2>1. \A q \in Requests : request'[q] = request[q] \/ Within(request'[q], issued')
    BY <1>1, <1>3, <1>5
  <2>2. QED
    BY <1>1, <1>5, <2>1, IssuedStays DEF client, bounds
<1>6. QED
  BY <1>2, <1>4, <1>5 DEF Reject, Refuse

LEMMA OutcomeIssued ==
  ASSUME ClientInv, Shape', Issued, NEW r \in Requests,
         \/ Succeed(r) \/ Fail(r) \/ Unauthorized(r)
         \/ Enqueue(r) \/ StartRefresh(r) \/ NothingToRefresh(r)
  PROVE  Issued'
<1>1. /\ Shape /\ issued \in Nat /\ store <= issued /\ 0 <= issued /\ store \in Nat
      /\ Within(request[r], issued) /\ request \in [Requests -> RequestShape]
      /\ refresh \in [Tabs -> RefreshShape]
  BY DEF ClientInv, Shape, Issued
<1>2. CASE Succeed(r) \/ Fail(r) \/ Unauthorized(r)
  <2>1. PICK st : /\ request' = [request EXCEPT ![r] = Settled(r, st)]
                  /\ store' \in {0, request[r].got, store}
                  /\ UNCHANGED <<server, issued, refresh, expiries, loads>>
    <3>1. CASE Succeed(r)
      BY <3>1 DEF Succeed, bounds
    <3>2. CASE Fail(r)
      BY <3>2 DEF Fail, bounds
    <3>3. CASE Unauthorized(r)
      BY <3>3 DEF Unauthorized, bounds
    <3>4. QED
      BY <1>2, <3>1, <3>2, <3>3
  <2>2. store' <= issued'
    BY <1>1, <2>1 DEF Within
  <2>3. \A q \in Requests : request'[q] = request[q] \/ Within(request'[q], issued')
    BY <1>1, <2>1, NewWithin
  <2>4. QED
    BY <1>1, <2>1, <2>2, <2>3, IssuedStays
<1>3. CASE Enqueue(r) \/ StartRefresh(r)
  <2>1. /\ \A q \in Requests : /\ request'[q].pair = request[q].pair
                               /\ request'[q].got = request[q].got
        /\ UNCHANGED <<store, server, issued, expiries, loads>>
        /\ UNCHANGED refresh \/ RefreshCall(request[r].tab)
    <3>1. CASE Enqueue(r)
      <4>1. request' = [request EXCEPT ![r].st = "queued"]
        BY <3>1 DEF Enqueue
      <4>2. \A q \in Requests : /\ request'[q].pair = request[q].pair
                               /\ request'[q].got = request[q].got
        BY <1>1, <4>1 DEF RequestShape
      <4>3. QED
        BY <3>1, <4>2 DEF Enqueue, bounds
    <3>2. CASE StartRefresh(r)
      <4>1. request' = [request EXCEPT ![r].st = "waiting", ![r].retry = TRUE]
        BY <3>2 DEF StartRefresh
      <4>2. \A q \in Requests : /\ request'[q].pair = request[q].pair
                               /\ request'[q].got = request[q].got
        BY <1>1, <4>1 DEF RequestShape
      <4>3. QED
        BY <3>2, <4>2 DEF StartRefresh, bounds
    <3>3. QED
      BY <1>3, <3>1, <3>2
  <2>2. \A q \in Requests : request'[q] = request[q] \/ Within(request'[q], issued')
    BY <2>1 DEF Issued, Within
  <2>3. \A t \in Tabs : refresh'[t] = refresh[t] \/ Within(refresh'[t], issued')
    BY <1>1, <2>1, CalledWithin
  <2>4. QED
    BY <1>1, <2>1, <2>2, <2>3, IssuedStays
<1>4. CASE NothingToRefresh(r)
  <2>1. /\ \A q \in Requests : request'[q] = request[q] \/ request'[q] = Settled(q, "failed")
        /\ UNCHANGED <<store, server, issued, refresh, expiries, loads>>
    BY <1>4 DEF NothingToRefresh, bounds
  <2>2. \A q \in Requests : request'[q] = request[q] \/ Within(request'[q], issued')
    BY <1>1, <2>1, NewWithin
  <2>3. QED
    BY <1>1, <2>1, <2>2, IssuedStays
<1>5. QED
  BY <1>2, <1>3, <1>4

LEMMA RefreshIssued ==
  ASSUME ClientInv, Shape', Issued, NEW t \in Tabs,
         \/ \E lost \in BOOLEAN : Rotate(t, lost)
         \/ \E unauthorized \in BOOLEAN : RefuseRefresh(t, unauthorized)
         \/ RefreshSelfWait(t) \/ RefreshSucceeds(t) \/ RefreshFails(t)
         \/ \E served \in BOOLEAN : Unload(t, served)
  PROVE  Issued'
<1>1. /\ Shape /\ issued \in Nat /\ 0 <= issued /\ issued + 1 \in Nat
      /\ Within(refresh[t], issued) /\ refresh \in [Tabs -> RefreshShape]
      /\ request \in [Requests -> RequestShape] /\ refresh[t].got \in Nat /\ refresh[t].pair \in Nat
  BY DEF ClientInv, Shape, Issued, RefreshShape
<1>2. ASSUME NEW got \in Nat, NEW unauthorized, Refreshed(t, got, unauthorized), got <= issued',
             issued' \in {issued, issued + 1}
      PROVE  \A u \in Tabs : refresh'[u] = refresh[u] \/ Within(refresh'[u], issued')
  <2>1. /\ \A u \in Tabs : u # t => refresh'[u] = refresh[u]
        /\ refresh'[t].pair = refresh[t].pair /\ refresh'[t].got = got
    BY <1>1, <1>2 DEF Refreshed, RefreshShape
  <2>2. refresh[t].pair <= issued'
    BY <1>1, <1>2 DEF Within
  <2>3. QED
    BY <1>2, <2>1, <2>2 DEF Within
<1>3. ASSUME NEW lost \in BOOLEAN, Rotate(t, lost) PROVE Issued'
  <2>1. /\ server'.pair = issued + 1 /\ issued' = issued + 1
        /\ Refreshed(t, IF lost THEN 0 ELSE issued + 1, FALSE)
        /\ UNCHANGED <<store, request, expiries, loads>>
    BY <1>3 DEF Rotate, bounds
  <2>2. \A u \in Tabs : refresh'[u] = refresh[u] \/ Within(refresh'[u], issued')
    <3>1. PICK got \in {0, issued + 1} : Refreshed(t, got, FALSE)
      BY <2>1
    <3>2. got \in Nat /\ got <= issued' /\ issued' \in {issued, issued + 1}
      BY <1>1, <2>1
    <3>3. QED
      BY <1>2, <3>1, <3>2
  <2>3. QED
    BY <1>1, <2>1, <2>2, IssuedStays
<1>4. ASSUME NEW unauthorized \in BOOLEAN, RefuseRefresh(t, unauthorized) PROVE Issued'
  <2>1. Refreshed(t, 0, unauthorized) /\ UNCHANGED <<store, server, issued, request, expiries, loads>>
    BY <1>4 DEF RefuseRefresh, bounds
  <2>2. \A u \in Tabs : refresh'[u] = refresh[u] \/ Within(refresh'[u], issued')
    BY <1>1, <1>2, <2>1
  <2>3. QED
    BY <1>1, <2>1, <2>2, IssuedStays
<1>5. CASE RefreshSelfWait(t)
  <2>1. /\ \A u \in Tabs : /\ refresh'[u].pair = refresh[u].pair
                           /\ refresh'[u].got = refresh[u].got
        /\ UNCHANGED <<store, server, issued, request, expiries, loads>>
    BY <1>1, <1>5 DEF RefreshSelfWait, bounds, RefreshShape
  <2>2. \A u \in Tabs : refresh'[u] = refresh[u] \/ Within(refresh'[u], issued')
    BY <2>1 DEF Issued, Within
  <2>3. QED
    BY <1>1, <2>1, <2>2, IssuedStays
<1>6. CASE RefreshSucceeds(t)
  <2>1. /\ store' = refresh[t].got /\ refresh' = [refresh EXCEPT ![t] = NoRefresh]
        /\ \A q \in Requests : \/ request'[q] = request[q]
                               \/ request'[q] = [request[q] EXCEPT !.st = "sent", !.pair = refresh[t].got]
        /\ UNCHANGED <<server, issued, expiries, loads>>
    BY <1>6 DEF RefreshSucceeds, bounds
  <2>2. store' <= issued'
    BY <1>1, <2>1 DEF Within
  <2>3. ASSUME NEW q \in Requests PROVE request'[q] = request[q] \/ Within(request'[q], issued')
    <3>1. \/ request'[q] = request[q]
          \/ request'[q].pair = refresh[t].got /\ request'[q].got = request[q].got
      BY <1>1, <2>1 DEF RequestShape
    <3>2. refresh[t].got <= issued' /\ request[q].got <= issued'
      BY <1>1, <2>1 DEF Issued, Within
    <3>3. QED
      BY <3>1, <3>2 DEF Within
  <2>4. \A u \in Tabs : refresh'[u] = refresh[u] \/ Within(refresh'[u], issued')
    BY <1>1, <2>1, NothingWithin
  <2>5. QED
    BY <1>1, <2>1, <2>2, <2>3, <2>4, IssuedStays
<1>7. CASE RefreshFails(t)
  <2>1. /\ store' \in {0, store} /\ refresh' = [refresh EXCEPT ![t] = NoRefresh]
        /\ \A q \in Requests : request'[q] = request[q] \/ request'[q] = Settled(q, "failed")
        /\ UNCHANGED <<server, issued, expiries, loads>>
    BY <1>7 DEF RefreshFails, bounds
  <2>2. store' = store \/ store' <= issued'
    BY <1>1, <2>1
  <2>3. \A q \in Requests : request'[q] = request[q] \/ Within(request'[q], issued')
    BY <1>1, <2>1, NewWithin
  <2>4. \A u \in Tabs : refresh'[u] = refresh[u] \/ Within(refresh'[u], issued')
    BY <1>1, <2>1, NothingWithin
  <2>5. QED
    BY <1>1, <2>1, <2>2, <2>3, <2>4, IssuedStays
<1>8. ASSUME NEW served \in BOOLEAN, Unload(t, served) PROVE Issued'
  <2>1. /\ UNCHANGED <<store, expiries, loads>> /\ refresh' = [refresh EXCEPT ![t] = NoRefresh]
        /\ \A q \in Requests : request'[q] = request[q] \/ request'[q] = Settled(q, "gone")
        /\ \/ server' = [pair |-> issued + 1, fresh |-> TRUE] /\ issued' = issued + 1
           \/ UNCHANGED <<server, issued>>
    BY <1>8 DEF Unload, bounds
  <2>2. issued' \in {issued, issued + 1} /\ (server'.pair = server.pair \/ server'.pair <= issued')
    BY <1>1, <2>1
  <2>3. issued' \in Nat
    BY <1>1, <2>1
  <2>4. \A q \in Requests : request'[q] = request[q] \/ Within(request'[q], issued')
    BY <1>1, <2>1, <2>3, NewWithin
  <2>5. \A u \in Tabs : refresh'[u] = refresh[u] \/ Within(refresh'[u], issued')
    BY <1>1, <2>1, <2>3, NothingWithin
  <2>6. QED
    BY <1>1, <2>1, <2>2, <2>4, <2>5, IssuedStays
<1>9. QED
  BY <1>3, <1>4, <1>5, <1>6, <1>7, <1>8

LEMMA OtherIssued ==
  ASSUME ClientInv, Shape', Issued,
         \/ UNCHANGED vars
         \/ AccessExpires \/ SessionExpires
         \/ \E t \in Tabs : \/ \E s \in Streams : OpenStream(t, s)
                            \/ Reload(t) \/ SignIn(t)
         \/ \E s \in Streams : CloseStream(s) \/ StreamBreaks(s)
  PROVE  Issued'
<1>1. /\ Shape /\ issued \in Nat /\ 0 <= issued /\ issued + 1 \in Nat /\ store \in Nat
      /\ server \in [pair : Nat, fresh : BOOLEAN] /\ refresh \in [Tabs -> RefreshShape]
  BY DEF ClientInv, Shape, Issued
<1>2. CASE UNCHANGED vars
  BY <1>1, <1>2, IssuedStays DEF vars, client, bounds
<1>3. CASE AccessExpires \/ SessionExpires
  <2>1. /\ server'.pair \in {0, server.pair} /\ UNCHANGED <<store, issued, refresh, request, loads>>
        /\ expiries < MaxExpiries /\ expiries' = expiries + 1
    BY <1>1, <1>3 DEF AccessExpires, SessionExpires, client
  <2>2. server'.pair = server.pair \/ server'.pair <= issued'
    BY <1>1, <2>1
  <2>3. QED
    BY <1>1, <2>1, <2>2, IssuedStays
<1>4. ASSUME NEW t \in Tabs, NEW s \in Streams, OpenStream(t, s) PROVE Issued'
  BY <1>1, <1>4, IssuedStays DEF OpenStream, bounds
<1>5. ASSUME NEW t \in Tabs, Reload(t) PROVE Issued'
  BY <1>1, <1>5, IssuedStays DEF Reload
<1>6. ASSUME NEW t \in Tabs, SignIn(t) PROVE Issued'
  <2>1. /\ server'.pair = issued + 1 /\ issued' = issued + 1 /\ store' = issued + 1
        /\ UNCHANGED <<refresh, request, expiries>> /\ loads < MaxLoads /\ loads' = loads + 1
    BY <1>6 DEF SignIn
  <2>2. QED
    BY <1>1, <2>1, IssuedStays
<1>7. ASSUME NEW s \in Streams, CloseStream(s) PROVE Issued'
  BY <1>1, <1>7, IssuedStays DEF CloseStream, bounds
<1>8. ASSUME NEW s \in Streams, StreamBreaks(s) PROVE Issued'
  <2>1. /\ UNCHANGED <<store, server, issued, request, expiries>>
        /\ loads < MaxLoads /\ loads' = loads + 1
        /\ UNCHANGED refresh \/ RefreshCall(stream[s].tab)
    BY <1>8 DEF StreamBreaks
  <2>2. \A t \in Tabs : refresh'[t] = refresh[t] \/ Within(refresh'[t], issued')
    BY <1>1, <2>1, CalledWithin
  <2>3. QED
    BY <1>1, <2>1, <2>2, IssuedStays
<1>9. QED
  BY <1>2, <1>3, <1>4, <1>5, <1>6, <1>7, <1>8

LEMMA IssuedStep == ASSUME ClientInv, Issued, [Next]_vars PROVE Issued'
<1>1. Shape'
  BY ClientStep DEF ClientInv
<1>2. CASE \E t \in Tabs, r \in Requests, kind \in Kinds : Send(t, r, kind)
  BY <1>1, <1>2, RequestIssued
<1>3. ASSUME NEW r \in Requests,
             \/ \E answer \in {"ok", "error"} : Execute(r, answer)
             \/ Reject(r)
             \/ \E answer \in {"expired", "unauthorized"} : Refuse(r, answer)
             \/ Succeed(r) \/ Fail(r) \/ Unauthorized(r)
             \/ Enqueue(r) \/ StartRefresh(r) \/ NothingToRefresh(r)
      PROVE  Issued'
  BY <1>1, <1>3, RequestIssued, OutcomeIssued
<1>4. ASSUME NEW t \in Tabs,
             \/ \E lost \in BOOLEAN : Rotate(t, lost)
             \/ \E unauthorized \in BOOLEAN : RefuseRefresh(t, unauthorized)
             \/ RefreshSelfWait(t) \/ RefreshSucceeds(t) \/ RefreshFails(t)
             \/ \E s \in Streams : OpenStream(t, s)
             \/ Reload(t) \/ SignIn(t)
             \/ \E served \in BOOLEAN : Unload(t, served)
      PROVE  Issued'
  BY <1>1, <1>4, RefreshIssued, OtherIssued
<1>5. CASE UNCHANGED vars \/ AccessExpires \/ SessionExpires
           \/ \E s \in Streams : CloseStream(s) \/ StreamBreaks(s)
  BY <1>1, <1>5, OtherIssued
<1>6. QED
  BY <1>2, <1>3, <1>4, <1>5 DEF Next

\* The inductive invariant of the client holds throughout.
THEOREM ClientInvariant == Spec => []ClientInv
<1>1. Init => ClientInv
  BY ClientInit
<1>2. ClientInv /\ [Next]_vars => ClientInv'
  BY ClientStep
<1>3. QED
  BY <1>1, <1>2, PTL DEF Spec

\* In every tab whoever waits for a refresh has one that is still to settle.
THEOREM NobodyWaitsInVain == Spec => []WaitersHaveRefresh
BY ClientInvariant, WaitersFollow, PTL

\* No request is executed twice, however often its page replays it.
THEOREM ReplaysExecuteOnce == Spec => []ExecutedOnce
BY ClientInvariant, ExecutionFollows, PTL

\* A tab has at most one open stream, and none that was closed.
THEOREM StreamsStayClosed == Spec => []OneLiveStream
BY ClientInvariant, OneStreamFollows, PTL

\* The stored pair, the server's, and those of the calls and requests were all issued, and
\* every variable keeps its type.
THEOREM ClientTypeCorrect == Spec => []TypeOK
<1>1. Init => Issued
  <2>1. SUFFICES ASSUME Init PROVE Issued
    OBVIOUS
  <2>2. /\ store = 1 /\ issued = 1 /\ server.pair = 1 /\ expiries = 0 /\ loads = 0
        /\ \A t \in Tabs : refresh[t] = NoRefresh
        /\ \A r \in Requests : request[r].pair = 0 /\ request[r].got = 0
    BY <2>1 DEF Init, NewRequest
  <2>3. QED
    BY <2>2, NothingWithin, BoundAssumption DEF Issued, Within
<1>2. ClientInv /\ Issued /\ [Next]_vars => Issued'
  BY IssuedStep
<1>3. ClientInv /\ Issued => TypeOK
  <2>1. SUFFICES ASSUME ClientInv, Issued PROVE TypeOK
    OBVIOUS
  <2>2. Shape
    BY <2>1 DEF ClientInv
  <2>3. issued \in Nat /\ \A n \in Nat : n <= issued => n \in Pairs
    BY <2>2 DEF Shape, Pairs
  <2>4. store \in Pairs /\ server \in [pair : Pairs, fresh : BOOLEAN]
    BY <2>1, <2>2, <2>3 DEF Shape, Issued
  <2>5. refresh \in [Tabs -> RefreshType]
    <3>1. \A t \in Tabs : refresh[t].pair \in Pairs /\ refresh[t].got \in Pairs
      BY <2>1, <2>2, <2>3 DEF Shape, Issued, Within, RefreshShape
    <3>2. QED
      BY <2>2, <3>1 DEF Shape, RefreshShape, RefreshType
  <2>6. request \in [Requests -> RequestType]
    <3>1. \A r \in Requests : request[r].pair \in Pairs /\ request[r].got \in Pairs
      BY <2>1, <2>2, <2>3 DEF Shape, Issued, Within, RequestShape
    <3>2. QED
      BY <2>2, <3>1 DEF Shape, RequestShape, RequestType
  <2>7. QED
    BY <2>1, <2>2, <2>4, <2>5, <2>6 DEF Shape, Issued, TypeOK
<1>4. QED
  BY <1>1, <1>2, <1>3, ClientInvariant, PTL DEF Spec
=============================================================================
