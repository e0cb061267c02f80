-------------------------------- MODULE Inbox --------------------------------
(***************************************************************************)
(* The inbox of one user as a browser shows it: the unread badge, the list *)
(* of the bell and the lists of the inbox page are three kinds of cached   *)
(* queries; changes reach them through the answers to the user's own calls *)
(* and through signals on an event stream that may be down or drop them.   *)
(* What a query shows is named by the version of the inbox it was read at. *)
(***************************************************************************)
EXTENDS Integers

CONSTANTS
  Count,        \* the query of the unread count, shown by header and page
  Header,       \* queries of the header: the count and the list of the bell
  Keys,         \* lists the inbox page can show (archived, unread only, page)
  FirstKey,     \* the list it shows when it is mounted
  Calls,        \* mark read, mark all read and archive calls of this user
  None,         \* nothing
  MaxTurns      \* bound on changes of the inbox, failed calls, lost signals and
                \* dropped streams together

ConstantsOK ==
  /\ FirstKey \in Keys /\ Count \in Header /\ Keys \cap Header = {}
  /\ None \notin Int /\ None \notin Keys
  /\ MaxTurns \in Nat

VARIABLES
  version,   \* the inbox in the database: number of committed changes
  emits,     \* committed changes whose signal is not yet broadcast
  stream,    \* the event stream is connected
  signals,   \* signals on their way to the browser
  shown,     \* cached data of every query
  answer,    \* the fetch of every query
  listed,    \* the list of the mounted inbox page, or None
  mark,      \* the user's own calls
  behind,    \* history: a query that nothing will refetch may be out of date
  troubles   \* failed calls, lost signals and dropped streams so far

inboxVars == <<version, emits, stream, signals, shown, answer, listed, mark, behind, troubles>>

Queries == Header \cup Keys
NoAnswer == [st |-> "idle", version |-> None]
Sent == [NoAnswer EXCEPT !.st = "sent"]

\* The header mounts the badge and the bell; the page mounts one list.
Active(q) == q \in Header \/ q = listed
HasData(q) == shown[q] # None

\* Mounting starts the first fetches and the stream.
Init ==
  /\ version = 0 /\ emits = 0
  /\ stream = FALSE /\ signals = 0
  /\ shown = [q \in Queries |-> None]
  /\ answer = [q \in Queries |-> IF q \in Keys THEN NoAnswer ELSE Sent]
  /\ listed = None
  /\ mark = [c \in Calls |-> "idle"]
  /\ behind = [q \in Queries |-> FALSE]
  /\ troubles = 0

Room == version + troubles < MaxTurns
Trouble == Room /\ troubles' = troubles + 1

\* A change that brings no fetch leaves this query behind: what it has was read
\* before, and so was the answer on its way.
Missed(q) == answer[q].st = "served" \/ (answer[q].st = "idle" /\ HasData(q))
Lost == behind' = [q \in Queries |-> behind[q] \/ Missed(q)]

---------------------------------------------------------------------------
(* Queries *)

Joined(q) == IF answer[q].st = "idle" THEN [answer EXCEPT ![q] = Sent] ELSE answer

\* Mutant of Invalidated: only the header is refreshed.
InvalidatedCount(q) == q \in Header

Invalidated(q) == Active(q)

StartsOver(q) == HasData(q) \/ answer[q].st = "idle"

\* invalidateQueries of both keys.  A mounted query with data starts over; one
\* still without data joins its first fetch, even one that was already read;
\* an unmounted query is only marked, and mounting does not refetch it.
Invalidate ==
  /\ answer' = [q \in Queries |->
       IF Invalidated(q) /\ StartsOver(q) THEN Sent ELSE answer[q]]
  /\ behind' = [q \in Queries |->
       ~(Active(q) /\ StartsOver(q)) /\ (behind[q] \/ Missed(q))]

ServeFetch(q) ==
  /\ answer[q].st = "sent"
  /\ answer' = [answer EXCEPT ![q] = [st |-> "served", version |-> version]]
  /\ behind' = [behind EXCEPT ![q] = FALSE]
  /\ UNCHANGED <<version, emits, stream, signals, shown, listed, mark, troubles>>

ReceiveFetch(q) ==
  /\ answer[q].st = "served"
  /\ shown' = [shown EXCEPT ![q] = answer[q].version]
  /\ answer' = [answer EXCEPT ![q] = NoAnswer]
  /\ UNCHANGED <<version, emits, stream, signals, listed, mark, behind, troubles>>

FailFetch(q) ==
  /\ Trouble
  /\ answer[q].st # "idle"
  /\ answer' = [answer EXCEPT ![q] = NoAnswer]
  /\ behind' = [behind EXCEPT ![q] = TRUE]
  /\ UNCHANGED <<version, emits, stream, signals, shown, listed, mark>>

\* onRefresh of the header or of the page, whose button waits for its queries.
Refresh(scope) ==
  /\ scope \subseteq {q \in Queries : Active(q) /\ answer[q].st = "idle"}
  /\ answer' = [q \in Queries |-> IF q \in scope THEN Sent ELSE answer[q]]
  /\ UNCHANGED <<version, emits, stream, signals, shown, listed, mark, behind, troubles>>

---------------------------------------------------------------------------
(* The inbox page *)

\* Mounting fetches only what has never been loaded (refetchOnMount: false).
Visit ==
  /\ listed = None
  /\ listed' = FirstKey
  /\ answer' = IF HasData(FirstKey) THEN answer ELSE Joined(FirstKey)
  /\ UNCHANGED <<version, emits, stream, signals, shown, mark, behind, troubles>>

Leave ==
  /\ listed # None
  /\ listed' = None
  /\ UNCHANGED <<version, emits, stream, signals, shown, answer, mark, behind, troubles>>

\* setArchived, setUnreadOnly, setPage: another key of a mounted query.
ChangeKey(k) ==
  /\ listed \notin {None, k}
  /\ listed' = k
  /\ answer' = Joined(k)
  /\ UNCHANGED <<version, emits, stream, signals, shown, mark, behind, troubles>>

---------------------------------------------------------------------------
(* Changes and their signals *)

\* A dispatch, or another browser of the user: the signal follows the commit.
Change ==
  /\ Room
  /\ version' = version + 1
  /\ emits' = emits + 1
  /\ UNCHANGED <<stream, signals, shown, answer, listed, mark, behind, troubles>>

\* Without a connected stream nobody receives the signal.
Broadcast ==
  IF stream THEN signals' = signals + 1 /\ UNCHANGED behind
            ELSE Lost /\ UNCHANGED signals

Emit ==
  /\ emits > 0
  /\ emits' = emits - 1
  /\ Broadcast
  /\ UNCHANGED <<version, stream, shown, answer, listed, mark, troubles>>

\* The unread count cannot be read, so nothing is broadcast; or signals of
\* other users push this one out of the channel.
LoseSignal ==
  /\ Trouble
  /\ \/ emits > 0 /\ emits' = emits - 1 /\ UNCHANGED signals
     \/ signals > 0 /\ signals' = signals - 1 /\ UNCHANGED emits
  /\ Lost
  /\ UNCHANGED <<version, stream, shown, answer, listed, mark>>

ReceiveSignal ==
  /\ signals > 0
  /\ signals' = signals - 1
  /\ Invalidate
  /\ UNCHANGED <<version, emits, stream, shown, listed, mark, troubles>>

\* A connection starts at the next signal: what it missed is not caught up.
Connect ==
  /\ ~stream
  /\ stream' = TRUE
  /\ UNCHANGED <<version, emits, signals, shown, answer, listed, mark, behind, troubles>>

Disconnect ==
  /\ Trouble
  /\ stream
  /\ stream' = FALSE
  /\ signals' = 0
  /\ IF signals > 0 THEN Lost ELSE UNCHANGED behind
  /\ UNCHANGED <<version, emits, shown, answer, listed, mark>>

---------------------------------------------------------------------------
(* mark_read, mark_all_read, archive *)

Mark(c) ==
  /\ mark[c] = "idle"
  /\ Room
  /\ mark' = [mark EXCEPT ![c] = "sent"]
  /\ UNCHANGED <<version, emits, stream, signals, shown, answer, listed, behind, troubles>>

ServeMark(c) ==
  /\ mark[c] = "sent"
  /\ Room
  /\ mark' = [mark EXCEPT ![c] = "committed"]
  /\ version' = version + 1
  /\ UNCHANGED <<emits, stream, signals, shown, answer, listed, behind, troubles>>

EmitMark(c) ==
  /\ mark[c] = "committed"
  /\ mark' = [mark EXCEPT ![c] = "emitted"]
  /\ Broadcast
  /\ UNCHANGED <<version, emits, stream, shown, answer, listed, troubles>>

\* onSuccess refreshes both keys, also where the signal was lost.
AnswerMark(c) ==
  /\ mark[c] = "emitted"
  /\ mark' = [mark EXCEPT ![c] = "idle"]
  /\ Invalidate
  /\ UNCHANGED <<version, emits, stream, signals, shown, listed, troubles>>

\* The call fails before the commit, or its answer is lost after the signal.
FailMark(c) ==
  /\ Trouble
  /\ mark[c] \in {"sent", "emitted"}
  /\ mark' = [mark EXCEPT ![c] = "idle"]
  /\ UNCHANGED <<version, emits, stream, signals, shown, answer, listed, behind>>

---------------------------------------------------------------------------
Next ==
  \/ \E q \in Queries : ServeFetch(q) \/ ReceiveFetch(q) \/ FailFetch(q)
  \/ \E scope \in {Header, {Count, listed}} : Refresh(scope)
  \/ Visit \/ Leave \/ \E k \in Keys : ChangeKey(k)
  \/ Change \/ Emit \/ LoseSignal \/ ReceiveSignal \/ Connect \/ Disconnect
  \/ \E c \in Calls : Mark(c) \/ ServeMark(c) \/ EmitMark(c) \/ AnswerMark(c) \/ FailMark(c)

Spec == Init /\ [][Next]_inboxVars

---------------------------------------------------------------------------
Versions == 0 .. MaxTurns

(* Types of the queries, the stream and the calls.                          *)
TypeOK ==
  /\ version \in Versions /\ emits \in Nat /\ signals \in Nat
  /\ stream \in BOOLEAN
  /\ shown \in [Queries -> Versions \cup {None}]
  /\ answer \in [Queries -> [st : {"idle", "sent", "served"}, version : Versions \cup {None}]]
  /\ listed \in Keys \cup {None}
  /\ mark \in [Calls -> {"idle", "sent", "committed", "emitted"}]
  /\ behind \in [Queries -> BOOLEAN]
  /\ troubles \in 0 .. MaxTurns

Quiet == emits = 0 /\ signals = 0 /\ \A c \in Calls : mark[c] = "idle"

(* With no call, signal or fetch in flight, the badge, the bell and the     *)
(* mounted list show the inbox as it is: a change that reached them neither *)
(* through an answer nor through a signal was made while the stream was     *)
(* down, lost its signal, met a first load already read, or came while the  *)
(* list was not mounted; and every later fetch repairs it.                  *)
InboxCurrent ==
  Quiet => \A q \in Queries :
    Active(q) /\ HasData(q) /\ answer[q].st = "idle" /\ ~behind[q] => shown[q] = version
=============================================================================
