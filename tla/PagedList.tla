------------------------------ MODULE PagedList ------------------------------
(***************************************************************************)
(* The paged lists of the console: users, OAuth clients, tenant            *)
(* applications, the three logs and the notification inbox.  Filters, the  *)
(* debounced filters the server is asked with, the page, the rows on       *)
(* screen, which may still be those of the last question, and row actions  *)
(* whose success asks again.                                               *)
(***************************************************************************)
EXTENDS Integers, FiniteSets

CONSTANTS
  Rows,        \* rows of the list, a set of integers: the newest first
  Calls,       \* row actions under way at the same time
  PageSize,    \* rows on a page
  None,        \* nothing
  MaxInputs,   \* bound on filters, pages and actions
  MaxErrors    \* bound on failed calls

ConstantsOK ==
  /\ Rows \subseteq Int /\ IsFiniteSet(Rows) /\ Rows # {} /\ None \notin Rows
  /\ PageSize \in Nat \ {0} /\ MaxInputs \in Nat /\ MaxErrors \in Nat

VARIABLES
  view,      \* which page this is, and what it does differently
  lists,     \* the server: the rows under each filter
  filter,    \* the filter of the controls
  wanted,    \* the debounced filter, part of the query key
  page,      \* the page of the controls, part of the query key
  screen,    \* the rows and the total on screen, and the key they answer
  question,  \* the fetch of the current key
  action,    \* row actions: their closure over the page they started on
  blind,     \* history: the page was set without its own total on screen
  shrunk,    \* history: rows left without a step back or unread, or an answer was lost
  spent      \* spent bounds

listVars == <<view, lists, filter, wanted, page, screen, question, action, blind, shrunk, spent>>

Filters == {"all", "some"}

\* Pages with a data grid: filters wait for 300 ms, the pager is replaced by a
\* skeleton while rows are fetched, and row actions never change the page.
UsersPage == [debounced |-> TRUE, pagerWaits |-> TRUE, stepsBack |-> FALSE, acts |-> {Filters}]
OAuthClientsPage == UsersPage
TenantApplyPage == [UsersPage EXCEPT !.acts = {{"some"}}]
OperationLogsPage == [UsersPage EXCEPT !.acts = {}]
AuditLogsPage == OperationLogsPage
SystemLogsPage == OperationLogsPage

\* The inbox asks at once, its pager never waits, and a mark or an archive
\* that empties the page steps back.  "some" are the unread notifications.
InboxPage == [debounced |-> FALSE, pagerWaits |-> FALSE, stepsBack |-> TRUE,
              acts |-> {{"some"}, Filters}]

Views == {UsersPage, OAuthClientsPage, TenantApplyPage, OperationLogsPage, AuditLogsPage,
          SystemLogsPage, InboxPage}

PageCount(total) == IF total = 0 THEN 1 ELSE (total + PageSize - 1) \div PageSize

\* How many rows under a filter come before r, the newest first.
Before(f, r) == Cardinality({q \in lists[f] : q > r})

\* The server's answer: one page of the rows under a filter, and their number.
Answered(f, p) ==
  [ids |-> {r \in lists[f] : Before(f, r) >= p * PageSize /\ Before(f, r) < (p + 1) * PageSize},
   total |-> Cardinality(lists[f])]

Blank == [filter |-> None, page |-> 0, ids |-> {}, total |-> 0]
NoQuestion == [st |-> "idle", answer |-> Blank]
Asked == [NoQuestion EXCEPT !.st = "sent"]
NoAction == [st |-> "none", row |-> None, leaves |-> {}, filter |-> None, page |-> 0,
             single |-> FALSE, seen |-> FALSE]

\* The page of a grid comes from the URL.
Init ==
  /\ view \in Views
  /\ lists \in {l \in [Filters -> SUBSET Rows] : l["some"] \subseteq l["all"]}
  /\ filter = "all" /\ wanted = "all"
  /\ page \in IF view = InboxPage THEN {0} ELSE {0, 1}
  /\ screen = Blank
  /\ question = Asked
  /\ action = [c \in Calls |-> NoAction]
  /\ blind = (page > 0)
  /\ shrunk = FALSE
  /\ spent = [inputs |-> 0, errors |-> 0]

Spend(b, max) == spent[b] < max /\ spent' = [spent EXCEPT ![b] = @ + 1]
Busy == {c \in Calls : action[c].st # "none"}
Pending == {c \in Busy : action[c].st # "settling"}

\* Another key asks at once and keeps the old rows on screen (keepPreviousData).
Ask == question' = Asked
AskIfChanged == IF wanted' # wanted \/ page' # page THEN Ask ELSE UNCHANGED question

\* The first page is never empty while there are rows.
Turn(p, unseen) ==
  /\ page' = p
  /\ blind' = (p > 0 /\ (blind \/ unseen))

---------------------------------------------------------------------------
(* The controls *)

\* handleFiltersChange, setUnreadOnly: back to the first page at once.
SetFilter(f) ==
  /\ Spend("inputs", MaxInputs)
  /\ f # filter
  /\ filter' = f
  /\ wanted' = IF view.debounced THEN wanted ELSE f
  /\ Turn(0, FALSE)
  /\ AskIfChanged
  /\ UNCHANGED <<view, lists, screen, action, shrunk>>

\* Mutant of Debounce: the new filter is not asked.
DebounceSilently ==
  /\ wanted # filter
  /\ wanted' = filter
  /\ UNCHANGED <<view, lists, filter, page, screen, question, action, blind, shrunk, spent>>

\* The filters have not changed for 300 ms.
Debounce ==
  /\ wanted # filter
  /\ wanted' = filter
  /\ Ask
  /\ UNCHANGED <<view, lists, filter, page, screen, action, blind, shrunk, spent>>

\* A grid shows its page buttons for the total on screen; the inbox steps.
PagerTargets ==
  LET count == PageCount(screen.total) IN
  IF view.pagerWaits
  THEN {p \in 0 .. count - 1 : question.st = "idle" /\ screen.total > 0 /\ count > 1}
  ELSE {p \in {page - 1, page + 1} : p >= 0 /\ (p < page \/ p < count)}

\* The rows on screen are those of the controls, and nothing is under way.
Seen == question.st = "idle" /\ screen.filter = filter /\ Busy = {}

SetPage(p) ==
  /\ Spend("inputs", MaxInputs)
  /\ p # page
  /\ p \in PagerTargets
  /\ Turn(p, ~Seen)
  /\ Ask
  /\ UNCHANGED <<view, lists, filter, wanted, screen, action, shrunk>>

---------------------------------------------------------------------------
(* The query *)

\* Rows on the page, with nothing pending, clear what could have left it empty.
ServeQuestion ==
  LET served == Answered(wanted, page) IN
  /\ question.st = "sent"
  /\ question' = [st |-> "served",
       answer |-> [filter |-> wanted, page |-> page, ids |-> served.ids, total |-> served.total]]
  /\ LET cleared == served.ids # {} /\ wanted = filter /\ Pending = {} IN
     blind' = (blind /\ ~cleared) /\ shrunk' = (shrunk /\ ~cleared)
  /\ UNCHANGED <<view, lists, filter, wanted, page, screen, action, spent>>

ReceiveAnswer ==
  /\ question.st = "served"
  /\ screen' = question.answer
  /\ question' = NoQuestion
  /\ UNCHANGED <<view, lists, filter, wanted, page, action, blind, shrunk, spent>>

\* Rows of this key stay; rows kept from another key go.
FailQuestion ==
  /\ Spend("errors", MaxErrors)
  /\ question.st # "idle"
  /\ question' = NoQuestion
  /\ screen' = IF screen.filter = wanted /\ screen.page = page THEN screen
               ELSE [Blank EXCEPT !.filter = wanted, !.page = page]
  /\ shrunk' = TRUE
  /\ UNCHANGED <<view, lists, filter, wanted, page, action, blind>>

Refresh ==
  /\ question.st = "idle"
  /\ Ask
  /\ UNCHANGED <<view, lists, filter, wanted, page, screen, action, blind, shrunk, spent>>

---------------------------------------------------------------------------
(* Row actions: delete, approve, reject, mark read, archive *)

Act(c, r, leaves) ==
  /\ Spend("inputs", MaxInputs)
  /\ action[c].st = "none"
  /\ r \in screen.ids
  /\ leaves \in view.acts
  /\ action' = [action EXCEPT ![c] =
       [st |-> "sent", row |-> r, leaves |-> leaves, filter |-> filter, page |-> page,
        single |-> Cardinality(screen.ids) = 1, seen |-> Seen]]
  /\ UNCHANGED <<view, lists, filter, wanted, page, screen, question, blind, shrunk>>

Without(r, leaves) == [f \in Filters |-> IF f \in leaves THEN lists[f] \ {r} ELSE lists[f]]

\* A page that steps back makes up for its own removals, one at a time, of rows
\* that were those of its page.
ServeAction(c) ==
  /\ action[c].st = "sent"
  /\ action' = [action EXCEPT ![c].st = "served"]
  /\ lists' = Without(action[c].row, action[c].leaves)
  /\ shrunk' = (shrunk \/ ~view.stepsBack \/ Busy # {c} \/ ~action[c].seen)
  /\ UNCHANGED <<view, filter, wanted, page, screen, question, blind, spent>>

\* The key under way has no rows of its own yet: its first load.
FirstLoad == question.st # "idle" /\ (screen.filter # wanted \/ screen.page # page)

\* onSuccess asks the current key again, or joins its first load, which may have
\* been read before the row left, and waits.
AnswerAction(c) ==
  /\ action[c].st = "served"
  /\ action' = [action EXCEPT ![c].st = "settling"]
  /\ IF FirstLoad THEN UNCHANGED question ELSE Ask
  /\ shrunk' = (shrunk \/ (FirstLoad /\ question.st = "served"))
  /\ UNCHANGED <<view, lists, filter, wanted, page, screen, blind, spent>>

\* Mutant of StepsBack: the inbox only looks at the row count.
StepsBackFirst(a) == view.stepsBack /\ a.single

\* onMarkRead and onArchive decide with the page they started on.
StepsBack(a) == view.stepsBack /\ a.filter \in a.leaves /\ a.single /\ a.page > 0

SettleAction(c) ==
  /\ action[c].st = "settling"
  /\ question.st = "idle"
  /\ action' = [action EXCEPT ![c] = NoAction]
  /\ IF StepsBack(action[c])
     THEN Turn(action[c].page - 1, filter # action[c].filter \/ page # action[c].page)
     ELSE UNCHANGED <<page, blind>>
  /\ UNCHANGED wanted
  /\ AskIfChanged
  /\ UNCHANGED <<view, lists, filter, screen, shrunk, spent>>

FailAction(c) ==
  /\ Spend("errors", MaxErrors)
  /\ action[c].st \in {"sent", "served"}
  /\ action' = [action EXCEPT ![c] = NoAction]
  /\ shrunk' = (shrunk \/ action[c].st = "served")
  /\ UNCHANGED <<view, lists, filter, wanted, page, screen, question, blind>>

\* Somebody else, or the bell of the same browser.
OtherRemoves(r, leaves) ==
  /\ Spend("inputs", MaxInputs)
  /\ r \in lists["all"]
  /\ lists' = Without(r, leaves)
  /\ shrunk' = TRUE
  /\ UNCHANGED <<view, filter, wanted, page, screen, question, action, blind>>

---------------------------------------------------------------------------
Next ==
  \/ \E f \in Filters : SetFilter(f)
  \/ \E p \in 0 .. Cardinality(Rows) : SetPage(p)
  \/ Debounce \/ ServeQuestion \/ ReceiveAnswer \/ FailQuestion \/ Refresh
  \/ \E c \in Calls, r \in Rows, leaves \in SUBSET Filters : Act(c, r, leaves)
  \/ \E c \in Calls : ServeAction(c) \/ AnswerAction(c) \/ SettleAction(c) \/ FailAction(c)
  \/ \E r \in Rows, leaves \in {{"some"}, Filters} : OtherRemoves(r, leaves)

Spec == Init /\ [][Next]_listVars

---------------------------------------------------------------------------
PageIndexes == 0 .. Cardinality(Rows)
Answers == [filter : Filters \cup {None}, page : PageIndexes, ids : SUBSET Rows,
            total : PageIndexes]

(* Types of the controls, the rows on screen and the row actions.           *)
TypeOK ==
  /\ view \in Views
  /\ lists \in [Filters -> SUBSET Rows]
  /\ filter \in Filters /\ wanted \in Filters
  /\ page \in PageIndexes
  /\ screen \in Answers
  /\ question \in [st : {"idle", "sent", "served"}, answer : Answers]
  /\ action \in [Calls -> [st : {"none", "sent", "served", "settling"},
                            row : Rows \cup {None}, leaves : SUBSET Filters,
                            filter : Filters \cup {None}, page : PageIndexes,
                            single : BOOLEAN, seen : BOOLEAN]]
  /\ blind \in BOOLEAN /\ shrunk \in BOOLEAN

Settled == question.st = "idle" /\ filter = wanted /\ Busy = {}

(* Once everything is answered, the rows on screen answer the filter and    *)
(* the page of the controls: a late answer to an earlier question never     *)
(* stays.                                                                   *)
ScreenAnswersControls ==
  Settled => screen.filter = filter /\ screen.page = page

(* A settled list shows an empty page although it has rows only if the page *)
(* was set without its own total on screen (from the URL, during the        *)
(* debounce, on the inbox during a fetch or an action, or by a step back    *)
(* from a page or a list that was left), an answer failed, rows left under  *)
(* it that no step back made up for, or an action joined a first load that  *)
(* was read before its row left: a filter change always starts on the first *)
(* page, and one action on the inbox, on a row of its page, never leaves    *)
(* its user on an empty page.                                               *)
EmptyPageNeedsCause ==
  Settled /\ screen.ids = {} /\ screen.total > 0 => blind \/ shrunk

(* The settled rows are those of the filter and page on screen, and an      *)
(* empty page of a list that has rows needs one of the causes above.        *)
ListAnswersControls ==
  /\ ScreenAnswersControls
  /\ EmptyPageNeedsCause
=============================================================================
