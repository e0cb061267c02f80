------------------------------ MODULE Membership ------------------------------
(***************************************************************************)
(* Members of a workspace: people ask to join from an invitation, the      *)
(* founder decides on the members page while another administrator does    *)
(* the same elsewhere, and the decisions are announced.  The page shows    *)
(* the first page of a list, one query for each search, and takes the      *)
(* founder's rights from it.                                               *)
(***************************************************************************)
EXTENDS Integers, FiniteSets

CONSTANTS
  People,      \* who may join, in the order in which they ask
  JoinPages,   \* open pages of the invitation
  VisitorOf,   \* the person on each
  Founder,     \* the administrator on the members page, the first to have joined
  Keywords,    \* searches, as the sets of people and founder they match
  PageSize,    \* rows of a page
  None,        \* no search, nobody
  MaxInputs    \* bound on inputs, decisions elsewhere and failed calls

ConstantsOK ==
  /\ People \subseteq Int /\ IsFiniteSet(People)
  /\ Founder \notin People /\ None \notin People /\ Founder # None
  /\ VisitorOf \in [JoinPages -> People]
  /\ Keywords \subseteq SUBSET (People \cup {Founder})
  /\ PageSize \in Nat \ {0} /\ MaxInputs \in Nat

VARIABLES
  row,        \* the membership of each person
  joins,      \* what each invitation page is doing and tells
  announced,  \* decisions announced for each membership
  rows,       \* the last rows the page had, for this search or one before
  search,     \* the search of the page
  listing,    \* for each search, the rows it has and its fetch under way
  ruling,     \* the decision of this page under way
  turned,     \* history: people whose request was rejected
  crowded,    \* history: people who asked from two pages at once
  contested,  \* history: people decided on elsewhere during a decision here
  elsewhere,  \* history: people decided on elsewhere
  overtaken,  \* history: searches whose last reading is older than a decision here
  patchy,     \* history: a list was not answered
  moves       \* spent bound

memberVars ==
  <<row, joins, announced, rows, search, listing, ruling, turned, crowded, contested, elsewhere,
    overtaken, patchy, moves>>

\* A rejected row stays in the table, hidden from every query.
Statuses == {"disabled", "active", "pending"}
Live(p) == row[p] \in Statuses

Searches == Keywords \cup {None}
Unread == [known |-> FALSE, has |-> {}, st |-> "idle", rows |-> {}]
Answered(those) == [Unread EXCEPT !.known = TRUE, !.has = those]
NoRuling == [st |-> "none", who |-> None, says |-> "none", before |-> "none", saw |-> "none",
             blind |-> FALSE]

---------------------------------------------------------------------------
(* page_members_by_tenant: requests first, then in the order of joining.    *)

Matches(x, q) == q = None \/ x \in q

\* The people listed before x.
Ahead(x, q) ==
  {p \in People : Live(p) /\ Matches(p, q)
                  /\ IF x = Founder \/ row[x] # "pending"
                     THEN row[p] = "pending" \/ (x # Founder /\ p < x)
                     ELSE row[p] = "pending" /\ p < x}

\* The founder's row counts among the others'.
Rank(x, q) ==
  Cardinality(Ahead(x, q))
  + (IF x # Founder /\ row[x] # "pending" /\ Matches(Founder, q) THEN 1 ELSE 0)

Listed(x, q) == Matches(x, q) /\ Rank(x, q) < PageSize

Page(q) ==
  {<<p, row[p]>> : p \in {m \in People : Live(m) /\ Listed(m, q)}}
  \cup (IF Listed(Founder, q) THEN {<<Founder, "active">>} ELSE {})

HasData(q) == listing[q].known
Reading(q) == listing[q].st # "idle"

\* A search that could not be read has no rows; until it is read, those of the
\* last one stay (keepPreviousData).
OnScreen == IF HasData(search) \/ Reading(search) THEN rows ELSE {}

\* The founder's rights, from the founder's row among those on screen.
isAdmin == <<Founder, "active">> \in OnScreen

Init ==
  /\ row \in [People -> {"none", "active", "pending"}]
  /\ joins = [j \in JoinPages |-> [st |-> "shown", told |-> "none"]]
  /\ announced = [p \in People |-> {}]
  /\ search = None
  /\ rows = Page(None)
  /\ listing = [q \in Searches |-> IF q = None THEN Answered(Page(None)) ELSE Unread]
  /\ ruling = NoRuling
  /\ turned = {} /\ crowded = {} /\ contested = {} /\ elsewhere = {}
  /\ overtaken = {} /\ patchy = FALSE
  /\ moves = 0

Input == moves < MaxInputs /\ moves' = moves + 1

---------------------------------------------------------------------------
(* The invitation: handleJoin, join, join_by_invite_code *)

\* The card of the page: answers replace the preview, a failure leaves it.
Card(j) ==
  IF joins[j].told \in {"member", "pending", "sent"} THEN joins[j].told ELSE "preview"

\* The button to join: one call at a time.
OffersJoin(j) == Card(j) = "preview" /\ joins[j].st = "shown"

handleJoin(j) ==
  /\ Input
  /\ OffersJoin(j)
  /\ joins' = [joins EXCEPT ![j] = [st |-> "asked", told |-> "none"]]
  /\ crowded' = IF \E i \in JoinPages \ {j} :
                     VisitorOf[i] = VisitorOf[j] /\ joins[i].st # "shown"
                THEN crowded \cup {VisitorOf[j]} ELSE crowded
  /\ UNCHANGED <<row, announced, rows, search, listing, ruling, turned, contested, elsewhere,
                 overtaken, patchy>>

\* find_by_user_and_tenant does not see a rejected row.
FindMembership(j) ==
  LET status == row[VisitorOf[j]] IN
  /\ joins[j].st = "asked"
  /\ joins' = [joins EXCEPT ![j] =
       IF ~Live(VisitorOf[j]) THEN [st |-> "found none", told |-> "none"]
       ELSE [st |-> "shown", told |-> IF status = "pending" THEN "pending" ELSE "member"]]
  /\ UNCHANGED <<row, announced, rows, search, listing, ruling, turned, crowded, contested,
                 elsewhere, overtaken, patchy, moves>>

\* A person has one row of a workspace, rejected or not.
InsertMembership(j) ==
  LET p == VisitorOf[j] IN
  /\ joins[j].st = "found none"
  /\ row' = IF row[p] = "none" THEN [row EXCEPT ![p] = "pending"] ELSE row
  /\ joins' = [joins EXCEPT ![j] =
       [st |-> "shown", told |-> IF row[p] = "none" THEN "sent" ELSE "failed"]]
  /\ UNCHANGED <<announced, rows, search, listing, ruling, turned, crowded, contested,
                 elsewhere, overtaken, patchy, moves>>

Reload(j) ==
  /\ Input
  /\ joins[j].st = "shown" /\ Card(j) # "preview"
  /\ joins' = [joins EXCEPT ![j].told = "none"]
  /\ UNCHANGED <<row, announced, rows, search, listing, ruling, turned, crowded, contested,
                 elsewhere, overtaken, patchy>>

---------------------------------------------------------------------------
(* The list *)

\* Another query, read again though it may have rows; a fetch of it that is still
\* under way is joined.
setKeyword(word) ==
  /\ Input
  /\ word # search
  /\ search' = word
  /\ rows' = IF HasData(word) THEN listing[word].has ELSE rows
  /\ listing' = IF Reading(word) THEN listing ELSE [listing EXCEPT ![word].st = "asked"]
  /\ UNCHANGED <<row, joins, announced, ruling, turned, crowded, contested, elsewhere, overtaken,
                 patchy>>

ServeList(q) ==
  /\ listing[q].st = "asked"
  /\ listing' = [listing EXCEPT ![q].st = "served", ![q].rows = Page(q)]
  /\ overtaken' = overtaken \ {q}
  /\ UNCHANGED <<row, joins, announced, rows, search, ruling, turned, crowded, contested, elsewhere,
                 patchy, moves>>

ReceiveList(q) ==
  /\ listing[q].st = "served"
  /\ rows' = IF q = search THEN listing[q].rows ELSE rows
  /\ listing' = [listing EXCEPT ![q] = Answered(listing[q].rows)]
  /\ UNCHANGED <<row, joins, announced, search, ruling, turned, crowded, contested, elsewhere,
                 overtaken, patchy, moves>>

\* What the query had stays.
ListFails(q) ==
  /\ Input
  /\ Reading(q)
  /\ listing' = [listing EXCEPT ![q].st = "idle", ![q].rows = {}]
  /\ patchy' = TRUE
  /\ UNCHANGED <<row, joins, announced, rows, search, ruling, turned, crowded, contested,
                 elsewhere, overtaken>>

---------------------------------------------------------------------------
(* The row's menu: approve and reject, enable, or disable.                  *)

Offered(status) ==
  CASE status = "pending" -> {"approve", "reject"}
    [] status = "disabled" -> {"enable"}
    [] OTHER -> {"disable"}

\* The status the button asks for: 1 or 0.
Admits(says) == says \in {"approve", "enable"}

Press(p, status, says) ==
  /\ Input
  /\ ruling = NoRuling
  /\ isAdmin
  /\ <<p, status>> \in OnScreen
  /\ says \in Offered(status)
  /\ ruling' = [NoRuling EXCEPT !.st = "sent", !.who = p, !.says = says,
                                !.blind = (Reading(search) \/ search \in overtaken)]
  /\ UNCHANGED <<row, joins, announced, rows, search, listing, turned, crowded, contested,
                 elsewhere, overtaken, patchy>>

\* update_status reads the row for the announcement, then update_member_status
\* reads it again to decide.
ReadBefore ==
  /\ ruling.st = "sent"
  /\ Live(ruling.who)
  /\ ruling' = [ruling EXCEPT !.st = "read", !.before = row[ruling.who]]
  /\ UNCHANGED <<row, joins, announced, rows, search, listing, turned, crowded, contested,
                 elsewhere, overtaken, patchy, moves>>

ReadTarget ==
  /\ ruling.st = "read"
  /\ Live(ruling.who)
  /\ ruling' = [ruling EXCEPT !.st = "decided", !.saw = row[ruling.who]]
  /\ UNCHANGED <<row, joins, announced, rows, search, listing, turned, crowded, contested,
                 elsewhere, overtaken, patchy, moves>>

\* soft_delete_batch takes the row whatever it is by now; the other two updates
\* leave a deleted row alone.
Ruled(p, saw, admits) ==
  CASE ~admits /\ saw = "pending" -> "deleted"
    [] admits /\ saw \in {"pending", "disabled"} /\ Live(p) -> "active"
    [] ~admits /\ saw = "active" /\ Live(p) -> "disabled"
    [] OTHER -> row[p]

\* Mutant of Announces: every change of a status is announced.
AnnouncesAlways(before, admits) == {IF admits THEN "approved" ELSE "rejected"}

\* Decisions on requests are announced.
Announces(before, admits) ==
  IF before # "pending" THEN {} ELSE {IF admits THEN "approved" ELSE "rejected"}

Decide(p, before, saw, admits) ==
  /\ row' = [row EXCEPT ![p] = Ruled(p, saw, admits)]
  /\ announced' = [announced EXCEPT ![p] = @ \cup Announces(before, admits)]
  /\ turned' = IF ~admits /\ saw = "pending" THEN turned \cup {p} ELSE turned

WriteRuling ==
  /\ ruling.st = "decided"
  /\ Decide(ruling.who, ruling.before, ruling.saw, Admits(ruling.says))
  /\ ruling' = [ruling EXCEPT !.st = "done"]
  /\ overtaken' = overtaken \cup {q \in Searches : listing[q].st = "served"}
  /\ UNCHANGED <<joins, rows, search, listing, crowded, contested, elsewhere, patchy, moves>>

\* Mutant of Succeed: the list is not read again.
SucceedSilently ==
  /\ ruling.st = "done"
  /\ ruling' = NoRuling
  /\ UNCHANGED <<row, joins, announced, rows, search, listing, turned, crowded, contested,
                 elsewhere, overtaken, patchy, moves>>

\* onSuccess does not wait for the list: a search that has rows is read again
\* from the start, one without joins its first fetch, the others are only marked.
Succeed ==
  /\ ruling.st = "done"
  /\ ruling' = NoRuling
  /\ listing' = IF HasData(search) \/ ~Reading(search)
                THEN [listing EXCEPT ![search].st = "asked", ![search].rows = {}]
                ELSE listing
  /\ UNCHANGED <<row, joins, announced, rows, search, turned, crowded, contested, elsewhere,
                 overtaken, patchy, moves>>

\* The row was rejected meanwhile, or the call fails.
RulingFails ==
  /\ \/ ruling.st \in {"sent", "read"} /\ ~Live(ruling.who) /\ UNCHANGED <<patchy, moves>>
     \/ ruling # NoRuling /\ Input /\ patchy' = TRUE
  /\ ruling' = NoRuling
  /\ UNCHANGED <<row, joins, announced, rows, search, listing, turned, crowded, contested,
                 elsewhere, overtaken>>

\* Another administrator, in one step.
OtherDecides(p, admits) ==
  /\ Input
  /\ Live(p)
  /\ Decide(p, row[p], row[p], admits)
  /\ elsewhere' = elsewhere \cup {p}
  /\ contested' = IF ruling.st \in {"read", "decided"} /\ ruling.who = p
                  THEN contested \cup {p} ELSE contested
  /\ UNCHANGED <<joins, rows, search, listing, ruling, crowded, overtaken, patchy>>

---------------------------------------------------------------------------
Next ==
  \/ \E j \in JoinPages : handleJoin(j) \/ FindMembership(j) \/ InsertMembership(j) \/ Reload(j)
  \/ \E q \in Searches : setKeyword(q) \/ ServeList(q) \/ ReceiveList(q) \/ ListFails(q)
  \/ \E p \in People, status \in Statuses, says \in {"approve", "reject", "enable", "disable"} :
       Press(p, status, says)
  \/ ReadBefore \/ ReadTarget \/ WriteRuling \/ Succeed \/ RulingFails
  \/ \E p \in People, admits \in BOOLEAN : OtherDecides(p, admits)

Spec == Init /\ [][Next]_memberVars

---------------------------------------------------------------------------
Rows == SUBSET ((People \cup {Founder}) \X Statuses)
Verdicts == {"none", "approve", "reject", "enable", "disable"}

(* Types of the memberships, the pages and the decision.                    *)
TypeOK ==
  /\ row \in [People -> Statuses \cup {"none", "deleted"}]
  /\ joins \in [JoinPages -> [st : {"shown", "asked", "found none"},
                              told : {"none", "sent", "pending", "member", "failed"}]]
  /\ announced \in [People -> SUBSET {"approved", "rejected"}]
  /\ rows \in Rows
  /\ search \in Searches
  /\ listing \in [Searches -> [known : BOOLEAN, has : Rows, st : {"idle", "asked", "served"},
                               rows : Rows]]
  /\ ruling \in [st : {"none", "sent", "read", "decided", "done"}, who : People \cup {None},
                 says : Verdicts, before : Statuses \cup {"none"},
                 saw : Statuses \cup {"none"}, blind : BOOLEAN]
  /\ turned \subseteq People /\ crowded \subseteq People
  /\ contested \subseteq People /\ elsewhere \subseteq People
  /\ overtaken \subseteq Searches /\ patchy \in BOOLEAN

(* Asking to join only fails for whom it was rejected before (from then on  *)
(* for good), or who asked from two pages at once.                          *)
LockedOutNeedsRejection ==
  \A j \in JoinPages :
    joins[j].told = "failed" => VisitorOf[j] \in turned \cup crowded

(* An approval and a rejection are only both announced for one request if   *)
(* two administrators decided on it at once.                                *)
OneDecisionAnnounced ==
  \A p \in People : Cardinality(announced[p]) > 1 => p \in contested

RejectStep ==
  \A p \in People :
    /\ ruling.st = "decided" /\ ruling'.st = "done"
    /\ ruling.who = p /\ ruling.says = "reject" /\ row'[p] = "disabled"
    => ruling.blind \/ patchy \/ p \in elsewhere

(* Rejecting a request never disables a member, unless the request was      *)
(* decided on elsewhere, or the list was being read again, had been read    *)
(* before the last decision of this page, or could not be read.             *)
RejectNeverDisables == [][RejectStep]_memberVars

Requests == {p \in People : row[p] = "pending"}

(* With the list answered the founder may decide, unless the founder is     *)
(* not among what is searched for, the list was read before a decision of   *)
(* this page, or requests fill the first page: it is the only one, and the  *)
(* rights come from the founder's row.                                      *)
FounderMayDecide ==
  /\ ~Reading(search) /\ search \notin overtaken
  /\ ruling = NoRuling /\ ~patchy /\ elsewhere = {}
  /\ search = None \/ Founder \in search
  /\ Cardinality(Requests) < PageSize
  => isAdmin

(* A request meets one decision, by somebody who may decide, and only a     *)
(* rejected person or one that asked twice at once is locked out.           *)
DecisionsHold ==
  /\ LockedOutNeedsRejection
  /\ OneDecisionAnnounced
  /\ FounderMayDecide
=============================================================================
