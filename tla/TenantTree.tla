------------------------------ MODULE TenantTree ------------------------------
(***************************************************************************)
(* The tenants page: a tree that is read page by page as it is expanded, a *)
(* search that replaces it, and the detail of the selected tenant.  Every  *)
(* page of a list is a query of its own: it reads the server, and what it  *)
(* read is shown when the answer arrives.  Until the first answer the rows *)
(* of the page before it stay on screen.                                   *)
(***************************************************************************)
EXTENDS Integers, FiniteSets

CONSTANTS
  Tenants,     \* tenants that exist or can be created, in the order of their names
  Keywords,    \* searches, as the sets of tenants they match
  Size,        \* rows of a page
  None,        \* nothing, and the parent of a root
  Unborn,      \* parent of a tenant that has not been created
  MaxInputs    \* bound on inputs, other administrators and failed calls

ConstantsOK ==
  /\ Tenants \subseteq Int
  /\ None \notin Tenants /\ Unborn \notin Tenants /\ None # Unborn
  /\ Keywords \subseteq SUBSET Tenants
  /\ IsFiniteSet(Tenants) /\ Size \in Nat \ {0} /\ MaxInputs \in Nat

VARIABLES
  above,      \* parent of every tenant that was created
  alive,      \* the tenants of the server
  keyword,    \* the search, or None
  pageOf,     \* the pages chosen: of the roots, of the search, of children
  expanded,   \* expanded tenants
  chosen,     \* the selected tenant
  shownRows,  \* what each query has: its rows and the total of their list
  asked,      \* queries under way
  job,        \* the create, update or delete call under way
  missed,     \* history: pages read before a change and not asked for since
  ghost,      \* history: the selection may be a tenant that is gone
  adrift,     \* history: lists whose page may have been left past their end
  troubled,   \* history: a call failed, or someone else changed tenants
  turns,      \* spent bound
  fetched     \* what the queries under way have read of the server

tenantVars ==
  <<above, alive, keyword, pageOf, expanded, chosen, shownRows, asked, job, missed, ghost,
    adrift, troubled, turns, fetched>>

Pages == 0 .. Cardinality(Tenants)

Roots(p) == <<"roots", None, p>>
Found(word, p) == <<"found", word, p>>
\* The tenant of the detail, with its ancestors.
Node(n) == <<"node", n, 0>>
Kids(n, p) == <<"kids", n, p>>
NodeQueries == {"node"} \X Tenants \X {0}
KidsQueries == {"kids"} \X Tenants \X Pages
Queries ==
  ({"roots"} \X {None} \X Pages) \cup ({"found"} \X Keywords \X Pages)
  \cup NodeQueries \cup KidsQueries
FirstPages == [roots |-> 0, found |-> 0, kids |-> [n \in Tenants |-> 0]]

NoRows == [known |-> FALSE, rows |-> {}, total |-> 0]
NoJob == [st |-> "none", does |-> "none", node |-> None, parent |-> None, moves |-> FALSE,
          waits |-> {}]

Born(parents) == {n \in Tenants : parents[n] # Unborn}
ChildrenOf(n, in) == {c \in in : above[c] = n}
Below[n \in Tenants] == {n} \cup UNION {Below[c] : c \in ChildrenOf(n, Tenants)}

\* A page of a list sorted by name.
PageOf(all, p) ==
  [known |-> TRUE,
   rows  |-> {n \in all : Cardinality({m \in all : m < n}) \div Size = p},
   total |-> Cardinality(all)]

\* The list a query reads a page of.
ListOf(q) ==
  CASE q[1] = "found" -> q[2] \cap alive
    [] q[1] = "node"  -> {q[2]} \cap alive
    [] OTHER          -> ChildrenOf(q[2], alive)

\* What the server answers; get has no row for a tenant that is gone, and fails.
Read(q) ==
  IF q \in NodeQueries THEN [known |-> TRUE, rows |-> ListOf(q), total |-> 0]
  ELSE PageOf(ListOf(q), q[3])

Init ==
  /\ above \in [Tenants -> Tenants \cup {None, Unborn}]
  /\ \A n \in Tenants : above[n] \in Tenants => above[n] < n /\ above[n] \in Born(above)
  /\ alive = Born(above)
  /\ keyword = None
  /\ pageOf = FirstPages
  /\ expanded = {}
  /\ chosen = None
  /\ shownRows = [q \in Queries |-> NoRows]
  /\ asked = {Roots(0)}
  /\ job = NoJob
  /\ missed = {} /\ ghost = FALSE /\ adrift = {} /\ troubled = FALSE
  /\ turns = 0
  /\ fetched = [q \in Queries |-> NoRows]

Input == turns < MaxInputs /\ turns' = turns + 1

\* Queries of what is shown; the others are disabled or have no observer.
InUse(word, pages, open, node) ==
  (IF word = None THEN {Roots(pages.roots)} \cup {Kids(n, pages.kids[n]) : n \in open}
   ELSE {Found(word, pages.found)})
  \cup (IF node = None THEN {} ELSE {Node(node)})

Active == InUse(keyword, pageOf, expanded, chosen)

\* A query that comes into use asks, or joins its own call that is under way;
\* pages of children only when nothing is known of them.  One that is left lets
\* its call run on.
Asks(word, pages, open, node) ==
  asked' = asked \cup {q \in InUse(word, pages, open, node) \ Active :
                         q \in KidsQueries => ~shownRows[q].known}

\* A page chosen by the total on screen while the list is being read, or a tenant
\* being removed, or by one kept from before a change.
Drifts(list, q) ==
  adrift' = IF q \in asked \cup missed \/ job.does = "remove" THEN adrift \cup {list} ELSE adrift

TotalPages(q) == (shownRows[q].total + Size - 1) \div Size

\* A page that the total on screen offers: that of the page in use or, until it
\* is read, that of another page of the list.
Offered(q, p) ==
  \E kept \in Queries :
    /\ shownRows[kept].known
    /\ IF shownRows[q].known THEN kept = q
       ELSE kept[1] = q[1] /\ (q[1] = "found" \/ kept[2] = q[2])
    /\ p < TotalPages(kept) /\ p # q[3]
Shown(n) == n \in Born(above)

---------------------------------------------------------------------------
(* The sidebar and the detail panel *)

toggleExpand(n) ==
  LET open == IF n \in expanded THEN expanded \ {n} ELSE expanded \cup {n} IN
  /\ Input
  /\ Shown(n) /\ keyword = None
  /\ expanded' = open
  /\ Asks(keyword, pageOf, open, chosen)
  /\ UNCHANGED <<above, alive, keyword, pageOf, chosen, shownRows, job, missed, ghost, adrift,
                 troubled, fetched>>

\* Another page of the roots collapses everything.
handleRootPageChange(p) ==
  LET pages == [FirstPages EXCEPT !.roots = p, !.found = pageOf.found] IN
  /\ Input
  /\ keyword = None
  /\ Offered(Roots(pageOf.roots), p)
  /\ pageOf' = pages
  /\ expanded' = {}
  /\ Asks(keyword, pages, {}, chosen)
  /\ Drifts("roots", Roots(pageOf.roots))
  /\ UNCHANGED <<above, alive, keyword, chosen, shownRows, job, missed, ghost, troubled, fetched>>

handleChildPageChange(n, p) ==
  LET pages == [pageOf EXCEPT !.kids[n] = p] IN
  /\ Input
  /\ keyword = None /\ n \in expanded
  /\ Offered(Kids(n, pageOf.kids[n]), p)
  /\ pageOf' = pages
  /\ Asks(keyword, pages, expanded, chosen)
  /\ Drifts("kids", Kids(n, pageOf.kids[n]))
  /\ UNCHANGED <<above, alive, keyword, expanded, chosen, shownRows, job, missed, ghost,
                 troubled, fetched>>

handleSearchPageChange(p) ==
  LET pages == [pageOf EXCEPT !.found = p] IN
  /\ Input
  /\ keyword # None
  /\ Offered(Found(keyword, pageOf.found), p)
  /\ pageOf' = pages
  /\ Asks(keyword, pages, expanded, chosen)
  /\ Drifts("found", Found(keyword, pageOf.found))
  /\ UNCHANGED <<above, alive, keyword, expanded, chosen, shownRows, job, missed, ghost,
                 troubled, fetched>>

\* A search collapses everything; clearing it shows the page of roots again.
onTreeSearchChange(word) ==
  LET open == IF word = None THEN expanded ELSE {}
      pages == IF word = None THEN [pageOf EXCEPT !.found = 0]
               ELSE [FirstPages EXCEPT !.roots = pageOf.roots]
  IN
  /\ Input
  /\ word # keyword
  /\ keyword' = word
  /\ pageOf' = pages
  /\ expanded' = open
  /\ Asks(word, pages, open, chosen)
  /\ UNCHANGED <<above, alive, chosen, shownRows, job, missed, ghost, adrift, troubled, fetched>>

\* Any row on screen; the root of the breadcrumb selects none.
handleSelectNode(n) ==
  /\ Input
  /\ n = None \/ Shown(n)
  /\ n # chosen
  /\ chosen' = n
  /\ Asks(keyword, pageOf, expanded, n)
  /\ ghost' = (n # None /\ (n \notin alive \/ job.does = "remove"))
  /\ UNCHANGED <<above, alive, keyword, pageOf, expanded, shownRows, job, missed, adrift,
                 troubled, fetched>>

\* All queries are marked and those in use ask at once: one that has rows asks
\* anew, one that has none joins its first call.
invalidateTenantQueries ==
  /\ asked' = asked \cup Active
  /\ fetched' = [q \in Queries |-> IF q \in Active /\ shownRows[q].known THEN NoRows ELSE fetched[q]]

onRefresh ==
  /\ Input
  /\ invalidateTenantQueries
  /\ UNCHANGED <<above, alive, keyword, pageOf, expanded, chosen, shownRows, job, missed, ghost,
                 adrift, troubled>>

---------------------------------------------------------------------------
(* The queries *)

Serve(q) ==
  /\ q \in asked /\ ~fetched[q].known
  /\ fetched' = [fetched EXCEPT ![q] = Read(q)]
  /\ missed' = missed \ {q}
  /\ UNCHANGED <<above, alive, keyword, pageOf, expanded, chosen, shownRows, asked, job, ghost,
                 adrift, troubled, turns>>

Ends(q) ==
  /\ q \in asked
  /\ asked' = asked \ {q}
  /\ fetched' = [fetched EXCEPT ![q] = NoRows]
  /\ job' = [job EXCEPT !.waits = @ \ {q}]

\* A tenant that is gone leaves what was read of it.
Answer(q) ==
  /\ fetched[q].known
  /\ shownRows' = IF q \in NodeQueries /\ fetched[q].rows = {} THEN shownRows
                  ELSE [shownRows EXCEPT ![q] = fetched[q]]
  /\ Ends(q)
  /\ UNCHANGED <<above, alive, keyword, pageOf, expanded, chosen, missed, ghost, adrift, troubled,
                 turns>>

AnswerFails(q) ==
  /\ Input
  /\ Ends(q)
  /\ troubled' = TRUE
  /\ UNCHANGED <<above, alive, keyword, pageOf, expanded, chosen, shownRows, missed, ghost,
                 adrift>>

---------------------------------------------------------------------------
(* createMutation, updateMutation, deleteMutation *)

Sent(does, n, parent) ==
  [NoJob EXCEPT !.st = "sent", !.does = does, !.node = n, !.parent = parent]

\* openAddChild expands and selects the parent; the sheet is then submitted, which
\* is a second input.
openAddChild(n, parent) ==
  /\ turns + 1 < MaxInputs /\ turns' = turns + 2
  /\ job = NoJob
  /\ above[n] = Unborn /\ Shown(parent)
  /\ expanded' = expanded \cup {parent}
  /\ chosen' = parent
  /\ Asks(keyword, pageOf, expanded \cup {parent}, parent)
  /\ ghost' = (parent \notin alive)
  /\ job' = Sent("create", n, parent)
  /\ UNCHANGED <<above, alive, keyword, pageOf, shownRows, missed, adrift, troubled, fetched>>

\* openCreateRoot, openEdit, removeTenant.
Submit(does, n) ==
  /\ Input
  /\ job = NoJob
  /\ IF does = "create" THEN above[n] = Unborn ELSE Shown(n)
  /\ job' = Sent(does, n, IF does = "create" THEN None ELSE above[n])
  /\ UNCHANGED <<above, alive, keyword, pageOf, expanded, chosen, shownRows, asked, missed,
                 ghost, adrift, troubled, fetched>>

LaterPages ==
  (IF pageOf.found > 0 THEN {"found"} ELSE {})
  \cup (IF \E n \in Tenants : pageOf.kids[n] > 0 THEN {"kids"} ELSE {})

\* A row that was read with children takes its branch with it.
ServeJob ==
  /\ job.st = "sent"
  /\ CASE job.does = "create" ->
            /\ job.parent = None \/ job.parent \in alive
            /\ above' = [above EXCEPT ![job.node] = job.parent]
            /\ alive' = alive \cup {job.node}
       [] job.does = "update" -> job.node \in alive /\ UNCHANGED <<above, alive>>
       [] job.does = "remove" ->
            job.node \in alive /\ alive' = alive \ Below[job.node] /\ UNCHANGED above
  /\ job' = [job EXCEPT !.st = "served"]
  /\ ghost' = (ghost \/ (chosen # job.node /\ chosen \in alive /\ chosen \notin alive'))
  /\ adrift' = IF job.does = "remove" THEN adrift \cup LaterPages ELSE adrift
  /\ missed' = missed \cup {q \in asked : fetched[q].known}
  /\ UNCHANGED <<keyword, pageOf, expanded, chosen, shownRows, asked, troubled, turns, fetched>>

\* onSuccess reads again what is in use; the rest is marked, which pages of
\* children do not heed when they are shown again.
Succeed ==
  /\ job.st = "served"
  /\ invalidateTenantQueries
  /\ job' = [job EXCEPT !.st = "settling", !.waits = Active, !.moves = (chosen = job.node)]
  /\ missed' = (missed \ {q \in Active : shownRows[q].known})
               \cup {q \in KidsQueries \ Active : shownRows[q].known}
  /\ UNCHANGED <<above, alive, keyword, pageOf, expanded, chosen, shownRows, ghost, adrift,
                 troubled, turns>>

Reselected ==
  CASE job.does = "create" /\ job.parent # None -> job.parent
    [] job.does = "remove" /\ job.moves -> job.parent
    [] OTHER -> chosen

FirstPage(pages) == [pages EXCEPT !.roots = 0]

\* Mutant of Settle: the removed tenant stays selected.
SettleSelected ==
  LET pages == FirstPage(pageOf) IN
  /\ job.st = "settling"
  /\ job.waits = {}
  /\ pageOf' = pages
  /\ Asks(keyword, pages, expanded, chosen)
  /\ job' = NoJob
  /\ adrift' = adrift \ {"roots"}
  /\ UNCHANGED <<above, alive, keyword, expanded, chosen, shownRows, missed, ghost, troubled,
                 turns, fetched>>

\* The first page of the roots; the parent of a child is selected and expanded,
\* the parent of the removed selection is selected.
Settle ==
  LET open == IF job.does = "create" /\ job.parent # None THEN expanded \cup {job.parent}
              ELSE expanded
      pages == FirstPage(pageOf)
  IN
  /\ job.st = "settling"
  /\ job.waits = {}
  /\ pageOf' = pages
  /\ expanded' = open
  /\ chosen' = Reselected
  /\ Asks(keyword, pages, open, Reselected)
  /\ ghost' = IF Reselected = chosen THEN ghost ELSE Reselected # None /\ Reselected \notin alive
  /\ job' = NoJob
  /\ adrift' = adrift \ {"roots"}
  /\ UNCHANGED <<above, alive, keyword, shownRows, missed, troubled, turns, fetched>>

\* Refused: the tenant or the parent is gone, or a row read as a leaf has
\* children.  Or the call fails.
JobFails ==
  /\ \/ /\ job.st = "sent" /\ UNCHANGED <<troubled, turns>>
        /\ \/ job.does = "create" /\ job.parent # None /\ job.parent \notin alive
           \/ job.does # "create" /\ job.node \notin alive
           \/ job.does = "remove" /\ ChildrenOf(job.node, alive) # {}
     \/ job.st \in {"sent", "served"} /\ Input /\ troubled' = TRUE
  /\ job' = NoJob
  /\ UNCHANGED <<above, alive, keyword, pageOf, expanded, chosen, shownRows, asked, missed,
                 ghost, adrift, fetched>>

OtherChanges(n) ==
  /\ Input
  /\ \/ above[n] = Unborn /\ n # job.node /\ above' = [above EXCEPT ![n] = None]
        /\ alive' = alive \cup {n}
     \/ n \in alive /\ alive' = alive \ Below[n] /\ UNCHANGED above
  /\ troubled' = TRUE
  /\ UNCHANGED <<keyword, pageOf, expanded, chosen, shownRows, asked, job, missed, ghost,
                 adrift, fetched>>

---------------------------------------------------------------------------
Next ==
  \/ \E n \in Tenants :
       \/ toggleExpand(n) \/ OtherChanges(n)
       \/ \E p \in Pages : handleChildPageChange(n, p)
       \/ \E parent \in Tenants : openAddChild(n, parent)
       \/ \E does \in {"create", "update", "remove"} : Submit(does, n)
  \/ \E n \in Tenants \cup {None} : handleSelectNode(n)
  \/ \E p \in Pages : handleRootPageChange(p) \/ handleSearchPageChange(p)
  \/ \E word \in Keywords \cup {None} : onTreeSearchChange(word)
  \/ \E q \in asked : Serve(q) \/ Answer(q) \/ AnswerFails(q)
  \/ onRefresh \/ ServeJob \/ Succeed \/ Settle \/ JobFails

Spec == Init /\ [][Next]_tenantVars

---------------------------------------------------------------------------
TenantOrNone == Tenants \cup {None}
Rows == [known : BOOLEAN, rows : SUBSET Tenants, total : Pages]

(* Types of the tenants, the controls, the queries and the call.            *)
TypeOK ==
  /\ above \in [Tenants -> Tenants \cup {None, Unborn}]
  /\ alive \subseteq Tenants /\ expanded \subseteq Tenants
  /\ keyword \in Keywords \cup {None} /\ chosen \in TenantOrNone
  /\ pageOf \in [roots : Pages, found : Pages, kids : [Tenants -> Pages]]
  /\ shownRows \in [Queries -> Rows] /\ fetched \in [Queries -> Rows]
  /\ asked \subseteq Queries /\ missed \subseteq Queries
  /\ job \in [st : {"none", "sent", "served", "settling"},
              does : {"none", "create", "update", "remove"}, node : TenantOrNone,
              parent : TenantOrNone, moves : BOOLEAN, waits : SUBSET Queries]
  /\ {ghost, troubled} \subseteq BOOLEAN
  /\ adrift \subseteq {"roots", "found", "kids"}

Settled == asked \cap Active = {} /\ job = NoJob /\ ~troubled
Lists == Active \ NodeQueries

(* Once what is in use has answered, every list on screen is the server's,  *)
(* unless a call failed, someone else changed tenants, the first answer of  *)
(* the page was read before one's own change and came after it, or the page *)
(* of children was kept from before a change made while it was collapsed.   *)
ListsCurrent ==
  Settled => \A q \in Lists \ missed : shownRows[q] = Read(q)

(* Once what is in use has answered, the detail is of the selected tenant   *)
(* and it is there, unless the tenant was removed with one above it or      *)
(* selected when it was gone.  With nothing selected, the last detail stays *)
(* on screen.                                                               *)
DetailAlive ==
  Settled /\ chosen # None /\ ~ghost =>
    shownRows[Node(chosen)].rows = {chosen} \cap alive /\ chosen \in alive

(* A list is only shown empty when it is, unless its page was chosen by a   *)
(* total that was being read again or kept from before a change, or a       *)
(* tenant was removed around a later page of it: the roots go back to their *)
(* first page, the others stay.                                             *)
EmptyListIsEmpty ==
  Settled =>
    \A q \in Lists \ missed :
      shownRows[q].rows = {} /\ q[1] \notin adrift => shownRows[q].total = 0

(* With all answered the two panes show the server's tenants: every list of *)
(* the tree, the tenant beside it, and no empty page of a list that is not  *)
(* empty, but for the causes named above.                                   *)
PanesCurrent ==
  /\ ListsCurrent
  /\ DetailAlive
  /\ EmptyListIsEmpty
=============================================================================
