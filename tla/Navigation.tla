----------------------------- MODULE Navigation -----------------------------
(***************************************************************************)
(* The navigation of the console and of the workspace: the menus of the    *)
(* user's roles, kept as one tree per role in Redis, joined by the server, *)
(* completed and drawn by the browser.                                     *)
(***************************************************************************)
EXTENDS Integers, FiniteSets

CONSTANTS
  None,
  MaxInputs,   \* bound on changes of menus and roles, and on reads of the menus
  MaxErrors    \* bound on failed calls

Root == 1                \* the menu of the side, BACKEND or FRONTEND
Menus == 1 .. 4          \* menus of the database; every menu lies below a smaller one
Storage == 5             \* entries built into the console, appended to "tools" and "biz"
Stats == 6
Roles == 1 .. 2          \* roles of the user, in the order the server takes them

ConstantsOK == None \notin Menus /\ MaxInputs \in Nat /\ MaxErrors \in Nat

VARIABLES
  side,      \* "console" or "workspace", the kind of each menu, the menu that has one of
             \* the codes built into the console, and that code
  menus,     \* the rows: parent, enabled, visible in navigation
  grants,    \* menus assigned to each role
  trees,     \* Redis: the tree of each role, or None
  clearing,  \* roles whose cached trees a change is about to delete
  load,      \* the request for the user's menus
  nav,       \* the menus the browser has
  groupCode, \* whether the header context names the group among the user's menu codes
  staled,    \* history, per role: a fill overtaken by a change, or a failed delete
  faults, moves

navVars == <<side, menus, grants, trees, clearing, load, nav, groupCode, staled, faults, moves>>

Kind(m) == side.kinds[m]

\* The menu and all menus above it.
Above(rows) == LET up[m \in Menus] == {m} \cup (IF rows[m].up = None THEN {} ELSE up[rows[m].up])
               IN  up

Enabled(rows) == {m \in Menus : rows[m].on}

\* Enabled menus the root leads to through enabled ones, as far as they were
\* assigned, with everything above them.
Included(rows, granted) ==
  UNION {Above(rows)[m] : m \in {k \in granted \cap Enabled(rows) :
                                   Above(rows)[k] \subseteq Enabled(rows)}}

TreeOf(rows, granted) == [m \in Included(rows, granted) |-> [up |-> rows[m].up, shown |-> rows[m].shown]]

NoMenus == [m \in {} |-> None]
NoLoad == [st |-> "none", fresh |-> FALSE]

Shapes == {[m \in Menus |-> [up |-> IF m = 1 THEN None ELSE up[m], on |-> TRUE, shown |-> TRUE]] :
             up \in {<<0, 1, 1, 3>>, <<0, 1, 2, 2>>, <<0, 1, 2, 3>>}}

\* Directories, pages and buttons; the codes the console knows are "tools" and "biz".
Sides ==
  [at : {"console", "workspace"}, code : {"tools", "biz", "other"}, group : Menus \ {Root},
   kinds : {<<"dir", "dir", "page", "page">>, <<"dir", "page", "page", "page">>,
            <<"dir", "dir", "dir", "button">>}]

Init ==
  /\ side \in Sides
  /\ menus \in Shapes
  /\ grants \in [Roles -> {{3}, {2, 4}}]
  /\ trees = [r \in Roles |-> None]
  /\ clearing = {}
  /\ load = NoLoad
  /\ nav = [data |-> NoMenus, fresh |-> FALSE]
  /\ groupCode = FALSE
  /\ staled = [r \in Roles |-> FALSE]
  /\ faults = 0 /\ moves = 0

Input == moves < MaxInputs /\ moves' = moves + 1 /\ UNCHANGED faults
Fault == faults < MaxErrors /\ faults' = faults + 1 /\ UNCHANGED moves

-----------------------------------------------------------------------------

\* The tree of a role was read from the tables and is not stored yet.
Filling(r) == load.st \in {"grants", "fill"} /\ load.role = r

Changed(rs) ==
  /\ clearing' = clearing \cup rs
  /\ staled' = [r \in Roles |-> staled[r] \/ (r \in rs /\ Filling(r))]
  /\ load' = [load EXCEPT !.fresh = FALSE]
  /\ nav' = [nav EXCEPT !.fresh = FALSE]
  /\ UNCHANGED <<side, trees, groupCode>>

\* Mutant of MenuReaders: only the roles the menu was assigned to.
MenuReadersAssigned(m) == {r \in Roles : m \in grants[r]}

\* The roles whose trees a change of a menu concerns: all of them.
MenuReaders(m) == Roles

UpdateMenu ==
  /\ Input
  /\ \E m \in Menus \ {Root} :
       /\ \/ \E p \in 1 .. m - 1 : menus' = [menus EXCEPT ![m].up = p]
          \/ menus' = [menus EXCEPT ![m].on = ~@]
          \/ menus' = [menus EXCEPT ![m].shown = ~@]
       /\ Changed(MenuReaders(m))
  /\ UNCHANGED grants

AssignMenus ==
  /\ Input
  /\ \E r \in Roles, granted \in {{3}, {2, 4}, {}} :
       grants' = [grants EXCEPT ![r] = granted] /\ Changed({r})
  /\ UNCHANGED menus

\* The change committed; deleting the cached trees may fail, with a warning.
ClearTrees ==
  /\ clearing # {}
  /\ trees' = [r \in Roles |-> IF r \in clearing THEN None ELSE trees[r]]
  /\ clearing' = {}
  /\ staled' = [r \in Roles |-> staled[r] /\ (r \notin clearing \/ Filling(r))]
  /\ UNCHANGED <<side, menus, grants, load, nav, groupCode, faults, moves>>

ClearFails ==
  /\ Fault /\ clearing # {}
  /\ staled' = [r \in Roles |-> staled[r] \/ r \in clearing]
  /\ clearing' = {}
  /\ UNCHANGED <<side, menus, grants, trees, load, nav, groupCode>>

-----------------------------------------------------------------------------

\* The browser asks when the page opens and when its window regains focus.
AskMenus ==
  /\ Input /\ load.st = "none"
  /\ load' = [st |-> "cache", role |-> 1, list |-> NoMenus,
              fresh |-> clearing = {} /\ \A r \in Roles : ~staled[r]]
  /\ UNCHANGED <<side, menus, grants, trees, clearing, nav, groupCode, staled>>

\* One role after the other; a menu two roles share is taken from the first.
Joined(list, tree) ==
  [m \in DOMAIN list \cup DOMAIN tree |-> IF m \in DOMAIN list THEN list[m] ELSE tree[m]]

Continue(tree) ==
  load' = [st |-> IF load.role = 2 THEN "answer" ELSE "cache", role |-> load.role + 1,
           list |-> Joined(load.list, tree), fresh |-> load.fresh]

ReadTree ==
  /\ load.st = "cache"
  /\ IF trees[load.role] # None
       THEN Continue(trees[load.role])
       ELSE load' = [load EXCEPT !.st = "rows"]
  /\ UNCHANGED <<side, menus, grants, trees, clearing, nav, groupCode, staled, faults, moves>>

\* Redis does not answer: the tree is computed, as if it were not cached.
ReadTreeFails ==
  /\ Fault /\ load.st = "cache"
  /\ load' = [load EXCEPT !.st = "rows"]
  /\ UNCHANGED <<side, menus, grants, trees, clearing, nav, groupCode, staled>>

\* The menus and the assignments are read in two statements.
ReadRows ==
  /\ load.st = "rows"
  /\ load' = [st |-> "grants", role |-> load.role, list |-> load.list, rows |-> menus,
              fresh |-> load.fresh]
  /\ UNCHANGED <<side, menus, grants, trees, clearing, nav, groupCode, staled, faults, moves>>

ReadGrants ==
  /\ load.st = "grants"
  /\ load' = [st |-> "fill", role |-> load.role, list |-> load.list,
              tree |-> TreeOf(load.rows, grants[load.role]), fresh |-> load.fresh]
  /\ UNCHANGED <<side, menus, grants, trees, clearing, nav, groupCode, staled, faults, moves>>

\* A fill that finds a change not yet cleared is deleted with it.
FillTree ==
  /\ load.st = "fill"
  /\ Continue(load.tree)
  /\ trees' = [trees EXCEPT ![load.role] = load.tree]
  /\ UNCHANGED <<side, menus, grants, clearing, nav, groupCode, staled, faults, moves>>

FillFails ==
  /\ Fault /\ load.st = "fill"
  /\ Continue(load.tree)
  /\ UNCHANGED <<side, menus, grants, trees, clearing, nav, groupCode, staled>>

\* from_flat: the rows a chain of rows leads to from the root.
Rooted(list) ==
  LET up[m \in Menus] == m \in DOMAIN list /\ (m = Root \/ up[list[m].up])
  IN  {m \in DOMAIN list : up[m]}

FromFlat(list) == [m \in Rooted(list) |-> list[m]]

ReceiveMenus ==
  /\ load.st = "answer"
  /\ nav' = [data |-> FromFlat(load.list), fresh |-> load.fresh]
  /\ load' = NoLoad
  /\ UNCHANGED <<side, menus, grants, trees, clearing, groupCode, staled, faults, moves>>

\* The console keeps what it shows; the workspace takes a failure for no menus.
NavAfterFailure == IF side.at = "console" THEN nav ELSE [data |-> NoMenus, fresh |-> FALSE]

MenusFail ==
  /\ Fault /\ load.st # "none"
  /\ nav' = NavAfterFailure
  /\ load' = NoLoad
  /\ UNCHANGED <<side, menus, grants, trees, clearing, groupCode, staled>>

\* The header context is another query, answered at another time: it names the
\* menus that were assigned, without the groups above them.
ReceiveHeader ==
  /\ groupCode' = (menus[side.group].on /\ \E r \in Roles : side.group \in grants[r])
  /\ UNCHANGED <<side, menus, grants, trees, clearing, load, nav, staled, faults, moves>>

-----------------------------------------------------------------------------

\* mergeBaseCurrentMenus: "tools" gets its built-in entries if the header
\* context names it, "biz" in any case, wherever in the tree the group lies; a
\* group that is missing stays missing.
BuiltIn ==
  IF side.at = "workspace" \/ side.group \notin DOMAIN nav.data THEN {}
  ELSE CASE side.code = "tools" /\ groupCode -> {Storage}
         [] side.code = "biz" -> {Stats}
         [] OTHER -> {}

Merged ==
  [m \in DOMAIN nav.data \cup BuiltIn |->
     IF m \in Menus THEN nav.data[m] ELSE [up |-> side.group, shown |-> TRUE]]

Below(m) == {c \in DOMAIN Merged : Merged[c].up = m}

\* The console's bar: the groups under the root, and what lies directly below
\* them, whatever their kind and visibility.
AdminNavBar ==
  {m \in Below(Root) : Below(m) = {}} \cup UNION {Below(g) : g \in Below(Root)}

Navigable(m) == Merged[m].shown /\ Kind(m) # "button"

\* The pages a menu of the workspace stands for: itself, or, for a directory,
\* those of the menus below it.
collectNavigableItems[m \in Menus] ==
  IF ~Navigable(m) THEN {}
  ELSE IF Kind(m) = "page" THEN {m}
  ELSE UNION {collectNavigableItems[c] : c \in Below(m)}

ItemsBelow(m) == UNION {collectNavigableItems[c] : c \in Below(m)}

\* A page with pages below it opens a list of them instead of being a link, and
\* the list goes no further.
NavMain ==
  LET top == ItemsBelow(Root)
  IN  {p \in top : ItemsBelow(p) = {}} \cup UNION {ItemsBelow(p) : p \in top}

Links == IF side.at = "console" THEN AdminNavBar ELSE NavMain

Next ==
  \/ UpdateMenu \/ AssignMenus \/ ClearTrees \/ ClearFails
  \/ AskMenus \/ ReadTree \/ ReadTreeFails \/ ReadRows \/ ReadGrants \/ FillTree \/ FillFails
  \/ ReceiveMenus \/ MenusFail \/ ReceiveHeader

Spec == Init /\ [][Next]_navVars

-----------------------------------------------------------------------------

\* Type invariant.
TypeOK ==
  /\ side \in Sides
  /\ menus \in [Menus -> [up : {None} \cup Menus, on : BOOLEAN, shown : BOOLEAN]]
  /\ grants \in [Roles -> SUBSET Menus]
  /\ \A r \in Roles : trees[r] # None => DOMAIN trees[r] \subseteq Menus
  /\ clearing \subseteq Roles
  /\ load.st \in {"none", "cache", "rows", "grants", "fill", "answer"}
  /\ DOMAIN nav.data \subseteq Menus /\ nav.fresh \in BOOLEAN
  /\ groupCode \in BOOLEAN /\ staled \in [Roles -> BOOLEAN]
  /\ faults \in 0 .. MaxErrors /\ moves \in 0 .. MaxInputs

\* A cached tree is the tree of the role's menus, unless a request that had read
\* them stored its answer after a change, or a change could not delete it.
CachedTreeCurrent ==
  \A r \in Roles :
    trees[r] # None /\ r \notin clearing /\ ~staled[r] => trees[r] = TreeOf(menus, grants[r])

\* Trees of two roles that were stored at different times never break a branch:
\* every menu of the joined answer is below the root in the answer itself, so
\* none is dropped when the tree is built.
NothingOrphaned == load.st = "answer" => Rooted(load.list) = DOMAIN load.list

\* A read of the menus that began after the last change and its deletions gives
\* the browser the tree of what all roles together were assigned.
NavShowsGrants ==
  nav.fresh => nav.data = TreeOf(menus, UNION {grants[r] : r \in Roles})

\* The menus from below the root down to a menu.
PathTo[m \in Menus] ==
  IF m \in DOMAIN nav.data \ {Root} THEN {m} \cup PathTo[nav.data[m].up] ELSE {}

Depth(m) == Cardinality(PathTo[m])

\* The console links what lies directly below a group, hidden menus and buttons
\* too, and groups with nothing below them; a menu further down has no link.  Its
\* own entries have one if their group lies directly below the root, and if it
\* lies further down they are added where the bar does not show them.
ConsoleLinked ==
  side.at = "console" =>
    /\ AdminNavBar \cap Menus =
         {m \in DOMAIN nav.data : Depth(m) = 2 \/ (Depth(m) = 1 /\ Below(m) = {})}
    /\ AdminNavBar \ Menus = IF Depth(side.group) = 1 THEN BuiltIn ELSE {}

\* The pages among the menus above one, and the pages no hidden menu or button
\* keeps away.
PagesOver(m) == {a \in PathTo[m] \ {m} : Kind(a) = "page"}

OpenPages == {m \in DOMAIN nav.data \ {Root} :
                Kind(m) = "page" /\ \A a \in PathTo[m] : Navigable(a)}

\* The workspace links every page none of whose directories is hidden, unless
\* it is a page of its own list of pages, or lies below two pages.
PagesLinked ==
  side.at = "workspace" =>
    NavMain = {m \in OpenPages :
                 \/ Cardinality(PagesOver(m)) = 1
                 \/ PagesOver(m) = {} /\ \A k \in OpenPages : m \notin PagesOver(k)}

\* Redis, the joined answer, the browser and the two bars agree on what the
\* user's roles were granted: the browser has all of it and nothing else, the
\* workspace links its pages by kind and visibility, and the console links two
\* levels of it by their place alone.
BarShowsGrants ==
  /\ CachedTreeCurrent
  /\ NothingOrphaned
  /\ NavShowsGrants
  /\ ConsoleLinked
  /\ PagesLinked

=============================================================================
