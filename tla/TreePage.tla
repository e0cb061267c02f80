------------------------------ MODULE TreePage ------------------------------
(***************************************************************************)
(* The tree pages of the console that read their whole tree (roles, menus, *)
(* permissions, dictionaries): the tree on screen, the node whose detail   *)
(* is shown, adding a child, and the confirmation after which one row or a *)
(* whole branch is removed.                                                *)
(***************************************************************************)
EXTENDS Integers, FiniteSets

CONSTANTS
  Nodes,       \* rows that exist or can be created
  Calls,       \* removals under way at the same time
  Filters,     \* searches, as the sets of rows they leave out of the tree
  None,        \* nothing, and the parent of a root
  Unborn,      \* parent of a row that has not been created
  MaxInputs    \* bound on inputs, changes by others and failed calls

ConstantsOK ==
  /\ None \notin Nodes /\ Unborn \notin Nodes /\ None # Unborn /\ MaxInputs \in Nat
  /\ Filters \subseteq SUBSET Nodes

VARIABLES
  page,      \* which page this is, and what it does differently
  parentOf,  \* parent of every row that was created
  live,      \* the rows of the server
  filter,    \* the rows the tree leaves out, part of the query key
  screen,    \* the rows on screen
  answer,    \* the fetch under way
  selected,  \* the node whose detail is shown
  confirm,   \* the confirmation on screen
  removal,   \* removals under way
  adding,    \* the child being created
  strayed,   \* history: the selection may be a removed row
  used       \* spent bound

treeVars == <<page, parentOf, live, filter, screen, answer, selected, confirm, removal, adding,
              strayed, used>>

\* Roles, menus and permissions look for children in the tree on screen, when
\* they ask and again when they call; dictionaries trust a flag of the row.
RolesPage == [flag |-> FALSE, reselects |-> "sheet"]
MenusPage == RolesPage
PermsPage == [RolesPage EXCEPT !.reselects = "saved"]
DictsPage == [RolesPage EXCEPT !.flag = TRUE]

Pages == {RolesPage, MenusPage, PermsPage, DictsPage}

ChildrenOf(n, in) == {c \in in : parentOf[c] = n}

Closed(S) == \A c \in Nodes : parentOf[c] \in S => c \in S

\* n and all rows below it that were ever created: the least closed set with n.
Branch(n) == {m \in Nodes : \A S \in SUBSET Nodes : n \in S /\ Closed(S) => m \in S}

\* The server's rows as the page reads them: the tree, the branches, parents.
TreeRows == live \ filter

BranchRows ==
  IF page.flag THEN {n \in live : ChildrenOf(n, live) # {}}
               ELSE {n \in TreeRows : ChildrenOf(n, TreeRows) # {}}

Answered == [tree |-> TreeRows, rows |-> live, branches |-> BranchRows]

NoRows == [tree |-> {}, rows |-> {}, branches |-> {}]
NoAnswer == [st |-> "idle", rows |-> NoRows, first |-> FALSE]
Asked == [NoAnswer EXCEPT !.st = "sent"]
NoConfirm == [node |-> None, up |-> None, says |-> "none", flag |-> FALSE, reloaded |-> FALSE]
NoRemoval == [st |-> "none", node |-> None, up |-> None, says |-> "none", cascade |-> FALSE,
              reloaded |-> FALSE, moves |-> FALSE]
NoAdding == [st |-> "none", parent |-> None]

Born(p) == {n \in Nodes : p[n] # Unborn}

Forests ==
  {p \in [Nodes -> Nodes \cup {None, Unborn}] :
     /\ \A S \in SUBSET Nodes : S # {} => \E n \in S : p[n] \notin S
     /\ \A n \in Nodes : p[n] \in Nodes => p[n] \in Born(p)}

Init ==
  /\ page \in Pages
  /\ parentOf \in Forests
  /\ live = Born(parentOf)
  /\ filter \in Filters
  /\ screen = Answered
  /\ answer = NoAnswer
  /\ selected = None
  /\ confirm = NoConfirm
  /\ removal = [c \in Calls |-> NoRemoval]
  /\ adding = NoAdding
  /\ strayed = FALSE
  /\ used = 0

Input == used < MaxInputs /\ used' = used + 1
Removing == {c \in Calls : removal[c].st # "none"}
Idle == Removing = {} /\ adding.st = "none"

\* The detail: of the selected node if the tree on screen has it.
Detail == IF selected \in screen.tree THEN selected ELSE None

---------------------------------------------------------------------------
(* The tree query *)

ServeTree ==
  /\ answer.st = "sent"
  /\ answer' = [answer EXCEPT !.st = "served", !.rows = Answered]
  /\ UNCHANGED <<page, parentOf, live, filter, screen, selected, confirm, removal,
                 adding, strayed, used>>

ReceiveTree ==
  /\ answer.st = "served"
  /\ screen' = answer.rows
  /\ answer' = NoAnswer
  /\ confirm' = [confirm EXCEPT !.reloaded = @ \/ confirm.node # None]
  /\ UNCHANGED <<page, parentOf, live, filter, selected, removal, adding, strayed, used>>

\* What is on screen stays, unless it was kept from another key.
FailTree ==
  /\ Input
  /\ answer.st # "idle"
  /\ answer' = NoAnswer
  /\ screen' \in {screen, NoRows}
  /\ confirm' = [confirm EXCEPT !.reloaded = @ \/ (confirm.node # None /\ screen' # screen)]
  /\ strayed' = TRUE
  /\ UNCHANGED <<page, parentOf, live, filter, selected, removal, adding>>

\* onTreeSearchChange, onToggleShowNonBuiltin: another key; the rows of the
\* last one stay until it is answered.
SetFilter(hidden) ==
  /\ Input
  /\ confirm.node = None
  /\ hidden # filter
  /\ filter' = hidden
  /\ answer' = [Asked EXCEPT !.first = TRUE]
  /\ UNCHANGED <<page, parentOf, live, screen, selected, confirm, removal, adding, strayed>>

\* A selection is certain to exist when it is on the server with nothing
\* under way that could remove it.
Select(n) ==
  /\ Input
  /\ confirm.node = None
  /\ n \in screen.rows
  /\ selected' = n
  /\ strayed' = (n \notin live \/ ~Idle)
  /\ UNCHANGED <<page, parentOf, live, filter, screen, answer, confirm, removal, adding>>

---------------------------------------------------------------------------
(* openAddChild, createMutation *)

\* The sheet is opened, filled in and saved; Escape may close it meanwhile.
AddChild(p) ==
  /\ Input
  /\ confirm.node = None
  /\ p \in screen.tree
  /\ adding.st = "none"
  /\ adding' = [st |-> "sent", parent |-> p]
  /\ selected' = p
  /\ strayed' = (p \notin live \/ Removing # {})
  /\ UNCHANGED <<page, parentOf, live, filter, screen, answer, confirm, removal>>

Create(n, p) ==
  /\ parentOf[n] = Unborn
  /\ parentOf' = [parentOf EXCEPT ![n] = p]
  /\ live' = live \cup {n}

ServeChild(n) ==
  /\ adding.st = "sent"
  /\ adding.parent \in live
  /\ Create(n, adding.parent)
  /\ adding' = [adding EXCEPT !.st = "served"]
  /\ UNCHANGED <<page, filter, screen, answer, selected, confirm, removal, strayed, used>>

\* onSuccess asks for the tree again, or joins the first load of its key, and waits.
AskAgain == answer' = IF answer.first THEN answer ELSE Asked

AnswerChild ==
  /\ adding.st = "served"
  /\ adding' = [adding EXCEPT !.st = "settling"]
  /\ AskAgain
  /\ UNCHANGED <<page, parentOf, live, filter, screen, selected, confirm, removal,
                 strayed, used>>

\* Permissions select the saved parent; the others that of the sheet, unless
\* it has been closed.
SettleChild ==
  /\ adding.st = "settling"
  /\ answer.st = "idle"
  /\ selected' \in IF page.reselects = "saved" THEN {adding.parent}
                   ELSE {adding.parent, selected}
  /\ strayed' = (strayed \/ (selected' # selected /\ (Removing # {} \/ selected' \notin live)))
  /\ adding' = NoAdding
  /\ UNCHANGED <<page, parentOf, live, filter, screen, answer, confirm, removal, used>>

\* The parent is gone, or the call fails.
FailChild ==
  /\ adding.st \in {"sent", "served"}
  /\ \/ adding.st = "sent" /\ adding.parent \notin live /\ UNCHANGED used
     \/ Input
  /\ adding' = NoAdding
  /\ UNCHANGED <<page, parentOf, live, filter, screen, answer, selected, confirm,
                 removal, strayed>>

---------------------------------------------------------------------------
(* removeRole, removeMenu, removePerm, removeDict and the alert dialog *)

\* A row that the tree does not contain counts as a leaf.
IsBranch(n) == n \in screen.branches

Ask(n) ==
  /\ Input
  /\ confirm.node = None
  /\ n \in screen.rows
  /\ confirm' = [node |-> n, up |-> parentOf[n], flag |-> IsBranch(n),
                 says |-> IF IsBranch(n) THEN "branch" ELSE "leaf", reloaded |-> FALSE]
  /\ UNCHANGED <<page, parentOf, live, filter, screen, answer, selected, removal, adding,
                 strayed>>

\* Mutant of Cascades: every page looks at the latest rows.
CascadesLatest == IsBranch(confirm.node)

\* The flag of the row that was asked about, or the tree as it is now.
Cascades == IF page.flag THEN confirm.flag ELSE IsBranch(confirm.node)

\* The button stays enabled while its call is pending.
Confirm(c) ==
  /\ confirm.node # None
  /\ removal[c].st = "none"
  /\ removal' = [removal EXCEPT ![c] =
       [NoRemoval EXCEPT !.st = "sent", !.node = confirm.node, !.up = confirm.up,
          !.says = confirm.says, !.cascade = Cascades, !.reloaded = confirm.reloaded]]
  /\ UNCHANGED <<page, parentOf, live, filter, screen, answer, selected, confirm, adding,
                 strayed, used>>

\* Cancel, Escape.
Cancel ==
  /\ confirm.node # None
  /\ confirm' = NoConfirm
  /\ UNCHANGED <<page, parentOf, live, filter, screen, answer, selected, removal, adding,
                 strayed, used>>

Taken(c) == IF removal[c].cascade THEN Branch(removal[c].node) ELSE {removal[c].node}

\* remove refuses a row with children.
Refused(c) ==
  \/ removal[c].node \notin live
  \/ ~removal[c].cascade /\ ChildrenOf(removal[c].node, live) # {}

ServeRemoval(c) ==
  /\ removal[c].st = "sent"
  /\ ~Refused(c)
  /\ live' = live \ Taken(c)
  /\ removal' = [removal EXCEPT ![c].st = "served"]
  /\ strayed' = (strayed \/ Removing # {c} \/ adding.st # "none"
                         \/ selected \in Taken(c) \ {removal[c].node})
  /\ UNCHANGED <<page, parentOf, filter, screen, answer, selected, confirm, adding, used>>

\* onSuccess knows the selection of this moment, then waits for the tree.
AnswerRemoval(c) ==
  /\ removal[c].st = "served"
  /\ removal' = [removal EXCEPT ![c].st = "settling", ![c].moves = (Detail = removal[c].node)]
  /\ AskAgain
  /\ strayed' = (strayed \/ selected \notin screen.tree \cup {None})
  /\ UNCHANGED <<page, parentOf, live, filter, screen, selected, confirm, adding, used>>

\* Mutant of Reselected: the selection is left alone.
ReselectedNever(c) == selected

\* The parent of the removed row is selected, whatever was selected meanwhile.
Reselected(c) == IF removal[c].moves THEN removal[c].up ELSE selected

\* The dialog that is open by now is closed.
SettleRemoval(c) ==
  /\ removal[c].st = "settling"
  /\ answer.st = "idle"
  /\ selected' = Reselected(c)
  /\ removal' = [removal EXCEPT ![c] = NoRemoval]
  /\ confirm' = NoConfirm
  /\ UNCHANGED <<page, parentOf, live, filter, screen, answer, adding, strayed, used>>

FailRemoval(c) ==
  /\ \/ removal[c].st = "sent" /\ Refused(c) /\ UNCHANGED <<used, strayed>>
     \/ removal[c].st \in {"sent", "served"} /\ Input /\ strayed' = TRUE
  /\ removal' = [removal EXCEPT ![c] = NoRemoval]
  /\ confirm' = NoConfirm
  /\ UNCHANGED <<page, parentOf, live, filter, screen, answer, selected, adding>>

\* Another administrator adds a row, or removes a branch.
OtherAdds(n, p) ==
  /\ Input
  /\ p \in live
  /\ Create(n, p)
  /\ UNCHANGED <<page, filter, screen, answer, selected, confirm, removal, adding, strayed>>

OtherRemoves(n) ==
  /\ Input
  /\ n \in live
  /\ live' = live \ Branch(n)
  /\ strayed' = TRUE
  /\ UNCHANGED <<page, parentOf, filter, screen, answer, selected, confirm, removal, adding>>

---------------------------------------------------------------------------
Next ==
  \/ ServeTree \/ ReceiveTree \/ FailTree \/ \E hidden \in Filters : SetFilter(hidden)
  \/ \E n \in Nodes : Select(n) \/ AddChild(n) \/ ServeChild(n) \/ Ask(n) \/ OtherRemoves(n)
  \/ \E n, p \in Nodes : OtherAdds(n, p)
  \/ AnswerChild \/ SettleChild \/ FailChild \/ Cancel
  \/ \E c \in Calls :
       Confirm(c) \/ ServeRemoval(c) \/ AnswerRemoval(c) \/ SettleRemoval(c) \/ FailRemoval(c)

Spec == Init /\ [][Next]_treeVars

---------------------------------------------------------------------------
RowSets == [tree : SUBSET Nodes, rows : SUBSET Nodes, branches : SUBSET Nodes]
NodeOrNone == Nodes \cup {None}
Sayings == {"none", "leaf", "branch"}

(* Types of the rows, the confirmation and the calls.                       *)
TypeOK ==
  /\ page \in Pages
  /\ parentOf \in [Nodes -> Nodes \cup {None, Unborn}]
  /\ live \in SUBSET Nodes
  /\ filter \in Filters /\ strayed \in BOOLEAN
  /\ screen \in RowSets
  /\ answer \in [st : {"idle", "sent", "served"}, rows : RowSets, first : BOOLEAN]
  /\ selected \in NodeOrNone
  /\ confirm \in [node : NodeOrNone, up : NodeOrNone, says : Sayings, flag : BOOLEAN,
                   reloaded : BOOLEAN]
  /\ removal \in [Calls -> [st : {"none", "sent", "served", "settling"}, node : NodeOrNone,
                             up : NodeOrNone, says : Sayings, cascade : BOOLEAN,
                             reloaded : BOOLEAN, moves : BOOLEAN]]
  /\ adding \in [st : {"none", "sent", "served", "settling"}, parent : NodeOrNone]

\* The removal c is served by this step, and rows below its own go with it.
TakesBranch(c) ==
  /\ removal[c].st = "sent" /\ removal'[c].st = "served"
  /\ live \ live' # {removal[c].node}

AskedAbout(c) == removal[c].says = "branch" \/ (removal[c].reloaded /\ ~page.flag)

ToldStep == \A c \in Calls : TakesBranch(c) => AskedAbout(c)

(* A removal takes rows below the confirmed one only if the dialog said so, *)
(* or, on the pages of roles, menus and permissions, the tree was reloaded  *)
(* between the question and the confirmation.                               *)
ToldBeforeCascade == [][ToldStep]_treeVars

(* Once everything is answered, the selected row exists, so that its detail *)
(* can be shown, unless others removed rows, calls failed or overlapped, or *)
(* the selected row was left out of the tree, below the removed row, or     *)
(* selected after its removal.                                              *)
SelectionAlive ==
  Idle /\ answer.st = "idle" /\ ~strayed => selected \in live \cup {None}
=============================================================================
