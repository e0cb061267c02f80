------------------------------ MODULE RowMenus ------------------------------
(***************************************************************************)
(* What an administrator is offered on the management pages, and what      *)
(* happens to an action already under way when the permissions behind the  *)
(* offer change.  Every page draws its buttons from the permission codes   *)
(* of one shared query, the header context, which is read again behind the *)
(* page's back: when the window regains focus, and after an assignment.    *)
(***************************************************************************)
EXTENDS Integers

CONSTANTS None, MaxInputs  \* nothing; bound on choices, focuses, others' changes, failures

VARIABLES
  desk,     \* the page that is open
  granted,  \* codes the server grants the administrator now
  context,  \* the header context query: status, codes, and whether they were
            \* read before the administrator's last own assignment
  header,   \* the fetch of the header context under way
  branch,   \* whether the page sees children under the row that is acted on
  task,     \* the action under way
  outcome,  \* how the last attempt ended
  used      \* spent bound

menuVars == <<desk, granted, context, header, branch, task, outcome, used>>

\* The menu of a row, of a node of the tree, and the buttons of the detail.
UserRow == {"edit", "assignRoles", "delete"}
ClientRow == {"edit", "rotate", "delete"}
RoleRow == {"addChild", "edit", "assignMenus", "assignPerms", "delete"}
RoleNode == RoleRow
RolePanel == {"addChild", "edit"}
MenuRow == {"addChild", "edit", "copy", "delete"}
MenuNode == MenuRow \ {"copy"}
MenuPanel == {"addChild", "edit"}
PermRow == {"addChild", "edit", "copy", "delete"}
PermNode == PermRow \ {"copy"}
PermPanel == {"addChild", "edit"}
DictRow == {"addChild", "edit", "delete"}
DictNode == DictRow
DictPanel == {"addChild", "edit"}
TenantRow == {"addChild", "edit", "delete"}
TenantNode == TenantRow
TenantPanel == {"addChild", "edit"}

\* What each page shows, its "create" button included.
UsersPage == UserRow \cup {"create"}
ClientsPage == ClientRow \cup {"create"}
RolesPage == RoleRow \cup RoleNode \cup RolePanel \cup {"create"}
MenusPage == MenuRow \cup MenuNode \cup MenuPanel \cup {"create"}
PermsPage == PermRow \cup PermNode \cup PermPanel \cup {"create"}
DictsPage == DictRow \cup DictNode \cup DictPanel \cup {"create"}
TenantsPage == TenantRow \cup TenantNode \cup TenantPanel \cup {"create"}

Desks == [users |-> UsersPage, clients |-> ClientsPage, roles |-> RolesPage, menus |-> MenusPage,
          perms |-> PermsPage, dicts |-> DictsPage, tenants |-> TenantsPage]

\* Mutant of DeletePerm: the permission to remove one row is enough for a branch.
DeletePermOfLeaf(below) == "remove"

\* Removing a row asks for another permission than removing a branch.
DeletePerm(below) == IF below THEN "removeCascade" ELSE "remove"

\* The permission an item is shown with, page by page ("permissions").
UserCan(below) ==
  [create |-> "create", edit |-> "update", assignRoles |-> "assignRoles", delete |-> "remove"]
ClientCan(below) ==
  [create |-> "create", edit |-> "update", rotate |-> "rotateSecret", delete |-> "remove"]
RoleCan(below) ==
  [create |-> "create", addChild |-> "create", edit |-> "update", assignMenus |-> "assignMenus",
   assignPerms |-> "assignPerms", delete |-> DeletePerm(below)]

MenuCan(below) ==
  [create |-> "create", addChild |-> "create", edit |-> "update", copy |-> "create",
   delete |-> DeletePerm(below)]
PermCan(below) == MenuCan(below)
DictCan(below) ==
  [create |-> "create", addChild |-> "create", edit |-> "update", delete |-> DeletePerm(below)]
TenantCan(below) == DictCan(below)

Can(item, below) ==
  CASE desk = "users" -> UserCan(below)[item]
    [] desk = "clients" -> ClientCan(below)[item]
    [] desk = "roles" -> RoleCan(below)[item]
    [] desk = "menus" -> MenuCan(below)[item]
    [] desk = "perms" -> PermCan(below)[item]
    [] desk = "dicts" -> DictCan(below)[item]
    [] desk = "tenants" -> TenantCan(below)[item]

\* The permission the handlers ask for when an item is chosen, and again when
\* its form is saved: a form that adds a row needs "create", whichever item
\* opened it, and a removal is checked against the row it was asked about.
AddGuard(item) == item \in {"create", "addChild", "copy"}
AssignGuard(item) == item \in {"assignRoles", "assignMenus", "assignPerms"}
DeleteGuard(below) == IF desk \in {"users", "clients"} THEN "remove" ELSE DeletePerm(below)

Guard(item, below) ==
  CASE AddGuard(item) -> "create"
    [] item = "edit" -> "update"
    [] AssignGuard(item) -> item
    [] item = "rotate" -> "rotateSecret"
    [] item = "delete" -> DeleteGuard(below)

\* Assignments, and the tenant form, may change the administrator's own codes.
Assigns(item) ==
  item \in {"assignRoles", "assignMenus", "assignPerms"} \/ (desk = "tenants" /\ item = "edit")

\* Pages that look for children in the tree they hold when the call is made;
\* dictionaries and tenants go by the row the question was asked about.
LooksAgain == desk \in {"roles", "menus", "perms"}

isReady == context.st = "success"

hasPerm(code) == isReady /\ code \in context.codes

NoTask == [item |-> None, st |-> "none", below |-> FALSE, cascades |-> FALSE, could |-> FALSE,
           renewed |-> FALSE, failed |-> FALSE, reread |-> FALSE]

AllCodes(d) ==
  LET tree == {"create", "update", "remove", "removeCascade"}
  IN  CASE d = "users" -> {"create", "update", "assignRoles", "remove"}
        [] d = "clients" -> {"create", "update", "rotateSecret", "remove"}
        [] d = "roles" -> tree \cup {"assignMenus", "assignPerms"}
        [] OTHER -> tree

Init ==
  /\ desk \in DOMAIN Desks
  /\ granted = AllCodes(desk)
  /\ context = [st |-> "success", codes |-> granted, old |-> FALSE]
  /\ header = None
  /\ branch \in BOOLEAN
  /\ task = NoTask
  /\ outcome = "none"
  /\ used = 0

NoInput == /\ used < MaxInputs /\ used' = used + 1

Open(st, item) ==
  [NoTask EXCEPT !.item = item, !.st = st, !.below = branch,
                 !.could = isReady /\ "removeCascade" \in context.codes]

\* Somebody changes what the administrator may do.
Regrant(code) ==
  granted' = IF code \in granted THEN granted \ {code} ELSE granted \cup {code}

OthersChange ==
  /\ NoInput
  /\ \E code \in AllCodes(desk) : Regrant(code)
  /\ UNCHANGED <<desk, context, header, branch, task, outcome>>

\* The window regains focus a minute or more after the codes were read.
Focus ==
  /\ NoInput /\ header = None
  /\ header' = [st |-> "asked"]
  /\ UNCHANGED <<desk, granted, context, branch, task, outcome>>

ServeHeader ==
  /\ header # None /\ header.st = "asked"
  /\ header' = [st |-> "served", codes |-> granted, old |-> FALSE]
  /\ UNCHANGED <<desk, granted, context, branch, task, outcome, used>>

\* An assignment dialog stays open until the codes are read again, or cannot be.
Settled(t) == IF t.st = "refreshing" THEN NoTask ELSE t
SettledOutcome == IF task.st = "refreshing" THEN "saved" ELSE outcome

HeaderAnswers ==
  /\ header # None /\ header.st = "served"
  /\ context' = [st |-> "success", codes |-> header.codes, old |-> header.old]
  /\ header' = None
  /\ task' = Settled([task EXCEPT !.renewed = task # NoTask])
  /\ outcome' = SettledOutcome
  /\ UNCHANGED <<desk, granted, branch, used>>

\* The codes stay, the status does not.
HeaderFails ==
  /\ NoInput /\ header # None
  /\ context' = [context EXCEPT !.st = "error"]
  /\ header' = None
  /\ task' = Settled([task EXCEPT !.failed = task # NoTask])
  /\ outcome' = SettledOutcome
  /\ UNCHANGED <<desk, granted, branch>>

\* A read of the tree or the list that was under way is answered.
Reread ==
  /\ NoInput
  /\ branch' = ~branch
  /\ task' = [task EXCEPT !.reread = task # NoTask]
  /\ UNCHANGED <<desk, granted, context, header, outcome>>

Offered(item) == item \in Desks[desk] /\ hasPerm(Can(item, branch))

\* guardPerm: silent while the codes are not known, a warning when one is missing.
Refusal == IF isReady THEN "forbidden" ELSE "quiet"

\* Forms and questions open; a new secret is asked for at once.
Choose(item) ==
  /\ NoInput /\ task.st = "none" /\ Offered(item)
  /\ IF hasPerm(Guard(item, branch))
       THEN /\ outcome' = "none"
            /\ task' = Open(IF item = "rotate" THEN "sent" ELSE "open", item)
       ELSE /\ outcome' = Refusal /\ task' = task
  /\ UNCHANGED <<desk, granted, context, header, branch>>

\* Saving a form asks for the permission once more.
Save ==
  /\ task.st = "open" /\ task.item # "delete"
  /\ IF hasPerm(Guard(task.item, branch))
       THEN task' = [task EXCEPT !.st = "sent"] /\ outcome' = "none"
       ELSE outcome' = Refusal /\ task' = task
  /\ UNCHANGED <<desk, granted, context, header, branch, used>>

\* Answering the question does not; the page settles which removal is called.
Confirm ==
  /\ task.st = "open" /\ task.item = "delete"
  /\ task' = [task EXCEPT !.st = "sent",
                          !.cascades = desk \notin {"users", "clients"}
                                       /\ IF LooksAgain THEN branch ELSE task.below]
  /\ UNCHANGED <<desk, granted, context, header, branch, outcome, used>>

Close ==
  /\ task.st = "open"
  /\ task' = NoTask
  /\ outcome' = "none"
  /\ UNCHANGED <<desk, granted, context, header, branch, used>>

\* The server does it: codes read before an assignment are old from now on.
Commit ==
  /\ task.st = "sent"
  /\ task' = [task EXCEPT !.st = "done"]
  /\ IF Assigns(task.item)
       THEN /\ \/ UNCHANGED granted
               \/ \E code \in AllCodes(desk) : Regrant(code)
            /\ context' = [context EXCEPT !.old = TRUE]
            /\ header' = IF header # None /\ header.st = "served" THEN [header EXCEPT !.old = TRUE]
                         ELSE header
       ELSE UNCHANGED <<granted, context, header>>
  /\ UNCHANGED <<desk, branch, outcome, used>>

\* The saves after which the header context is invalidated, and awaited.
Refreshes(item) == Assigns(item)

\* An invalidation gives up the fetch under way and starts another.
Answer ==
  /\ task.st = "done"
  /\ IF Refreshes(task.item)
       THEN /\ header' = [st |-> "asked"]
            /\ task' = [task EXCEPT !.st = "refreshing"]
            /\ UNCHANGED outcome
       ELSE /\ task' = NoTask /\ outcome' = "saved"
            /\ UNCHANGED header
  /\ UNCHANGED <<desk, granted, context, branch, used>>

\* The call fails: a form stays with its text, a question is closed.
Fail ==
  /\ NoInput /\ task.st = "sent"
  /\ task' = IF task.item \in {"rotate", "delete"} THEN NoTask ELSE [task EXCEPT !.st = "open"]
  /\ UNCHANGED <<desk, granted, context, header, branch, outcome>>

Next ==
  \/ OthersChange \/ Focus \/ ServeHeader \/ HeaderAnswers \/ HeaderFails \/ Reread
  \/ \E item \in UNION {Desks[d] : d \in DOMAIN Desks} : Choose(item)
  \/ Save \/ Confirm \/ Close \/ Commit \/ Answer \/ Fail

Spec == Init /\ [][Next]_menuVars

-----------------------------------------------------------------------------

\* Type invariant.
TypeOK ==
  /\ desk \in DOMAIN Desks
  /\ granted \subseteq AllCodes(desk) /\ context.codes \subseteq AllCodes(desk)
  /\ context.st \in {"success", "error"} /\ context.old \in BOOLEAN
  /\ header # None => header.st \in {"asked", "served"}
  /\ branch \in BOOLEAN
  /\ task.item # None => task.item \in Desks[desk]
  /\ task.st \in {"none", "open", "sent", "done", "refreshing"}
  /\ outcome \in {"none", "forbidden", "quiet", "saved"}

\* Saving does nothing, without a word, only if reading the permission codes
\* failed while the form was open (guardPerm returns false without a message
\* while the shared query is not in the state "success").
QuietNeedsFailure == outcome = "quiet" => task.failed

\* "You are not allowed" appears only if the codes were read again after the
\* action was offered: what a page offers, its handlers accept.
ForbiddenNeedsRevocation == outcome = "forbidden" => task.renewed

\* Children are removed with their row only if the administrator was seen to be
\* allowed to remove a branch when the question was asked, or the page has read
\* the rows again since, and found children.
CascadeNeedsPermission ==
  task.st = "sent" /\ task.cascades => task.could \/ (LooksAgain /\ task.reread)

\* Once an assignment is reported as saved, no page offers actions by codes that
\* were read before it: the codes are newer, or known to be unreadable.
OwnAssignmentSeen == outcome = "saved" => ~context.old \/ context.st = "error"

\* What the menus offer can be done: rights vanish only with a failed read, are
\* refused only after a revocation, never cover more rows than were seen, and
\* follow the administrator's own assignments.
ActionsAsOffered ==
  /\ QuietNeedsFailure
  /\ ForbiddenNeedsRevocation
  /\ CascadeNeedsPermission
  /\ OwnAssignmentSeen

=============================================================================
