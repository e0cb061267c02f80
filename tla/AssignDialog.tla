---------------------------- MODULE AssignDialog ----------------------------
(***************************************************************************)
(* The dialogs that replace the menus or permissions of a role, and the    *)
(* roles of a user: the query cache they show, the draft the administrator *)
(* edits, the save and what its success handler writes back, beside other  *)
(* administrators.  Query and mutation semantics are TanStack Query's      *)
(* (external).  Menus and permissions form a tree, where a parent is       *)
(* selected exactly with all its children; roles of a user are a flat list *)
(* without cache write-back.                                               *)
(***************************************************************************)
EXTENDS Integers, FiniteSets

CONSTANTS
  Owners,     \* roles (or users) whose assignment is edited
  Nodes,      \* menus, permissions or roles that can be assigned
  None,       \* nothing
  MaxInputs,  \* bound on openings, toggles and assignments by others
  MaxFails    \* bound on failed calls

ConstantsOK ==
  /\ None \notin Owners /\ None \notin Nodes /\ \A ids \in SUBSET Nodes : ids # None
  /\ MaxInputs \in Nat /\ MaxFails \in Nat

VARIABLES
  kind,      \* "tree": menus and permissions of roles; "flat": roles of users
  parent,    \* the tree of assignable nodes
  assigned,  \* the server's rows
  tree,      \* the query of the tree: "none", "loading", "loaded" or "error"
  entry,     \* the cached assignment of each owner
  fetch,     \* the fetch of each owner's assignment
  dialog,    \* the open dialog with its draft
  save,      \* the pending mutation
  bounds     \* spent bounds

rows == <<kind, parent, assigned>>
vars == <<rows, tree, entry, fetch, dialog, save, bounds>>

NoEntry == [ids |-> None, owner |-> None, behind |-> FALSE]
NoFetch == [st |-> "idle", ids |-> {}]
Closed == [owner |-> None, base |-> {}, draft |-> {}, from |-> None, touched |-> {}]
NoSave == [st |-> "none", owner |-> None, ids |-> {}, base |-> {}, from |-> None,
           touched |-> {}, at |-> None, loaded |-> FALSE]

---------------------------------------------------------------------------
(* The tree of checkboxes *)

Children(n) == {c \in Nodes : parent[c] = n}
Leaf(n) == Children(n) = {}

\* Sets that hold the parents of their nodes.
Rising(S) == \A m \in S : parent[m] # None => parent[m] \in S

\* n with its ancestors, the least such set; n with its descendants.
Ancestry(n) == {a \in Nodes : \A S \in SUBSET Nodes : n \in S /\ Rising(S) => a \in S}
Subtree(n) == {d \in Nodes : n \in Ancestry(d)}

\* buildInitialTreeState: assigned leaves of the loaded tree, and from the leaves
\* up the parents all of whose children are selected.
Initial(ids) ==
  IF kind = "flat" THEN ids
  ELSE {n \in Nodes : \A leaf \in Subtree(n) : Leaf(leaf) => leaf \in ids}

\* The walk up after a selection: it stops below the first ancestor with a
\* child that is not selected, but for the one the walk came from.
Climbed(n, ids) ==
  LET up == Ancestry(n) IN
  ids \cup {a \in up :
             \A b \in (up \cap Subtree(a)) \ {n} : Children(b) \subseteq ids \cup up}

Deselected(n, draft) == draft \ (Subtree(n) \cup Ancestry(n))

Toggled(n, draft) ==
  CASE kind = "flat" /\ n \in draft    -> draft \ {n}
    [] kind = "flat" /\ n \notin draft -> draft \cup {n}
    [] kind # "flat" /\ n \in draft    -> Deselected(n, draft)
    [] OTHER -> Climbed(n, draft \cup Subtree(n))

Forests ==
  {p \in [Nodes -> Nodes \cup {None}] :
     \A S \in SUBSET Nodes : S # {} => \E n \in S : p[n] \notin S}

Init ==
  /\ kind \in {"tree", "flat"}
  /\ parent \in IF kind = "flat" THEN {[n \in Nodes |-> None]} ELSE Forests
  /\ assigned \in [Owners -> SUBSET Nodes]
  /\ tree = IF kind = "flat" THEN "loaded" ELSE "none"
  /\ entry = [o \in Owners |-> NoEntry]
  /\ fetch = [o \in Owners |-> NoFetch]
  /\ dialog = Closed
  /\ save = NoSave
  /\ bounds = [inputs |-> 0, fails |-> 0]

---------------------------------------------------------------------------
(* Queries *)

Spend(b, max) == bounds[b] < max /\ bounds' = [bounds EXCEPT ![b] = @ + 1]
HasData(o) == entry[o].ids # None

Loading(o) == tree = "loading" \/ (~HasData(o) /\ fetch[o].st # "idle")

\* What the dialog of o shows: nothing without the tree or the assignment.
Shown(e, t) == IF t # "loaded" \/ e.ids = None THEN {} ELSE e.ids

\* Mutant of Remounted: the draft survives an answer that changes its base.
RemountedKeepsDraft(d, e, t) ==
  IF d.owner = None THEN d
  ELSE [d EXCEPT !.base = Shown(e[d.owner], t), !.from = e[d.owner].owner]

\* The dialog is remounted with a fresh draft when what it shows changes
\* (buildDialogResetKey).
Remounted(d, e, t) ==
  LET ids == Shown(e[d.owner], t)
      from == e[d.owner].owner
  IN
  CASE d.owner = None -> d
    [] d.owner # None /\ ids = d.base -> [d EXCEPT !.from = from]
    [] OTHER -> [owner |-> d.owner, base |-> ids, draft |-> Initial(ids), from |-> from,
                 touched |-> {}]

\* Opening joins a fetch under way; an invalidation replaces it, once there
\* is data.
Joined(o) == IF fetch[o].st = "idle" THEN [fetch EXCEPT ![o].st = "sent"] ELSE fetch
RefetchedJoined(o, e) == Joined(o)  \* mutant of Refetched
Refetched(o, e) ==
  IF e[o].ids # None THEN [fetch EXCEPT ![o] = [NoFetch EXCEPT !.st = "sent"]] ELSE Joined(o)

\* The server reads the rows: what this fetch brings is up to date now.
ServeFetch(o) ==
  /\ fetch[o].st = "sent"
  /\ fetch' = [fetch EXCEPT ![o] = [st |-> "served", ids |-> assigned[o]]]
  /\ entry' = [entry EXCEPT ![o].behind = FALSE]
  /\ UNCHANGED <<rows, tree, dialog, save, bounds>>

ReceiveFetch(o) ==
  /\ fetch[o].st = "served"
  /\ fetch' = [fetch EXCEPT ![o] = NoFetch]
  /\ entry' = [entry EXCEPT ![o].ids = fetch[o].ids, ![o].owner = o]
  /\ dialog' = Remounted(dialog, entry', tree)
  /\ UNCHANGED <<rows, tree, save, bounds>>

\* The fetch fails, its retry included: what was cached stays.
FailFetch(o) ==
  /\ Spend("fails", MaxFails)
  /\ fetch[o].st # "idle"
  /\ fetch' = [fetch EXCEPT ![o] = NoFetch]
  /\ entry' = [entry EXCEPT ![o].behind = TRUE]
  /\ UNCHANGED <<rows, tree, dialog, save>>

ReceiveTree ==
  /\ tree = "loading"
  /\ tree' = "loaded"
  /\ dialog' = Remounted(dialog, entry, tree')
  /\ UNCHANGED <<rows, entry, fetch, save, bounds>>

FailTree ==
  /\ Spend("fails", MaxFails)
  /\ tree = "loading"
  /\ tree' = "error"
  /\ UNCHANGED <<rows, entry, fetch, dialog, save>>

---------------------------------------------------------------------------
(* The dialog *)

\* Both queries are enabled by the open dialog.
Open(o) ==
  /\ Spend("inputs", MaxInputs)
  /\ dialog.owner = None
  /\ tree' = IF tree \in {"none", "error"} THEN "loading" ELSE tree
  /\ fetch' = Joined(o)
  /\ LET ids == Shown(entry[o], tree') IN
     dialog' = [owner |-> o, base |-> ids, draft |-> Initial(ids),
                from |-> entry[o].owner, touched |-> {}]
  /\ UNCHANGED <<rows, entry, save>>

\* Escape and the backdrop close the dialog even while a save is pending.
Close ==
  /\ dialog.owner # None
  /\ dialog' = Closed
  /\ UNCHANGED <<rows, tree, entry, fetch, save, bounds>>

Toggle(n) ==
  /\ Spend("inputs", MaxInputs)
  /\ dialog.owner # None
  /\ ~Loading(dialog.owner)
  /\ tree = "loaded"
  /\ dialog' = [dialog EXCEPT !.draft = Toggled(n, @), !.touched = @ \cup Subtree(n)]
  /\ UNCHANGED <<rows, tree, entry, fetch, save>>

\* The save button is disabled while the queries load and while a save of any
\* owner is pending.
Save ==
  /\ dialog.owner # None
  /\ ~Loading(dialog.owner)
  /\ save.st = "none"
  /\ save' = [st |-> "sent", owner |-> dialog.owner, ids |-> dialog.draft,
              base |-> dialog.base, from |-> dialog.from, touched |-> dialog.touched,
              at |-> None, loaded |-> tree = "loaded" /\ HasData(dialog.owner)]
  /\ UNCHANGED <<rows, tree, entry, fetch, dialog, bounds>>

ServeSave ==
  /\ save.st = "sent"
  /\ save' = [NoSave EXCEPT !.st = "served", !.owner = save.owner, !.ids = save.ids]
  /\ assigned' = [assigned EXCEPT ![save.owner] = save.ids]
  /\ UNCHANGED <<kind, parent, tree, entry, fetch, dialog, bounds>>

\* onSuccess reads the owner of the dialog as it is now: it caches the saved
\* ids there (menus and permissions) and refetches that assignment.  An owner
\* the dialog has left keeps its old entry, and one whose assignment never
\* loaded may join a fetch that read the rows before the save.
SaveSucceeds ==
  LET at == dialog.owner
      left == [entry EXCEPT ![save.owner].behind =
                 @ \/ at # save.owner \/ (kind = "flat" /\ ~HasData(at))]
  IN
  /\ save.st = "served"
  /\ save' = [NoSave EXCEPT !.st = "settling", !.at = at]
  /\ entry' = IF at = None \/ kind = "flat" THEN left
              ELSE [left EXCEPT ![at].ids = save.ids, ![at].owner = save.owner]
  /\ fetch' = IF at = None THEN fetch ELSE Refetched(at, entry')
  /\ dialog' = Remounted(dialog, entry', tree)
  /\ UNCHANGED <<rows, tree, bounds>>

\* Once the refetch is over, the dialog that is open then is closed.
SaveSettles ==
  /\ save.st = "settling"
  /\ save.at # None => fetch[save.at].st = "idle"
  /\ save' = NoSave
  /\ dialog' = Closed
  /\ UNCHANGED <<rows, tree, entry, fetch, bounds>>

\* The call fails, before or after the rows were replaced; the dialog stays.
SaveFails ==
  /\ Spend("fails", MaxFails)
  /\ save.st \in {"sent", "served"}
  /\ entry' = [entry EXCEPT ![save.owner].behind = @ \/ save.st = "served"]
  /\ save' = NoSave
  /\ UNCHANGED <<rows, tree, fetch, dialog>>

\* Another administrator assigns.
OtherAssigns(o, ids) ==
  /\ Spend("inputs", MaxInputs)
  /\ assigned' = [assigned EXCEPT ![o] = ids]
  /\ entry' = [entry EXCEPT ![o].behind = TRUE]
  /\ UNCHANGED <<kind, parent, tree, fetch, dialog, save>>

---------------------------------------------------------------------------
Next ==
  \/ \E o \in Owners :
       \/ Open(o) \/ ServeFetch(o) \/ ReceiveFetch(o) \/ FailFetch(o)
       \/ \E n \in Nodes : OtherAssigns(o, Toggled(n, assigned[o]))
  \/ \E n \in Nodes : Toggle(n)
  \/ ReceiveTree \/ FailTree \/ Close
  \/ Save \/ ServeSave \/ SaveSucceeds \/ SaveSettles \/ SaveFails

Spec == Init /\ [][Next]_vars

---------------------------------------------------------------------------
OwnerOrNone == Owners \cup {None}

(* Every variable has its type: rows, cached assignments, draft and save.   *)
TypeOK ==
  /\ kind \in {"tree", "flat"}
  /\ parent \in [Nodes -> Nodes \cup {None}]
  /\ assigned \in [Owners -> SUBSET Nodes]
  /\ tree \in {"none", "loading", "loaded", "error"}
  /\ entry \in [Owners -> [ids : (SUBSET Nodes) \cup {None}, owner : OwnerOrNone,
                            behind : BOOLEAN]]
  /\ fetch \in [Owners -> [st : {"idle", "sent", "served"}, ids : SUBSET Nodes]]
  /\ dialog \in [owner : OwnerOrNone, base : SUBSET Nodes, draft : SUBSET Nodes,
                  from : OwnerOrNone, touched : SUBSET Nodes]
  /\ save \in [st : {"none", "sent", "served", "settling"}, owner : OwnerOrNone,
                ids : SUBSET Nodes, base : SUBSET Nodes, from : OwnerOrNone,
                touched : SUBSET Nodes, at : OwnerOrNone, loaded : BOOLEAN]

(* Whatever boxes were toggled in whatever order, a parent is selected      *)
(* exactly when all its children are, which the comment in                  *)
(* buildInitialTreeState promises for the first draft only.                 *)
DraftReconciled ==
  kind = "tree" /\ dialog.owner # None /\ tree = "loaded" =>
    \A n \in Nodes : ~Leaf(n) => (n \in dialog.draft <=> Children(n) \subseteq dialog.draft)

(* A save changes a leaf only when the administrator toggled it or one of   *)
(* its ancestors in the draft that was saved: answers that arrive while the *)
(* dialog is open restart the draft as a whole.                             *)
UntouchedLeavesKept ==
  save.st = "sent" /\ save.loaded =>
    \A n \in Nodes :
      Leaf(n) /\ n \notin save.touched => (n \in save.ids <=> n \in save.base)

(* A cached assignment with nothing in flight is the one the server has,    *)
(* unless a call failed, another administrator assigned since, or a save of *)
(* this owner settled while the dialog was away from it: a refetch after a  *)
(* save never settles for rows read before it.                              *)
SettledEntryCurrent ==
  \A o \in Owners :
    HasData(o) /\ fetch[o].st = "idle" /\ save.st = "none" /\ ~entry[o].behind =>
      entry[o].ids = assigned[o]

(* A save never sends a draft made without the tree or the assignment, or   *)
(* from the ids written under this owner for another one, as long as no     *)
(* call failed.                                                             *)
BlindSaveNeedsFailure ==
  save.st = "sent" /\ (~save.loaded \/ save.from # save.owner) => bounds.fails > 0

(* What a save sends is what the administrator chose for this owner: the   *)
(* draft stays a selection of whole branches, leaves nobody toggled keep    *)
(* their state, the cached assignment it starts from is the server's, and   *)
(* no draft is made of missing data, each but for the cause named above.    *)
SavesAreMeant ==
  /\ DraftReconciled
  /\ UntouchedLeavesKept
  /\ SettledEntryCurrent
  /\ BlindSaveNeedsFailure
=============================================================================
