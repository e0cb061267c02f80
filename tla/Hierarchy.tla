----------------------------- MODULE Hierarchy -----------------------------
(***************************************************************************)
(* The trees of tenants, roles, menus and permissions: a table whose rows  *)
(* carry a parent_id without a foreign key, and concurrent create, update, *)
(* delete and remove_cascade requests that check the tree and then change  *)
(* it in separate statements.  The four services share this code shape;    *)
(* only permissions can be moved to the root.                              *)
(***************************************************************************)
EXTENDS Integers

CONSTANTS
  Nodes,    \* row ids, each generated once
  Calls,    \* requests served at the same time
  Absent,   \* no row with this id
  None,     \* SQL NULL: the row is a root
  Keep,     \* an update that names no parent
  Root      \* an update that moves to the root

ASSUME NamesAssumption ==
  /\ {Absent, None, Keep, Root} \cap Nodes = {}
  /\ Absent # None /\ Keep # Root

VARIABLES
  parent,     \* parent_id of every row
  used,       \* ids generated so far
  call,       \* the progress of each request
  moves,      \* history: two updates overlapped
  mixed       \* history: a removal overlapped a create or an update

history == <<moves, mixed>>
vars == <<parent, used, call, history>>

Idle ==
  [op |-> "none", pc |-> "idle", node |-> None, to |-> None, loaded |-> None,
   batch |-> {}, left |-> {}]

Rows == {n \in Nodes : parent[n] # Absent}
Children(n) == {m \in Rows : parent[m] = n}

\* No row is its own ancestor.
IsForest(f) ==
  \A S \in SUBSET {n \in Nodes : f[n] # Absent} : S # {} => \E n \in S : f[n] \notin S

\* find_descendant_ids: n and everything below it.
Descendants(n) ==
  {m \in Rows :
     /\ n \in Rows
     /\ \A S \in SUBSET Rows : n \in S /\ (\A x \in Rows : parent[x] \in S => x \in S) => m \in S}

\* The recursive query returns unless the rows below n contain a cycle.
Returns(n) ==
  \A S \in SUBSET Descendants(n) : S # {} => \E x \in S : parent[x] \notin S

---------------------------------------------------------------------------
Init ==
  /\ parent \in [Nodes -> Nodes \cup {None, Absent}]
  /\ IsForest(parent)
  /\ \A n \in Rows : parent[n] \in Rows \cup {None}
  /\ used = Rows
  /\ call = [p \in Calls |-> Idle]
  /\ moves = FALSE
  /\ mixed = FALSE

At(p, pc) == call[p].pc = pc
Goto(p, pc) == call' = [call EXCEPT ![p].pc = pc]
Finish(p) == call' = [call EXCEPT ![p] = Idle]

Running(ops) == \E p \in Calls : call[p].op \in ops
Builds == {"create", "update"}
Removals == {"delete", "cascade"}

\* A request starts; the history notes what it overlaps with.
Begin(p, op, pc, n, to, batch) ==
  /\ At(p, "idle")
  /\ call' = [call EXCEPT ![p] =
       [op |-> op, pc |-> pc, node |-> n, to |-> to, loaded |-> None,
        batch |-> batch, left |-> batch]]
  /\ moves' = (moves \/ (op = "update" /\ Running({"update"})))
  /\ mixed' = (mixed \/ (op \in Builds /\ Running(Removals)) \/ (op \in Removals /\ Running(Builds)))

---------------------------------------------------------------------------
(* create: the parent is looked up and an id generated, then the row inserted. *)

Create(p, n, q) ==
  /\ q \in Rows \cup {None}
  /\ n \notin used
  /\ used' = used \cup {n}
  /\ Begin(p, "create", "insert", n, q, {})
  /\ UNCHANGED parent

Insert(p) ==
  /\ At(p, "insert")
  /\ parent' = [parent EXCEPT ![call[p].node] = call[p].to]
  /\ Finish(p)
  /\ UNCHANGED <<used, history>>

---------------------------------------------------------------------------
(* update *)

\* A new parent must be another row, and not a descendant.
Move(p, n, q) ==
  /\ q # n
  /\ q \in Rows
  /\ Begin(p, "update", "descendants", n, q, {})
  /\ UNCHANGED <<parent, used>>

\* Without a new parent the checks are skipped.
Edit(p, n, to) ==
  /\ Begin(p, "update", "load", n, to, {})
  /\ UNCHANGED <<parent, used>>

\* Mutant of AllowedBelow: only direct children are refused.
AllowedBelowChildren(q, n) == q \notin Children(n)

AllowedBelow(q, n) == q \notin Descendants(n)

CheckDescendants(p) ==
  /\ At(p, "descendants")
  /\ Returns(call[p].node)
  /\ IF AllowedBelow(call[p].to, call[p].node) THEN Goto(p, "load") ELSE Finish(p)
  /\ UNCHANGED <<parent, used, history>>

LoadRow(p) ==
  /\ At(p, "load")
  /\ IF call[p].node \in Rows
     THEN call' = [call EXCEPT ![p].pc = "write", ![p].loaded = parent[call[p].node]]
     ELSE Finish(p)
  /\ UNCHANGED <<parent, used, history>>

\* Mutant of NewParent: an update that names no parent moves the row to the root.
NewParentReset(p) == IF call[p].to \in Nodes THEN call[p].to ELSE None

\* apply_update on the row as loaded.
NewParent(p) ==
  CASE call[p].to = Keep -> call[p].loaded
    [] call[p].to = Root -> None
    [] OTHER -> call[p].to

\* The whole row is written back, parent_id included.
WriteRow(p) ==
  /\ At(p, "write")
  /\ parent' = IF call[p].node \in Rows THEN [parent EXCEPT ![call[p].node] = NewParent(p)]
               ELSE parent
  /\ Finish(p)
  /\ UNCHANGED <<used, history>>

---------------------------------------------------------------------------
(* delete: every id must exist and have no children, then all rows go. *)

Delete(p, batch) ==
  /\ Begin(p, "delete", "exists", None, None, batch)
  /\ UNCHANGED <<parent, used>>

CheckExists(p) ==
  /\ At(p, "exists")
  /\ \E n \in call[p].left :
       IF n \in Rows
       THEN call' = [call EXCEPT ![p].pc = "childless", ![p].node = n]
       ELSE Finish(p)
  /\ UNCHANGED <<parent, used, history>>

\* Mutant of Childless: the children are not counted.
ChildlessUncounted(n) == TRUE

Childless(n) == Children(n) = {}

CountChildren(p) ==
  /\ At(p, "childless")
  /\ LET n == call[p].node IN
       IF Childless(n)
       THEN call' = [call EXCEPT ![p].pc = IF call[p].left = {n} THEN "remove" ELSE "exists",
                                 ![p].node = None, ![p].left = @ \ {n}]
       ELSE Finish(p)
  /\ UNCHANGED <<parent, used, history>>

(* remove_cascade: the descendants are collected, then all their rows go. *)

Cascade(p, n) ==
  /\ n \in Rows
  /\ Begin(p, "cascade", "collect", n, None, {})
  /\ UNCHANGED <<parent, used>>

Collect(p) ==
  /\ At(p, "collect")
  /\ Returns(call[p].node)
  /\ IF Descendants(call[p].node) = {}
     THEN Finish(p)
     ELSE call' = [call EXCEPT ![p].pc = "remove", ![p].batch = Descendants(call[p].node)]
  /\ UNCHANGED <<parent, used, history>>

\* hard_delete_batch
RemoveRows(p) ==
  /\ At(p, "remove")
  /\ parent' = [n \in Nodes |-> IF n \in call[p].batch THEN Absent ELSE parent[n]]
  /\ Finish(p)
  /\ UNCHANGED <<used, history>>

\* A database error or a crash ends a request where it stands.
CallFails(p) ==
  /\ ~At(p, "idle")
  /\ Finish(p)
  /\ UNCHANGED <<parent, used, history>>

---------------------------------------------------------------------------
Work(p) ==
  \/ Insert(p) \/ CheckDescendants(p) \/ LoadRow(p) \/ WriteRow(p)
  \/ CheckExists(p) \/ CountChildren(p) \/ Collect(p) \/ RemoveRows(p)

Next ==
  \E p \in Calls :
    \/ \E n \in Nodes, q \in Nodes \cup {None} : Create(p, n, q)
    \/ \E n, q \in Nodes : Move(p, n, q)
    \/ \E n \in Nodes, to \in {Keep, Root} : Edit(p, n, to)
    \/ \E batch \in SUBSET Nodes \ {{}} : Delete(p, batch)
    \/ \E n \in Nodes : Cascade(p, n)
    \/ Work(p)
    \/ CallFails(p)

Spec == Init /\ [][Next]_vars

---------------------------------------------------------------------------
CallType ==
  [op : {"none", "create", "update", "delete", "cascade"},
   pc : {"idle", "insert", "descendants", "load", "write", "exists", "childless", "collect",
         "remove"},
   node : Nodes \cup {None}, to : Nodes \cup {None, Keep, Root},
   loaded : Nodes \cup {None},
   batch : SUBSET Nodes, left : SUBSET Nodes]

\* Types of the rows and the requests.
TypeOK ==
  /\ parent \in [Nodes -> Nodes \cup {None, Absent}]
  /\ used \in SUBSET Nodes /\ Rows \subseteq used
  /\ call \in [Calls -> CallType]
  /\ moves \in BOOLEAN /\ mixed \in BOOLEAN

\* No row is its own ancestor unless two updates overlapped: creates, deletes
\* and cascades may overlap with one update as they please.
Acyclic == moves \/ IsForest(parent)

\* Every parent_id names a row unless a removal overlapped a create or an
\* update; removals may overlap each other, and updates each other.
NoOrphans == mixed \/ \A n \in Rows : parent[n] \in Rows \cup {None}

\* An update that names no parent leaves the stored parent alone, whatever else
\* runs beside it, unless two updates overlapped: the row is written as it was read.
LoneEditKeepsParent ==
  [][\A p \in Calls :
       ~moves /\ WriteRow(p) /\ call[p].to = Keep => UNCHANGED parent]_vars

\* A row's parent is never one of its descendants.
ParentNeverDescendant == \A n \in Rows : parent[n] \notin Descendants(n)
=============================================================================
