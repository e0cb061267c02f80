-------------------------- MODULE HierarchyProofs --------------------------
(* Theorems about Hierarchy, for every value of its constants. *)
EXTENDS Hierarchy, TLAPS

---------------------------------------------------------------------------
(* Forests and what lies below a row, for any table f of parents. *)

RowsOf(f) == {n \in Nodes : f[n] # Absent}

ClosedIn(f, S) == \A x \in RowsOf(f) : f[x] \in S => x \in S

Below(f, n) ==
  {m \in RowsOf(f) :
     n \in RowsOf(f) /\ \A S \in SUBSET RowsOf(f) : n \in S /\ ClosedIn(f, S) => m \in S}

LEMMA DescendantsBelow ==
  ASSUME NEW n
  PROVE  /\ Descendants(n) = Below(parent, n)
         /\ Descendants(n)' = Below(parent', n)
         /\ Rows = RowsOf(parent) /\ Rows' = RowsOf(parent')
  BY DEF Descendants, Below, Rows, RowsOf, ClosedIn

LEMMA BelowSelf ==
  ASSUME NEW f, NEW n \in RowsOf(f)
  PROVE  n \in Below(f, n)
  BY DEF Below

LEMMA BelowClosed ==
  ASSUME NEW f, NEW n
  PROVE  ClosedIn(f, Below(f, n))
<1> SUFFICES ASSUME NEW x \in RowsOf(f), f[x] \in Below(f, n) PROVE x \in Below(f, n)
  BY DEF ClosedIn
<1>1. n \in RowsOf(f)
  BY DEF Below
<1>2. ASSUME NEW S \in SUBSET RowsOf(f), n \in S, ClosedIn(f, S) PROVE x \in S
  <2>1. f[x] \in S
    BY <1>2 DEF Below
  <2>2. QED
    BY <2>1, <1>2 DEF ClosedIn
<1>3. QED
  BY <1>1, <1>2 DEF Below

\* Removing rows brings nothing new below n.
LEMMA BelowShrinks ==
  ASSUME NEW f, NEW g, NEW n,
         RowsOf(g) \subseteq RowsOf(f), \A x \in RowsOf(g) : g[x] = f[x]
  PROVE  Below(g, n) \subseteq Below(f, n)
<1> SUFFICES ASSUME NEW m \in Below(g, n) PROVE m \in Below(f, n)
  OBVIOUS
<1>1. n \in RowsOf(g) /\ m \in RowsOf(g) /\ n \in RowsOf(f) /\ m \in RowsOf(f)
  BY DEF Below
<1>2. ASSUME NEW S \in SUBSET RowsOf(f), n \in S, ClosedIn(f, S) PROVE m \in S
  <2> DEFINE T == S \cap RowsOf(g)
  <2>1. T \in SUBSET RowsOf(g) /\ n \in T
    BY <1>1, <1>2
  <2>2. ClosedIn(g, T)
    BY <1>2 DEF ClosedIn
  <2>3. m \in T
    BY <2>1, <2>2 DEF Below
  <2>4. QED
    BY <2>3
<1>3. QED
  BY <1>1, <1>2 DEF Below

\* Inserting a row m that is nobody's parent brings at most m below n.
LEMMA BelowGrows ==
  ASSUME NEW f, NEW g, NEW m, NEW n,
         RowsOf(g) = RowsOf(f) \cup {m}, \A x \in RowsOf(f) : g[x] = f[x],
         \A x \in RowsOf(g) : g[x] # m
  PROVE  Below(g, n) \subseteq Below(f, n) \cup {m}
<1> SUFFICES ASSUME NEW y \in Below(g, n), y # m PROVE y \in Below(f, n)
  OBVIOUS
<1>1. n \in RowsOf(g) /\ y \in RowsOf(f)
  BY DEF Below
<1>2. ASSUME n = m PROVE FALSE
  <2>1. {m} \in SUBSET RowsOf(g) /\ ClosedIn(g, {m})
    BY DEF ClosedIn
  <2>2. QED
    BY <1>2, <2>1 DEF Below
<1>3. n \in RowsOf(f)
  BY <1>1, <1>2
<1>4. ASSUME NEW S \in SUBSET RowsOf(f), n \in S, ClosedIn(f, S) PROVE y \in S
  <2> DEFINE T == S \cup {m}
  <2>1. T \in SUBSET RowsOf(g) /\ n \in T
    BY <1>4
  <2>2. ASSUME NEW x \in RowsOf(g), g[x] \in T PROVE x \in T
    BY <1>4, <2>2 DEF ClosedIn
  <2>3. y \in T
    BY <2>1, <2>2 DEF Below, ClosedIn
  <2>4. QED
    BY <2>3
<1>5. QED
  BY <1>1, <1>3, <1>4 DEF Below

LEMMA ForestShrinks ==
  ASSUME NEW f, NEW g, IsForest(f),
         RowsOf(g) \subseteq RowsOf(f), \A x \in RowsOf(g) : g[x] = f[x]
  PROVE  IsForest(g)
<1> SUFFICES ASSUME NEW S \in SUBSET RowsOf(g), S # {} PROVE \E n \in S : g[n] \notin S
  BY DEF IsForest, RowsOf
<1>1. PICK n \in S : f[n] \notin S
  BY DEF IsForest, RowsOf
<1>2. QED
  BY <1>1

LEMMA ForestGrows ==
  ASSUME NEW f, NEW g, NEW m, IsForest(f),
         RowsOf(g) = RowsOf(f) \cup {m}, \A x \in RowsOf(f) : g[x] = f[x],
         \A x \in RowsOf(g) : g[x] # m
  PROVE  IsForest(g)
<1> SUFFICES ASSUME NEW S \in SUBSET RowsOf(g), S # {} PROVE \E n \in S : g[n] \notin S
  BY DEF IsForest, RowsOf
<1>1. CASE S = {m}
  BY <1>1
<1>2. CASE S # {m}
  <2> DEFINE T == S \ {m}
  <2>1. T \in SUBSET RowsOf(f) /\ T # {}
    BY <1>2
  <2>2. PICK n \in T : f[n] \notin T
    BY <2>1 DEF IsForest, RowsOf
  <2>3. g[n] = f[n] /\ g[n] # m
    BY <2>1
  <2>4. QED
    BY <2>2, <2>3
<1>3. QED
  BY <1>1, <1>2

\* A row may move to any place that is not below it.
LEMMA ForestMoves ==
  ASSUME NEW f, NEW g, NEW n, NEW to, IsForest(f),
         RowsOf(g) = RowsOf(f), n \in RowsOf(f),
         \A x \in RowsOf(f) : x # n => g[x] = f[x],
         g[n] = to, to \notin Below(f, n)
  PROVE  IsForest(g)
<1> SUFFICES ASSUME NEW S \in SUBSET RowsOf(g), S # {}, \A x \in S : g[x] \in S PROVE FALSE
  BY DEF IsForest, RowsOf
<1> DEFINE T == S \ Below(f, n)
<1>1. n \in Below(f, n) /\ ClosedIn(f, Below(f, n))
  BY BelowSelf, BelowClosed
<1>2. CASE n \in S
  <2>1. to \in T
    BY <1>2
  <2>2. T \in SUBSET RowsOf(f) /\ T # {}
    BY <2>1
  <2>3. PICK x \in T : f[x] \notin T
    BY <2>2 DEF IsForest, RowsOf
  <2>4. x # n /\ x \in RowsOf(f)
    BY <2>2, <1>1
  <2>5. f[x] \in S
    BY <2>4
  <2>6. f[x] \in Below(f, n)
    BY <2>3, <2>5
  <2>7. x \in Below(f, n)
    BY <2>4, <2>6, <1>1 DEF ClosedIn
  <2>8. QED
    BY <2>7
<1>3. CASE n \notin S
  <2>1. PICK x \in S : f[x] \notin S
    BY DEF IsForest, RowsOf
  <2>2. QED
    BY <1>3, <2>1
<1>4. QED
  BY <1>2, <1>3

---------------------------------------------------------------------------
(* Types. *)

UpdatePcs == {"descendants", "load", "write"}
RemovalPcs == {"exists", "childless", "collect", "remove"}

\* The fields a request uses at each of its statements.
Shape(c) ==
  \/ c = Idle
  \/ /\ c.op = "create" /\ c.pc = "insert"
     /\ c.node \in Nodes /\ c.to \in Nodes \cup {None} /\ c.loaded = None
  \/ /\ c.op = "update" /\ c.pc \in UpdatePcs
     /\ c.node \in Nodes /\ c.to \in Nodes \cup {Keep, Root}
     /\ c.pc = "descendants" => c.to \in Nodes
  \/ /\ c.op \in Removals /\ c.pc \in RemovalPcs
     /\ c.to = None /\ c.loaded = None
     /\ c.pc = "childless" => c.node \in Nodes
     /\ c.pc = "collect" => c.node \in Nodes

\* The id of a row that is about to be inserted has been generated.
Reserved == \A p \in Calls : At(p, "insert") => call[p].node \in used

Typed == TypeOK /\ Reserved /\ \A p \in Calls : Shape(call[p])

LEMMA IdleType == Idle \in CallType
  BY DEF Idle, CallType

LEMMA InitTyped == Init => Typed
<1> SUFFICES ASSUME Init PROVE Typed
  OBVIOUS
<1>1. call \in [Calls -> CallType]
  BY IdleType DEF Init
<1>2. \A p \in Calls : Shape(call[p])
  BY DEF Init, Shape
<1>3. QED
  BY <1>1, <1>2 DEF Init, Typed, TypeOK, Rows, Reserved, At, Idle

\* Ending a request keeps the types of the requests.
LEMMA FinishTyped ==
  ASSUME Typed, NEW p \in Calls, Finish(p)
  PROVE  call' \in [Calls -> CallType] /\ \A q \in Calls : Shape(call'[q])
  BY IdleType DEF Finish, Typed, TypeOK, Shape

\* So does replacing one by a typed one.
LEMMA ReplaceTyped ==
  ASSUME Typed, NEW p \in Calls, NEW c \in CallType, Shape(c), call' = [call EXCEPT ![p] = c]
  PROVE  call' \in [Calls -> CallType] /\ \A q \in Calls : Shape(call'[q])
  BY DEF Typed, TypeOK

LEMMA BeginTyped ==
  ASSUME Typed, NEW p \in Calls, NEW op, NEW pc, NEW n, NEW to, NEW batch,
         Begin(p, op, pc, n, to, batch), batch \in SUBSET Nodes,
         \/ op = "create" /\ pc = "insert" /\ n \in Nodes /\ to \in Nodes \cup {None}
         \/ op = "update" /\ pc = "descendants" /\ n \in Nodes /\ to \in Nodes
         \/ op = "update" /\ pc = "load" /\ n \in Nodes /\ to \in {Keep, Root}
         \/ op = "delete" /\ pc = "exists" /\ n = None /\ to = None
         \/ op = "cascade" /\ pc = "collect" /\ n \in Nodes /\ to = None
  PROVE  /\ call' \in [Calls -> CallType] /\ \A q \in Calls : Shape(call'[q])
         /\ moves' \in BOOLEAN /\ mixed' \in BOOLEAN
<1> DEFINE c == [op |-> op, pc |-> pc, node |-> n, to |-> to, loaded |-> None,
                 batch |-> batch, left |-> batch]
<1>1. c \in CallType
  BY DEF CallType
<1>2. Shape(c)
  BY DEF Shape, UpdatePcs, RemovalPcs, Removals
<1>3. call' = [call EXCEPT ![p] = c]
  BY DEF Begin
<1>4. call' \in [Calls -> CallType] /\ \A q \in Calls : Shape(call'[q])
  BY <1>1, <1>2, <1>3, ReplaceTyped
<1>5. QED
  BY <1>4 DEF Begin, Typed, TypeOK

LEMMA CallFacts ==
  ASSUME Typed, NEW p \in Calls
  PROVE  /\ call[p] \in CallType /\ Shape(call[p])
         /\ At(p, "insert") => call[p].op = "create" /\ call[p].node \in Nodes
                               /\ call[p].to \in Nodes \cup {None}
         /\ call[p].pc \in UpdatePcs =>
              call[p].op = "update" /\ call[p].node \in Nodes
              /\ call[p].to \in Nodes \cup {Keep, Root} /\ call[p].loaded \in Nodes \cup {None}
         /\ call[p].pc \in RemovalPcs =>
              call[p].op \in {"delete", "cascade"} /\ call[p].to = None /\ call[p].loaded = None
         /\ call[p].left \in SUBSET Nodes /\ call[p].batch \in SUBSET Nodes
<1>1. call[p] \in CallType /\ Shape(call[p])
  BY DEF Typed, TypeOK
<1>2. QED
  BY <1>1 DEF CallType, Shape, Idle, At, UpdatePcs, RemovalPcs, Removals

LEMMA NextTyped ==
  ASSUME Typed, Next
  PROVE  Typed'
<1> USE DEF history
<1>0. TypeOK /\ Reserved
  BY DEF Typed
<1>1. ASSUME NEW p \in Calls, NEW n \in Nodes, NEW q \in Nodes \cup {None}, Create(p, n, q)
      PROVE  Typed'
  <2>1. Begin(p, "create", "insert", n, q, {})
    BY <1>1 DEF Create
  <2>2. /\ call' \in [Calls -> CallType] /\ \A x \in Calls : Shape(call'[x])
        /\ moves' \in BOOLEAN /\ mixed' \in BOOLEAN
    BY <2>1, BeginTyped
  <2>3. Reserved'
    BY <1>0, <1>1, <2>1 DEF Create, Begin, Reserved, At, TypeOK
  <2>4. QED
    BY <1>0, <1>1, <2>2, <2>3 DEF Create, Typed, TypeOK, Rows
<1>2. ASSUME NEW p \in Calls, NEW n \in Nodes, NEW q \in Nodes, Move(p, n, q)
      PROVE  Typed'
  <2>1. Begin(p, "update", "descendants", n, q, {}) /\ UNCHANGED <<parent, used>>
    BY <1>2 DEF Move
  <2>2. /\ call' \in [Calls -> CallType] /\ \A x \in Calls : Shape(call'[x])
        /\ moves' \in BOOLEAN /\ mixed' \in BOOLEAN
    BY <2>1, BeginTyped
  <2>3. QED
    BY <1>0, <2>1, <2>2 DEF Begin, Reserved, At, Typed, TypeOK, Rows
<1>3. ASSUME NEW p \in Calls, NEW n \in Nodes, NEW to \in {Keep, Root}, Edit(p, n, to)
      PROVE  Typed'
  <2>1. Begin(p, "update", "load", n, to, {}) /\ UNCHANGED <<parent, used>>
    BY <1>3 DEF Edit
  <2>2. /\ call' \in [Calls -> CallType] /\ \A x \in Calls : Shape(call'[x])
        /\ moves' \in BOOLEAN /\ mixed' \in BOOLEAN
    BY <2>1, BeginTyped
  <2>3. QED
    BY <1>0, <2>1, <2>2 DEF Begin, Reserved, At, Typed, TypeOK, Rows
<1>4. ASSUME NEW p \in Calls, NEW batch \in SUBSET Nodes, Delete(p, batch)
      PROVE  Typed'
  <2>1. Begin(p, "delete", "exists", None, None, batch) /\ UNCHANGED <<parent, used>>
    BY <1>4 DEF Delete
  <2>2. /\ call' \in [Calls -> CallType] /\ \A x \in Calls : Shape(call'[x])
        /\ moves' \in BOOLEAN /\ mixed' \in BOOLEAN
    BY <2>1, BeginTyped
  <2>3. QED
    BY <1>0, <2>1, <2>2 DEF Begin, Reserved, At, Typed, TypeOK, Rows
<1>5. ASSUME NEW p \in Calls, NEW n \in Nodes, Cascade(p, n)
      PROVE  Typed'
  <2>1. Begin(p, "cascade", "collect", n, None, {}) /\ UNCHANGED <<parent, used>>
    BY <1>5 DEF Cascade
  <2>2. /\ call' \in [Calls -> CallType] /\ \A x \in Calls : Shape(call'[x])
        /\ moves' \in BOOLEAN /\ mixed' \in BOOLEAN
    BY <2>1, BeginTyped
  <2>3. QED
    BY <1>0, <2>1, <2>2 DEF Begin, Reserved, At, Typed, TypeOK, Rows
<1>6. ASSUME NEW p \in Calls, Insert(p)
      PROVE  Typed'
  <2>1. call[p].node \in used /\ call[p].node \in Nodes /\ call[p].to \in Nodes \cup {None}
    BY <1>0, <1>6, CallFacts DEF Insert, Reserved
  <2>2. parent' \in [Nodes -> Nodes \cup {None, Absent}] /\ Rows' \subseteq used
    BY <1>0, <1>6, <2>1 DEF Insert, TypeOK, Rows
  <2>3. QED
    BY <1>0, <1>6, <2>2, FinishTyped DEF Insert, Finish, Reserved, At, Idle, Typed, TypeOK
<1>7. ASSUME NEW p \in Calls, CheckDescendants(p)
      PROVE  Typed'
  <2> DEFINE c == [call[p] EXCEPT !.pc = "load"]
  <2>1. CASE Goto(p, "load")
    <3>1. c \in CallType /\ Shape(c)
      BY <1>7, CallFacts DEF CheckDescendants, At, CallType, Shape, Idle, UpdatePcs, RemovalPcs
    <3>2. call' = [call EXCEPT ![p] = c]
      BY <2>1 DEF Goto
    <3>3. call' \in [Calls -> CallType] /\ \A x \in Calls : Shape(call'[x])
      BY <3>1, <3>2, ReplaceTyped
    <3>4. QED
      BY <1>0, <1>7, <3>2, <3>3 DEF CheckDescendants, Reserved, At, Typed, TypeOK, Rows
  <2>2. CASE Finish(p)
    BY <1>0, <1>7, <2>2, FinishTyped
       DEF CheckDescendants, Finish, Reserved, At, Idle, Typed, TypeOK, Rows
  <2>3. QED
    BY <1>7, <2>1, <2>2 DEF CheckDescendants
<1>8. ASSUME NEW p \in Calls, LoadRow(p)
      PROVE  Typed'
  <2> DEFINE c == [call[p] EXCEPT !.pc = "write", !.loaded = parent[call[p].node]]
  <2>1. CASE call[p].node \in Rows
    <3>1. parent[call[p].node] \in Nodes \cup {None}
      BY <1>0, <2>1 DEF TypeOK, Rows
    <3>2. c \in CallType /\ Shape(c)
      BY <1>8, <3>1, CallFacts DEF LoadRow, At, CallType, Shape, Idle, UpdatePcs, RemovalPcs
    <3>3. call' = [call EXCEPT ![p] = c]
      BY <1>8, <2>1 DEF LoadRow
    <3>4. call' \in [Calls -> CallType] /\ \A x \in Calls : Shape(call'[x])
      BY <3>2, <3>3, ReplaceTyped
    <3>5. QED
      BY <1>0, <1>8, <3>3, <3>4 DEF LoadRow, Reserved, At, Typed, TypeOK, Rows
  <2>2. CASE call[p].node \notin Rows
    BY <1>0, <1>8, <2>2, FinishTyped
       DEF LoadRow, Finish, Reserved, At, Idle, Typed, TypeOK, Rows
  <2>3. QED
    BY <2>1, <2>2
<1>9. ASSUME NEW p \in Calls, WriteRow(p)
      PROVE  Typed'
  <2>1. NewParent(p) \in Nodes \cup {None}
    BY <1>9, CallFacts DEF WriteRow, At, UpdatePcs, NewParent
  <2>2. parent' \in [Nodes -> Nodes \cup {None, Absent}] /\ Rows' = Rows
    BY <1>0, <1>9, <2>1, NamesAssumption DEF WriteRow, TypeOK, Rows
  <2>3. QED
    BY <1>0, <1>9, <2>2, FinishTyped DEF WriteRow, Finish, Reserved, At, Idle, Typed, TypeOK
<1>10. ASSUME NEW p \in Calls, CheckExists(p)
      PROVE  Typed'
  <2>1. PICK n \in call[p].left :
          IF n \in Rows THEN call' = [call EXCEPT ![p].pc = "childless", ![p].node = n]
          ELSE Finish(p)
    BY <1>10 DEF CheckExists
  <2> DEFINE c == [call[p] EXCEPT !.pc = "childless", !.node = n]
  <2>2. CASE n \in Rows
    <3>0. n \in Nodes /\ call[p].pc \in RemovalPcs
      BY <1>10, <2>2 DEF CheckExists, At, RemovalPcs, Rows
    <3>1. c \in CallType /\ Shape(c)
      <4>1. call[p] \in CallType /\ call[p].op \in {"delete", "cascade"}
            /\ call[p].to = None /\ call[p].loaded = None
        BY <3>0, CallFacts
      <4>2. c \in CallType
        BY <3>0, <4>1 DEF CallType
      <4>3. c.op = call[p].op /\ c.pc = "childless" /\ c.node = n /\ c.to = None /\ c.loaded = None
        BY <4>1 DEF CallType
      <4>4. Shape(c)
        BY <3>0, <4>1, <4>3 DEF Shape, Removals, RemovalPcs
      <4>5. QED
        BY <4>2, <4>4
    <3>2. call' = [call EXCEPT ![p] = c]
      BY <2>1, <2>2
    <3>3. call' \in [Calls -> CallType] /\ \A x \in Calls : Shape(call'[x])
      BY <3>1, <3>2, ReplaceTyped
    <3>4. QED
      BY <1>0, <1>10, <3>2, <3>3 DEF CheckExists, Reserved, At, Typed, TypeOK, Rows
  <2>3. CASE n \notin Rows
    BY <1>0, <1>10, <2>1, <2>3, FinishTyped
       DEF CheckExists, Finish, Reserved, At, Idle, Typed, TypeOK, Rows
  <2>4. QED
    BY <2>2, <2>3
<1>11. ASSUME NEW p \in Calls, CountChildren(p)
      PROVE  Typed'
  <2> DEFINE n == call[p].node
  <2> DEFINE c == [call[p] EXCEPT !.pc = IF call[p].left = {n} THEN "remove" ELSE "exists",
                                  !.node = None, !.left = call[p].left \ {n}]
  <2>1. CASE Childless(n)
    <3>0. call[p].pc \in RemovalPcs
      BY <1>11 DEF CountChildren, At, RemovalPcs
    <3>1. c \in CallType /\ Shape(c)
      <4>1. call[p] \in CallType /\ call[p].op \in {"delete", "cascade"}
            /\ call[p].to = None /\ call[p].loaded = None
        BY <3>0, CallFacts
      <4>2. c \in CallType
        BY <4>1 DEF CallType
      <4>3. c.op = call[p].op /\ c.pc \in {"remove", "exists"} /\ c.to = None /\ c.loaded = None
        BY <4>1 DEF CallType
      <4>4. Shape(c)
        BY <4>1, <4>3 DEF Shape, Removals, RemovalPcs
      <4>5. QED
        BY <4>2, <4>4
    <3>2. call' = [call EXCEPT ![p] = c]
      BY <1>11, <2>1 DEF CountChildren
    <3>3. call' \in [Calls -> CallType] /\ \A x \in Calls : Shape(call'[x])
      BY <3>1, <3>2, ReplaceTyped
    <3>4. c.pc # "insert" /\ UNCHANGED <<parent, used, moves, mixed>>
      BY <1>11, <3>0, CallFacts DEF CountChildren, CallType
    <3>5. Reserved'
      BY <1>0, <3>2, <3>4 DEF Reserved, At, TypeOK
    <3>6. QED
      BY <1>0, <3>3, <3>4, <3>5 DEF Typed, TypeOK, Rows
  <2>2. CASE ~Childless(n)
    <3>1. Finish(p) /\ UNCHANGED <<parent, used, moves, mixed>>
      BY <1>11, <2>2 DEF CountChildren
    <3>2. QED
      BY <1>0, <3>1, FinishTyped DEF Finish, Reserved, At, Idle, Typed, TypeOK, Rows
  <2>3. QED
    BY <2>1, <2>2
<1>12. ASSUME NEW p \in Calls, Collect(p)
      PROVE  Typed'
  <2> DEFINE B == Descendants(call[p].node)
  <2> DEFINE c == [call[p] EXCEPT !.pc = "remove", !.batch = B]
  <2>0. B \in SUBSET Nodes
    BY DEF Descendants, Rows
  <2> HIDE DEF B
  <2>1. CASE call' = [call EXCEPT ![p] = c]
    <3>0. call[p].pc \in RemovalPcs
      BY <1>12 DEF Collect, At, RemovalPcs
    <3>1. c \in CallType /\ Shape(c)
      <4>1. call[p] \in CallType /\ call[p].op \in {"delete", "cascade"}
            /\ call[p].to = None /\ call[p].loaded = None
        BY <3>0, CallFacts
      <4>2. c \in CallType
        BY <2>0, <4>1 DEF CallType
      <4>3. c.op = call[p].op /\ c.pc = "remove" /\ c.to = None /\ c.loaded = None
        BY <4>1 DEF CallType
      <4>4. Shape(c)
        BY <4>1, <4>3 DEF Shape, Removals, RemovalPcs
      <4>5. QED
        BY <4>2, <4>4
    <3>2. call' \in [Calls -> CallType] /\ \A x \in Calls : Shape(call'[x])
      BY <2>1, <3>1, ReplaceTyped
    <3>3. QED
      BY <1>0, <1>12, <2>1, <3>2 DEF Collect, Reserved, At, Typed, TypeOK, Rows
  <2>2. CASE Finish(p)
    BY <1>0, <1>12, <2>2, FinishTyped
       DEF Collect, Finish, Reserved, At, Idle, Typed, TypeOK, Rows
  <2>3. QED
    BY <1>12, <2>1, <2>2 DEF Collect, B
<1>13. ASSUME NEW p \in Calls, RemoveRows(p)
      PROVE  Typed'
  <2>1. parent' \in [Nodes -> Nodes \cup {None, Absent}] /\ Rows' \subseteq Rows
    BY <1>0, <1>13 DEF RemoveRows, TypeOK, Rows
  <2>2. QED
    BY <1>0, <1>13, <2>1, FinishTyped DEF RemoveRows, Finish, Reserved, At, Idle, Typed, TypeOK
<1>14. ASSUME NEW p \in Calls, CallFails(p)
      PROVE  Typed'
  BY <1>0, <1>14, FinishTyped DEF CallFails, Finish, Reserved, At, Idle, Typed, TypeOK, Rows
<1>15. QED
  BY <1>1, <1>2, <1>3, <1>4, <1>5, <1>6, <1>7, <1>8, <1>9, <1>10, <1>11, <1>12, <1>13, <1>14
     DEF Next, Work

\* The rows and the requests keep their types.
THEOREM TypeCorrect == Spec => []TypeOK
<1>1. Typed /\ UNCHANGED vars => Typed'
  BY DEF vars, history, Typed, TypeOK, Reserved, At, Rows, Shape
<1>2. Typed => TypeOK
  BY DEF Typed
<1>3. QED
  BY InitTyped, NextTyped, <1>1, <1>2, PTL DEF Spec
---------------------------------------------------------------------------
(* The rows stay a forest.  Ids are generated once, so a row can only be    *)
(* inserted where nothing hangs below it; and while updates do not overlap, *)
(* nothing that runs beside one can bring its new parent below its row.     *)

\* The id has been generated and its row is not about to be inserted.
Settled(x) == x \in used /\ \A p \in Calls : At(p, "insert") => call[p].node # x

\* A request names only settled ids, except the one it inserts.
NamesSettled(c) ==
  /\ c.to \in Nodes => Settled(c.to)
  /\ c.loaded \in Nodes => Settled(c.loaded)
  /\ c.pc = "write" => Settled(c.node)

Ids ==
  /\ \A x \in Rows : Settled(x) /\ (parent[x] \in Nodes => Settled(parent[x]))
  /\ \A p \in Calls : NamesSettled(call[p])
  /\ \A p, q \in Calls :
       At(p, "insert") /\ At(q, "insert") /\ call[p].node = call[q].node => p = q

\* What CheckDescendants and LoadRow found still holds.
StillSafe(c) ==
  c.pc \in {"load", "write"} =>
    /\ c.to \in Nodes => c.to \notin Descendants(c.node)
    /\ c.pc = "write" /\ c.node \in Rows => parent[c.node] = c.loaded

OneUpdate ==
  moves \/ \A p, q \in Calls : call[p].op = "update" /\ call[q].op = "update" => p = q
Checked == moves \/ \A p \in Calls : StillSafe(call[p])

ForestInv == Typed /\ Ids /\ OneUpdate /\ Checked /\ Acyclic

LEMMA InitForest == Init => ForestInv
<1> SUFFICES ASSUME Init PROVE ForestInv
  OBVIOUS
<1>1. Typed
  BY InitTyped
<1>2. \A p \in Calls : call[p] = Idle
  BY DEF Init
<1>3. Idle.pc = "idle" /\ Idle.op = "none" /\ Idle.to = None /\ Idle.loaded = None
  BY DEF Idle
<1>4. \A x \in Rows : Settled(x)
  BY <1>2, <1>3 DEF Init, Settled, At
<1>5. Ids
  BY <1>2, <1>3, <1>4, NamesAssumption DEF Init, Ids, NamesSettled, At
<1>6. OneUpdate /\ Checked /\ Acyclic
  BY <1>2, <1>3 DEF Init, OneUpdate, Checked, StillSafe, Acyclic
<1>7. QED
  BY <1>1, <1>5, <1>6 DEF ForestInv

\* A step that replaces one request and leaves the rows alone.
LEMMA CallStep ==
  ASSUME ForestInv, NEW p \in Calls, NEW c,
         call' = [call EXCEPT ![p] = c], UNCHANGED <<parent, used>>,
         c.pc # "insert", NamesSettled(c),
         moves => moves',
         ~moves' => StillSafe(c),
         ~moves' /\ c.op = "update" => \A q \in Calls : q # p => call[q].op # "update"
  PROVE  Ids' /\ OneUpdate' /\ Checked' /\ Acyclic'
<1>1. call'[p] = c /\ \A q \in Calls : q # p => call'[q] = call[q]
  BY DEF ForestInv, Typed, TypeOK
<1>2. Rows' = Rows /\ \A n : Descendants(n)' = Descendants(n)
  BY DEF Rows, Descendants
<1>3. \A x : Settled(x) => Settled(x)'
  BY <1>1 DEF Settled, At
<1>4. \A q \in Calls : NamesSettled(call[q])'
  BY <1>1, <1>3 DEF ForestInv, Ids, NamesSettled
<1>5. Ids'
  BY <1>1, <1>2, <1>3, <1>4 DEF ForestInv, Ids, At
<1>6. Checked'
  BY <1>1, <1>2 DEF ForestInv, Checked, StillSafe
<1>7. OneUpdate'
  BY <1>1 DEF ForestInv, OneUpdate
<1>8. Acyclic'
  BY DEF ForestInv, Acyclic, IsForest
<1>9. QED
  BY <1>5, <1>6, <1>7, <1>8

\* Ending a request is such a step.
LEMMA FinishForest ==
  ASSUME ForestInv, NEW p \in Calls, Finish(p), UNCHANGED <<parent, used, moves>>
  PROVE  Ids' /\ OneUpdate' /\ Checked' /\ Acyclic'
<1>1. Idle.pc = "idle" /\ Idle.op = "none" /\ Idle.to = None /\ Idle.loaded = None
  BY DEF Idle
<1>2. NamesSettled(Idle) /\ StillSafe(Idle)
  BY <1>1, NamesAssumption DEF NamesSettled, StillSafe
<1>3. QED
  BY <1>1, <1>2, CallStep DEF Finish

LEMMA CreateForest ==
  ASSUME ForestInv, Typed', NEW p \in Calls, NEW n \in Nodes, NEW q \in Nodes \cup {None},
         Create(p, n, q)
  PROVE  ForestInv'
<1> DEFINE c == [op |-> "create", pc |-> "insert", node |-> n, to |-> q, loaded |-> None,
                 batch |-> {}, left |-> {}]
<1>1. /\ call'[p] = c /\ \A r \in Calls : r # p => call'[r] = call[r]
      /\ n \notin used /\ used' = used \cup {n} /\ parent' = parent
      /\ q \in Rows \cup {None} /\ moves' = moves
  BY DEF Create, Begin, ForestInv, Typed, TypeOK
<1>2. Rows' = Rows /\ \A x : Descendants(x)' = Descendants(x)
  BY <1>1 DEF Rows, Descendants
<1>3. \A x : Settled(x) => Settled(x)'
  BY <1>1 DEF Settled, At
<1>4. NamesSettled(call[p])'
  BY <1>1, <1>3, NamesAssumption DEF ForestInv, Ids, NamesSettled
<1>5. \A r \in Calls : NamesSettled(call[r])'
  BY <1>1, <1>3, <1>4 DEF ForestInv, Ids, NamesSettled
<1>6. \A r \in Calls : r # p /\ At(r, "insert") => call[r].node # n
  BY <1>1 DEF ForestInv, Typed, Reserved
<1>7. Ids'
  BY <1>1, <1>2, <1>3, <1>5, <1>6 DEF ForestInv, Ids, At
<1>8. OneUpdate'
  BY <1>1 DEF ForestInv, OneUpdate
<1>9. Checked'
  BY <1>1, <1>2 DEF ForestInv, Checked, StillSafe
<1>10. Acyclic'
  BY <1>1 DEF ForestInv, Acyclic, IsForest
<1>11. QED
  BY <1>7, <1>8, <1>9, <1>10 DEF ForestInv

\* The inserted row has nothing below it: it can close no cycle.
LEMMA InsertForest ==
  ASSUME ForestInv, Typed', NEW p \in Calls, Insert(p)
  PROVE  ForestInv'
<1> DEFINE m == call[p].node
<1>1. /\ call'[p] = Idle /\ \A r \in Calls : r # p => call'[r] = call[r]
      /\ used' = used /\ moves' = moves /\ At(p, "insert")
      /\ Idle.pc = "idle" /\ Idle.op = "none" /\ Idle.to = None /\ Idle.loaded = None
  BY DEF Insert, Finish, ForestInv, Typed, TypeOK, Idle, history
<1>2. m \in Nodes /\ m \in used /\ call[p].to \in Nodes \cup {None} /\ ~Settled(m)
  BY <1>1, CallFacts DEF ForestInv, Typed, Reserved, Settled
<1>3. /\ parent \in [Nodes -> Nodes \cup {None, Absent}]
      /\ parent' = [parent EXCEPT ![m] = call[p].to]
  BY DEF ForestInv, Typed, TypeOK, Insert
<1>4. /\ m \notin Rows /\ call[p].to # m
      /\ \A x \in Rows : parent[x] # m
      /\ \A r \in Calls : call[r].to # m /\ call[r].loaded # m /\ (At(r, "write") => call[r].node # m)
  BY <1>2 DEF ForestInv, Ids, NamesSettled, At
<1>5. Rows' = Rows \cup {m} /\ \A x \in Rows : parent'[x] = parent[x]
  BY <1>2, <1>3, <1>4, NamesAssumption DEF Rows
<1>6. \A x : Settled(x) => Settled(x)'
  BY <1>1 DEF Settled, At
<1>7. \A x : x = m => Settled(x)'
  <2>1. \A r \in Calls : r # p /\ At(r, "insert") => call[r].node # m
    BY <1>1 DEF ForestInv, Ids
  <2>2. \A r \in Calls : At(r, "insert")' => r # p /\ At(r, "insert") /\ call'[r] = call[r]
    BY <1>1 DEF At
  <2>3. QED
    BY <1>1, <1>2, <2>1, <2>2 DEF Settled
<1>8. \A r \in Calls : NamesSettled(call[r])'
  BY <1>1, <1>6, NamesAssumption DEF ForestInv, Ids, NamesSettled
<1>9. \A x \in Rows' : Settled(x)' /\ (parent'[x] \in Nodes => Settled(parent[x])')
  <2>1. call[p].to \in Nodes => Settled(call[p].to)
    BY DEF ForestInv, Ids, NamesSettled
  <2>2. parent'[m] = call[p].to
    BY <1>2, <1>3
  <2>3. \A x \in Rows : Settled(x) /\ (parent[x] \in Nodes => Settled(parent[x]))
    BY DEF ForestInv, Ids
  <2>4. QED
    BY <1>5, <1>6, <1>7, <2>1, <2>2, <2>3
<1>10. Ids'
  BY <1>1, <1>8, <1>9 DEF ForestInv, Ids, At
<1>11. \A x \in RowsOf(parent') : parent'[x] # m
  BY <1>2, <1>3, <1>4, <1>5, DescendantsBelow
<1>12. \A x : Descendants(x)' \subseteq Descendants(x) \cup {m}
  <2> TAKE x
  <2>1. RowsOf(parent') = RowsOf(parent) \cup {m} /\ \A y \in RowsOf(parent) : parent'[y] = parent[y]
    BY <1>5, DescendantsBelow
  <2>3. Below(parent', x) \subseteq Below(parent, x) \cup {m}
    BY <1>11, <2>1, BelowGrows
  <2>4. QED
    BY <2>3, DescendantsBelow
<1>13. Checked'
  <2>1. ASSUME NEW r \in Calls, StillSafe(call[r]), r # p PROVE StillSafe(call[r])'
    BY <1>1, <1>4, <1>5, <1>12, <2>1 DEF StillSafe, At
  <2>2. QED
    BY <1>1, <2>1 DEF ForestInv, Checked, StillSafe
<1>14. OneUpdate'
  BY <1>1 DEF ForestInv, OneUpdate
<1>15. IsForest(parent) => IsForest(parent')
  BY <1>5, <1>11, ForestGrows, DescendantsBelow
<1>16. Acyclic'
  BY <1>1, <1>15 DEF ForestInv, Acyclic
<1>17. QED
  BY <1>10, <1>13, <1>14, <1>16 DEF ForestInv

\* Without another update, the new parent is still not below the row.
LEMMA WriteForest ==
  ASSUME ForestInv, Typed', NEW p \in Calls, WriteRow(p)
  PROVE  ForestInv'
<1> DEFINE n == call[p].node
<1>1. /\ call'[p] = Idle /\ \A r \in Calls : r # p => call'[r] = call[r]
      /\ used' = used /\ moves' = moves /\ At(p, "write") /\ call[p].op = "update"
      /\ Idle.pc = "idle" /\ Idle.op = "none" /\ Idle.to = None /\ Idle.loaded = None
  BY CallFacts DEF WriteRow, Finish, ForestInv, Typed, TypeOK, Idle, history, At, UpdatePcs
<1>2. /\ n \in Nodes /\ call[p].to \in Nodes \cup {Keep, Root}
      /\ call[p].loaded \in Nodes \cup {None}
  BY <1>1, CallFacts DEF ForestInv, At, UpdatePcs
<1>3. NewParent(p) \in Nodes \cup {None} /\ (NewParent(p) \in Nodes => Settled(NewParent(p)))
  <2>1. NewParent(p) \in {call[p].loaded, None, call[p].to}
    BY <1>2, NamesAssumption DEF NewParent
  <2>2. NewParent(p) \in Nodes \cup {None}
    BY <1>2, NamesAssumption DEF NewParent
  <2>3. NewParent(p) \in Nodes => Settled(NewParent(p))
    BY <2>1, NamesAssumption DEF ForestInv, Ids, NamesSettled
  <2>4. QED
    BY <2>2, <2>3
<1>4. /\ parent \in [Nodes -> Nodes \cup {None, Absent}]
      /\ \A x \in Nodes : x # n => parent'[x] = parent[x]
      /\ n \in Rows => parent'[n] = NewParent(p)
      /\ n \notin Rows => parent' = parent
  BY DEF WriteRow, ForestInv, Typed, TypeOK
<1>5. Rows' = Rows
  BY <1>2, <1>3, <1>4, NamesAssumption DEF Rows
<1>6. \A x : Settled(x) => Settled(x)'
  BY <1>1 DEF Settled, At
<1>7. \A r \in Calls : NamesSettled(call[r])'
  BY <1>1, <1>6, NamesAssumption DEF ForestInv, Ids, NamesSettled
<1>8. \A x \in Rows' : Settled(x)' /\ (parent'[x] \in Nodes => Settled(parent[x])')
  BY <1>3, <1>4, <1>5, <1>6 DEF ForestInv, Ids, Rows
<1>9. Ids'
  BY <1>1, <1>7, <1>8 DEF ForestInv, Ids, At
<1>10. OneUpdate'
  BY <1>1 DEF ForestInv, OneUpdate
<1>11. Checked'
  <2>1. ASSUME NEW r \in Calls, ~moves PROVE call'[r].pc \notin {"load", "write"}
    <3>1. CASE r = p
      BY <1>1, <3>1
    <3>2. CASE r # p
      <4>1. call[r].op # "update"
        BY <1>1, <2>1, <3>2 DEF ForestInv, OneUpdate
      <4>2. QED
        BY <1>1, <3>2, <4>1, CallFacts DEF ForestInv, UpdatePcs
    <3>3. QED
      BY <3>1, <3>2
  <2>2. QED
    BY <1>1, <2>1 DEF Checked, StillSafe
<1>12. Acyclic'
  <2>1. CASE moves
    BY <1>1, <2>1 DEF Acyclic
  <2>2. CASE ~moves /\ n \notin Rows
    BY <1>4, <2>2 DEF ForestInv, Acyclic, IsForest
  <2>3. CASE ~moves /\ n \in Rows
    <3>1. IsForest(parent) /\ StillSafe(call[p])
      BY <2>3 DEF ForestInv, Acyclic, Checked
    <3>2. RowsOf(parent') = RowsOf(parent) /\ n \in RowsOf(parent)
      BY <1>5, <2>3, DescendantsBelow
    <3>3. CASE call[p].to = Keep
      <4>0. NewParent(p) = call[p].loaded
        BY <3>3, NamesAssumption DEF NewParent
      <4>1. parent'[n] = parent[n]
        BY <1>1, <1>4, <2>3, <3>1, <4>0 DEF StillSafe, At
      <4>2. \A x \in RowsOf(parent') : parent'[x] = parent[x]
        BY <1>4, <4>1 DEF RowsOf
      <4>3. IsForest(parent')
        BY <3>1, <3>2, <4>2, ForestShrinks
      <4>4. QED
        BY <4>3 DEF Acyclic
    <3>4. CASE call[p].to # Keep
      <4>1. NewParent(p) \notin Below(parent, n)
        <5>1. CASE call[p].to = Root
          BY <3>4, <5>1, NamesAssumption DEF NewParent, Below, RowsOf
        <5>2. CASE call[p].to # Root
          BY <1>1, <1>2, <3>1, <3>4, <5>2, DescendantsBelow DEF NewParent, StillSafe, At
        <5>3. QED
          BY <5>1, <5>2
      <4>2. \A x \in RowsOf(parent) : x # n => parent'[x] = parent[x]
        BY <1>4 DEF RowsOf
      <4>3. IsForest(parent')
        BY <1>4, <2>3, <3>1, <3>2, <4>1, <4>2, ForestMoves
      <4>4. QED
        BY <4>3 DEF Acyclic
    <3>5. QED
      BY <3>3, <3>4
  <2>4. QED
    BY <2>1, <2>2, <2>3
<1>13. QED
  BY <1>9, <1>10, <1>11, <1>12 DEF ForestInv

\* Removing rows only takes rows out from below others.
LEMMA RemoveForest ==
  ASSUME ForestInv, Typed', NEW p \in Calls, RemoveRows(p)
  PROVE  ForestInv'
<1>1. /\ call'[p] = Idle /\ \A r \in Calls : r # p => call'[r] = call[r]
      /\ used' = used /\ moves' = moves
      /\ Idle.pc = "idle" /\ Idle.op = "none" /\ Idle.to = None /\ Idle.loaded = None
  BY DEF RemoveRows, Finish, ForestInv, Typed, TypeOK, Idle, history
<1>2. Rows' \subseteq Rows /\ \A x \in Rows' : parent'[x] = parent[x]
  BY DEF RemoveRows, Rows
<1>3. \A x : Settled(x) => Settled(x)'
  BY <1>1 DEF Settled, At
<1>4. \A r \in Calls : NamesSettled(call[r])'
  BY <1>1, <1>3, NamesAssumption DEF ForestInv, Ids, NamesSettled
<1>5. \A x \in Rows' : Settled(x)' /\ (parent'[x] \in Nodes => Settled(parent[x])')
  BY <1>2, <1>3 DEF ForestInv, Ids
<1>6. Ids'
  BY <1>1, <1>4, <1>5 DEF ForestInv, Ids, At
<1>7. \A x : Descendants(x)' \subseteq Descendants(x)
  <2> TAKE x
  <2>1. Below(parent', x) \subseteq Below(parent, x)
    BY <1>2, BelowShrinks, DescendantsBelow
  <2>2. QED
    BY <2>1, DescendantsBelow
<1>8. Checked'
  <2>1. ASSUME NEW r \in Calls, StillSafe(call[r]), r # p PROVE StillSafe(call[r])'
    BY <1>1, <1>2, <1>7, <2>1 DEF StillSafe
  <2>2. QED
    BY <1>1, <2>1 DEF ForestInv, Checked, StillSafe
<1>9. OneUpdate'
  BY <1>1 DEF ForestInv, OneUpdate
<1>10. IsForest(parent) => IsForest(parent')
  BY <1>2, ForestShrinks, DescendantsBelow
<1>11. Acyclic'
  BY <1>1, <1>10 DEF ForestInv, Acyclic
<1>12. QED
  BY <1>6, <1>8, <1>9, <1>11 DEF ForestInv

LEMMA NextForest ==
  ASSUME ForestInv, Next
  PROVE  ForestInv'
<1> USE DEF history
<1>0. Typed'
  BY NextTyped DEF ForestInv
<1>1. Typed /\ \A p \in Calls : NamesSettled(call[p]) /\ (~moves => StillSafe(call[p]))
  BY DEF ForestInv, Ids, Checked
<1>2. ASSUME NEW p \in Calls, NEW n \in Nodes, NEW q \in Nodes, Move(p, n, q)
      PROVE  ForestInv'
  <2> DEFINE c == [op |-> "update", pc |-> "descendants", node |-> n, to |-> q, loaded |-> None,
                   batch |-> {}, left |-> {}]
  <2>1. /\ call' = [call EXCEPT ![p] = c] /\ UNCHANGED <<parent, used>> /\ q \in Rows
        /\ moves' = (moves \/ Running({"update"}))
    BY <1>2 DEF Move, Begin
  <2>2. NamesSettled(c) /\ StillSafe(c)
    BY <2>1, NamesAssumption DEF ForestInv, Ids, NamesSettled, StillSafe
  <2>3. QED
    BY <1>0, <2>1, <2>2, CallStep DEF ForestInv, Running
<1>3. ASSUME NEW p \in Calls, NEW n \in Nodes, NEW to \in {Keep, Root}, Edit(p, n, to)
      PROVE  ForestInv'
  <2> DEFINE c == [op |-> "update", pc |-> "load", node |-> n, to |-> to, loaded |-> None,
                   batch |-> {}, left |-> {}]
  <2>1. /\ call' = [call EXCEPT ![p] = c] /\ UNCHANGED <<parent, used>>
        /\ moves' = (moves \/ Running({"update"}))
    BY <1>3 DEF Edit, Begin
  <2>2. NamesSettled(c) /\ StillSafe(c)
    BY NamesAssumption DEF NamesSettled, StillSafe
  <2>3. QED
    BY <1>0, <2>1, <2>2, CallStep DEF ForestInv, Running
<1>4. ASSUME NEW p \in Calls, NEW batch, Delete(p, batch)
      PROVE  ForestInv'
  <2> DEFINE c == [op |-> "delete", pc |-> "exists", node |-> None, to |-> None, loaded |-> None,
                   batch |-> batch, left |-> batch]
  <2>1. call' = [call EXCEPT ![p] = c] /\ UNCHANGED <<parent, used>> /\ moves' = moves
    BY <1>1, <1>4 DEF Delete, Begin, Typed, TypeOK
  <2>2. NamesSettled(c) /\ StillSafe(c)
    BY NamesAssumption DEF NamesSettled, StillSafe
  <2>3. QED
    BY <1>0, <2>1, <2>2, CallStep DEF ForestInv
<1>5. ASSUME NEW p \in Calls, NEW n \in Nodes, Cascade(p, n)
      PROVE  ForestInv'
  <2> DEFINE c == [op |-> "cascade", pc |-> "collect", node |-> n, to |-> None, loaded |-> None,
                   batch |-> {}, left |-> {}]
  <2>1. call' = [call EXCEPT ![p] = c] /\ UNCHANGED <<parent, used>> /\ moves' = moves
    BY <1>1, <1>5 DEF Cascade, Begin, Typed, TypeOK
  <2>2. NamesSettled(c) /\ StillSafe(c)
    BY NamesAssumption DEF NamesSettled, StillSafe
  <2>3. QED
    BY <1>0, <2>1, <2>2, CallStep DEF ForestInv
<1>6. ASSUME NEW p \in Calls, Finish(p), UNCHANGED <<parent, used, moves>>
      PROVE  ForestInv'
  BY <1>0, <1>6, FinishForest DEF ForestInv
<1>7. ASSUME NEW p \in Calls, NEW c, call' = [call EXCEPT ![p] = c],
             UNCHANGED <<parent, used, moves>>, c.pc # "insert", c.op = call[p].op,
             NamesSettled(c), ~moves => StillSafe(c)
      PROVE  ForestInv'
  <2>1. ~moves' /\ c.op = "update" => \A q \in Calls : q # p => call[q].op # "update"
    BY <1>7 DEF ForestInv, OneUpdate
  <2>2. QED
    BY <1>0, <1>7, <2>1, CallStep DEF ForestInv
<1>8. ASSUME NEW p \in Calls, CheckDescendants(p)
      PROVE  ForestInv'
  <2> DEFINE c == [call[p] EXCEPT !.pc = "load"]
  <2>1. CASE AllowedBelow(call[p].to, call[p].node)
    <3>1. call' = [call EXCEPT ![p] = c] /\ UNCHANGED <<parent, used, moves>>
      BY <1>8, <2>1 DEF CheckDescendants, Goto
    <3>2. c.pc = "load" /\ c.op = call[p].op /\ c.to = call[p].to /\ c.node = call[p].node
          /\ c.loaded = call[p].loaded
      BY <1>1, CallFacts DEF CallType
    <3>3. NamesSettled(c) /\ StillSafe(c)
      BY <1>1, <2>1, <3>2 DEF NamesSettled, StillSafe, AllowedBelow
    <3>4. QED
      BY <1>7, <3>1, <3>2, <3>3
  <2>2. CASE ~AllowedBelow(call[p].to, call[p].node)
    BY <1>6, <1>8, <2>2 DEF CheckDescendants
  <2>3. QED
    BY <2>1, <2>2
<1>9. ASSUME NEW p \in Calls, LoadRow(p)
      PROVE  ForestInv'
  <2> DEFINE n == call[p].node
  <2> DEFINE c == [call[p] EXCEPT !.pc = "write", !.loaded = parent[n]]
  <2>1. CASE n \in Rows
    <3>1. call' = [call EXCEPT ![p] = c] /\ UNCHANGED <<parent, used, moves>> /\ call[p].pc = "load"
      BY <1>9, <2>1 DEF LoadRow, At
    <3>2. c.pc = "write" /\ c.op = call[p].op /\ c.to = call[p].to /\ c.node = n
          /\ c.loaded = parent[n]
      BY <1>1, CallFacts DEF CallType
    <3>3. NamesSettled(c)
      BY <1>1, <2>1, <3>2 DEF ForestInv, Ids, NamesSettled
    <3>4. ~moves => StillSafe(c)
      BY <1>1, <3>1, <3>2 DEF StillSafe
    <3>5. QED
      BY <1>7, <3>1, <3>2, <3>3, <3>4
  <2>2. CASE n \notin Rows
    BY <1>6, <1>9, <2>2 DEF LoadRow
  <2>3. QED
    BY <2>1, <2>2
<1>10. ASSUME NEW p \in Calls, CheckExists(p)
       PROVE  ForestInv'
  <2>1. PICK n \in call[p].left :
          IF n \in Rows THEN call' = [call EXCEPT ![p].pc = "childless", ![p].node = n]
          ELSE Finish(p)
    BY <1>10 DEF CheckExists
  <2> DEFINE c == [call[p] EXCEPT !.pc = "childless", !.node = n]
  <2>2. UNCHANGED <<parent, used, moves>>
    BY <1>10 DEF CheckExists
  <2>3. c.pc = "childless" /\ c.op = call[p].op /\ c.to = call[p].to /\ c.loaded = call[p].loaded
    BY <1>1, CallFacts DEF CallType
  <2>4. NamesSettled(c) /\ StillSafe(c)
    BY <1>1, <2>3 DEF NamesSettled, StillSafe
  <2>5. CASE n \in Rows
    <3>1. call' = [call EXCEPT ![p] = c]
      BY <2>1, <2>5
    <3>2. QED
      BY <1>7, <2>2, <2>3, <2>4, <3>1
  <2>6. CASE n \notin Rows
    BY <1>6, <2>1, <2>2, <2>6
  <2>7. QED
    BY <2>5, <2>6
<1>11. ASSUME NEW p \in Calls, CountChildren(p)
       PROVE  ForestInv'
  <2> DEFINE n == call[p].node
  <2> DEFINE c == [call[p] EXCEPT !.pc = IF call[p].left = {n} THEN "remove" ELSE "exists",
                                  !.node = None, !.left = call[p].left \ {n}]
  <2>1. UNCHANGED <<parent, used, moves>> /\ (call' = [call EXCEPT ![p] = c] \/ Finish(p))
    BY <1>11 DEF CountChildren
  <2>2. c.pc \in {"remove", "exists"} /\ c.op = call[p].op /\ c.to = call[p].to
        /\ c.loaded = call[p].loaded
    BY <1>1, CallFacts DEF CallType
  <2>3. NamesSettled(c) /\ StillSafe(c)
    BY <1>1, <2>2 DEF NamesSettled, StillSafe
  <2>4. QED
    BY <1>6, <1>7, <2>1, <2>2, <2>3
<1>12. ASSUME NEW p \in Calls, Collect(p)
       PROVE  ForestInv'
  <2> DEFINE B == Descendants(call[p].node)
  <2> DEFINE c == [call[p] EXCEPT !.pc = "remove", !.batch = B]
  <2>1. UNCHANGED <<parent, used, moves>> /\ (call' = [call EXCEPT ![p] = c] \/ Finish(p))
    BY <1>12 DEF Collect
  <2>2. c.pc = "remove" /\ c.op = call[p].op /\ c.to = call[p].to /\ c.loaded = call[p].loaded
    BY <1>1, CallFacts DEF CallType
  <2>3. NamesSettled(c) /\ StillSafe(c)
    BY <1>1, <2>2 DEF NamesSettled, StillSafe
  <2>4. QED
    BY <1>6, <1>7, <2>1, <2>2, <2>3
<1>13. ASSUME NEW p \in Calls, CallFails(p)
       PROVE  ForestInv'
  BY <1>6, <1>13 DEF CallFails
<1>14. ASSUME NEW p \in Calls, \/ \E n \in Nodes, q \in Nodes \cup {None} : Create(p, n, q)
                               \/ Insert(p) \/ WriteRow(p) \/ RemoveRows(p)
       PROVE  ForestInv'
  BY <1>0, <1>14, CreateForest, InsertForest, WriteForest, RemoveForest
<1>15. QED
  BY <1>2, <1>3, <1>4, <1>5, <1>8, <1>9, <1>10, <1>11, <1>12, <1>13, <1>14 DEF Next, Work

LEMMA ForestStutters == ForestInv /\ UNCHANGED vars => ForestInv'
  BY DEF vars, history, ForestInv, Typed, TypeOK, Reserved, At, Rows, Shape, Ids, NamesSettled,
         Settled, OneUpdate, Checked, StillSafe, Descendants, Acyclic, IsForest

\* No row is ever its own ancestor, unless two updates overlapped.
THEOREM ForestKept == Spec => []Acyclic
<1>1. ForestInv => Acyclic
  BY DEF ForestInv
<1>2. QED
  BY InitForest, NextForest, ForestStutters, <1>1, PTL DEF Spec
---------------------------------------------------------------------------
(* No orphans.  While no removal runs beside a create or an update, the     *)
(* rows a build names stay, and no child appears below a row a removal has  *)
(* found childless.                                                         *)

\* The rows a create or an update is about to name exist.
Held(c) == {c.to, c.loaded} \cap Nodes \subseteq Rows

\* Nothing hangs below the rows a delete has checked, and whatever hangs
\* below the rows to be removed is removed with them.
Bare(c) ==
  /\ c.pc \in {"exists", "childless"} => \A x \in Rows : parent[x] \notin c.batch \ c.left
  /\ c.pc = "remove" => \A x \in Rows : parent[x] \in c.batch => x \in c.batch

Apart == \A p, q \in Calls : ~(call[p].op \in Builds /\ call[q].op \in Removals)

OrphanInv ==
  /\ Typed
  /\ mixed \/ (Apart /\ \A p \in Calls : Held(call[p]) /\ Bare(call[p]))
  /\ NoOrphans

LEMMA InitOrphans == Init => OrphanInv
<1> SUFFICES ASSUME Init PROVE OrphanInv
  OBVIOUS
<1>1. \A p \in Calls : call[p] = Idle
  BY DEF Init
<1>2. Idle.pc = "idle" /\ Idle.op = "none" /\ Idle.to = None /\ Idle.loaded = None
  BY DEF Idle
<1>3. \A p \in Calls : Held(call[p]) /\ Bare(call[p])
  BY <1>1, <1>2, NamesAssumption DEF Held, Bare
<1>4. Apart
  BY <1>1, <1>2 DEF Apart, Builds
<1>5. QED
  BY <1>3, <1>4, InitTyped DEF Init, OrphanInv, NoOrphans

\* A step that replaces one request and leaves the rows alone.
LEMMA CallOrphans ==
  ASSUME OrphanInv, NEW p \in Calls, NEW c,
         call' = [call EXCEPT ![p] = c], UNCHANGED parent, Typed',
         mixed => mixed',
         ~mixed' => Held(c) /\ Bare(c),
         ~mixed' /\ c.op \in Builds => ~Running(Removals),
         ~mixed' /\ c.op \in Removals => ~Running(Builds)
  PROVE  OrphanInv'
<1>1. call'[p] = c /\ \A q \in Calls : q # p => call'[q] = call[q]
  BY DEF OrphanInv, Typed, TypeOK
<1>2. Rows' = Rows
  BY DEF Rows
<1>3. ASSUME ~mixed' PROVE \A q \in Calls : Held(call[q])' /\ Bare(call[q])'
  BY <1>1, <1>2, <1>3 DEF OrphanInv, Held, Bare
<1>4. ASSUME ~mixed' PROVE Apart'
  <2>1. c.op \notin Builds \/ c.op \notin Removals
    BY DEF Builds, Removals
  <2>2. QED
    BY <1>1, <1>4, <2>1 DEF OrphanInv, Apart, Running
<1>5. NoOrphans'
  BY <1>2 DEF OrphanInv, NoOrphans
<1>6. QED
  BY <1>3, <1>4, <1>5 DEF OrphanInv

\* Without a removal, a step of a create or an update ends it in a safe place.
LEMMA BuildOrphans ==
  ASSUME OrphanInv, Typed', NEW p \in Calls, Insert(p) \/ WriteRow(p)
  PROVE  OrphanInv'
<1> DEFINE n == call[p].node
<1> DEFINE to == IF At(p, "insert") THEN call[p].to ELSE NewParent(p)
<1>1. /\ call'[p] = Idle /\ \A r \in Calls : r # p => call'[r] = call[r]
      /\ mixed' = mixed
      /\ Idle.pc = "idle" /\ Idle.op = "none" /\ Idle.to = None /\ Idle.loaded = None
  BY DEF Insert, WriteRow, Finish, OrphanInv, Typed, TypeOK, Idle, history
<1>2. call[p].op \in Builds /\ call[p] \in CallType
  BY CallFacts DEF Insert, WriteRow, At, UpdatePcs, Builds, OrphanInv
<1>3. to \in Nodes \cup {None} /\ (to \in {call[p].to, call[p].loaded} \/ to = None)
  <2>1. CASE At(p, "insert")
    BY <2>1, CallFacts DEF OrphanInv
  <2>2. CASE ~At(p, "insert")
    <3>1. call[p].to \in Nodes \cup {Keep, Root} /\ call[p].loaded \in Nodes \cup {None}
      BY <2>2, CallFacts DEF Insert, WriteRow, At, UpdatePcs, OrphanInv
    <3>2. to = NewParent(p)
      BY <2>2
    <3>3. QED
      BY <3>1, <3>2, NamesAssumption DEF NewParent
  <2>3. QED
    BY <2>1, <2>2
<1>4. /\ \A x \in Nodes : x # n => parent'[x] = parent[x]
      /\ \/ parent' = parent
         \/ n \in Nodes /\ parent'[n] = to
  BY CallFacts DEF Insert, WriteRow, At, OrphanInv, Typed, TypeOK, UpdatePcs
<1>5. Rows \subseteq Rows'
  BY <1>3, <1>4, NamesAssumption DEF Rows
<1>6. NoOrphans'
  <2>1. CASE mixed
    BY <1>1, <2>1 DEF NoOrphans
  <2>2. CASE ~mixed
    <3>1. (to \in Rows \cup {None}) /\ \A x \in Rows : parent[x] \in Rows \cup {None}
      BY <1>3, <2>2 DEF OrphanInv, Held, NoOrphans
    <3>2. QED
      BY <1>4, <1>5, <3>1 DEF NoOrphans, Rows
  <2>3. QED
    BY <2>1, <2>2
<1>7. ASSUME ~mixed', NEW q \in Calls
      PROVE  Held(call[q])' /\ Bare(call[q])'
  <2>1. CASE q = p
    BY <1>1, <2>1, NamesAssumption DEF Held, Bare
  <2>2. CASE q # p
    <3>1. call[q].op \notin Removals
      BY <1>1, <1>2, <1>7 DEF OrphanInv, Apart
    <3>2. call'[q] = call[q] /\ call[q].pc \notin RemovalPcs
      BY <1>1, <2>2, <3>1, CallFacts DEF OrphanInv, Removals
    <3>3. Held(call[q])
      BY <1>1, <1>7 DEF OrphanInv
    <3>4. QED
      BY <1>5, <3>2, <3>3 DEF Held, Bare, RemovalPcs
  <2>3. QED
    BY <2>1, <2>2
<1>8. ~mixed' => Apart'
  BY <1>1 DEF OrphanInv, Apart, Builds, Removals
<1>9. QED
  BY <1>6, <1>7, <1>8 DEF OrphanInv

\* The removed rows leave no child behind, and no build names one of them.
LEMMA RemoveOrphans ==
  ASSUME OrphanInv, Typed', NEW p \in Calls, RemoveRows(p)
  PROVE  OrphanInv'
<1>1. /\ call'[p] = Idle /\ \A r \in Calls : r # p => call'[r] = call[r]
      /\ mixed' = mixed /\ call[p].pc = "remove"
      /\ Idle.pc = "idle" /\ Idle.op = "none" /\ Idle.to = None /\ Idle.loaded = None
  BY DEF RemoveRows, Finish, OrphanInv, Typed, TypeOK, Idle, history, At
<1>2. call[p].op \in Removals
  BY <1>1, CallFacts DEF OrphanInv, RemovalPcs, Removals
<1>3. Rows' = Rows \ call[p].batch /\ \A x \in Rows' : parent'[x] = parent[x]
  BY DEF RemoveRows, Rows
<1>4. NoOrphans'
  <2>1. CASE mixed
    BY <1>1, <2>1 DEF NoOrphans
  <2>2. CASE ~mixed
    <3>1. ASSUME NEW x \in Rows' PROVE parent'[x] \in Rows' \cup {None}
      <4>1. x \in Rows /\ x \notin call[p].batch /\ parent'[x] = parent[x]
        BY <1>3
      <4>2. parent[x] \notin call[p].batch
        BY <1>1, <2>2, <4>1 DEF OrphanInv, Bare
      <4>3. QED
        BY <1>3, <2>2, <4>1, <4>2 DEF OrphanInv, NoOrphans
    <3>2. QED
      BY <3>1 DEF NoOrphans
  <2>3. QED
    BY <2>1, <2>2
<1>5. ASSUME ~mixed', NEW q \in Calls
      PROVE  Held(call[q])' /\ Bare(call[q])'
  <2>1. CASE q = p
    BY <1>1, <2>1, NamesAssumption DEF Held, Bare
  <2>2. CASE q # p
    <3>1. call[q].op \notin Builds
      BY <1>1, <1>2, <1>5 DEF OrphanInv, Apart
    <3>2. call[q].to = None /\ call[q].loaded = None
      BY <3>1, CallFacts DEF OrphanInv, Shape, Builds, Idle
    <3>3. call'[q] = call[q] /\ Bare(call[q])
      BY <1>1, <1>5, <2>2 DEF OrphanInv
    <3>4. QED
      BY <1>3, <3>2, <3>3, NamesAssumption DEF Held, Bare
  <2>3. QED
    BY <2>1, <2>2
<1>6. ~mixed' => Apart'
  BY <1>1 DEF OrphanInv, Apart, Builds, Removals
<1>7. QED
  BY <1>4, <1>5, <1>6 DEF OrphanInv

LEMMA NextOrphans ==
  ASSUME OrphanInv, Next
  PROVE  OrphanInv'
<1> USE DEF history
<1>0. Typed' /\ Typed
  BY NextTyped DEF OrphanInv
<1>1. /\ moves \in BOOLEAN /\ mixed \in BOOLEAN
      /\ ~mixed => Apart /\ \A p \in Calls : Held(call[p]) /\ Bare(call[p])
  BY DEF OrphanInv, Typed, TypeOK
<1>2. ASSUME NEW p \in Calls, NEW op \in Builds, NEW pc \in {"insert", "descendants", "load"},
             NEW n, NEW to \in Rows \cup {None, Keep, Root}, Begin(p, op, pc, n, to, {}),
             UNCHANGED parent
      PROVE  OrphanInv'
  <2> DEFINE c == [op |-> op, pc |-> pc, node |-> n, to |-> to, loaded |-> None,
                   batch |-> {}, left |-> {}]
  <2>1. call' = [call EXCEPT ![p] = c] /\ (mixed => mixed') /\ (~mixed' => ~Running(Removals))
    BY <1>2 DEF Begin
  <2>2. Held(c) /\ Bare(c) /\ c.op \notin Removals
    BY <1>2, NamesAssumption DEF Held, Bare, Builds, Removals
  <2>3. QED
    BY <1>0, <1>2, <2>1, <2>2, CallOrphans
<1>3. ASSUME NEW p \in Calls, NEW op \in Removals, NEW pc \in {"exists", "collect"},
             NEW n, NEW batch, Begin(p, op, pc, n, None, batch), UNCHANGED parent
      PROVE  OrphanInv'
  <2> DEFINE c == [op |-> op, pc |-> pc, node |-> n, to |-> None, loaded |-> None,
                   batch |-> batch, left |-> batch]
  <2>1. call' = [call EXCEPT ![p] = c] /\ (mixed => mixed') /\ (~mixed' => ~Running(Builds))
    BY <1>3 DEF Begin
  <2>2. Held(c) /\ Bare(c) /\ c.op \notin Builds
    BY <1>3, NamesAssumption DEF Held, Bare, Builds, Removals
  <2>3. QED
    BY <1>0, <1>3, <2>1, <2>2, CallOrphans
<1>4. ASSUME NEW p \in Calls, NEW c, call' = [call EXCEPT ![p] = c], UNCHANGED <<parent, mixed>>,
             c.op \in {call[p].op, "none"}, ~mixed => Held(c) /\ Bare(c)
      PROVE  OrphanInv'
  <2>1. ~mixed' /\ c.op \in Builds => ~Running(Removals)
    BY <1>1, <1>4 DEF Apart, Running, Builds
  <2>2. ~mixed' /\ c.op \in Removals => ~Running(Builds)
    BY <1>1, <1>4 DEF Apart, Running, Removals
  <2>3. QED
    BY <1>0, <1>4, <2>1, <2>2, CallOrphans
<1>5. ASSUME NEW p \in Calls, Finish(p), UNCHANGED <<parent, mixed>>
      PROVE  OrphanInv'
  <2>1. Idle.pc = "idle" /\ Idle.op = "none" /\ Idle.to = None /\ Idle.loaded = None
    BY DEF Idle
  <2>2. Held(Idle) /\ Bare(Idle)
    BY <2>1, NamesAssumption DEF Held, Bare
  <2>3. QED
    BY <1>4, <1>5, <2>1, <2>2 DEF Finish
<1>6. ASSUME NEW p \in Calls, NEW n \in Nodes, NEW q \in Nodes \cup {None}, Create(p, n, q)
      PROVE  OrphanInv'
  BY <1>2, <1>6 DEF Create, Builds
<1>7. ASSUME NEW p \in Calls, NEW n \in Nodes, NEW q \in Nodes, Move(p, n, q)
      PROVE  OrphanInv'
  BY <1>2, <1>7 DEF Move, Builds
<1>8. ASSUME NEW p \in Calls, NEW n \in Nodes, NEW to \in {Keep, Root}, Edit(p, n, to)
      PROVE  OrphanInv'
  BY <1>2, <1>8 DEF Edit, Builds
<1>9. ASSUME NEW p \in Calls, NEW batch \in SUBSET Nodes, Delete(p, batch)
      PROVE  OrphanInv'
  BY <1>3, <1>9 DEF Delete, Removals
<1>10. ASSUME NEW p \in Calls, NEW n \in Nodes, Cascade(p, n)
       PROVE  OrphanInv'
  BY <1>3, <1>10 DEF Cascade, Removals
<1>11. ASSUME NEW p \in Calls, CheckDescendants(p)
       PROVE  OrphanInv'
  <2> DEFINE c == [call[p] EXCEPT !.pc = "load"]
  <2>1. UNCHANGED <<parent, mixed>> /\ (call' = [call EXCEPT ![p] = c] \/ Finish(p))
    BY <1>11 DEF CheckDescendants, Goto
  <2>2. c.pc = "load" /\ c.op = call[p].op /\ c.to = call[p].to /\ c.loaded = call[p].loaded
    BY <1>0, CallFacts DEF CallType
  <2>3. ~mixed => Held(c) /\ Bare(c)
    BY <1>1, <2>2 DEF Held, Bare
  <2>4. QED
    BY <1>4, <1>5, <2>1, <2>2, <2>3
<1>12. ASSUME NEW p \in Calls, LoadRow(p)
       PROVE  OrphanInv'
  <2> DEFINE n == call[p].node
  <2> DEFINE c == [call[p] EXCEPT !.pc = "write", !.loaded = parent[n]]
  <2>1. CASE n \in Rows
    <3>1. call' = [call EXCEPT ![p] = c] /\ UNCHANGED <<parent, mixed>>
      BY <1>12, <2>1 DEF LoadRow
    <3>2. c.pc = "write" /\ c.op = call[p].op /\ c.to = call[p].to /\ c.loaded = parent[n]
      BY <1>0, CallFacts DEF CallType
    <3>3. ~mixed => Held(c) /\ Bare(c)
      BY <1>1, <2>1, <3>2, NamesAssumption DEF OrphanInv, NoOrphans, Held, Bare
    <3>4. QED
      BY <1>4, <3>1, <3>2, <3>3
  <2>2. CASE n \notin Rows
    BY <1>5, <1>12, <2>2 DEF LoadRow
  <2>3. QED
    BY <2>1, <2>2
<1>13. ASSUME NEW p \in Calls, CheckExists(p)
       PROVE  OrphanInv'
  <2>1. PICK n \in call[p].left :
          IF n \in Rows THEN call' = [call EXCEPT ![p].pc = "childless", ![p].node = n]
          ELSE Finish(p)
    BY <1>13 DEF CheckExists
  <2> DEFINE c == [call[p] EXCEPT !.pc = "childless", !.node = n]
  <2>2. UNCHANGED <<parent, mixed>> /\ call[p].pc = "exists"
    BY <1>13 DEF CheckExists, At
  <2>3. CASE n \in Rows
    <3>1. call' = [call EXCEPT ![p] = c]
      BY <2>1, <2>3
    <3>2. c.pc = "childless" /\ c.op = call[p].op /\ c.to = call[p].to /\ c.loaded = call[p].loaded
          /\ c.batch = call[p].batch /\ c.left = call[p].left
      BY <1>0, CallFacts DEF CallType
    <3>3. ~mixed => Held(c) /\ Bare(c)
      BY <1>1, <2>2, <3>2 DEF Held, Bare
    <3>4. QED
      BY <1>4, <2>2, <3>1, <3>2, <3>3
  <2>4. CASE n \notin Rows
    BY <1>5, <2>1, <2>2, <2>4
  <2>5. QED
    BY <2>3, <2>4
<1>14. ASSUME NEW p \in Calls, CountChildren(p)
       PROVE  OrphanInv'
  <2> DEFINE n == call[p].node
  <2> DEFINE c == [call[p] EXCEPT !.pc = IF call[p].left = {n} THEN "remove" ELSE "exists",
                                  !.node = None, !.left = call[p].left \ {n}]
  <2>1. UNCHANGED <<parent, mixed>> /\ call[p].pc = "childless"
    BY <1>14 DEF CountChildren, At
  <2>2. CASE Childless(n)
    <3>1. call' = [call EXCEPT ![p] = c]
      BY <1>14, <2>2 DEF CountChildren
    <3>2. /\ c.pc = IF call[p].left = {n} THEN "remove" ELSE "exists"
          /\ c.op = call[p].op /\ c.to = call[p].to /\ c.loaded = call[p].loaded
          /\ c.batch = call[p].batch /\ c.left = call[p].left \ {n}
      BY <1>0, CallFacts DEF CallType
    <3>3. \A x \in Rows : parent[x] # n
      BY <2>2 DEF Childless, Children
    <3>4. ASSUME ~mixed PROVE Held(c) /\ Bare(c)
      <4>1. Held(call[p]) /\ \A x \in Rows : parent[x] \notin call[p].batch \ call[p].left
        BY <1>1, <2>1, <3>4 DEF Bare
      <4>2. \A x \in Rows : parent[x] \notin c.batch \ c.left
        BY <3>2, <3>3, <4>1
      <4>3. Held(c)
        BY <3>2, <4>1 DEF Held
      <4>4. CASE call[p].left = {n}
        <5>1. c.pc = "remove" /\ \A x \in Rows : parent[x] \notin c.batch
          BY <3>2, <4>2, <4>4
        <5>2. QED
          BY <4>3, <5>1 DEF Bare
      <4>5. CASE call[p].left # {n}
        BY <3>2, <4>2, <4>3, <4>5 DEF Bare
      <4>6. QED
        BY <4>4, <4>5
    <3>5. QED
      BY <1>4, <2>1, <3>1, <3>2, <3>4
  <2>3. CASE ~Childless(n)
    <3>1. Finish(p)
      BY <1>14, <2>3 DEF CountChildren
    <3>2. QED
      BY <1>5, <2>1, <3>1
  <2>4. QED
    BY <2>2, <2>3
<1>15. ASSUME NEW p \in Calls, Collect(p)
       PROVE  OrphanInv'
  <2> DEFINE B == Descendants(call[p].node)
  <2> DEFINE c == [call[p] EXCEPT !.pc = "remove", !.batch = B]
  <2>1. UNCHANGED <<parent, mixed>> /\ (call' = [call EXCEPT ![p] = c] \/ Finish(p))
    BY <1>15 DEF Collect
  <2>2. c.pc = "remove" /\ c.op = call[p].op /\ c.to = call[p].to /\ c.loaded = call[p].loaded
        /\ c.batch = B
    BY <1>0, CallFacts DEF CallType
  <2>3. ClosedIn(parent, B)
    BY BelowClosed, DescendantsBelow
  <2>4. \A x \in Rows : parent[x] \in B => x \in B
    BY <2>3, DescendantsBelow DEF ClosedIn
  <2>5. ~mixed => Held(c) /\ Bare(c)
    BY <1>1, <2>2, <2>4 DEF Held, Bare
  <2>6. QED
    BY <1>4, <1>5, <2>1, <2>2, <2>5
<1>16. ASSUME NEW p \in Calls, CallFails(p)
       PROVE  OrphanInv'
  BY <1>5, <1>16 DEF CallFails
<1>17. ASSUME NEW p \in Calls, Insert(p) \/ WriteRow(p) \/ RemoveRows(p)
       PROVE  OrphanInv'
  BY <1>0, <1>17, BuildOrphans, RemoveOrphans
<1>18. QED
  BY <1>6, <1>7, <1>8, <1>9, <1>10, <1>11, <1>12, <1>13, <1>14, <1>15, <1>16, <1>17 DEF Next, Work

\* Every parent_id names a row, unless a removal overlapped a create or an update.
THEOREM OrphansNeedOverlap == Spec => []NoOrphans
<1>1. OrphanInv /\ UNCHANGED vars => OrphanInv'
  BY DEF vars, history, OrphanInv, Typed, TypeOK, Reserved, At, Rows, Shape, Apart, Held, Bare,
         NoOrphans
<1>2. OrphanInv => NoOrphans
  BY DEF OrphanInv
<1>3. QED
  BY InitOrphans, NextOrphans, <1>1, <1>2, PTL DEF Spec

\* An update that names no parent writes back the parent it loaded; without
\* another update in flight that is still the stored one.
THEOREM LoneEditsSafe == Spec => LoneEditKeepsParent
<1>1. ASSUME ForestInv, NEW p \in Calls, ~moves, WriteRow(p), call[p].to = Keep
      PROVE  parent' = parent
  <2>1. NewParent(p) = call[p].loaded
    BY <1>1, NamesAssumption DEF NewParent
  <2>2. call[p].node \in Rows => parent[call[p].node] = call[p].loaded
    BY <1>1 DEF ForestInv, Checked, StillSafe, WriteRow, At
  <2>3. parent \in [Nodes -> Nodes \cup {None, Absent}]
    BY <1>1 DEF ForestInv, Typed, TypeOK
  <2>4. QED
    BY <1>1, <2>1, <2>2, <2>3 DEF WriteRow, Rows
<1>2. ForestInv =>
        [\A p \in Calls : ~moves /\ WriteRow(p) /\ call[p].to = Keep => UNCHANGED parent]_vars
  BY <1>1
<1>3. QED
  BY InitForest, NextForest, ForestStutters, <1>2, PTL DEF Spec, LoneEditKeepsParent
=============================================================================
