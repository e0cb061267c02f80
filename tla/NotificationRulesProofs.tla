---------------------- MODULE NotificationRulesProofs ----------------------
(* Theorems about NotificationRules, for every value of its constants. *)
EXTENDS NotificationRules, FiniteSetTheorems, TLAPS

\* The jobs taken back at a crash are finitely many.
LEMMA CopiesType ==
  ASSUME NEW back \in SUBSET Workers, NEW o
  PROVE  Cardinality({w \in back : Job(w) = o}) \in Nat
<1>1. {w \in back : Job(w) = o} \subseteq Workers
  OBVIOUS
<1>2. QED
  BY <1>1, WorkersAssumption, FS_Subset, FS_CardinalityType

\* What a running handler holds.
LEMMA BusyHandler ==
  ASSUME TypeOK, NEW w \in Workers, worker[w].pc # "idle"
  PROVE  /\ worker[w] \in BusyType
         /\ worker[w].rule \in Rules /\ worker[w].at \in Times
         /\ worker[w].plan \in Times \cup {None} /\ worker[w].def \in Definitions \cup {None}
         /\ Job(w) \in Occurrences
<1>1. worker[w] \in BusyType
  BY DEF TypeOK, WorkerType, IdleWorker
<1>2. QED
  BY <1>1 DEF BusyType, Job, Occurrences

\* Moving on, or finishing, keeps the handlers well typed.
LEMMA GotoType ==
  ASSUME TypeOK, NEW w \in Workers, worker[w].pc # "idle", NEW pc \in Busy, Goto(w, pc)
  PROVE  worker' \in [Workers -> WorkerType]
<1>1. worker[w] \in BusyType
  BY BusyHandler
<1>2. [worker[w] EXCEPT !.pc = pc] \in BusyType
  BY <1>1 DEF BusyType
<1>3. worker' = [worker EXCEPT ![w] = [worker[w] EXCEPT !.pc = pc]]
  BY DEF TypeOK, Goto
<1>4. QED
  BY <1>2, <1>3 DEF TypeOK, WorkerType

LEMMA FinishType ==
  ASSUME TypeOK, NEW w \in Workers, Finish(w)
  PROVE  worker' \in [Workers -> WorkerType]
  BY DEF TypeOK, Finish, WorkerType

LEMMA InitType == Init => TypeOK
<1> SUFFICES ASSUME Init PROVE TypeOK
  OBVIOUS
<1>1. 0 \in Times
  BY HorizonAssumption DEF Times
<1>2. rule \in [Rules -> RowType]
  BY DEF Init, RowType
<1>3. worker \in [Workers -> WorkerType] /\ admin \in [Admins -> AdminType]
  BY DEF Init, WorkerType, AdminType
<1>4. saves \in 0 .. MaxSaves /\ crashes \in 0 .. MaxCrashes /\ errors \in 0 .. MaxErrors
  BY BoundsAssumption DEF Init
<1>5. jobs \in [Occurrences -> Nat] /\ dispatched \in [Occurrences -> Nat]
  BY DEF Init
<1>6. QED
  BY <1>1, <1>2, <1>3, <1>4, <1>5 DEF Init, TypeOK

\* Every handler step keeps the types.
LEMMA WorkType ==
  ASSUME TypeOK, NEW w \in Workers, Work(w)
  PROVE  TypeOK'
<1> USE DEF At, world, bounds, history
<1> DEFINE row == rule[worker[w].rule]
<1>0. worker[w].pc # "idle"
  BY DEF Work, FindRule, RecordProcessing, LoadTemplate, LookupDispatch, ResolveRecipients,
         CreateDispatch, AdvanceSchedule, AdvanceFails, RecordSucceeded, ScheduleNext,
         KeepSchedule, RecordFailed, RetryJob
<1>b. /\ worker[w] \in BusyType /\ worker[w].rule \in Rules /\ worker[w].at \in Times
      /\ worker[w].plan \in Times \cup {None} /\ Job(w) \in Occurrences
      /\ row \in RowType
  BY <1>0, BusyHandler DEF TypeOK
<1>1. CASE FindRule(w)
  <2>1. [worker[w] EXCEPT !.pc = "record", !.def = row.def] \in BusyType
    BY <1>b DEF BusyType, RowType, Busy, Loaded
  <2>2. worker' \in [Workers -> WorkerType]
    BY <1>1, <2>1, FinishType DEF FindRule, TypeOK, WorkerType
  <2>3. QED
    BY <1>1, <2>2 DEF FindRule, TypeOK
<1>2. CASE RecordProcessing(w)
  BY <1>2, <1>0, <1>b, GotoType DEF RecordProcessing, TypeOK, Busy, Loaded
<1>3. CASE LoadTemplate(w)
  BY <1>3, <1>0, GotoType DEF LoadTemplate, TypeOK, Busy, Loaded
<1>4. CASE LookupDispatch(w)
  BY <1>4, <1>0, GotoType DEF LookupDispatch, TypeOK, Busy, Loaded
<1>5. CASE ResolveRecipients(w)
  BY <1>5, <1>0, GotoType DEF ResolveRecipients, AfterResolve, TypeOK, Busy, Loaded
<1>6. CASE CreateDispatch(w)
  <2>1. worker' \in [Workers -> WorkerType]
    BY <1>6, <1>0, GotoType DEF CreateDispatch, Busy, Loaded
  <2>2. dispatched' \in [Occurrences -> Nat]
    BY <1>6, <1>b DEF CreateDispatch, TypeOK
  <2>3. QED
    BY <1>6, <2>1, <2>2 DEF CreateDispatch, TypeOK
<1>7. CASE AdvanceSchedule(w)
  <2>1. PICK n \in Times \cup {None} :
          /\ rule' = [rule EXCEPT ![worker[w].rule] =
               [@ EXCEPT !.next = n, !.firedFor = worker[w].at, !.failing = FALSE]]
          /\ worker' = [worker EXCEPT ![w].pc = "succeed", ![w].plan = n]
    BY <1>7 DEF AdvanceSchedule
  <2>2. [worker[w] EXCEPT !.pc = "succeed", !.plan = n] \in BusyType
    BY <1>b DEF BusyType, Busy, Written
  <2>3. [row EXCEPT !.next = n, !.firedFor = worker[w].at, !.failing = FALSE] \in RowType
    BY <1>b DEF RowType
  <2>4. worker' \in [Workers -> WorkerType]
    BY <2>1, <2>2 DEF TypeOK, WorkerType
  <2>5. rule' \in [Rules -> RowType]
    BY <2>1, <2>3 DEF TypeOK
  <2>6. QED
    BY <1>7, <2>4, <2>5 DEF AdvanceSchedule, TypeOK
<1>8. CASE AdvanceFails(w)
  BY <1>8, <1>b, FinishType DEF AdvanceFails, TypeOK
<1>9. CASE RecordSucceeded(w)
  BY <1>9, <1>0, <1>b, GotoType, FinishType DEF RecordSucceeded, TypeOK, Busy, Written
<1>10. CASE ScheduleNext(w)
  <2>1. jobs' \in [Occurrences -> Nat]
    <3> DEFINE o == <<worker[w].rule, worker[w].plan>>
    <3>1. CASE o \in Occurrences
      BY <1>10, <3>1 DEF ScheduleNext, TypeOK
    <3>2. CASE o \notin Occurrences
      BY <1>10, <3>2 DEF ScheduleNext, TypeOK
    <3>3. QED
      BY <3>1, <3>2
  <2>2. QED
    BY <1>10, <2>1, FinishType DEF ScheduleNext, TypeOK
<1>11. CASE KeepSchedule(w)
  <2>1. [row EXCEPT !.next = worker[w].at, !.firedFor = None, !.failing = TRUE] \in RowType
    BY <1>b DEF RowType
  <2>2. rule' \in [Rules -> RowType]
    BY <1>11, <2>1 DEF KeepSchedule, TypeOK
  <2>3. QED
    BY <1>11, <2>2, <1>0, GotoType DEF KeepSchedule, TypeOK, Busy, Written
<1>12. CASE RecordFailed(w)
  BY <1>12, <1>0, <1>b, GotoType DEF RecordFailed, TypeOK, Busy, Written
<1>13. CASE RetryJob(w)
  BY <1>13, <1>b, FinishType DEF RetryJob, TypeOK
<1>14. QED
  BY <1>1, <1>2, <1>3, <1>4, <1>5, <1>6, <1>7, <1>8, <1>9, <1>10, <1>11, <1>12, <1>13 DEF Work

\* So does every other step.
LEMMA NextType == TypeOK /\ [Next]_vars => TypeOK'
<1> SUFFICES ASSUME TypeOK, [Next]_vars PROVE TypeOK'
  OBVIOUS
<1> USE DEF At, world, bounds, history
<1>1. ASSUME NEW w \in Workers, NEW o \in Occurrences, Take(w, o) PROVE TypeOK'
  <2>1. o[1] \in Rules /\ o[2] \in Times
    BY DEF Occurrences
  <2>2. [pc |-> "find", rule |-> o[1], at |-> o[2], def |-> None, plan |-> None] \in BusyType
    BY <2>1 DEF BusyType, Busy
  <2>3. worker' \in [Workers -> WorkerType]
    BY <1>1, <2>2 DEF Take, TypeOK, WorkerType
  <2>4. jobs' \in [Occurrences -> Nat]
    BY <1>1 DEF Take, Available, TypeOK
  <2>5. QED
    BY <1>1, <2>3, <2>4 DEF Take, TypeOK
<1>2. ASSUME NEW w \in Workers, Work(w) PROVE TypeOK'
  BY <1>2, WorkType
<1>3. ASSUME NEW w \in Workers, PublishError(w) PROVE TypeOK'
  <2>1. worker' \in [Workers -> WorkerType]
    BY <1>3, GotoType DEF PublishError, Busy, Loaded
  <2>2. dispatched' \in [Occurrences -> Nat]
    BY <1>3 DEF PublishError, TypeOK
  <2>3. errors' \in 0 .. MaxErrors
    BY <1>3, BoundsAssumption DEF PublishError, SpendError, TypeOK
  <2>4. QED
    BY <1>3, <2>1, <2>2, <2>3 DEF PublishError, TypeOK
<1>4. ASSUME NEW w \in Workers, AbortFire(w) PROVE TypeOK'
  <2>1. errors' \in 0 .. MaxErrors
    BY <1>4, BoundsAssumption DEF AbortFire, SpendError, TypeOK
  <2>2. QED
    BY <1>4, <2>1, FinishType DEF AbortFire, TypeOK
<1>5. ASSUME NEW a \in Admins, NEW r \in Rules, NEW d \in Definitions, Save(a, r, d)
      PROVE  TypeOK'
  <2>1. PICK n \in Times \cup {None} :
          /\ rule' = [rule EXCEPT ![r] = [@ EXCEPT !.def = d, !.next = n, !.failing = FALSE]]
          /\ admin' = [admin EXCEPT ![a] = IF n = None THEN IdleAdmin ELSE [rule |-> r, at |-> n]]
    BY <1>5 DEF Save
  <2>2. [rule[r] EXCEPT !.def = d, !.next = n, !.failing = FALSE] \in RowType
    BY DEF TypeOK, RowType
  <2>3. rule' \in [Rules -> RowType]
    BY <2>1, <2>2 DEF TypeOK
  <2>4. admin' \in [Admins -> AdminType]
    BY <2>1 DEF TypeOK, AdminType
  <2>5. saves' \in 0 .. MaxSaves
    BY <1>5, BoundsAssumption DEF Save, TypeOK
  <2>6. savedAt' \in [Rules -> Times] /\ raced' \in [Rules -> BOOLEAN]
    BY <1>5 DEF Save, TypeOK
  <2>7. QED
    BY <1>5, <2>3, <2>4, <2>5, <2>6 DEF Save, TypeOK
<1>6. ASSUME NEW a \in Admins, EnqueueSaved(a) PROVE TypeOK'
  <2>1. <<admin[a].rule, admin[a].at>> \in Occurrences
    BY <1>6 DEF EnqueueSaved, TypeOK, AdminType, IdleAdmin, Occurrences
  <2>2. jobs' \in [Occurrences -> Nat]
    BY <1>6, <2>1 DEF EnqueueSaved, TypeOK
  <2>3. admin' \in [Admins -> AdminType]
    BY <1>6 DEF EnqueueSaved, TypeOK, AdminType
  <2>4. QED
    BY <1>6, <2>2, <2>3 DEF EnqueueSaved, TypeOK
<1>7. ASSUME NEW a \in Admins, EnqueueFails(a) PROVE TypeOK'
  <2>1. errors' \in 0 .. MaxErrors
    BY <1>7, BoundsAssumption DEF EnqueueFails, SpendError, TypeOK
  <2>2. admin' \in [Admins -> AdminType]
    BY <1>7 DEF EnqueueFails, TypeOK, AdminType
  <2>3. stranded' \in [Rules -> BOOLEAN]
    BY <1>7 DEF EnqueueFails, TypeOK
  <2>4. QED
    BY <1>7, <2>1, <2>2, <2>3 DEF EnqueueFails, TypeOK
<1>8. CASE Crash
  <2>1. PICK back \in SUBSET {w \in Workers : worker[w].pc # "idle"} :
          jobs' = [o \in Occurrences |-> jobs[o] + Cardinality({w \in back : Job(w) = o})]
    BY <1>8 DEF Crash
  <2>2. \A o \in Occurrences : Cardinality({w \in back : Job(w) = o}) \in Nat
    BY CopiesType
  <2>3. jobs' \in [Occurrences -> Nat]
    BY <2>1, <2>2 DEF TypeOK
  <2>4. crashes' \in 0 .. MaxCrashes
    BY <1>8, BoundsAssumption DEF Crash, TypeOK
  <2>5. worker' \in [Workers -> WorkerType] /\ admin' \in [Admins -> AdminType]
    BY <1>8 DEF Crash, WorkerType, AdminType
  <2>6. up' \in BOOLEAN
    BY <1>8 DEF Crash
  <2>7. QED
    BY <1>8, <2>3, <2>4, <2>5, <2>6 DEF Crash, TypeOK
<1>9. CASE Startup
  BY <1>9 DEF Startup, TypeOK
<1>10. CASE Tick
  BY <1>10, HorizonAssumption DEF Tick, TypeOK, Times
<1>11. CASE ToggleTemplate
  BY <1>11 DEF ToggleTemplate, TypeOK
<1>12. CASE ToggleAudience
  BY <1>12 DEF ToggleAudience, TypeOK
<1>13. CASE UNCHANGED vars
  BY <1>13 DEF vars, TypeOK
<1>14. QED
  BY <1>1, <1>2, <1>3, <1>4, <1>5, <1>6, <1>7, <1>8, <1>9, <1>10, <1>11, <1>12, <1>13
  DEF Next, CreateRule, UpdateRule

\* Type correctness: rows, queue, handlers and history keep their types.
THEOREM TypeCorrect == Spec => []TypeOK
  BY InitType, NextType, PTL DEF Spec

---------------------------------------------------------------------------
(* An armed rule is never forgotten. *)

\* One occurrence of the invariant, the shape every step below preserves.
Remembered(o) == Armed(o) /\ ~stranded[o[1]] => Covered(o)

\* A handler step that moves on within the pcs that hold its own occurrence.
LEMMA CoveredGoto ==
  ASSUME TypeOK, NEW w \in Workers, NEW o \in Occurrences, NEW pc \in {"fail", "retry"} \cup Loaded,
         worker[w].pc \in {"find", "fail", "retry"} \cup Loaded,
         Goto(w, pc), Covered(o), UNCHANGED <<jobs, admin>>
  PROVE  Covered(o)'
<1>1. worker'[w].pc = pc /\ worker'[w].rule = worker[w].rule /\ worker'[w].at = worker[w].at
  BY BusyHandler DEF Goto, TypeOK, WorkerType, BusyType, IdleWorker
<1>2. \A v \in Workers \ {w} : worker'[v] = worker[v]
  BY DEF Goto, TypeOK
<1>3. \A v \in Workers : Holds(v, o) => Holds(v, o)'
  BY <1>1, <1>2 DEF Holds, Job, Loaded
<1>4. QED
  BY <1>3 DEF Covered

\* A handler that ends covers nothing any more, everybody else still does.
LEMMA CoveredFinish ==
  ASSUME TypeOK, NEW w \in Workers, NEW o \in Occurrences, Finish(w),
         Covered(o), ~Holds(w, o), UNCHANGED admin, jobs'[o] = jobs[o]
  PROVE  Covered(o)'
<1>1. \A v \in Workers \ {w} : worker'[v] = worker[v]
  BY DEF Finish, TypeOK
<1>2. \A v \in Workers : Holds(v, o) => Holds(v, o)'
  BY <1>1 DEF Holds, Job
<1>3. QED
  BY <1>2 DEF Covered

LEMMA WorkRemembers ==
  ASSUME TypeOK, TypeOK', NEW w \in Workers, Work(w), NEW o \in Occurrences, Remembered(o)
  PROVE  Remembered(o)'
<1> SUFFICES ASSUME Armed(o)', ~stranded'[o[1]] PROVE Covered(o)'
  BY DEF Remembered
<1> USE DEF At, world, bounds, history
<1>o. o[1] \in Rules /\ o[2] \in Times /\ o = <<o[1], o[2]>>
  BY DEF Occurrences
<1>1. CASE FindRule(w)
  <2>1. Armed(o) /\ Covered(o)
    BY <1>1 DEF FindRule, Armed, Remembered
  <2>2. CASE StillDue(Job(w))
    <3>1. worker' = [worker EXCEPT ![w].pc = "record", ![w].def = rule[worker[w].rule].def]
      BY <1>1, <2>2 DEF FindRule
    <3>2. worker[w] \in BusyType
      BY <1>1, BusyHandler DEF FindRule
    <3>3. \A v \in Workers : Holds(v, o) => Holds(v, o)'
      BY <1>1, <3>1, <3>2 DEF FindRule, Holds, Job, Loaded, TypeOK, BusyType
    <3>4. QED
      BY <1>1, <2>1, <3>3 DEF FindRule, Covered
  <2>3. CASE ~StillDue(Job(w))
    <3>1. ~Holds(w, o)
      BY <1>1, <2>1, <2>3 DEF FindRule, Holds, StillDue
    <3>2. QED
      BY <1>1, <2>1, <2>3, <3>1, CoveredFinish DEF FindRule, TypeOK
  <2>4. QED
    BY <2>2, <2>3
<1>2. CASE RecordProcessing(w) \/ LoadTemplate(w) \/ LookupDispatch(w) \/ ResolveRecipients(w)
           \/ CreateDispatch(w) \/ RecordFailed(w)
  <2>1. Armed(o) /\ Covered(o)
    BY <1>2 DEF RecordProcessing, LoadTemplate, LookupDispatch, ResolveRecipients,
                CreateDispatch, RecordFailed, Armed, Remembered
  <2>2. UNCHANGED <<jobs, admin>>
    BY <1>2 DEF RecordProcessing, LoadTemplate, LookupDispatch, ResolveRecipients,
                CreateDispatch, RecordFailed
  <2>3. worker[w].pc \in {"fail"} \cup Loaded
    BY <1>2 DEF RecordProcessing, LoadTemplate, LookupDispatch, ResolveRecipients,
                CreateDispatch, RecordFailed, Loaded
  <2>4. \E pc \in {"retry"} \cup Loaded : Goto(w, pc)
    BY <1>2 DEF RecordProcessing, LoadTemplate, LookupDispatch, ResolveRecipients,
                CreateDispatch, RecordFailed, AfterResolve, Loaded
  <2>5. QED
    BY <2>1, <2>2, <2>3, <2>4, CoveredGoto
<1>3. CASE AdvanceSchedule(w)
  <2>1. PICK n \in Times \cup {None} :
          /\ rule' = [rule EXCEPT ![worker[w].rule] =
               [@ EXCEPT !.next = n, !.firedFor = worker[w].at, !.failing = FALSE]]
          /\ worker' = [worker EXCEPT ![w].pc = "succeed", ![w].plan = n]
    BY <1>3 DEF AdvanceSchedule
  <2>2. worker[w] \in BusyType
    BY <1>3, BusyHandler DEF AdvanceSchedule
  <2>3. /\ worker'[w].pc = "succeed" /\ worker'[w].plan = n /\ worker'[w].rule = worker[w].rule
        /\ \A v \in Workers \ {w} : worker'[v] = worker[v]
    BY <2>1, <2>2 DEF TypeOK, BusyType
  <2>4. CASE o[1] = worker[w].rule
    <3>1. rule'[o[1]].next = n
      BY <1>o, <2>1, <2>4 DEF TypeOK, RowType
    <3>2. Holds(w, o)'
      BY <2>3, <2>4, <3>1 DEF Holds, Armed
    <3>3. QED
      BY <3>2 DEF Covered
  <2>5. CASE o[1] # worker[w].rule
    <3>1. rule'[o[1]] = rule[o[1]]
      BY <1>o, <2>1, <2>5 DEF TypeOK
    <3>2. Armed(o) /\ Covered(o)
      BY <1>3, <3>1 DEF AdvanceSchedule, Armed, Remembered
    <3>3. ~Holds(w, o)
      BY <1>3, <2>5 DEF AdvanceSchedule, Holds, Job
    <3>4. \A v \in Workers : Holds(v, o) => Holds(v, o)'
      BY <2>3, <3>3 DEF Holds, Job
    <3>5. QED
      BY <1>3, <3>2, <3>4 DEF AdvanceSchedule, Covered
  <2>6. QED
    BY <2>4, <2>5
<1>4. CASE AdvanceFails(w)
  <2>1. o[1] # worker[w].rule
    BY <1>4, <1>o DEF AdvanceFails, TypeOK
  <2>2. Armed(o) /\ Covered(o) /\ ~Holds(w, o)
    BY <1>4, <1>o, <2>1 DEF AdvanceFails, Armed, Remembered, Holds, Job, TypeOK
  <2>3. QED
    BY <1>4, <2>2, CoveredFinish DEF AdvanceFails, TypeOK
<1>5. CASE RecordSucceeded(w)
  <2>1. Armed(o) /\ Covered(o) /\ UNCHANGED <<jobs, admin>>
    BY <1>5 DEF RecordSucceeded, Armed, Remembered
  <2>2. CASE worker[w].plan = None
    <3>1. ~Holds(w, o)
      BY <1>5, <1>o, <2>2, NoneAssumption DEF RecordSucceeded, Holds, Loaded
    <3>2. QED
      BY <1>5, <2>1, <2>2, <3>1, CoveredFinish DEF RecordSucceeded, TypeOK
  <2>3. CASE worker[w].plan # None
    <3>1. worker' = [worker EXCEPT ![w].pc = "chain"]
      BY <1>5, <2>3 DEF RecordSucceeded, Goto
    <3>2. worker[w] \in BusyType
      BY <1>5, BusyHandler DEF RecordSucceeded
    <3>3. \A v \in Workers : Holds(v, o) => Holds(v, o)'
      BY <1>5, <3>1, <3>2 DEF RecordSucceeded, Holds, Job, Loaded, TypeOK, BusyType
    <3>4. QED
      BY <2>1, <3>3 DEF Covered
  <2>4. QED
    BY <2>2, <2>3
<1>6. CASE ScheduleNext(w)
  <2>1. Armed(o) /\ Covered(o) /\ UNCHANGED admin /\ Finish(w)
    BY <1>6 DEF ScheduleNext, Armed, Remembered
  <2>2. CASE o = <<worker[w].rule, worker[w].plan>>
    <3>1. jobs'[o] = jobs[o] + 1 /\ jobs[o] \in Nat
      BY <1>6, <2>2 DEF ScheduleNext, TypeOK
    <3>2. QED
      BY <3>1 DEF Covered
  <2>3. CASE o # <<worker[w].rule, worker[w].plan>>
    <3>1. jobs'[o] = jobs[o] /\ jobs[o] \in Nat
      BY <1>6, <2>3 DEF ScheduleNext, TypeOK
    <3>2. ~Holds(w, o)
      BY <1>6, <1>o, <2>3 DEF ScheduleNext, Holds, Loaded
    <3>3. QED
      BY <2>1, <3>1, <3>2, CoveredFinish
  <2>4. QED
    BY <2>2, <2>3
<1>7. CASE KeepSchedule(w)
  <2>1. worker[w] \in BusyType
    BY <1>7, BusyHandler DEF KeepSchedule
  <2>2. CASE o[1] = worker[w].rule
    <3>1. rule'[o[1]].next = worker[w].at
      BY <1>7, <1>o, <2>2 DEF KeepSchedule, TypeOK, RowType
    <3>2. Job(w) = o
      BY <1>o, <2>2, <3>1 DEF Armed, Job
    <3>3. worker'[w].pc = "fail" /\ Job(w)' = Job(w)
      BY <1>7, <2>1 DEF KeepSchedule, Goto, Job, TypeOK, BusyType
    <3>4. Holds(w, o)'
      BY <3>2, <3>3 DEF Holds
    <3>5. QED
      BY <3>4 DEF Covered
  <2>3. CASE o[1] # worker[w].rule
    <3>1. rule'[o[1]] = rule[o[1]]
      BY <1>7, <1>o, <2>3 DEF KeepSchedule, TypeOK
    <3>2. Armed(o) /\ Covered(o)
      BY <1>7, <3>1 DEF KeepSchedule, Armed, Remembered
    <3>3. QED
      BY <1>7, <3>2, CoveredGoto DEF KeepSchedule, Loaded
  <2>4. QED
    BY <2>2, <2>3
<1>8. CASE RetryJob(w)
  <2>1. Armed(o) /\ Covered(o) /\ UNCHANGED admin /\ Finish(w)
    BY <1>8 DEF RetryJob, Armed, Remembered
  <2>2. CASE o = Job(w)
    <3>1. jobs'[o] = jobs[o] + 1 /\ jobs[o] \in Nat
      BY <1>8, <2>2 DEF RetryJob, TypeOK
    <3>2. QED
      BY <3>1 DEF Covered
  <2>3. CASE o # Job(w)
    <3>1. jobs'[o] = jobs[o] /\ jobs[o] \in Nat
      BY <1>8, <2>3 DEF RetryJob, TypeOK
    <3>2. ~Holds(w, o)
      BY <1>8, <2>3 DEF RetryJob, Holds
    <3>3. QED
      BY <2>1, <3>1, <3>2, CoveredFinish
  <2>4. QED
    BY <2>2, <2>3
<1>9. QED
  BY <1>1, <1>2, <1>3, <1>4, <1>5, <1>6, <1>7, <1>8 DEF Work

\* Steps that leave rules, queue, handlers and pending saves alone.
LEMMA FrameRemembers ==
  ASSUME NEW o, Remembered(o), UNCHANGED <<rule, jobs, worker, admin, stranded>>
  PROVE  Remembered(o)'
  BY DEF Remembered, Armed, Covered, Holds, Job

LEMMA NextRemembers ==
  ASSUME TypeOK, TypeOK', [Next]_vars, NEW o \in Occurrences, up, up', Remembered(o)
  PROVE  Remembered(o)'
<1> USE DEF At, world, bounds, history
<1>o. o[1] \in Rules /\ o[2] \in Times /\ o = <<o[1], o[2]>>
  BY DEF Occurrences
<1>1. ASSUME NEW w \in Workers, NEW p \in Occurrences, Take(w, p) PROVE Remembered(o)'
  <2> SUFFICES ASSUME Armed(o)', ~stranded'[o[1]] PROVE Covered(o)'
    BY DEF Remembered
  <2>1. Armed(o) /\ Covered(o)
    BY <1>1 DEF Take, Armed, Remembered
  <2>2. p = <<p[1], p[2]>>
    BY DEF Occurrences
  <2>3. worker'[w] = [pc |-> "find", rule |-> p[1], at |-> p[2], def |-> None, plan |-> None]
    BY <1>1 DEF Take, TypeOK
  <2>4. CASE o = p
    <3>1. Holds(w, o)'
      BY <2>2, <2>3, <2>4 DEF Holds, Job
    <3>2. QED
      BY <3>1 DEF Covered
  <2>5. CASE o # p
    <3>1. jobs'[o] = jobs[o]
      BY <1>1, <2>5 DEF Take, TypeOK
    <3>2. ~Holds(w, o)
      BY <1>1 DEF Take, Holds, Loaded
    <3>3. \A v \in Workers : Holds(v, o) => Holds(v, o)'
      BY <1>1, <3>2 DEF Take, Holds, Job, TypeOK
    <3>4. QED
      BY <1>1, <2>1, <3>1, <3>3 DEF Take, Covered
  <2>6. QED
    BY <2>4, <2>5
<1>2. ASSUME NEW w \in Workers, Work(w) PROVE Remembered(o)'
  BY <1>2, WorkRemembers
<1>3. ASSUME NEW w \in Workers, PublishError(w) PROVE Remembered(o)'
  <2>1. worker[w].pc \in Loaded /\ Goto(w, "reset")
    BY <1>3 DEF PublishError, Loaded
  <2>2. UNCHANGED <<rule, jobs, admin, stranded>>
    BY <1>3 DEF PublishError
  <2>3. QED
    BY <2>1, <2>2, CoveredGoto DEF Remembered, Armed, Loaded
<1>4. ASSUME NEW w \in Workers, AbortFire(w) PROVE Remembered(o)'
  <2> SUFFICES ASSUME Armed(o)', ~stranded'[o[1]] PROVE Covered(o)'
    BY DEF Remembered
  <2>1. o[1] # worker[w].rule
    BY <1>4, <1>o DEF AbortFire, TypeOK
  <2>2. Armed(o) /\ Covered(o) /\ ~Holds(w, o)
    BY <1>4, <1>o, <2>1 DEF AbortFire, Armed, Remembered, Holds, Job, TypeOK
  <2>3. QED
    BY <1>4, <2>2, CoveredFinish DEF AbortFire, TypeOK
<1>5. ASSUME NEW a \in Admins, NEW r \in Rules, NEW d \in Definitions, Save(a, r, d)
      PROVE  Remembered(o)'
  <2> SUFFICES ASSUME Armed(o)', ~stranded'[o[1]] PROVE Covered(o)'
    BY DEF Remembered
  <2>1. PICK n \in Times \cup {None} :
          /\ rule' = [rule EXCEPT ![r] = [@ EXCEPT !.def = d, !.next = n, !.failing = FALSE]]
          /\ admin' = [admin EXCEPT ![a] = IF n = None THEN IdleAdmin ELSE [rule |-> r, at |-> n]]
    BY <1>5 DEF Save
  <2>2. CASE o[1] = r
    <3>1. rule'[r].next = n
      BY <2>1 DEF TypeOK, RowType
    <3>2. n = o[2] /\ n # None
      BY <1>o, <2>2, <3>1, NoneAssumption DEF Armed
    <3>3. admin'[a] = [rule |-> o[1], at |-> o[2]]
      BY <2>1, <2>2, <3>2 DEF TypeOK
    <3>4. QED
      BY <3>3 DEF Covered
  <2>3. CASE o[1] # r
    <3>1. rule'[o[1]] = rule[o[1]]
      BY <1>o, <2>1, <2>3 DEF TypeOK
    <3>2. Armed(o) /\ Covered(o)
      BY <1>5, <3>1 DEF Save, Armed, Remembered
    <3>3. admin[a] # [rule |-> o[1], at |-> o[2]]
      BY <1>5, <1>o, NoneAssumption DEF Save, IdleAdmin
    <3>4. \A b \in Admins \ {a} : admin'[b] = admin[b]
      BY <2>1 DEF TypeOK
    <3>5. QED
      BY <1>5, <3>2, <3>3, <3>4 DEF Save, Covered, Holds, Job
  <2>4. QED
    BY <2>2, <2>3
<1>6. ASSUME NEW a \in Admins, EnqueueSaved(a) PROVE Remembered(o)'
  <2> SUFFICES ASSUME Armed(o)', ~stranded'[o[1]] PROVE Covered(o)'
    BY DEF Remembered
  <2>1. Armed(o) /\ Covered(o)
    BY <1>6 DEF EnqueueSaved, Armed, Remembered
  <2>2. admin[a] \in [rule : Rules, at : Times]
    BY <1>6 DEF EnqueueSaved, TypeOK, AdminType
  <2>3. \A b \in Admins \ {a} : admin'[b] = admin[b]
    BY <1>6 DEF EnqueueSaved, TypeOK
  <2>4. CASE o = <<admin[a].rule, admin[a].at>>
    <3>1. jobs'[o] = jobs[o] + 1 /\ jobs[o] \in Nat
      BY <1>6, <2>4 DEF EnqueueSaved, TypeOK
    <3>2. QED
      BY <3>1 DEF Covered
  <2>5. CASE o # <<admin[a].rule, admin[a].at>>
    <3>1. jobs'[o] = jobs[o]
      BY <1>6, <2>5 DEF EnqueueSaved, TypeOK
    <3>2. admin[a] # [rule |-> o[1], at |-> o[2]]
      BY <1>o, <2>5
    <3>3. QED
      BY <1>6, <2>1, <2>3, <3>1, <3>2 DEF EnqueueSaved, Covered, Holds, Job
  <2>6. QED
    BY <2>4, <2>5
<1>7. ASSUME NEW a \in Admins, EnqueueFails(a) PROVE Remembered(o)'
  <2> SUFFICES ASSUME Armed(o)', ~stranded'[o[1]] PROVE Covered(o)'
    BY DEF Remembered
  <2>1. admin[a] \in [rule : Rules, at : Times]
    BY <1>7 DEF EnqueueFails, TypeOK, AdminType
  <2>2. o[1] # admin[a].rule
    BY <1>7, <2>1 DEF EnqueueFails, TypeOK
  <2>3. Armed(o) /\ Covered(o)
    BY <1>7, <1>o, <2>2 DEF EnqueueFails, Armed, Remembered, TypeOK
  <2>4. \A b \in Admins \ {a} : admin'[b] = admin[b]
    BY <1>7 DEF EnqueueFails, TypeOK
  <2>5. admin[a] # [rule |-> o[1], at |-> o[2]]
    BY <2>2
  <2>6. QED
    BY <1>7, <2>3, <2>4, <2>5 DEF EnqueueFails, Covered, Holds, Job
<1>8. CASE Crash \/ Startup
  BY <1>8 DEF Crash, Startup
<1>9. CASE Tick \/ ToggleTemplate \/ ToggleAudience \/ UNCHANGED vars
  BY <1>9, FrameRemembers DEF Tick, ToggleTemplate, ToggleAudience, vars
<1>10. QED
  BY <1>1, <1>2, <1>3, <1>4, <1>5, <1>6, <1>7, <1>8, <1>9 DEF Next, CreateRule, UpdateRule

\* sync_time_rule_jobs covers every armed rule before anything else runs.
LEMMA StartupRemembers ==
  ASSUME TypeOK, Startup, NEW o \in Occurrences
  PROVE  Remembered(o)'
<1> SUFFICES ASSUME Armed(o)' PROVE Covered(o)'
  BY DEF Remembered
<1>1. Resumed(o)
  BY DEF Startup, Armed, Resumed
<1>2. jobs'[o] = jobs[o] + 1 /\ jobs[o] \in Nat
  BY <1>1 DEF Startup, TypeOK
<1>3. QED
  BY <1>2 DEF Covered

\* While the process runs, every armed occurrence has a job, a handler or a
\* save that will run it, unless a failed call stranded its rule since the
\* last start-up (service.rs fire_rule_job, sync_time_rule_jobs).
THEOREM NeverForgotten == Spec => []ScheduleCovered
<1>1. Init => ScheduleCovered
  BY NoneAssumption DEF Init, ScheduleCovered, Armed, IsTimeRule, Occurrences
<1>2. TypeOK /\ TypeOK' /\ ScheduleCovered /\ [Next]_vars => ScheduleCovered'
  <2> SUFFICES ASSUME TypeOK, TypeOK', ScheduleCovered, [Next]_vars, up',
                      NEW o \in Occurrences
               PROVE  Remembered(o)'
    BY DEF ScheduleCovered, Remembered
  <2>1. CASE up
    BY <2>1, NextRemembers DEF ScheduleCovered, Remembered
  <2>2. CASE ~up
    <3>1. Startup
      BY <2>2 DEF Next, Take, Work, FindRule, RecordProcessing, LoadTemplate, LookupDispatch,
                  ResolveRecipients, CreateDispatch, AdvanceSchedule, AdvanceFails,
                  RecordSucceeded, ScheduleNext, KeepSchedule, RecordFailed, RetryJob,
                  PublishError, AbortFire, CreateRule, UpdateRule, Save, EnqueueSaved,
                  EnqueueFails, Crash, Tick, ToggleTemplate, ToggleAudience, At, vars, world
    <3>2. QED
      BY <3>1, StartupRemembers
  <2>3. QED
    BY <2>1, <2>2
<1>3. QED
  BY <1>1, <1>2, TypeCorrect, PTL DEF Spec

---------------------------------------------------------------------------
(* At most one dispatch, and the abstract delivery. *)

\* What a step does to the dispatch rows.
LEMMA DispatchStep ==
  ASSUME TypeOK, [Next]_vars
  PROVE  \/ UNCHANGED dispatched
         \/ \E w \in Workers :
              /\ At(w, "create") /\ dispatched[Job(w)] = 0
              /\ dispatched' = [dispatched EXCEPT ![Job(w)] = @ + 1]
              /\ Goto(w, "advance") \/ Goto(w, "reset")
              /\ UNCHANGED <<world, rule>>
<1> USE DEF world, bounds, history
<1>1. ASSUME NEW w \in Workers, CreateDispatch(w)
      PROVE  \/ UNCHANGED dispatched
             \/ /\ At(w, "create") /\ dispatched[Job(w)] = 0
                /\ dispatched' = [dispatched EXCEPT ![Job(w)] = @ + 1]
                /\ Goto(w, "advance") \/ Goto(w, "reset")
                /\ UNCHANGED <<world, rule>>
  BY <1>1 DEF CreateDispatch, KeyFree
<1>2. ASSUME NEW w \in Workers, PublishError(w)
      PROVE  \/ UNCHANGED dispatched
             \/ /\ At(w, "create") /\ dispatched[Job(w)] = 0
                /\ dispatched' = [dispatched EXCEPT ![Job(w)] = @ + 1]
                /\ Goto(w, "advance") \/ Goto(w, "reset")
                /\ UNCHANGED <<world, rule>>
  BY <1>2 DEF PublishError, KeyFree
<1>3. ASSUME NEW w \in Workers, Work(w), ~CreateDispatch(w) PROVE UNCHANGED dispatched
  BY <1>3 DEF Work, FindRule, RecordProcessing, LoadTemplate, LookupDispatch, ResolveRecipients,
              AdvanceSchedule, AdvanceFails, RecordSucceeded, ScheduleNext, KeepSchedule,
              RecordFailed, RetryJob
<1>4. QED
  BY <1>1, <1>2, <1>3
  DEF Next, Take, AbortFire, CreateRule, UpdateRule, Save, EnqueueSaved, EnqueueFails, Crash,
      Startup, Tick, ToggleTemplate, ToggleAudience, vars

\* No occurrence is dispatched twice (publish_internal, create_dispatch), for
\* any number of workers, duplicate jobs, retries and restarts.
THEOREM DispatchedAtMostOnce == Spec => []AtMostOneDispatch
<1>1. Init => AtMostOneDispatch
  BY DEF Init, AtMostOneDispatch
<1>2. TypeOK /\ AtMostOneDispatch /\ [Next]_vars => AtMostOneDispatch'
  <2> SUFFICES ASSUME TypeOK, AtMostOneDispatch, [Next]_vars, NEW o \in Occurrences
               PROVE  dispatched'[o] <= 1
    BY DEF AtMostOneDispatch
  <2>1. dispatched[o] \in Nat /\ dispatched[o] <= 1
    BY DEF TypeOK, AtMostOneDispatch
  <2>2. CASE UNCHANGED dispatched
    BY <2>1, <2>2
  <2>3. CASE \E w \in Workers : dispatched[Job(w)] = 0
                 /\ dispatched' = [dispatched EXCEPT ![Job(w)] = @ + 1]
    BY <2>1, <2>3 DEF TypeOK
  <2>4. QED
    BY <2>2, <2>3, DispatchStep
<1>3. QED
  BY <1>1, <1>2, TypeCorrect, PTL DEF Spec

\* The clock moves only by Tick.
LEMMA ClockStep == [Next]_vars => UNCHANGED now \/ Tick
BY DEF Next, Take, Work, FindRule, RecordProcessing, LoadTemplate, LookupDispatch,
       ResolveRecipients, CreateDispatch, AdvanceSchedule, AdvanceFails, RecordSucceeded,
       ScheduleNext, KeepSchedule, RecordFailed, RetryJob, PublishError, AbortFire, CreateRule,
       UpdateRule, Save, EnqueueSaved, EnqueueFails, Crash, Startup, Tick, ToggleTemplate,
       ToggleAudience, vars, world

\* A handler runs no earlier than its occurrence.
Punctual == \A w \in Workers : worker[w].pc # "idle" => worker[w].at <= now

LEMMA PunctualStep == TypeOK /\ TypeOK' /\ Punctual /\ [Next]_vars => Punctual'
<1> SUFFICES ASSUME TypeOK, TypeOK', Punctual, [Next]_vars, NEW v \in Workers,
                    worker'[v].pc # "idle"
             PROVE  worker'[v].at <= now'
  BY DEF Punctual
<1> USE DEF world, bounds, history, At
<1>1. now \in Nat /\ now' \in Nat /\ now <= now'
  <2>1. now \in Nat
    BY HorizonAssumption DEF TypeOK, Times
  <2>2. QED
    BY <2>1, ClockStep DEF Tick
<1>2. CASE worker'[v].at = worker[v].at /\ worker[v].pc # "idle"
  <2>1. worker[v].at \in Nat
    BY <1>2, BusyHandler, HorizonAssumption DEF Times
  <2>2. QED
    BY <1>1, <1>2, <2>1 DEF Punctual
<1>3. ASSUME NEW w \in Workers, NEW o \in Occurrences, Take(w, o), v = w
      PROVE  worker'[v].at <= now'
  <2>1. worker'[w].at = o[2] /\ o[2] \in Nat
    BY <1>3, HorizonAssumption DEF Take, TypeOK, Occurrences, Times
  <2>2. QED
    BY <1>1, <1>3, <2>1 DEF Take, Available
<1>4. \/ worker'[v].at = worker[v].at /\ worker[v].pc # "idle"
      \/ \E o \in Occurrences : Take(v, o)
  <2>1. ASSUME NEW w \in Workers, Work(w) PROVE worker'[v].at = worker[v].at /\ worker[v].pc # "idle"
    <3>1. worker[w].pc # "idle"
      BY <2>1 DEF Work, FindRule, RecordProcessing, LoadTemplate, LookupDispatch,
         ResolveRecipients, CreateDispatch, AdvanceSchedule, AdvanceFails, RecordSucceeded,
         ScheduleNext, KeepSchedule, RecordFailed, RetryJob
    <3>2. worker[w] \in BusyType
      BY <3>1, BusyHandler
    <3>3. CASE FindRule(w)
      BY <3>1, <3>2, <3>3 DEF FindRule, Finish, IdleWorker, TypeOK, BusyType
    <3>4. CASE AdvanceSchedule(w)
      BY <3>1, <3>2, <3>4 DEF AdvanceSchedule, TypeOK, BusyType
    <3>5. CASE Finish(w) \/ \E pc \in Busy : Goto(w, pc)
      BY <3>1, <3>2, <3>5 DEF Finish, Goto, IdleWorker, TypeOK, BusyType
    <3>6. QED
      BY <2>1, <3>3, <3>4, <3>5 DEF Work, RecordProcessing, LoadTemplate, LookupDispatch,
         ResolveRecipients, AfterResolve, CreateDispatch, AdvanceFails, RecordSucceeded,
         ScheduleNext, KeepSchedule, RecordFailed, RetryJob, Busy, Loaded, Written
  <2>2. ASSUME NEW w \in Workers, PublishError(w) \/ AbortFire(w)
        PROVE  worker'[v].at = worker[v].at /\ worker[v].pc # "idle"
    <3>1. worker[w].pc # "idle" /\ (Finish(w) \/ Goto(w, "reset"))
      BY <2>2 DEF PublishError, AbortFire, Busy, Loaded, Written
    <3>2. worker[w] \in BusyType
      BY <3>1, BusyHandler
    <3>3. QED
      BY <3>1, <3>2 DEF Finish, Goto, IdleWorker, TypeOK, BusyType
  <2>3. ASSUME NEW w \in Workers, NEW o \in Occurrences, Take(w, o), v # w
        PROVE  worker'[v].at = worker[v].at /\ worker[v].pc # "idle"
    BY <2>3 DEF Take, TypeOK
  <2>4. CASE Crash
    BY <2>4 DEF Crash, IdleWorker
  <2>5. CASE UNCHANGED worker
    BY <2>5
  <2>6. QED
    BY <2>1, <2>2, <2>3, <2>4, <2>5 DEF Next, CreateRule, UpdateRule, Save, EnqueueSaved,
       EnqueueFails, Startup, Tick, ToggleTemplate, ToggleAudience, vars
<1>5. QED
  BY <1>2, <1>3, <1>4

\* A handler comes to hold the rule row only by FindRule, which found the
\* occurrence armed.
LEMMA ClaimStep ==
  ASSUME TypeOK, [Next]_vars, NEW v \in Workers, worker'[v].pc \in Loaded
  PROVE  \/ worker[v].pc \in Loaded /\ Job(v)' = Job(v)
         \/ FindRule(v) /\ StillDue(Job(v)) /\ Job(v)' = Job(v)
<1> USE DEF world, bounds, history, At, Loaded, Job
<1>1. ASSUME NEW w \in Workers, Work(w), ~FindRule(w) PROVE worker[v].pc \in Loaded /\ Job(v)' = Job(v)
  <2>1. worker[w].pc # "idle"
    BY <1>1 DEF Work, FindRule, RecordProcessing, LoadTemplate, LookupDispatch,
       ResolveRecipients, CreateDispatch, AdvanceSchedule, AdvanceFails, RecordSucceeded,
       ScheduleNext, KeepSchedule, RecordFailed, RetryJob
  <2>2. worker[w] \in BusyType
    BY <2>1, BusyHandler
  <2>3. CASE AdvanceSchedule(w)
    BY <2>2, <2>3 DEF AdvanceSchedule, TypeOK, BusyType
  <2>4. CASE Finish(w) \/ \E pc \in Written : Goto(w, pc)
    BY <2>2, <2>4 DEF Finish, Goto, IdleWorker, TypeOK, BusyType, Written
  <2>5. CASE worker[w].pc \in Loaded /\ \E pc \in Loaded : Goto(w, pc)
    BY <2>2, <2>5 DEF Goto, TypeOK, BusyType
  <2>6. QED
    BY <1>1, <2>3, <2>4, <2>5 DEF Work, RecordProcessing, LoadTemplate, LookupDispatch,
       ResolveRecipients, AfterResolve, CreateDispatch, AdvanceFails, RecordSucceeded,
       ScheduleNext, KeepSchedule, RecordFailed, RetryJob, Written
<1>2. ASSUME NEW w \in Workers, FindRule(w)
      PROVE  \/ worker[v].pc \in Loaded /\ Job(v)' = Job(v)
             \/ FindRule(v) /\ StillDue(Job(v)) /\ Job(v)' = Job(v)
  <2>1. worker[w] \in BusyType
    BY <1>2, BusyHandler DEF FindRule
  <2>2. QED
    BY <1>2, <2>1 DEF FindRule, Finish, IdleWorker, TypeOK, BusyType
<1>3. ASSUME NEW w \in Workers, PublishError(w) \/ AbortFire(w)
      PROVE  worker[v].pc \in Loaded /\ Job(v)' = Job(v)
  <2>1. worker[w].pc # "idle" /\ (Finish(w) \/ (Goto(w, "reset") /\ worker[w].pc \in Loaded))
    BY <1>3 DEF PublishError, AbortFire, Busy, Written
  <2>2. worker[w] \in BusyType
    BY <2>1, BusyHandler
  <2>3. QED
    BY <2>1, <2>2 DEF Finish, Goto, IdleWorker, TypeOK, BusyType
<1>4. ASSUME NEW w \in Workers, NEW o \in Occurrences, Take(w, o)
      PROVE  worker[v].pc \in Loaded /\ Job(v)' = Job(v)
  BY <1>4 DEF Take, TypeOK
<1>5. CASE Crash
  BY <1>5 DEF Crash, IdleWorker
<1>6. CASE UNCHANGED worker
  BY <1>6
<1>7. QED
  BY <1>1, <1>2, <1>3, <1>4, <1>5, <1>6 DEF Next, CreateRule, UpdateRule, Save, EnqueueSaved,
     EnqueueFails, Startup, Tick, ToggleTemplate, ToggleAudience, vars

\* The detailed rules implement the abstract delivery: what is sent was claimed
\* while it was the rule's next run, is due, and is sent once.
THEOREM RulesImplementDelivery == Spec => ImplementsDelivery
<1> DEFINE ArmedSet == {o \in Occurrences : Armed(o)}
           ClaimedSet == {o \in Occurrences : InHand(o)}
<1>1. Init => Delivery!Init
  <2> SUFFICES ASSUME Init PROVE Delivery!Init
    OBVIOUS
  <2>1. \A o \in Occurrences : ~Armed(o) /\ ~InHand(o)
    BY DEF Init, Armed, InHand, IsTimeRule, Occurrences, IdleWorker, Loaded
  <2>2. QED
    BY <2>1 DEF Delivery!Init, Init, Delivery!Occurrences, Delivery!Times, Occurrences, Times
<1>2. TypeOK /\ Punctual /\ [Next]_vars => [Delivery!Next]_Delivery!vars
  <2> SUFFICES ASSUME TypeOK, Punctual, [Next]_vars
               PROVE  [Delivery!Next]_Delivery!vars
    OBVIOUS
  <2> USE DEF Delivery!Occurrences, Delivery!Times
  <2>1. ASSUME NEW w \in Workers, At(w, "create"), dispatched[Job(w)] = 0,
               dispatched' = [dispatched EXCEPT ![Job(w)] = @ + 1],
               Goto(w, "advance") \/ Goto(w, "reset"), UNCHANGED <<world, rule>>
        PROVE  Delivery!Send(Job(w))
    <3>1. worker[w] \in BusyType /\ Job(w) \in Occurrences
      BY <2>1, BusyHandler DEF At
    <3>2. Job(w) \in ClaimedSet /\ now >= Job(w)[2]
      BY <2>1, <3>1 DEF InHand, At, Loaded, Job, Punctual
    <3>3. dispatched' = [dispatched EXCEPT ![Job(w)] = 1]
      BY <2>1, <3>1 DEF TypeOK
    <3>4. \A v \in Workers : worker'[v].pc \in Loaded <=> worker[v].pc \in Loaded
      BY <2>1, <3>1 DEF At, Goto, TypeOK, Loaded, BusyType
    <3>5. \A v \in Workers : Job(v)' = Job(v)
      BY <2>1, <3>1 DEF Job, Goto, TypeOK, BusyType
    <3>6. ClaimedSet' = ClaimedSet
      BY <2>1, <3>4, <3>5 DEF InHand, Occurrences, Times
    <3>7. ArmedSet' = ArmedSet
      BY <2>1 DEF Armed, Occurrences, Times
    <3>8. QED
      BY <2>1, <3>2, <3>3, <3>6, <3>7 DEF Delivery!Send, world
  <2>2. CASE UNCHANGED dispatched
    <3>1. CASE Tick
      <4>1. UNCHANGED <<rule, worker>>
        BY <3>1 DEF Tick
      <4>2. ArmedSet' = ArmedSet /\ ClaimedSet' = ClaimedSet
        BY <4>1 DEF Armed, InHand, Job, Occurrences, Times
      <4>3. QED
        BY <2>2, <3>1, <4>2 DEF Tick, Delivery!Next, Delivery!Advance
    <3>2. ASSUME UNCHANGED now, NEW w \in Workers, FindRule(w), StillDue(Job(w))
          PROVE  Delivery!Claim(Job(w))
      <4>1. worker[w] \in BusyType /\ Job(w) \in Occurrences
        BY <3>2, BusyHandler DEF FindRule, At
      <4>2. UNCHANGED rule /\ worker' = [worker EXCEPT ![w].pc = "record", ![w].def = rule[worker[w].rule].def]
        BY <3>2 DEF FindRule
      <4>3. ArmedSet' = ArmedSet /\ Job(w) \in ArmedSet
        BY <3>2, <4>1, <4>2 DEF Armed, StillDue, Occurrences, Times
      <4>4. \A v \in Workers : Job(v)' = Job(v)
        BY <4>1, <4>2 DEF Job, TypeOK, BusyType
      <4>5. \A v \in Workers : worker'[v].pc \in Loaded <=> (worker[v].pc \in Loaded \/ v = w)
        BY <4>1, <4>2 DEF TypeOK, BusyType, Loaded
      <4>6. \A o \in Occurrences : InHand(o)' <=> (InHand(o) \/ o = Job(w))
        BY <4>4, <4>5 DEF InHand
      <4>7. ClaimedSet' = ClaimedSet \cup {Job(w)}
        BY <4>1, <4>6 DEF Occurrences, Times
      <4>8. QED
        BY <2>2, <3>2, <4>3, <4>7 DEF Delivery!Claim
    <3>3. ASSUME UNCHANGED now, \A w \in Workers : ~(FindRule(w) /\ StillDue(Job(w)))
          PROVE  Delivery!Rearrange
      <4>1. \A v \in Workers : worker'[v].pc \in Loaded => worker[v].pc \in Loaded /\ Job(v)' = Job(v)
        BY <3>3, ClaimStep
      <4>2. ClaimedSet' \in SUBSET ClaimedSet
        BY <4>1 DEF InHand, Occurrences, Times
      <4>3. ArmedSet' \in SUBSET Occurrences
        BY DEF Occurrences, Times
      <4>4. QED
        BY <2>2, <3>3, <4>2, <4>3 DEF Delivery!Rearrange, Occurrences, Times
    <3>4. ASSUME NEW w \in Workers, FindRule(w) PROVE Job(w) \in Occurrences
      BY <3>4, BusyHandler DEF FindRule, At
    <3>5. QED
      BY <3>1, <3>2, <3>3, <3>4, ClockStep DEF Delivery!Next, Occurrences, Times
  <2>3. ASSUME NEW w \in Workers, At(w, "create") PROVE Job(w) \in Occurrences
    BY <2>3, BusyHandler DEF At
  <2>4. QED
    BY <2>1, <2>2, <2>3, DispatchStep DEF Delivery!Next, Occurrences, Times
<1>3. Init => Punctual
  BY DEF Init, Punctual, IdleWorker
<1>4. QED
  BY <1>1, <1>2, <1>3, PunctualStep, TypeCorrect, PTL DEF Spec, ImplementsDelivery, Delivery!Spec

---------------------------------------------------------------------------
(* What the records and the schedule of a rule say about its dispatches *)

(* Steps of one handler *)

\* The other handlers stay, and w goes on with what it holds.
LEMMA GotoMoves ==
  ASSUME TypeOK, NEW w \in Workers, worker[w].pc # "idle", NEW pc, Goto(w, pc)
  PROVE  /\ worker'[w].pc = pc /\ worker'[w].rule = worker[w].rule
         /\ worker'[w].at = worker[w].at /\ worker'[w].def = worker[w].def
         /\ Job(w)' = Job(w)
         /\ \A v \in Workers : v # w => worker'[v] = worker[v] /\ Job(v)' = Job(v)
<1>1. worker[w] \in BusyType
  BY BusyHandler
<1>2. QED
  BY <1>1 DEF Goto, TypeOK, BusyType, Job

LEMMA FinishMoves ==
  ASSUME TypeOK, NEW w \in Workers, Finish(w)
  PROVE  /\ worker'[w].pc = "idle"
         /\ \A v \in Workers : v # w => worker'[v] = worker[v] /\ Job(v)' = Job(v)
BY DEF Finish, TypeOK, IdleWorker, Job

LEMMA AdvanceMoves ==
  ASSUME TypeOK, NEW w \in Workers, AdvanceSchedule(w)
  PROVE  /\ worker'[w].pc = "succeed" /\ worker'[w].rule = worker[w].rule
         /\ worker'[w].at = worker[w].at /\ Job(w)' = Job(w)
         /\ \A v \in Workers : v # w => worker'[v] = worker[v] /\ Job(v)' = Job(v)
<1>1. worker[w] \in BusyType
  BY BusyHandler DEF AdvanceSchedule, At
<1>2. QED
  BY <1>1 DEF AdvanceSchedule, TypeOK, BusyType, Job

LEMMA FindMoves ==
  ASSUME TypeOK, NEW w \in Workers, FindRule(w), StillDue(Job(w))
  PROVE  /\ worker'[w].pc = "record" /\ worker'[w].rule = worker[w].rule
         /\ worker'[w].at = worker[w].at /\ worker'[w].def = rule[worker[w].rule].def
         /\ Job(w)' = Job(w)
         /\ \A v \in Workers : v # w => worker'[v] = worker[v] /\ Job(v)' = Job(v)
<1>1. worker[w] \in BusyType
  BY BusyHandler DEF FindRule, At
<1>2. QED
  BY <1>1 DEF FindRule, TypeOK, BusyType, Job

\* A dispatch stays.
LEMMA DispatchesStay ==
  ASSUME TypeOK, [Next]_vars
  PROVE  \A o \in Occurrences : dispatched[o] > 0 => dispatched'[o] > 0
<1> SUFFICES ASSUME NEW o \in Occurrences, dispatched[o] > 0 PROVE dispatched'[o] > 0
  OBVIOUS
<1>1. dispatched[o] \in Nat
  BY DEF TypeOK
<1>2. CASE UNCHANGED dispatched
  BY <1>2
<1>3. CASE \E w \in Workers : dispatched' = [dispatched EXCEPT ![Job(w)] = @ + 1]
  BY <1>1, <1>3 DEF TypeOK
<1>4. QED
  BY <1>2, <1>3, DispatchStep

---------------------------------------------------------------------------
(* Fire records and dispatches agree. *)

\* Handlers past the record of their fire, and past the dispatch.
Recorded == {"template", "lookup", "resolve", "create", "advance", "reset"}
Sent == {"advance", "succeed"}

FireInv ==
  /\ FiresMatchDispatches
  /\ \A w \in Workers : worker[w].pc \in Recorded => fires[Job(w)] # "none"
  /\ \A w \in Workers : worker[w].pc \in Sent => dispatched[Job(w)] > 0

\* A handler goes on with its occurrence, or stops.
GoesOn(v) ==
  \/ worker'[v].pc \notin Recorded \cup Sent
  \/ /\ Job(v)' = Job(v)
     /\ worker'[v].pc \in Recorded => worker[v].pc \in Recorded
     /\ worker'[v].pc \in Sent => worker[v].pc \in Sent

\* Nothing is recorded or dispatched.
LEMMA QuietFires ==
  ASSUME TypeOK, FireInv, UNCHANGED <<fires, dispatched>>,
         \A r \in Rules : rule'[r].firedFor \in {rule[r].firedFor, None},
         \A v \in Workers : GoesOn(v)
  PROVE  FireInv'
<1>1. FiresMatchDispatches'
  <2>1. \A r \in Rules : rule'[r].firedFor # None =>
          rule'[r].firedFor = rule[r].firedFor /\ rule[r].firedFor # None
    OBVIOUS
  <2>2. QED
    BY <2>1 DEF FireInv, FiresMatchDispatches
<1>2. \A w \in Workers : worker'[w].pc \in Recorded => fires'[Job(w)'] # "none"
  BY DEF FireInv, GoesOn
<1>3. \A w \in Workers : worker'[w].pc \in Sent => dispatched'[Job(w)'] > 0
  BY DEF FireInv, GoesOn
<1>4. QED
  BY <1>1, <1>2, <1>3 DEF FireInv

\* One fire record is written.
LEMMA RecordFires ==
  ASSUME TypeOK, FireInv, UNCHANGED <<rule, dispatched>>,
         NEW w \in Workers, worker[w].pc # "idle",
         NEW status \in {"processing", "succeeded", "failed"},
         fires' = [fires EXCEPT ![Job(w)] = status],
         status = "succeeded" => dispatched[Job(w)] > 0,
         worker'[w].pc \in Recorded => Job(w)' = Job(w),
         worker'[w].pc \notin Sent,
         \A v \in Workers : v # w => worker'[v] = worker[v] /\ Job(v)' = Job(v)
  PROVE  FireInv'
<1>1. Job(w) \in Occurrences
  BY BusyHandler
<1>2. /\ fires'[Job(w)] = status
      /\ \A o \in Occurrences : o # Job(w) => fires'[o] = fires[o]
      /\ \A o \in Occurrences : fires[o] # "none" => fires'[o] # "none"
  BY <1>1 DEF TypeOK
<1>3. FiresMatchDispatches'
  <2>1. \A o \in Occurrences : fires'[o] = "succeeded" => dispatched[o] > 0
    BY <1>2 DEF FireInv, FiresMatchDispatches
  <2>2. \A o \in Occurrences : dispatched[o] > 0 => fires'[o] # "none"
    BY <1>2 DEF FireInv, FiresMatchDispatches
  <2>3. QED
    BY <2>1, <2>2 DEF FireInv, FiresMatchDispatches
<1>4. \A v \in Workers : worker'[v].pc \in Recorded => fires'[Job(v)'] # "none"
  <2>1. ASSUME NEW v \in Workers, v # w, worker[v].pc \in Recorded PROVE fires'[Job(v)] # "none"
    <3>1. Job(v) \in Occurrences
      BY <2>1, BusyHandler DEF Recorded
    <3>2. QED
      BY <1>2, <2>1, <3>1 DEF FireInv
  <2>2. QED
    BY <1>2, <2>1
<1>5. \A v \in Workers : worker'[v].pc \in Sent => dispatched'[Job(v)'] > 0
  BY DEF FireInv
<1>6. QED
  BY <1>3, <1>4, <1>5 DEF FireInv

\* The dispatch is written, or nothing is, as w tells by its next step.
LEMMA DispatchFires ==
  ASSUME TypeOK, FireInv, UNCHANGED <<rule, fires>>,
         NEW w \in Workers, worker[w].pc \in Recorded,
         dispatched' \in {dispatched, [dispatched EXCEPT ![Job(w)] = @ + 1]},
         Job(w)' = Job(w),
         worker'[w].pc \in Sent => dispatched'[Job(w)] > 0,
         \A v \in Workers : v # w => worker'[v] = worker[v] /\ Job(v)' = Job(v)
  PROVE  FireInv'
<1>1. Job(w) \in Occurrences /\ fires[Job(w)] # "none"
  BY BusyHandler DEF Recorded, FireInv
<1>2. /\ \A o \in Occurrences : o # Job(w) => dispatched'[o] = dispatched[o]
      /\ \A o \in Occurrences : dispatched[o] > 0 => dispatched'[o] > 0
  <2>1. \A o \in Occurrences : dispatched[o] \in Nat
    BY DEF TypeOK
  <2>2. QED
    BY <1>1, <2>1 DEF TypeOK
<1>3. FiresMatchDispatches'
  <2>1. \A r \in Rules : rule[r].firedFor # None => <<r, rule[r].firedFor>> \in Occurrences
    BY DEF TypeOK, RowType, Occurrences
  <2>2. QED
    BY <1>1, <1>2, <2>1 DEF FireInv, FiresMatchDispatches
<1>4. \A v \in Workers : worker'[v].pc \in Recorded => fires'[Job(v)'] # "none"
  BY <1>1 DEF FireInv
<1>5. \A v \in Workers : worker'[v].pc \in Sent => dispatched'[Job(v)'] > 0
  <2>1. ASSUME NEW v \in Workers, v # w, worker[v].pc \in Sent PROVE dispatched'[Job(v)] > 0
    <3>1. Job(v) \in Occurrences
      BY <2>1, BusyHandler DEF Sent
    <3>2. QED
      BY <1>2, <2>1, <3>1 DEF FireInv
  <2>2. QED
    BY <2>1
<1>6. QED
  BY <1>3, <1>4, <1>5 DEF FireInv

LEMMA FireWork ==
  ASSUME TypeOK, FireInv, NEW w \in Workers, Work(w)
  PROVE  FireInv'
<1> USE DEF At
<1>0. worker[w].pc # "idle" /\ Job(w) \in Occurrences
  <2>1. worker[w].pc # "idle"
    BY DEF Work, FindRule, RecordProcessing, LoadTemplate, LookupDispatch, ResolveRecipients,
           CreateDispatch, AdvanceSchedule, AdvanceFails, RecordSucceeded, ScheduleNext,
           KeepSchedule, RecordFailed, RetryJob
  <2>2. QED
    BY <2>1, BusyHandler
<1>1. CASE FindRule(w)
  <2>1. UNCHANGED <<rule, fires, dispatched>>
    BY <1>1 DEF FindRule
  <2>2. \A v \in Workers : GoesOn(v)
    <3>1. CASE StillDue(Job(w))
      BY <1>1, <3>1, FindMoves DEF GoesOn, Recorded, Sent
    <3>2. CASE ~StillDue(Job(w))
      BY <1>1, <3>2, FinishMoves DEF FindRule, GoesOn, Recorded, Sent
    <3>3. QED
      BY <3>1, <3>2
  <2>3. QED
    BY <2>1, <2>2, QuietFires
<1>2. CASE RecordProcessing(w)
  <2>1. /\ UNCHANGED <<rule, dispatched>> /\ fires' = [fires EXCEPT ![Job(w)] = "processing"]
        /\ Goto(w, "template")
    BY <1>2 DEF RecordProcessing
  <2>2. /\ worker'[w].pc = "template" /\ Job(w)' = Job(w)
        /\ \A v \in Workers : v # w => worker'[v] = worker[v] /\ Job(v)' = Job(v)
    BY <1>0, <2>1, GotoMoves
  <2>3. worker'[w].pc \notin Sent /\ "processing" # "succeeded"
    BY <2>2 DEF Sent
  <2>4. QED
    BY <1>0, <2>1, <2>2, <2>3, RecordFires
<1>3. CASE LoadTemplate(w) \/ ResolveRecipients(w)
  <2>1. PICK pc \in Recorded : Goto(w, pc) /\ pc \notin Sent
    BY <1>3 DEF LoadTemplate, ResolveRecipients, AfterResolve, Recorded, Sent
  <2>2. UNCHANGED <<rule, fires, dispatched>> /\ worker[w].pc \in Recorded
    BY <1>3 DEF LoadTemplate, ResolveRecipients, Recorded
  <2>3. \A v \in Workers : GoesOn(v)
    BY <1>0, <2>1, <2>2, GotoMoves DEF GoesOn
  <2>4. QED
    BY <2>2, <2>3, QuietFires
<1>4. CASE LookupDispatch(w)
  <2>1. PICK pc \in {"advance", "resolve"} :
          Goto(w, pc) /\ (pc = "advance" => dispatched[Job(w)] > 0)
    BY <1>4 DEF LookupDispatch
  <2>2. UNCHANGED <<rule, fires, dispatched>> /\ worker[w].pc \in Recorded
    BY <1>4 DEF LookupDispatch, Recorded
  <2>3. worker'[w].pc \in Sent => dispatched'[Job(w)] > 0
    BY <1>0, <2>1, <2>2, GotoMoves DEF Sent
  <2>4. QED
    BY <1>0, <2>1, <2>2, <2>3, GotoMoves, DispatchFires
<1>5. CASE CreateDispatch(w)
  <2>1. \/ dispatched' = [dispatched EXCEPT ![Job(w)] = @ + 1] /\ Goto(w, "advance")
        \/ dispatched' = dispatched /\ Goto(w, "reset")
    BY <1>5 DEF CreateDispatch
  <2>2. UNCHANGED <<rule, fires>> /\ worker[w].pc \in Recorded
    BY <1>5 DEF CreateDispatch, Recorded
  <2>3. worker'[w].pc \in Sent => dispatched'[Job(w)] > 0
    <3>1. CASE dispatched' = [dispatched EXCEPT ![Job(w)] = @ + 1] /\ Goto(w, "advance")
      BY <1>0, <3>1 DEF TypeOK
    <3>2. CASE Goto(w, "reset")
      BY <1>0, <3>2, GotoMoves DEF Sent
    <3>3. QED
      BY <2>1, <3>1, <3>2
  <2>4. /\ Job(w)' = Job(w)
        /\ \A v \in Workers : v # w => worker'[v] = worker[v] /\ Job(v)' = Job(v)
    BY <1>0, <2>1, GotoMoves
  <2>5. QED
    BY <2>1, <2>2, <2>3, <2>4, DispatchFires
<1>6. CASE AdvanceSchedule(w)
  <2>1. PICK n \in Times \cup {None} :
          rule' = [rule EXCEPT ![worker[w].rule] =
            [@ EXCEPT !.next = n, !.firedFor = worker[w].at, !.failing = FALSE]]
    BY <1>6 DEF AdvanceSchedule
  <2>2. UNCHANGED <<fires, dispatched>> /\ worker[w].pc = "advance"
    BY <1>6 DEF AdvanceSchedule
  <2>3. dispatched[Job(w)] > 0
    BY <2>2 DEF FireInv, Sent
  <2>4. \A r \in Rules : rule'[r].firedFor # None => dispatched[<<r, rule'[r].firedFor>>] > 0
    <3>1. \A r \in Rules : r # worker[w].rule => rule'[r] = rule[r]
      BY <2>1 DEF TypeOK
    <3>2. worker[w].rule \in Rules => rule'[worker[w].rule].firedFor = worker[w].at
      BY <2>1 DEF TypeOK, RowType
    <3>3. QED
      BY <2>3, <3>1, <3>2 DEF FireInv, FiresMatchDispatches, Job
  <2>5. FiresMatchDispatches'
    BY <2>2, <2>4 DEF FireInv, FiresMatchDispatches
  <2>6. \A v \in Workers : GoesOn(v)
    BY <1>6, <2>2, AdvanceMoves DEF GoesOn, Recorded, Sent
  <2>7. QED
    BY <2>2, <2>5, <2>6 DEF FireInv, GoesOn
<1>7. CASE AdvanceFails(w) \/ ScheduleNext(w) \/ RetryJob(w)
  <2>1. UNCHANGED <<rule, fires, dispatched>> /\ Finish(w)
    BY <1>7 DEF AdvanceFails, ScheduleNext, RetryJob
  <2>2. \A v \in Workers : GoesOn(v)
    BY <2>1, FinishMoves DEF GoesOn, Recorded, Sent
  <2>3. QED
    BY <2>1, <2>2, QuietFires
<1>8. CASE RecordSucceeded(w)
  <2>1. /\ UNCHANGED <<rule, dispatched>> /\ fires' = [fires EXCEPT ![Job(w)] = "succeeded"]
        /\ Finish(w) \/ Goto(w, "chain")
        /\ dispatched[Job(w)] > 0
    BY <1>8 DEF RecordSucceeded, FireInv, Sent
  <2>2. /\ worker'[w].pc \in {"idle", "chain"}
        /\ \A v \in Workers : v # w => worker'[v] = worker[v] /\ Job(v)' = Job(v)
    BY <1>0, <2>1, GotoMoves, FinishMoves
  <2>3. worker'[w].pc \notin Sent /\ worker'[w].pc \notin Recorded
    BY <2>2 DEF Sent, Recorded
  <2>4. QED
    BY <1>0, <2>1, <2>2, <2>3, RecordFires
<1>9. CASE KeepSchedule(w)
  <2>1. /\ rule' = [rule EXCEPT ![worker[w].rule] =
             [@ EXCEPT !.next = worker[w].at, !.firedFor = None, !.failing = TRUE]]
        /\ UNCHANGED <<fires, dispatched>> /\ Goto(w, "fail")
    BY <1>9 DEF KeepSchedule
  <2>2. \A r \in Rules : rule'[r].firedFor \in {rule[r].firedFor, None}
    BY <2>1 DEF TypeOK, RowType
  <2>3. \A v \in Workers : GoesOn(v)
    BY <1>0, <2>1, GotoMoves DEF GoesOn, Recorded, Sent
  <2>4. QED
    BY <2>1, <2>2, <2>3, QuietFires
<1>10. CASE RecordFailed(w)
  <2>1. /\ UNCHANGED <<rule, dispatched>> /\ fires' = [fires EXCEPT ![Job(w)] = "failed"]
        /\ Goto(w, "retry")
    BY <1>10 DEF RecordFailed
  <2>2. /\ worker'[w].pc = "retry"
        /\ \A v \in Workers : v # w => worker'[v] = worker[v] /\ Job(v)' = Job(v)
    BY <1>0, <2>1, GotoMoves
  <2>3. worker'[w].pc \notin Sent \cup Recorded /\ "failed" # "succeeded"
    BY <2>2 DEF Sent, Recorded
  <2>4. QED
    BY <1>0, <2>1, <2>2, <2>3, RecordFires
<1>11. QED
  BY <1>1, <1>2, <1>3, <1>4, <1>5, <1>6, <1>7, <1>8, <1>9, <1>10 DEF Work

LEMMA FireNext == ASSUME TypeOK, FireInv, [Next]_vars PROVE FireInv'
<1> USE DEF At
<1>1. ASSUME NEW w \in Workers, Work(w) PROVE FireInv'
  BY <1>1, FireWork
<1>2. ASSUME NEW w \in Workers, PublishError(w) PROVE FireInv'
  <2>1. /\ UNCHANGED <<rule, fires>> /\ worker[w].pc \in Recorded /\ worker[w].pc # "idle"
        /\ dispatched' \in {dispatched, [dispatched EXCEPT ![Job(w)] = @ + 1]}
        /\ Goto(w, "reset")
    BY <1>2 DEF PublishError, Recorded
  <2>2. worker'[w].pc \notin Sent
    BY <2>1, GotoMoves DEF Sent
  <2>3. QED
    BY <2>1, <2>2, GotoMoves, DispatchFires
<1>3. ASSUME NEW w \in Workers, AbortFire(w) PROVE FireInv'
  <2>1. UNCHANGED <<rule, fires, dispatched>> /\ Finish(w)
    BY <1>3 DEF AbortFire
  <2>2. \A v \in Workers : GoesOn(v)
    BY <2>1, FinishMoves DEF GoesOn, Recorded, Sent
  <2>3. QED
    BY <2>1, <2>2, QuietFires
<1>4. ASSUME NEW w \in Workers, NEW o \in Occurrences, Take(w, o) PROVE FireInv'
  <2>1. /\ UNCHANGED <<rule, fires, dispatched>> /\ worker'[w].pc = "find"
        /\ \A v \in Workers : v # w => worker'[v] = worker[v] /\ Job(v)' = Job(v)
    BY <1>4 DEF Take, TypeOK, Job
  <2>2. \A v \in Workers : GoesOn(v)
    BY <2>1 DEF GoesOn, Recorded, Sent
  <2>3. QED
    BY <2>1, <2>2, QuietFires
<1>5. ASSUME NEW a \in Admins, NEW r \in Rules, NEW d \in Definitions, Save(a, r, d)
      PROVE  FireInv'
  <2>1. /\ UNCHANGED <<worker, fires, dispatched>>
        /\ \E n : rule' = [rule EXCEPT ![r] = [@ EXCEPT !.def = d, !.next = n, !.failing = FALSE]]
    BY <1>5 DEF Save
  <2>2. \A q \in Rules : rule'[q].firedFor = rule[q].firedFor
    BY <2>1 DEF TypeOK, RowType
  <2>3. \A v \in Workers : GoesOn(v)
    BY <2>1 DEF GoesOn, Job
  <2>4. QED
    BY <2>1, <2>2, <2>3, QuietFires
<1>6. CASE Crash
  <2>1. UNCHANGED <<rule, fires, dispatched>> /\ \A v \in Workers : worker'[v].pc = "idle"
    BY <1>6 DEF Crash, IdleWorker
  <2>2. \A v \in Workers : GoesOn(v)
    BY <2>1 DEF GoesOn, Recorded, Sent
  <2>3. QED
    BY <2>1, <2>2, QuietFires
<1>7. CASE UNCHANGED <<rule, fires, dispatched, worker>>
  BY <1>7, QuietFires DEF GoesOn, Job
<1>8. QED
  BY <1>1, <1>2, <1>3, <1>4, <1>5, <1>6, <1>7
  DEF Next, CreateRule, UpdateRule, EnqueueSaved, EnqueueFails, Startup, Tick, ToggleTemplate,
      ToggleAudience, vars

\* Fire records and dispatches agree (finish_fire, publish_internal), for any number
\* of workers, administrators, crashes and failed calls: what is recorded as fired
\* was dispatched, and what was dispatched has a record.
THEOREM RecordsAgree == Spec => []FiresMatchDispatches
<1>1. Init => FireInv
  BY DEF Init, FireInv, FiresMatchDispatches, IdleWorker, Recorded, Sent
<1>2. TypeOK /\ FireInv /\ [Next]_vars => FireInv'
  BY FireNext
<1>3. FireInv => FiresMatchDispatches
  BY DEF FireInv
<1>4. QED
  BY <1>1, <1>2, <1>3, TypeCorrect, PTL DEF Spec

---------------------------------------------------------------------------
(* Nothing is skipped. *)

\* The occurrences of a rule since it was saved.
Due(r) == InitialCandidates(rule[r].def, savedAt[r])

\* What comes before t was dispatched.
DoneBefore(r, t) == \A u \in Due(r) : u < t => dispatched[<<r, u>>] > 0
Backed(r, t) == t \in Due(r) /\ DoneBefore(r, t)

\* A row is due at an occurrence whose predecessors were dispatched, or at none
\* because all were.
RowKept(r) ==
  IsTimeRule(rule[r].def) /\ ~raced[r] =>
    IF rule[r].next = None THEN \A u \in Due(r) : dispatched[<<r, u>>] > 0
    ELSE Backed(r, rule[r].next)

\* So is the occurrence a handler has in hand, for the definition it has read.
HandKept(w) ==
  worker[w].pc \in Loaded /\ ~raced[worker[w].rule] =>
    /\ worker[w].def = rule[worker[w].rule].def /\ IsTimeRule(worker[w].def)
    /\ Backed(worker[w].rule, worker[w].at)

ScheduleInv == (\A r \in Rules : RowKept(r)) /\ (\A w \in Workers : HandKept(w))

LEMMA CandidateTimes ==
  ASSUME NEW d \in Definitions, NEW reference
  PROVE  InitialCandidates(d, reference) \subseteq Times
<1>1. d.ticks \subseteq Times /\ d.gaps \subseteq Times
  BY DefinitionsAssumption DEF DefinitionType
<1>2. QED
  BY <1>1 DEF InitialCandidates

LEMMA DueTimes ==
  ASSUME TypeOK, NEW r \in Rules, IsTimeRule(rule[r].def)
  PROVE  Due(r) \subseteq Times
<1>1. rule[r].def \in Definitions
  BY DEF IsTimeRule, TypeOK, RowType
<1>2. QED
  BY <1>1, CandidateTimes DEF Due

\* A handler that writes a row leaves its definition, and the other rows.
LEMMA WriteKeeps ==
  ASSUME TypeOK, NEW w \in Workers, AdvanceSchedule(w) \/ KeepSchedule(w), NEW r \in Rules
  PROVE  /\ rule'[r].def = rule[r].def /\ savedAt' = savedAt /\ raced' = raced
         /\ worker[w].rule # r => rule'[r] = rule[r]
<1>1. savedAt' = savedAt /\ raced' = raced
  BY DEF AdvanceSchedule, KeepSchedule, history
<1>2. CASE AdvanceSchedule(w)
  <2>1. PICK n \in Times \cup {None} :
          rule' = [rule EXCEPT ![worker[w].rule] =
            [@ EXCEPT !.next = n, !.firedFor = worker[w].at, !.failing = FALSE]]
    BY <1>2 DEF AdvanceSchedule
  <2>2. QED
    BY <1>1, <2>1 DEF TypeOK, RowType
<1>3. CASE KeepSchedule(w)
  BY <1>1, <1>3 DEF KeepSchedule, TypeOK, RowType
<1>4. QED
  BY <1>2, <1>3

\* A save writes its own row.
LEMMA SaveWrites ==
  ASSUME TypeOK, NEW a \in Admins, NEW r \in Rules, NEW d \in Definitions, Save(a, r, d)
  PROVE  /\ \E n \in Times \cup {None} :
               /\ IsTimeRule(d) => Earliest(n, InitialCandidates(d, now))
               /\ rule'[r].next = n
         /\ rule'[r].def = d /\ savedAt'[r] = now
         /\ \A q \in Rules : q # r => /\ rule'[q] = rule[q] /\ savedAt'[q] = savedAt[q]
                                     /\ raced'[q] = raced[q]
         /\ \A w \in Workers : worker[w].pc \in Loaded /\ worker[w].rule = r => raced'[r]
<1>1. PICK n \in Times \cup {None} :
        /\ IsTimeRule(d) => Earliest(n, InitialCandidates(d, now))
        /\ rule' = [rule EXCEPT ![r] = [@ EXCEPT !.def = d, !.next = n, !.failing = FALSE]]
  BY DEF Save
<1>2. rule'[r].def = d /\ rule'[r].next = n /\ \A q \in Rules : q # r => rule'[q] = rule[q]
  BY <1>1 DEF TypeOK, RowType
<1>3. savedAt'[r] = now /\ \A q \in Rules : q # r => savedAt'[q] = savedAt[q]
  BY DEF Save, TypeOK
<1>4. /\ \A w \in Workers : worker[w].pc \in Loaded /\ worker[w].rule = r => raced'[r]
      /\ \A q \in Rules : q # r => raced'[q] = raced[q]
  BY DEF Save, TypeOK
<1>5. QED
  BY <1>1, <1>2, <1>3, <1>4

\* What a step does to the rows.
LEMMA RowStep ==
  ASSUME TypeOK, [Next]_vars
  PROVE  \/ UNCHANGED <<rule, savedAt, raced>>
         \/ \E w \in Workers : AdvanceSchedule(w) \/ KeepSchedule(w)
         \/ \E a \in Admins, r \in Rules, d \in Definitions : Save(a, r, d)
BY DEF Next, Take, Work, FindRule, RecordProcessing, LoadTemplate, LookupDispatch,
       ResolveRecipients, CreateDispatch, AdvanceFails, RecordSucceeded, ScheduleNext, RecordFailed,
       RetryJob, PublishError, AbortFire, CreateRule, UpdateRule, EnqueueSaved, EnqueueFails, Crash,
       Startup, Tick, ToggleTemplate, ToggleAudience, vars, history

\* A handler keeps what it has read, or has just read it.
SameJob(v) ==
  worker'[v].rule = worker[v].rule /\ worker'[v].at = worker[v].at /\ worker'[v].def = worker[v].def

LEMMA HandStep ==
  ASSUME TypeOK, [Next]_vars, NEW v \in Workers, worker'[v].pc \in Loaded
  PROVE  \/ worker[v].pc \in Loaded /\ SameJob(v)
         \/ FindRule(v) /\ StillDue(Job(v))
<1> USE DEF world, bounds, history, At, Loaded
<1>1. ASSUME NEW w \in Workers, Work(w), ~FindRule(w) PROVE worker[v].pc \in Loaded /\ SameJob(v)
  <2>1. worker[w].pc # "idle"
    BY <1>1 DEF Work, FindRule, RecordProcessing, LoadTemplate, LookupDispatch,
       ResolveRecipients, CreateDispatch, AdvanceSchedule, AdvanceFails, RecordSucceeded,
       ScheduleNext, KeepSchedule, RecordFailed, RetryJob
  <2>2. CASE AdvanceSchedule(w)
    BY <2>2, AdvanceMoves DEF SameJob
  <2>3. CASE Finish(w) \/ \E pc \in Written : Goto(w, pc)
    BY <2>1, <2>3, GotoMoves, FinishMoves DEF Written, SameJob
  <2>4. CASE worker[w].pc \in Loaded /\ \E pc \in Loaded : Goto(w, pc)
    BY <2>1, <2>4, GotoMoves DEF SameJob
  <2>5. QED
    BY <1>1, <2>2, <2>3, <2>4 DEF Work, RecordProcessing, LoadTemplate, LookupDispatch,
       ResolveRecipients, AfterResolve, CreateDispatch, AdvanceFails, RecordSucceeded,
       ScheduleNext, KeepSchedule, RecordFailed, RetryJob, Written
<1>2. ASSUME NEW w \in Workers, FindRule(w)
      PROVE  \/ worker[v].pc \in Loaded /\ SameJob(v)
             \/ FindRule(v) /\ StillDue(Job(v))
  <2>1. CASE StillDue(Job(w))
    BY <1>2, <2>1, FindMoves DEF SameJob
  <2>2. CASE ~StillDue(Job(w))
    BY <1>2, <2>2, FinishMoves DEF FindRule, SameJob
  <2>3. QED
    BY <2>1, <2>2
<1>3. ASSUME NEW w \in Workers, PublishError(w) \/ AbortFire(w)
      PROVE  worker[v].pc \in Loaded /\ SameJob(v)
  <2>1. worker[w].pc # "idle" /\ (Finish(w) \/ (Goto(w, "reset") /\ worker[w].pc \in Loaded))
    BY <1>3 DEF PublishError, AbortFire, Busy, Written
  <2>2. QED
    BY <2>1, GotoMoves, FinishMoves DEF SameJob
<1>4. ASSUME NEW w \in Workers, NEW o \in Occurrences, Take(w, o)
      PROVE  worker[v].pc \in Loaded /\ SameJob(v)
  BY <1>4 DEF Take, TypeOK, SameJob
<1>5. CASE Crash
  BY <1>5 DEF Crash, IdleWorker
<1>6. CASE UNCHANGED worker
  BY <1>6 DEF SameJob
<1>7. QED
  BY <1>1, <1>2, <1>3, <1>4, <1>5, <1>6 DEF Next, CreateRule, UpdateRule, Save, EnqueueSaved,
     EnqueueFails, Startup, Tick, ToggleTemplate, ToggleAudience, vars

\* Dispatches only add to what was done.
LEMMA BackedStays ==
  ASSUME TypeOK, [Next]_vars, NEW r \in Rules, IsTimeRule(rule[r].def),
         rule'[r].def = rule[r].def, savedAt'[r] = savedAt[r]
  PROVE  /\ Due(r)' = Due(r)
         /\ \A u \in Due(r) : dispatched[<<r, u>>] > 0 => dispatched'[<<r, u>>] > 0
         /\ \A t : Backed(r, t) => Backed(r, t)'
<1>1. Due(r)' = Due(r)
  BY DEF Due
<1>2. \A u \in Due(r) : <<r, u>> \in Occurrences
  BY DueTimes DEF Occurrences
<1>3. \A u \in Due(r) : dispatched[<<r, u>>] > 0 => dispatched'[<<r, u>>] > 0
  BY <1>2, DispatchesStay
<1>4. \A t : Backed(r, t) => Backed(r, t)'
  BY <1>1, <1>3 DEF Backed, DoneBefore
<1>5. QED
  BY <1>1, <1>3, <1>4

\* The occurrence after one that was dispatched.
LEMMA NextBacked ==
  ASSUME TypeOK, NEW r \in Rules, IsTimeRule(rule[r].def), NEW t, Backed(r, t),
         dispatched[<<r, t>>] > 0, NEW n \in Times \cup {None},
         Earliest(n, NextCandidates(rule[r].def, t))
  PROVE  IF n = None THEN \A u \in Due(r) : dispatched[<<r, u>>] > 0 ELSE Backed(r, n)
<1> DEFINE d == rule[r].def
           after == NextCandidates(d, t)
<1>1. Due(r) \subseteq Nat /\ savedAt[r] \in Nat /\ t \in Nat
  BY DueTimes, HorizonAssumption DEF Backed, Times, TypeOK
<1>2. \A u \in Due(r) : u \in after \/ dispatched[<<r, u>>] > 0
  <2>1. CASE d.mode = "delay_once"
    BY <2>1 DEF Due, InitialCandidates, Backed
  <2>2. CASE d.mode # "delay_once"
    <3>1. \A u \in Due(r) : u \in d.ticks \cup d.gaps
      BY <2>2 DEF Due, InitialCandidates
    <3>2. \A u \in Due(r) : u > t \/ u = t \/ u < t
      BY <1>1
    <3>3. QED
      BY <2>2, <3>1, <3>2 DEF NextCandidates, Backed, DoneBefore
  <2>3. QED
    BY <2>1, <2>2
<1>3. after \subseteq Due(r)
  <2>1. CASE d.mode = "delay_once"
    BY <2>1 DEF NextCandidates
  <2>2. CASE d.mode # "delay_once"
    <3>1. t > savedAt[r]
      BY <2>2 DEF Backed, Due, InitialCandidates
    <3>2. /\ \A u \in after : u \in d.ticks \cup d.gaps /\ u > t
          /\ \A u \in d.ticks \cup d.gaps : u \in Nat
      <4>1. d \in Definitions
        BY DEF IsTimeRule, TypeOK, RowType
      <4>2. QED
        BY <2>2, <4>1, DefinitionsAssumption, HorizonAssumption DEF NextCandidates, DefinitionType, Times
    <3>3. \A u \in after : u > savedAt[r]
      BY <1>1, <3>1, <3>2
    <3>4. QED
      BY <2>2, <3>2, <3>3 DEF Due, InitialCandidates
  <2>3. QED
    BY <2>1, <2>2
<1>4. CASE after = {}
  <2>1. n = None
    BY <1>4 DEF Earliest
  <2>2. QED
    BY <1>2, <1>4, <2>1
<1>5. CASE after # {}
  <2>1. n \in after /\ \A u \in after : n <= u
    BY <1>5 DEF Earliest
  <2>2. n # None /\ n \in Nat /\ n \in Due(r)
    BY <1>1, <1>3, <2>1, DueTimes, NoneAssumption
  <2>3. \A u \in Due(r) : u < n => u \notin after
    BY <1>1, <2>1, <2>2
  <2>4. QED
    BY <1>2, <2>2, <2>3 DEF Backed, DoneBefore
<1>6. QED
  BY <1>4, <1>5

LEMMA RowKeptStep ==
  ASSUME TypeOK, FireInv, ScheduleInv, [Next]_vars, NEW r \in Rules
  PROVE  RowKept(r)'
<1> SUFFICES ASSUME IsTimeRule(rule'[r].def), ~raced'[r]
             PROVE  IF rule'[r].next = None THEN \A u \in Due(r)' : dispatched'[<<r, u>>] > 0
                    ELSE Backed(r, rule[r].next)'
  BY DEF RowKept
<1>1. CASE rule'[r] = rule[r] /\ savedAt'[r] = savedAt[r] /\ raced'[r] = raced[r]
  <2>1. RowKept(r) /\ IsTimeRule(rule[r].def) /\ ~raced[r]
    BY <1>1 DEF ScheduleInv
  <2>2. /\ Due(r)' = Due(r)
        /\ \A u \in Due(r) : dispatched[<<r, u>>] > 0 => dispatched'[<<r, u>>] > 0
        /\ \A t : Backed(r, t) => Backed(r, t)'
    BY <1>1, <2>1, BackedStays
  <2>3. CASE rule[r].next = None
    BY <1>1, <2>1, <2>2, <2>3 DEF RowKept
  <2>4. CASE rule[r].next # None
    <3>1. PICK t : t = rule[r].next
      OBVIOUS
    <3>2. Backed(r, t)'
      BY <2>1, <2>2, <2>4, <3>1 DEF RowKept
    <3>3. rule'[r].next = t
      BY <1>1, <3>1
    <3>4. QED
      BY <1>1, <2>4, <3>2, <3>3 DEF Backed, DoneBefore
  <2>5. QED
    BY <2>3, <2>4
<1>2. ASSUME NEW w \in Workers, AdvanceSchedule(w) \/ KeepSchedule(w), worker[w].rule = r
      PROVE  IF rule'[r].next = None THEN \A u \in Due(r)' : dispatched'[<<r, u>>] > 0
             ELSE Backed(r, rule[r].next)'
  <2>1. /\ UNCHANGED <<savedAt, raced, dispatched>> /\ worker[w].pc \in Loaded
        /\ worker[w].at \in Times
    BY <1>2, BusyHandler DEF AdvanceSchedule, KeepSchedule, At, history, Loaded
  <2>2. rule'[r].def = rule[r].def
    BY <1>2, WriteKeeps
  <2>3. PICK t \in Times : t = worker[w].at /\ Backed(r, t)
    BY <1>2, <2>1 DEF ScheduleInv, HandKept
  <2>4. worker[w].def = rule[r].def /\ IsTimeRule(rule[r].def)
    BY <1>2, <2>1 DEF ScheduleInv, HandKept
  <2>5. /\ Due(r)' = Due(r) /\ \A q : Backed(r, q) => Backed(r, q)'
    BY <2>1, <2>2, <2>4, BackedStays
  <2>6. CASE KeepSchedule(w)
    <3>1. rule'[r].next = t /\ t # None
      BY <1>2, <2>3, <2>6, NoneAssumption DEF KeepSchedule, TypeOK, RowType
    <3>2. Backed(r, t)'
      BY <2>3, <2>5
    <3>3. QED
      BY <3>1, <3>2 DEF Backed, DoneBefore
  <2>7. CASE AdvanceSchedule(w)
    <3>1. PICK n \in Times \cup {None} :
            /\ Earliest(n, NextCandidates(worker[w].def, worker[w].at))
            /\ rule' = [rule EXCEPT ![r] =
                 [@ EXCEPT !.next = n, !.firedFor = worker[w].at, !.failing = FALSE]]
      BY <1>2, <2>7 DEF AdvanceSchedule
    <3>2. rule'[r].next = n
      BY <3>1 DEF TypeOK, RowType
    <3>3. dispatched[<<r, t>>] > 0
      BY <1>2, <2>3, <2>7 DEF AdvanceSchedule, At, FireInv, Sent, Job
    <3>4. IF n = None THEN \A u \in Due(r) : dispatched[<<r, u>>] > 0 ELSE Backed(r, n)
      BY <2>3, <2>4, <3>1, <3>3, NextBacked
    <3>5. CASE n = None
      BY <2>1, <2>5, <3>2, <3>4, <3>5
    <3>6. CASE n # None
      <4>1. Backed(r, n)'
        BY <2>5, <3>4, <3>6
      <4>2. QED
        BY <3>2, <3>6, <4>1 DEF Backed, DoneBefore
    <3>7. QED
      BY <3>5, <3>6
  <2>8. QED
    BY <1>2, <2>6, <2>7
<1>3. ASSUME NEW w \in Workers, AdvanceSchedule(w) \/ KeepSchedule(w), worker[w].rule # r
      PROVE  rule'[r] = rule[r] /\ savedAt'[r] = savedAt[r] /\ raced'[r] = raced[r]
  BY <1>3, WriteKeeps
<1>4. ASSUME NEW a \in Admins, NEW d \in Definitions, Save(a, r, d)
      PROVE  IF rule'[r].next = None THEN \A u \in Due(r)' : dispatched'[<<r, u>>] > 0
             ELSE Backed(r, rule[r].next)'
  <2>1. PICK n \in Times \cup {None} :
          /\ IsTimeRule(d) => Earliest(n, InitialCandidates(d, now))
          /\ rule'[r].next = n
    BY <1>4, SaveWrites
  <2>2. rule'[r].def = d /\ savedAt'[r] = now
    BY <1>4, SaveWrites
  <2>3. Due(r)' = InitialCandidates(d, now) /\ Earliest(n, InitialCandidates(d, now))
    BY <2>1, <2>2 DEF Due
  <2>4. Due(r)' \subseteq Times
    BY <2>3, CandidateTimes
  <2>5. Due(r)' \subseteq Nat
    BY <2>4, HorizonAssumption DEF Times
  <2>6. CASE Due(r)' = {}
    BY <2>1, <2>3, <2>6 DEF Earliest
  <2>7. CASE Due(r)' # {}
    <3>1. n \in Due(r)' /\ n # None /\ \A u \in Due(r)' : ~(u < n)
      BY <2>3, <2>4, <2>5, <2>7, NoneAssumption DEF Earliest
    <3>2. rule'[r].next # None /\ rule'[r].next = n
      BY <2>1, <3>1
    <3>3. QED
      BY <3>1, <3>2 DEF Backed, DoneBefore
  <2>8. QED
    BY <2>6, <2>7
<1>5. ASSUME NEW a \in Admins, NEW q \in Rules, NEW d \in Definitions, Save(a, q, d), q # r
      PROVE  rule'[r] = rule[r] /\ savedAt'[r] = savedAt[r] /\ raced'[r] = raced[r]
  BY <1>5, SaveWrites
<1>6. QED
  BY <1>1, <1>2, <1>3, <1>4, <1>5, RowStep

LEMMA HandKeptStep ==
  ASSUME TypeOK, ScheduleInv, [Next]_vars, NEW v \in Workers
  PROVE  HandKept(v)'
<1> SUFFICES ASSUME worker'[v].pc \in Loaded, ~raced'[worker'[v].rule]
             PROVE  /\ worker'[v].def = rule'[worker'[v].rule].def /\ IsTimeRule(worker'[v].def)
                    /\ Backed(worker[v].rule, worker[v].at)'
  BY DEF HandKept
<1>1. CASE worker[v].pc \in Loaded /\ SameJob(v)
  <2>1. PICK r \in Rules, t \in Times : r = worker[v].rule /\ t = worker[v].at
    BY <1>1, BusyHandler DEF Loaded
  <2>2. rule'[r].def = rule[r].def /\ savedAt'[r] = savedAt[r] /\ raced'[r] = raced[r]
    <3>1. ~raced'[r]
      BY <1>1, <2>1 DEF SameJob
    <3>2. ASSUME NEW w \in Workers, AdvanceSchedule(w) \/ KeepSchedule(w)
          PROVE  rule'[r].def = rule[r].def /\ savedAt'[r] = savedAt[r] /\ raced'[r] = raced[r]
      BY <3>2, WriteKeeps
    <3>3. ASSUME NEW a \in Admins, NEW q \in Rules, NEW d \in Definitions, Save(a, q, d)
          PROVE  rule'[r].def = rule[r].def /\ savedAt'[r] = savedAt[r] /\ raced'[r] = raced[r]
      <4>1. q # r
        BY <1>1, <2>1, <3>1, <3>3, SaveWrites
      <4>2. QED
        BY <3>3, <4>1, SaveWrites
    <3>4. QED
      BY <3>2, <3>3, RowStep
  <2>3. /\ worker[v].def = rule[r].def /\ IsTimeRule(worker[v].def) /\ Backed(r, t)
    BY <1>1, <2>1, <2>2 DEF ScheduleInv, HandKept, SameJob
  <2>4. Backed(r, t)'
    BY <2>2, <2>3, BackedStays
  <2>5. worker'[v].rule = r /\ worker'[v].at = t /\ worker'[v].def = worker[v].def
    BY <1>1, <2>1 DEF SameJob
  <2>6. QED
    BY <2>2, <2>3, <2>4, <2>5 DEF Backed, DoneBefore, Due
<1>2. CASE FindRule(v) /\ StillDue(Job(v))
  <2>1. PICK r \in Rules, t \in Times : r = worker[v].rule /\ t = worker[v].at
    BY <1>2, BusyHandler DEF FindRule, At
  <2>2. /\ worker'[v].rule = r /\ worker'[v].at = t /\ worker'[v].def = rule[r].def
        /\ UNCHANGED <<rule, savedAt, raced>>
    BY <1>2, <2>1, FindMoves DEF FindRule, history
  <2>3. IsTimeRule(rule[r].def) /\ rule[r].next = t /\ t # None /\ ~raced[r]
    BY <1>2, <2>1, <2>2, NoneAssumption DEF StillDue, Armed, Job
  <2>4. Backed(r, t)
    BY <2>3 DEF ScheduleInv, RowKept
  <2>5. Backed(r, t)'
    BY <2>2, <2>3, <2>4, BackedStays
  <2>6. QED
    BY <2>2, <2>3, <2>5 DEF Backed, DoneBefore, Due
<1>3. QED
  BY <1>1, <1>2, HandStep

LEMMA ScheduleInit == Init => ScheduleInv
BY DEF Init, ScheduleInv, RowKept, HandKept, IsTimeRule, IdleWorker, Loaded

\* The invariants of the records and of the schedule hold together.
LEMMA ScheduleInvariant == Spec => [](FireInv /\ ScheduleInv)
<1>1. Init => FireInv /\ ScheduleInv
  <2>1. Init => FireInv
    BY DEF Init, FireInv, FiresMatchDispatches, IdleWorker, Recorded, Sent
  <2>2. QED
    BY <2>1, ScheduleInit
<1>2. TypeOK /\ (FireInv /\ ScheduleInv) /\ [Next]_vars => (FireInv /\ ScheduleInv)'
  <2> SUFFICES ASSUME TypeOK, FireInv, ScheduleInv, [Next]_vars PROVE (FireInv /\ ScheduleInv)'
    OBVIOUS
  <2>1. (\A r \in Rules : RowKept(r)') /\ (\A w \in Workers : HandKept(w)')
    BY RowKeptStep, HandKeptStep
  <2>2. QED
    BY <2>1, FireNext DEF ScheduleInv
<1>3. QED
  BY <1>1, <1>2, TypeCorrect, PTL DEF Spec

\* No occurrence of a saved definition is skipped (calculate_next_run_after_fire,
\* mark_rule_fire_failed), whatever the rules, workers, retries and crashes, unless
\* a save raced with a handler.
THEOREM NothingSkipped == Spec => []NoSkippedOccurrence
<1>1. TypeOK /\ ScheduleInv => NoSkippedOccurrence
  <2> SUFFICES ASSUME TypeOK, ScheduleInv, NEW r \in Rules, IsTimeRule(rule[r].def), ~raced[r]
               PROVE  /\ rule[r].next \in Due(r) \cup {None}
                      /\ \A t \in Due(r) : rule[r].next = None \/ t < rule[r].next
                                             => dispatched[<<r, t>>] > 0
    BY DEF NoSkippedOccurrence, Due
  <2>1. QED
    BY DEF ScheduleInv, RowKept, Backed, DoneBefore
<1>2. QED
  BY <1>1, ScheduleInvariant, TypeCorrect, PTL

\* Only what the saved and enabled definition still owes is dispatched: a
\* duplicate, a retry or a restart never sends for a disabled rule or for a
\* schedule left behind, unless a save raced with the handler.
THEOREM OnlyCurrentDispatched == Spec => DispatchesOnlyCurrent
<1> DEFINE Owed(o) ==
      dispatched'[o] > dispatched[o] /\ ~raced[o[1]] =>
        /\ IsTimeRule(rule[o[1]].def)
        /\ o[2] \in InitialCandidates(rule[o[1]].def, savedAt[o[1]])
        /\ rule[o[1]].next # None /\ rule[o[1]].next <= o[2]
<1>1. TypeOK /\ ScheduleInv /\ [Next]_vars => \A o \in Occurrences : Owed(o)
  <2> SUFFICES ASSUME TypeOK, ScheduleInv, [Next]_vars, NEW o \in Occurrences,
                      dispatched'[o] > dispatched[o], ~raced[o[1]]
               PROVE  /\ IsTimeRule(rule[o[1]].def)
                      /\ o[2] \in Due(o[1])
                      /\ rule[o[1]].next # None /\ rule[o[1]].next <= o[2]
    BY DEF Due
  <2>1. PICK w \in Workers :
          /\ worker[w].pc = "create" /\ dispatched[Job(w)] = 0
          /\ dispatched' = [dispatched EXCEPT ![Job(w)] = @ + 1]
    <3>1. dispatched[o] \in Nat
      BY DEF TypeOK
    <3>2. ~UNCHANGED dispatched
      BY <3>1
    <3>3. QED
      BY <3>2, DispatchStep DEF At
  <2>2. PICK r \in Rules, t \in Times : r = o[1] /\ t = o[2] /\ o = <<r, t>>
    BY DEF Occurrences
  <2>3. Job(w) = o
    <3>1. Job(w) # o => dispatched'[o] = dispatched[o]
      BY <2>1 DEF TypeOK
    <3>2. dispatched[o] \in Nat
      BY DEF TypeOK
    <3>3. QED
      BY <3>1, <3>2
  <2>4. worker[w].rule = r /\ worker[w].at = t /\ dispatched[<<r, t>>] = 0
    BY <2>1, <2>2, <2>3 DEF Job
  <2>5. IsTimeRule(rule[r].def) /\ Backed(r, t) /\ RowKept(r) /\ ~raced[r]
    BY <2>1, <2>2, <2>4 DEF ScheduleInv, HandKept, Loaded
  <2>6. rule[r].next # None
    BY <2>4, <2>5 DEF RowKept, Backed
  <2>7. rule[r].next \in Nat /\ t \in Nat /\ ~(t < rule[r].next)
    <3>1. rule[r].next \in Times
      BY <2>6 DEF TypeOK, RowType
    <3>2. ~(t < rule[r].next)
      BY <2>4, <2>5, <2>6 DEF RowKept, Backed, DoneBefore
    <3>3. QED
      BY <3>1, <3>2, HorizonAssumption DEF Times
  <2>8. QED
    BY <2>2, <2>5, <2>6, <2>7 DEF Backed
<1>2. (TypeOK /\ ScheduleInv /\ [Next]_vars => \A o \in Occurrences : Owed(o)) =>
        (TypeOK /\ ScheduleInv /\ [Next]_vars => [\A o \in Occurrences : Owed(o)]_vars)
  OBVIOUS
<1>3. QED
  BY <1>1, <1>2, ScheduleInvariant, TypeCorrect, PTL DEF Spec, DispatchesOnlyCurrent
===============================================================================
