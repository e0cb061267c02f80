------------------------- MODULE NotificationRules -------------------------
(***************************************************************************)
(* Time driven notification rules: the rule rows in Postgres, the fire     *)
(* jobs in the Apalis queue in Redis, the concurrent workers that run      *)
(* fire_rule_job, the administrators that save rules, and the start-up     *)
(* that re-enqueues every armed rule.  Every database or queue call of a   *)
(* handler is one step, so handlers interleave wherever the code awaits.   *)
(*                                                                         *)
(* A rule's definition is what an administrator saves.  `ticks' are the    *)
(* instants its fixed schedule or cron expression matches between start_at *)
(* and end_at (Horizon is the latest end_at), `gaps' the days it matches   *)
(* whose local time does not exist (a daylight saving jump), `start' and   *)
(* `delay' the fields of a delay_once rule.  A unit of time is longer than *)
(* a minute, and a day or more for a rule with gaps.                       *)
(***************************************************************************)
EXTENDS Integers, FiniteSets

CONSTANTS
  Rules,        \* ids of notification_rules rows
  Workers,      \* fire jobs the Apalis worker runs at the same time
  Admins,       \* requests in create_rule / update_rule
  Definitions,  \* what an administrator may save
  Horizon,      \* last instant modelled, also the latest end_at
  MaxSaves,     \* bound on create_rule and update_rule calls
  MaxCrashes,   \* bound on process crashes
  MaxErrors,    \* bound on failed database or queue calls
  None          \* SQL NULL

Times == 0 .. Horizon
Occurrences == Rules \X Times

DefinitionType ==
  [enabled : BOOLEAN, mode : {"event", "delay_once", "recurring"},
   ticks : SUBSET Times, gaps : SUBSET Times,
   start : Times \cup {None}, delay : Nat \ {0}]

ASSUME HorizonAssumption == Horizon \in Nat
ASSUME BoundsAssumption == MaxSaves \in Nat /\ MaxCrashes \in Nat /\ MaxErrors \in Nat
ASSUME WorkersAssumption == IsFiniteSet(Workers)
ASSUME NoneAssumption == None \notin Times /\ None \notin Rules /\ None \notin Definitions
ASSUME DefinitionsAssumption == Definitions \subseteq DefinitionType

VARIABLES
  now,         \* the clock
  up,          \* the process runs
  rule,        \* notification_rules
  jobs,        \* copies of each fire job waiting in Redis
  worker,      \* the handler each worker runs
  admin,       \* the job a save still has to enqueue
  dispatched,  \* notification_dispatches rows per idempotency key
  fires,       \* notification_rule_fires.status
  template,    \* the template exists and is enabled
  audience,    \* the selector resolves to at least one active member
  saves, crashes, errors,        \* spent bounds
  savedAt, raced, stranded       \* history, see below

(***************************************************************************)
(* History variables, read by properties only.  savedAt is when a rule was *)
(* last saved.  raced: a save landed while a handler had already read the  *)
(* row, so the handler will write over it.  stranded: a failed call ended  *)
(* a handler or a save early, since the last start-up.                     *)
(***************************************************************************)
history == <<savedAt, raced, stranded>>
bounds == <<saves, crashes, errors>>
world == <<now, up, template, audience>>
vars == <<world, rule, jobs, worker, admin, dispatched, fires, bounds, history>>

IdleWorker == [pc |-> "idle", rule |-> None, at |-> None, def |-> None, plan |-> None]
IdleAdmin == [rule |-> None, at |-> None]

\* Handlers that have read the rule row and will write it or have written it.
Loaded == {"record", "template", "lookup", "resolve", "create", "advance", "reset"}
Written == {"succeed", "chain", "fail", "retry"}
Busy == {"find"} \cup Loaded \cup Written

---------------------------------------------------------------------------
(* When a rule runs. *)

IsTimeRule(d) == d # None /\ d.enabled /\ d.mode # "event"

\* Instants considered by calculate_initial_next_run_at.
InitialCandidates(d, reference) ==
  IF d.mode = "delay_once"
  THEN {(IF d.start = None THEN reference ELSE d.start) + d.delay} \cap Times
  ELSE {t \in d.ticks \cup d.gaps : t > reference}

\* Mutant of NextCandidates: the occurrence right after the fired one is lost.
NextCandidatesOffByOne(d, firedFor) ==
  IF d.mode = "delay_once" THEN {} ELSE {t \in d.ticks \cup d.gaps : t > firedFor + 1}

\* Instants considered by calculate_next_run_after_fire.
NextCandidates(d, firedFor) ==
  IF d.mode = "delay_once" THEN {} ELSE {t \in d.ticks \cup d.gaps : t > firedFor}

\* n is the first candidate, or NULL when there is none.
Earliest(n, candidates) ==
  IF candidates = {} THEN n = None
  ELSE n \in candidates /\ \A t \in candidates : n <= t

\* The search from `from' to n meets a local time that does not exist: n's,
\* or that of the day the search starts on.
InvalidLocal(d, from, n) == d.mode = "recurring" /\ ({from, n} \cap d.gaps) # {}

---------------------------------------------------------------------------
Init ==
  /\ now = 0
  /\ up = TRUE
  /\ rule = [r \in Rules |-> [def |-> None, next |-> None, firedFor |-> None, failing |-> FALSE]]
  /\ jobs = [o \in Occurrences |-> 0]
  /\ worker = [w \in Workers |-> IdleWorker]
  /\ admin = [a \in Admins |-> IdleAdmin]
  /\ dispatched = [o \in Occurrences |-> 0]
  /\ fires = [o \in Occurrences |-> "none"]
  /\ template \in BOOLEAN
  /\ audience \in BOOLEAN
  /\ saves = 0 /\ crashes = 0 /\ errors = 0
  /\ savedAt = [r \in Rules |-> 0]
  /\ raced = [r \in Rules |-> FALSE]
  /\ stranded = [r \in Rules |-> FALSE]

---------------------------------------------------------------------------
(* fire_rule_job, one step per await. *)

Job(w) == <<worker[w].rule, worker[w].at>>
At(w, pc) == up /\ worker[w].pc = pc
Goto(w, pc) == worker' = [worker EXCEPT ![w].pc = pc]
Finish(w) == worker' = [worker EXCEPT ![w] = IdleWorker]

Available(o) == jobs[o] > 0 /\ now >= o[2]

\* Apalis hands a due job to a free worker.
Take(w, o) ==
  /\ At(w, "idle")
  /\ Available(o)
  /\ jobs' = [jobs EXCEPT ![o] = @ - 1]
  /\ worker' = [worker EXCEPT ![w] =
       [pc |-> "find", rule |-> o[1], at |-> o[2], def |-> None, plan |-> None]]
  /\ UNCHANGED <<world, rule, admin, dispatched, fires, bounds, history>>

\* The rule is enabled, time driven, and due at the occurrence.
Armed(o) == IsTimeRule(rule[o[1]].def) /\ rule[o[1]].next = o[2]

\* Mutant of StillDue: any enabled time rule fires.
StillDueAnyTime(o) == IsTimeRule(rule[o[1]].def)

\* The test a fire job must pass when its rule is read.
StillDue(o) == Armed(o)

FindRule(w) ==
  /\ At(w, "find")
  /\ IF StillDue(Job(w))
     THEN worker' = [worker EXCEPT ![w].pc = "record", ![w].def = rule[worker[w].rule].def]
     ELSE Finish(w)
  /\ UNCHANGED <<world, rule, jobs, admin, dispatched, fires, bounds, history>>

RecordProcessing(w) ==
  /\ At(w, "record")
  /\ fires' = [fires EXCEPT ![Job(w)] = "processing"]
  /\ Goto(w, "template")
  /\ UNCHANGED <<world, rule, jobs, admin, dispatched, bounds, history>>

LoadTemplate(w) ==
  /\ At(w, "template")
  /\ Goto(w, IF template THEN "lookup" ELSE "reset")
  /\ UNCHANGED <<world, rule, jobs, admin, dispatched, fires, bounds, history>>

\* publish_internal: a dispatch with this idempotency key is reused.
LookupDispatch(w) ==
  /\ At(w, "lookup")
  /\ Goto(w, IF dispatched[Job(w)] > 0 THEN "advance" ELSE "resolve")
  /\ UNCHANGED <<world, rule, jobs, admin, dispatched, fires, bounds, history>>

\* Mutant of AfterResolve: an empty audience counts as published.
AfterResolveEmptyOk == IF audience THEN "create" ELSE "advance"

AfterResolve == IF audience THEN "create" ELSE "reset"

\* publish_internal: no eligible recipient is an error.
ResolveRecipients(w) ==
  /\ At(w, "resolve")
  /\ Goto(w, AfterResolve)
  /\ UNCHANGED <<world, rule, jobs, admin, dispatched, fires, bounds, history>>

\* Mutant of KeyFree: no unique index on (tenant_id, idempotency_key).
KeyFreeAlways(o) == TRUE

KeyFree(o) == dispatched[o] = 0

\* create_dispatch: the unique index refuses a second row for the key.
CreateDispatch(w) ==
  /\ At(w, "create")
  /\ IF KeyFree(Job(w))
     THEN dispatched' = [dispatched EXCEPT ![Job(w)] = @ + 1] /\ Goto(w, "advance")
     ELSE UNCHANGED dispatched /\ Goto(w, "reset")
  /\ UNCHANGED <<world, rule, jobs, admin, fires, bounds, history>>

\* Publishing succeeded: the next run follows from the definition as read.
AdvanceSchedule(w) ==
  /\ At(w, "advance")
  /\ \E n \in Times \cup {None} :
       /\ Earliest(n, NextCandidates(worker[w].def, worker[w].at))
       /\ ~InvalidLocal(worker[w].def, worker[w].at, n)
       /\ rule' = [rule EXCEPT ![worker[w].rule] =
            [@ EXCEPT !.next = n, !.firedFor = worker[w].at, !.failing = FALSE]]
       /\ worker' = [worker EXCEPT ![w].pc = "succeed", ![w].plan = n]
  /\ UNCHANGED <<world, jobs, admin, dispatched, fires, bounds, history>>

\* calculate_next_run_after_fire fails and ends the handler.
AdvanceFails(w) ==
  /\ At(w, "advance")
  /\ \E n \in Times \cup {None} :
       /\ Earliest(n, NextCandidates(worker[w].def, worker[w].at))
       /\ InvalidLocal(worker[w].def, worker[w].at, n)
  /\ Finish(w)
  /\ stranded' = [stranded EXCEPT ![worker[w].rule] = TRUE]
  /\ UNCHANGED <<world, rule, jobs, admin, dispatched, fires, bounds, savedAt, raced>>

RecordSucceeded(w) ==
  /\ At(w, "succeed")
  /\ fires' = [fires EXCEPT ![Job(w)] = "succeeded"]
  /\ IF worker[w].plan = None THEN Finish(w) ELSE Goto(w, "chain")
  /\ UNCHANGED <<world, rule, jobs, admin, dispatched, bounds, history>>

ScheduleNext(w) ==
  /\ At(w, "chain")
  /\ jobs' = [jobs EXCEPT ![<<worker[w].rule, worker[w].plan>>] = @ + 1]
  /\ Finish(w)
  /\ UNCHANGED <<world, rule, admin, dispatched, fires, bounds, history>>

\* Publishing failed: next_run_at is written back as it was read.
KeepSchedule(w) ==
  /\ At(w, "reset")
  /\ rule' = [rule EXCEPT ![worker[w].rule] =
       [@ EXCEPT !.next = worker[w].at, !.firedFor = None, !.failing = TRUE]]
  /\ Goto(w, "fail")
  /\ UNCHANGED <<world, jobs, admin, dispatched, fires, bounds, history>>

\* Mutant of RecordFailed: the fire record is left as it is.
RecordFailedUnwritten(w) ==
  /\ At(w, "fail")
  /\ Goto(w, "retry")
  /\ UNCHANGED <<world, rule, jobs, admin, dispatched, fires, bounds, history>>

RecordFailed(w) ==
  /\ At(w, "fail")
  /\ fires' = [fires EXCEPT ![Job(w)] = "failed"]
  /\ Goto(w, "retry")
  /\ UNCHANGED <<world, rule, jobs, admin, dispatched, bounds, history>>

\* Mutant of RetryJob: the failed job is not scheduled again.
RetryJobForgotten(w) ==
  /\ At(w, "retry")
  /\ Finish(w)
  /\ UNCHANGED <<world, rule, jobs, admin, dispatched, fires, bounds, history>>

\* The same job again, one minute later (less than a unit of Times).
RetryJob(w) ==
  /\ At(w, "retry")
  /\ jobs' = [jobs EXCEPT ![Job(w)] = @ + 1]
  /\ Finish(w)
  /\ UNCHANGED <<world, rule, admin, dispatched, fires, bounds, history>>

---------------------------------------------------------------------------
(* Failed calls. *)

SpendError == errors < MaxErrors /\ errors' = errors + 1

\* publish_internal returns an error, handled as a failed publication.  A
\* commit whose answer is lost may have taken effect.
PublishError(w) ==
  /\ SpendError
  /\ \/ At(w, "lookup") /\ UNCHANGED dispatched
     \/ At(w, "resolve") /\ UNCHANGED dispatched
     \/ At(w, "create") /\ UNCHANGED dispatched
     \/ /\ At(w, "create")
        /\ KeyFree(Job(w))
        /\ dispatched' = [dispatched EXCEPT ![Job(w)] = @ + 1]
  /\ Goto(w, "reset")
  /\ UNCHANGED <<world, rule, jobs, admin, fires, saves, crashes, history>>

\* Any other failed call ends the handler; the worker logs it and
\* acknowledges the job all the same.
AbortFire(w) ==
  /\ SpendError
  /\ up
  /\ worker[w].pc \in Busy \ {"lookup", "resolve", "create"}
  /\ Finish(w)
  /\ stranded' = [stranded EXCEPT ![worker[w].rule] = TRUE]
  /\ UNCHANGED <<world, rule, jobs, admin, dispatched, fires, saves, crashes, savedAt, raced>>

---------------------------------------------------------------------------
(* create_rule and update_rule. *)

\* prepare_rule_for_save, the INSERT or UPDATE, and the decision to enqueue.
Save(a, r, d) ==
  /\ up
  /\ admin[a] = IdleAdmin
  /\ saves < MaxSaves
  /\ saves' = saves + 1
  /\ \E n \in Times \cup {None} :
       /\ IF IsTimeRule(d)
          THEN Earliest(n, InitialCandidates(d, now)) /\ ~InvalidLocal(d, now, n)
          ELSE n = None
       /\ rule' = [rule EXCEPT ![r] = [@ EXCEPT !.def = d, !.next = n, !.failing = FALSE]]
       /\ admin' = [admin EXCEPT ![a] = IF n = None THEN IdleAdmin ELSE [rule |-> r, at |-> n]]
  /\ savedAt' = [savedAt EXCEPT ![r] = now]
  /\ raced' = [raced EXCEPT ![r] =
       \E w \in Workers : worker[w].pc \in Loaded /\ worker[w].rule = r]
  /\ UNCHANGED <<world, jobs, worker, dispatched, fires, crashes, errors, stranded>>

CreateRule(a, r, d) == rule[r].def = None /\ Save(a, r, d)
UpdateRule(a, r, d) == rule[r].def # None /\ Save(a, r, d)

\* schedule_rule_if_needed, the second half of a save.
EnqueueSaved(a) ==
  /\ up
  /\ admin[a] # IdleAdmin
  /\ jobs' = [jobs EXCEPT ![<<admin[a].rule, admin[a].at>>] = @ + 1]
  /\ admin' = [admin EXCEPT ![a] = IdleAdmin]
  /\ UNCHANGED <<world, rule, worker, dispatched, fires, bounds, history>>

\* The queue refuses: the caller sees an error, the row stays saved.
EnqueueFails(a) ==
  /\ up
  /\ admin[a] # IdleAdmin
  /\ SpendError
  /\ admin' = [admin EXCEPT ![a] = IdleAdmin]
  /\ stranded' = [stranded EXCEPT ![admin[a].rule] = TRUE]
  /\ UNCHANGED <<world, rule, jobs, worker, dispatched, fires, saves, crashes, savedAt, raced>>

---------------------------------------------------------------------------
(* The process and its environment. *)

\* Jobs in flight at a crash may or may not be handed out again.
Crash ==
  /\ up
  /\ crashes < MaxCrashes
  /\ crashes' = crashes + 1
  /\ up' = FALSE
  /\ worker' = [w \in Workers |-> IdleWorker]
  /\ admin' = [a \in Admins |-> IdleAdmin]
  /\ \E back \in SUBSET {w \in Workers : worker[w].pc # "idle"} :
       jobs' = [o \in Occurrences |-> jobs[o] + Cardinality({w \in back : Job(w) = o})]
  /\ UNCHANGED <<now, template, audience, rule, dispatched, fires, saves, errors, history>>

\* list_enabled_time_rules
Resumed(o) == Armed(o)

\* sync_time_rule_jobs runs before the worker and the HTTP server.
Startup ==
  /\ ~up
  /\ up' = TRUE
  /\ jobs' = [o \in Occurrences |->
       IF Resumed(o) THEN jobs[o] + 1 ELSE jobs[o]]
  /\ stranded' = [r \in Rules |-> FALSE]
  /\ UNCHANGED <<now, template, audience, rule, worker, admin, dispatched, fires, bounds,
                 savedAt, raced>>

Tick ==
  /\ now < Horizon
  /\ now' = now + 1
  /\ UNCHANGED <<up, template, audience, rule, jobs, worker, admin, dispatched, fires, bounds,
                 history>>

ToggleTemplate ==
  /\ template' = ~template
  /\ UNCHANGED <<now, up, audience, rule, jobs, worker, admin, dispatched, fires, bounds, history>>

ToggleAudience ==
  /\ audience' = ~audience
  /\ UNCHANGED <<now, up, template, rule, jobs, worker, admin, dispatched, fires, bounds, history>>

---------------------------------------------------------------------------
\* Every step of a handler that is not a failed call.
Work(w) ==
  \/ FindRule(w) \/ RecordProcessing(w) \/ LoadTemplate(w) \/ LookupDispatch(w)
  \/ ResolveRecipients(w) \/ CreateDispatch(w) \/ AdvanceSchedule(w) \/ AdvanceFails(w)
  \/ RecordSucceeded(w) \/ ScheduleNext(w) \/ KeepSchedule(w) \/ RecordFailed(w) \/ RetryJob(w)

Next ==
  \/ \E w \in Workers, o \in Occurrences : Take(w, o)
  \/ \E w \in Workers : Work(w) \/ PublishError(w) \/ AbortFire(w)
  \/ \E a \in Admins, r \in Rules, d \in Definitions : CreateRule(a, r, d) \/ UpdateRule(a, r, d)
  \/ \E a \in Admins : EnqueueSaved(a) \/ EnqueueFails(a)
  \/ Crash \/ Startup \/ Tick \/ ToggleTemplate \/ ToggleAudience

Spec == Init /\ [][Next]_vars

\* The container is restarted when it stops, requests and handlers run on,
\* time passes, and the queue hands out every due job in its turn.
Fairness ==
  /\ WF_vars(Startup)
  /\ WF_vars(Tick)
  /\ \A w \in Workers : WF_vars(Work(w))
  /\ \A a \in Admins : WF_vars(EnqueueSaved(a))
  /\ \A o \in Occurrences : SF_vars(\E w \in Workers : Take(w, o))

FairSpec == Spec /\ Fairness

---------------------------------------------------------------------------
RowType ==
  [def : Definitions \cup {None}, next : Times \cup {None}, firedFor : Times \cup {None},
   failing : BOOLEAN]

BusyType ==
  [pc : Busy, rule : Rules, at : Times, def : Definitions \cup {None}, plan : Times \cup {None}]

WorkerType == {IdleWorker} \cup BusyType

AdminType == {IdleAdmin} \cup [rule : Rules, at : Times]

\* Types of the rows, the queue, the handlers and the history.
TypeOK ==
  /\ now \in Times /\ up \in BOOLEAN /\ template \in BOOLEAN /\ audience \in BOOLEAN
  /\ rule \in [Rules -> RowType]
  /\ jobs \in [Occurrences -> Nat]
  /\ worker \in [Workers -> WorkerType]
  /\ admin \in [Admins -> AdminType]
  /\ dispatched \in [Occurrences -> Nat]
  /\ fires \in [Occurrences -> {"none", "processing", "succeeded", "failed"}]
  /\ saves \in 0 .. MaxSaves /\ crashes \in 0 .. MaxCrashes /\ errors \in 0 .. MaxErrors
  /\ savedAt \in [Rules -> Times] /\ raced \in [Rules -> BOOLEAN]
  /\ stranded \in [Rules -> BOOLEAN]

\* No occurrence of a rule is dispatched twice, whatever duplicates of its
\* job, retries and restarts do (publish_internal, create_dispatch).
AtMostOneDispatch == \A o \in Occurrences : dispatched[o] <= 1

\* Worker w will run occurrence o, or schedule it again.
Holds(w, o) ==
  \/ worker[w].pc \in {"find", "fail", "retry"} \cup Loaded /\ Job(w) = o
  \/ worker[w].pc \in {"succeed", "chain"} /\ worker[w].rule = o[1] /\ worker[w].plan = o[2]

\* Somebody still has the duty to run occurrence o of its rule.
Covered(o) ==
  \/ jobs[o] > 0
  \/ \E w \in Workers : Holds(w, o)
  \/ \E a \in Admins : admin[a] = [rule |-> o[1], at |-> o[2]]

\* An armed rule is never forgotten while the process runs: a job, a handler
\* or a save will run it, however saves, duplicate jobs and stale writers
\* interleave.  Only a failed call (logged and acknowledged by the worker)
\* strands it, until the next start-up.
ScheduleCovered ==
  up => \A o \in Occurrences : Armed(o) /\ ~stranded[o[1]] => Covered(o)

\* A fire recorded as succeeded, and a last_fired_for, name an occurrence
\* that was dispatched, and a dispatch always leaves a fire record.
FiresMatchDispatches ==
  /\ \A o \in Occurrences : fires[o] = "succeeded" => dispatched[o] > 0
  /\ \A o \in Occurrences : dispatched[o] > 0 => fires[o] # "none"
  /\ \A r \in Rules : rule[r].firedFor # None => dispatched[<<r, rule[r].firedFor>>] > 0

\* Unless a save raced with a running handler, next_run_at belongs to the
\* saved definition and every earlier occurrence since the save was
\* dispatched: retries, crashes and duplicates skip nothing.
NoSkippedOccurrence ==
  \A r \in Rules : LET row == rule[r] IN
    IsTimeRule(row.def) /\ ~raced[r] =>
      LET due == InitialCandidates(row.def, savedAt[r]) IN
      /\ row.next \in due \cup {None}
      /\ \A t \in due : row.next = None \/ t < row.next => dispatched[<<r, t>>] > 0

\* Unless a save raced, what is dispatched is an occurrence of the saved and
\* enabled definition that the rule has not left behind: a duplicate, a retry
\* or a restart never sends for a disabled rule or for an abandoned schedule.
DispatchesOnlyCurrent ==
  [][\A o \in Occurrences : LET row == rule[o[1]] IN
       dispatched'[o] > dispatched[o] /\ ~raced[o[1]] =>
         /\ IsTimeRule(row.def)
         /\ o[2] \in InitialCandidates(row.def, savedAt[o[1]])
         /\ row.next # None /\ row.next <= o[2]]_vars

\* The catch-up policy every rule carries is fire_once: occurrences missed in
\* an outage are made up by one fire, after which no missed one is due.
CatchupFiresOnce ==
  [][\A r \in Rules :
       rule'[r].firedFor # rule[r].firedFor /\ rule'[r].firedFor # None /\ rule'[r].next # None
         => rule'[r].next >= now]_vars

\* A handler has read the rule for o and has not written it yet.
InHand(o) == \E w \in Workers : worker[w].pc \in Loaded /\ Job(w) = o

Delivery == INSTANCE OccurrenceDelivery
  WITH clock <- now, sent <- dispatched,
       armed <- {o \in Occurrences : Armed(o)}, claimed <- {o \in Occurrences : InHand(o)}

\* Every behaviour of the rules is one of the abstract delivery: armed is being
\* the rule's next run, claimed is having been found so by a handler.
ImplementsDelivery == Delivery!Spec

\* While the template and the audience stay available, an armed occurrence
\* is dispatched or gives way to another, unless a failed call strands it.
ArmedEventuallyFires ==
  <>[](template /\ audience) =>
    \A o \in Occurrences :
      Armed(o) ~> (dispatched[o] > 0 \/ ~Armed(o) \/ stranded[o[1]])

\* No fire record is left in processing for good unless the process crashed
\* or a call failed.
ProcessingSettles ==
  \A o \in Occurrences :
    fires[o] = "processing" ~> (fires[o] # "processing" \/ crashes > 0 \/ stranded[o[1]])
=============================================================================
