----------------------------- MODULE RoleCodes -----------------------------
(***************************************************************************)
(* The codes of a role in Postgres and their copy in Redis, which has no   *)
(* expiry: requests that load the codes through the cache, and assignments *)
(* that replace the rows and then refresh the copy.  Menu codes and        *)
(* permission codes have a cache each and the same protocol.  A set of     *)
(* codes is named by the number of the assignment that wrote it.           *)
(***************************************************************************)
EXTENDS Integers

CONSTANTS
  Requests,    \* requests served at the same time
  None,        \* nothing
  MaxAssigns,  \* bound on assignments
  MaxErrors    \* bound on failed Redis or database calls

ConstantsOK ==
  None \notin Requests \cup Int \cup {"load", "assign"} /\ MaxAssigns \in Nat /\ MaxErrors \in Nat

VARIABLES
  rows,     \* role_menus or role_perms: the last committed assignment
  cache,    \* the Redis copy
  request,  \* the progress of each request
  errors,   \* spent bound
  raced,    \* history: rows changed while a request held codes to write
  lost      \* history: an assignment could not refresh the copy

vars == <<rows, cache, request, errors, raced, lost>>

Idle == [pc |-> "idle", job |-> None, codes |-> None]

Init ==
  /\ rows = 0
  /\ cache = None
  /\ request = [r \in Requests |-> Idle]
  /\ errors = 0
  /\ raced = FALSE
  /\ lost = FALSE

At(r, pc) == request[r].pc = pc
Finish(r) == request' = [request EXCEPT ![r] = Idle]

\* Requests that have read codes and not yet written them to the cache.
Holding == {r \in Requests : request[r].pc = "write"}
Refreshing == {r \in Requests : request[r].job = "assign"}

---------------------------------------------------------------------------
(* load_role_menu_codes_cached, load_role_perm_codes_cached *)

\* A hit answers the request.
Hit(r) ==
  /\ At(r, "idle")
  /\ cache # None
  /\ UNCHANGED vars

\* A miss, or a failed read of the cache, falls back to the rows.
Miss(r) ==
  /\ At(r, "idle")
  /\ \/ cache = None /\ UNCHANGED errors
     \/ errors < MaxErrors /\ errors' = errors + 1
  /\ request' = [request EXCEPT ![r] = [Idle EXCEPT !.pc = "read", !.job = "load"]]
  /\ UNCHANGED <<rows, cache, raced, lost>>

---------------------------------------------------------------------------
(* assign_menus, assign_perms *)

\* replace_role_menus, replace_role_perms: one transaction.
Assign(r) ==
  /\ At(r, "idle")
  /\ rows < MaxAssigns
  /\ rows' = rows + 1
  /\ request' = [request EXCEPT ![r] = [Idle EXCEPT !.pc = "read", !.job = "assign"]]
  /\ raced' = (raced \/ Holding # {})
  /\ UNCHANGED <<cache, errors, lost>>

---------------------------------------------------------------------------
(* Both read the rows and write what they read to the cache *)

ReadRows(r) ==
  /\ At(r, "read")
  /\ request' = [request EXCEPT ![r].pc = "write", ![r].codes = rows]
  /\ UNCHANGED <<rows, cache, errors, raced, lost>>

\* Mutant of WriteCache: a copy that is there is never replaced.
WriteCacheIfAbsent(r) ==
  /\ At(r, "write")
  /\ cache' = IF cache = None THEN request[r].codes ELSE cache
  /\ Finish(r)
  /\ UNCHANGED <<rows, errors, raced, lost>>

WriteCache(r) ==
  /\ At(r, "write")
  /\ cache' = request[r].codes
  /\ Finish(r)
  /\ UNCHANGED <<rows, errors, raced, lost>>

\* A failed read or write is logged; a load answers or errs without caching,
\* an assignment reports success and leaves the old copy.
CallFails(r) ==
  /\ request[r].pc \in {"read", "write"}
  /\ errors < MaxErrors
  /\ errors' = errors + 1
  /\ Finish(r)
  /\ lost' = (lost \/ request[r].job = "assign")
  /\ UNCHANGED <<rows, cache, raced>>

---------------------------------------------------------------------------
Next ==
  \E r \in Requests :
    Hit(r) \/ Miss(r) \/ Assign(r) \/ ReadRows(r) \/ WriteCache(r) \/ CallFails(r)

Spec == Init /\ [][Next]_vars

---------------------------------------------------------------------------
Commits == 0 .. MaxAssigns

(* Types of the rows, the copy and the requests.                            *)
TypeOK ==
  /\ rows \in Commits
  /\ cache \in Commits \cup {None}
  /\ request \in [Requests -> [pc : {"idle", "read", "write"}, job : {None, "load", "assign"},
                              codes : Commits \cup {None}]]
  /\ errors \in 0 .. MaxErrors
  /\ raced \in BOOLEAN /\ lost \in BOOLEAN

(* The copy in Redis never stays behind the rows: codes older than the last *)
(* assignment are there only while an assignment has still to refresh them, *)
(* or after codes read before an assignment were written after it, or after *)
(* the refresh of an assignment failed.                                     *)
StaleNeedsRace ==
  cache \notin {None, rows} => Refreshing # {} \/ raced \/ lost
=============================================================================
