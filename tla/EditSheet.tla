------------------------------ MODULE EditSheet ------------------------------
(***************************************************************************)
(* The sheet in which every page of the console edits a row: it opens on   *)
(* the row as the list on screen has it, sends every field of the form,    *)
(* and closes once the list has been read again.  A row is a function of   *)
(* its fields; a field that is edited flips.                               *)
(***************************************************************************)
EXTENDS Integers

CONSTANTS
  Rows,        \* rows that can be edited
  Fields,      \* fields of the form
  Keys,        \* queries that list the rows: pages, searches, parents
  None,        \* nothing
  MaxInputs,   \* bound on openings, edits, other lists and other administrators
  MaxErrors    \* bound on failed calls

Forms == [Fields -> BOOLEAN]
Tables == [Rows -> Forms]

ConstantsOK ==
  /\ None \notin Rows \cup Forms \cup Tables \cup {"own", "other"}
  /\ MaxInputs \in Nat /\ MaxErrors \in Nat

VARIABLES
  layout,   \* the page: what it shows while it reads, what blocks its sheet
  stored,   \* the rows of the server
  writer,   \* history: who wrote each field last
  cached,   \* the answers to each query
  key,      \* the query on screen
  reading,  \* the fetch of each query
  sheet,    \* the open sheet
  saving,   \* the update under way
  joined,   \* history: queries that may show rows read before an own update
  charged   \* spent bounds

sheetVars == <<layout, stored, writer, cached, key, reading, sheet, saving, joined, charged>>

\* Grids replace their rows by a spinner while they read; trees keep them.
UsersSheet == [keepsRows |-> FALSE]
OAuthClientsSheet == UsersSheet
RolesSheet == [UsersSheet EXCEPT !.keepsRows = TRUE]
MenusSheet == RolesSheet
PermsSheet == RolesSheet
DictsSheet == RolesSheet
TenantsSheet == RolesSheet

Layouts == {UsersSheet, OAuthClientsSheet, RolesSheet, MenusSheet, PermsSheet, DictsSheet,
            TenantsSheet}

NoReading == [st |-> "idle", rows |-> None]
Asked == [NoReading EXCEPT !.st = "sent"]
Closed == [row |-> None, base |-> None, form |-> None, excused |-> FALSE]
NoSaving == [st |-> "none", row |-> None, base |-> None, form |-> None, excused |-> FALSE,
             at |-> None]

Init ==
  /\ layout \in Layouts
  /\ stored = [r \in Rows |-> [f \in Fields |-> FALSE]]
  /\ writer = [r \in Rows |-> [f \in Fields |-> None]]
  /\ cached = [k \in Keys |-> None]
  /\ key \in Keys
  /\ reading = [k \in Keys |-> IF k = key THEN Asked ELSE NoReading]
  /\ sheet = Closed
  /\ saving = NoSaving
  /\ joined = [k \in Keys |-> FALSE]
  /\ charged = [inputs |-> 0, errors |-> 0]

Spend(b, max) == charged[b] < max /\ charged' = [charged EXCEPT ![b] = @ + 1]
HasData(k) == cached[k] # None
Reading(k) == reading[k].st # "idle"

---------------------------------------------------------------------------
(* The list *)

ServeRows(k) ==
  /\ reading[k].st = "sent"
  /\ reading' = [reading EXCEPT ![k] = [st |-> "served", rows |-> stored]]
  /\ joined' = [joined EXCEPT ![k] = FALSE]
  /\ UNCHANGED <<layout, stored, writer, cached, key, sheet, saving, charged>>

ReceiveRows(k) ==
  /\ reading[k].st = "served"
  /\ cached' = [cached EXCEPT ![k] = reading[k].rows]
  /\ reading' = [reading EXCEPT ![k] = NoReading]
  /\ UNCHANGED <<layout, stored, writer, key, sheet, saving, joined, charged>>

FailRows(k) ==
  /\ Spend("errors", MaxErrors)
  /\ Reading(k)
  /\ reading' = [reading EXCEPT ![k] = NoReading]
  /\ UNCHANGED <<layout, stored, writer, cached, key, sheet, saving, joined>>

\* Another page, search or parent is read again, though it may be cached; a
\* fetch of it that is still under way is joined.
ChangeKey(k) ==
  /\ Spend("inputs", MaxInputs)
  /\ sheet.row = None
  /\ k # key
  /\ key' = k
  /\ reading' = IF Reading(k) THEN reading ELSE [reading EXCEPT ![k] = Asked]
  /\ UNCHANGED <<layout, stored, writer, cached, sheet, saving, joined>>

---------------------------------------------------------------------------
(* The sheet *)

\* Rows of the last key stay until this one has an answer (keepPreviousData).
OnScreen ==
  {k \in Keys : /\ HasData(k)
                /\ IF layout.keepsRows THEN k = key \/ ~HasData(key) ELSE k = key /\ ~Reading(k)}

\* openEdit: the form starts from the row on screen.
OpenEdit(k, r) ==
  /\ Spend("inputs", MaxInputs)
  /\ sheet.row = None
  /\ k \in OnScreen
  /\ sheet' = [row |-> r, base |-> cached[k][r], form |-> cached[k][r],
               excused |-> joined[k] \/ Reading(key)]
  /\ UNCHANGED <<layout, stored, writer, cached, key, reading, saving, joined>>

Edit(f) ==
  /\ Spend("inputs", MaxInputs)
  /\ sheet.row # None
  /\ sheet' = [sheet EXCEPT !.form[f] = ~@]
  /\ UNCHANGED <<layout, stored, writer, cached, key, reading, saving, joined>>

\* Cancel waits for a pending save; Escape and the backdrop do not.
CloseSheet ==
  /\ sheet.row # None
  /\ sheet' = Closed
  /\ UNCHANGED <<layout, stored, writer, cached, key, reading, saving, joined, charged>>

Sent == [NoSaving EXCEPT !.st = "sent", !.row = sheet.row, !.base = sheet.base,
                         !.form = sheet.form, !.excused = sheet.excused]

\* The button is disabled while a save is pending, its second read included.
Submit ==
  /\ sheet.row # None
  /\ saving.st = "none"
  /\ saving' = Sent
  /\ UNCHANGED <<layout, stored, writer, cached, key, reading, sheet, joined, charged>>

\* The server writes every field it is sent.
Written(r, form, who) ==
  /\ stored' = [stored EXCEPT ![r] = form]
  /\ writer' = [writer EXCEPT ![r] =
       [f \in Fields |-> IF form[f] # stored[r][f] THEN who ELSE writer[r][f]]]

ServeSave ==
  /\ saving.st = "sent"
  /\ Written(saving.row, saving.form, "own")
  /\ saving' = [NoSaving EXCEPT !.st = "served", !.row = saving.row]
  /\ UNCHANGED <<layout, cached, key, reading, sheet, joined, charged>>

\* onSuccess: the query on screen is read again, or, without data yet, joins
\* its first fetch; others are only marked.  What they bring may be older.
SaveSucceeds ==
  LET again(k) == k = key /\ (HasData(k) \/ ~Reading(k)) IN
  /\ saving.st = "served"
  /\ saving' = [NoSaving EXCEPT !.st = "settling", !.at = key]
  /\ reading' = [k \in Keys |-> IF again(k) THEN Asked ELSE reading[k]]
  /\ joined' = [k \in Keys |-> joined[k] \/ (reading[k].st = "served" /\ ~again(k))]
  /\ UNCHANGED <<layout, stored, writer, cached, key, sheet, charged>>

\* Mutant of SaveSettles: a sheet opened meanwhile stays open.
SaveSettlesOpen ==
  /\ saving.st = "settling"
  /\ ~Reading(saving.at)
  /\ saving' = NoSaving
  /\ UNCHANGED <<layout, stored, writer, cached, key, reading, sheet, joined, charged>>

\* setSheet(DEFAULT_SHEET_STATE): whichever sheet is open now is closed.
SaveSettles ==
  /\ saving.st = "settling"
  /\ ~Reading(saving.at)
  /\ saving' = NoSaving
  /\ sheet' = Closed
  /\ UNCHANGED <<layout, stored, writer, cached, key, reading, joined, charged>>

\* The sheet stays open with its form.
SaveFails ==
  /\ Spend("errors", MaxErrors)
  /\ saving.st \in {"sent", "served"}
  /\ saving' = NoSaving
  /\ UNCHANGED <<layout, stored, writer, cached, key, reading, sheet, joined>>

OtherSaves(r, f) ==
  /\ Spend("inputs", MaxInputs)
  /\ Written(r, [stored[r] EXCEPT ![f] = ~@], "other")
  /\ UNCHANGED <<layout, cached, key, reading, sheet, saving, joined>>

---------------------------------------------------------------------------
Next ==
  \/ \E k \in Keys :
       \/ ServeRows(k) \/ ReceiveRows(k) \/ FailRows(k) \/ ChangeKey(k)
       \/ \E r \in Rows : OpenEdit(k, r)
  \/ \E f \in Fields : Edit(f) \/ \E r \in Rows : OtherSaves(r, f)
  \/ CloseSheet \/ Submit \/ ServeSave \/ SaveSucceeds \/ SaveSettles \/ SaveFails

Spec == Init /\ [][Next]_sheetVars

---------------------------------------------------------------------------
FormOrNone == Forms \cup {None}
RowOrNone == Rows \cup {None}

(* Types of the rows, the queries, the sheet and the update.                *)
TypeOK ==
  /\ layout \in Layouts
  /\ stored \in Tables
  /\ writer \in [Rows -> [Fields -> {None, "own", "other"}]]
  /\ cached \in [Keys -> Tables \cup {None}]
  /\ key \in Keys
  /\ reading \in [Keys -> [st : {"idle", "sent", "served"}, rows : Tables \cup {None}]]
  /\ sheet \in [row : RowOrNone, base : FormOrNone, form : FormOrNone, excused : BOOLEAN]
  /\ saving \in [st : {"none", "sent", "served", "settling"}, row : RowOrNone,
                  base : FormOrNone, form : FormOrNone, excused : BOOLEAN,
                  at : Keys \cup {None}]
  /\ joined \in [Keys -> BOOLEAN]
  /\ charged \in [inputs : 0 .. MaxInputs, errors : 0 .. MaxErrors]

(* A save never undoes an earlier edit of the same administrator in a field *)
(* left alone, although every save sends every field: unless a call failed, *)
(* or the sheet was opened over rows that were being read again, or from a  *)
(* list whose fetch was already read when the earlier save was answered.    *)
OwnEditsKept ==
  saving.st = "sent" /\ ~saving.excused /\ charged.errors = 0 =>
    \A f \in Fields :
      saving.form[f] = saving.base[f] /\ writer[saving.row][f] = "own" =>
        saving.form[f] = stored[saving.row][f]
=============================================================================
