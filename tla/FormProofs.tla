------------------------------ MODULE FormProofs ------------------------------
(***************************************************************************)
(* Proofs about the forms of the console, for any rows, fields, texts and  *)
(* bounds: what is typed stays, and a save does what the page showed.      *)
(***************************************************************************)
EXTENDS Integers, TLAPS

CONSTANTS
  None, SheetRows, SheetFields, SheetKeys, MaxSheetInputs, MaxSheetErrors, MaxEntityInputs,
  MessageTexts, MaxMessageInputs, MaxMessageErrors, ProfileFields, Avatar, Values,
  ProfileCalls, MaxProfileInputs, MaxProfileErrors, Memberships, OwnerOf, MaxSigninInputs,
  Contacts, Odd, OddOf, Cooldown, MaxCodeInputs

VARIABLES
  layout, stored, writer, cached, key, reading, sheet, saving, joined, charged, kind, mode,
  row, form, touched, before, edits, outcome, values, verdict, saved, listed, dialogs,
  typed, fresh, pending, closedBy, budget, account, author, copy, fills, header, profile,
  settings, updates, outrun, spending, demanded, loaded, active, proofs, credentials,
  slider, checks, queries, latest, offered, open, picked, signin, session, confirmed,
  lapsed, baffled, rejected, crossed, steps, purpose, asks, aware, registered, remembered,
  live, cooling, shows, contact, code, puzzle, proving, sending, newest, submit, resend,
  told, gone, spoilt, excused, puzzled, vain, count

Sheet == INSTANCE EditSheet WITH
  Rows <- SheetRows, Fields <- SheetFields, Keys <- SheetKeys, MaxInputs <- MaxSheetInputs,
  MaxErrors <- MaxSheetErrors
Entity == INSTANCE EntityForm WITH
  MaxInputs <- MaxEntityInputs
Rule == INSTANCE RuleForm
Messages == INSTANCE NotificationDialogs WITH
  MaxInputs <- MaxMessageInputs, MaxErrors <- MaxMessageErrors, Texts <- MessageTexts
Profile == INSTANCE ProfileForm WITH
  Fields <- ProfileFields, Calls <- ProfileCalls, MaxInputs <- MaxProfileInputs,
  MaxErrors <- MaxProfileErrors
Signin == INSTANCE SigninPage WITH
  MaxInputs <- MaxSigninInputs
Code == INSTANCE CodeForm WITH
  MaxInputs <- MaxCodeInputs

---------------------------------------------------------------------------
(* EditSheet: the sheet in which every page edits a row *)

Readings == [st : {"idle", "sent", "served"}, rows : Sheet!Tables \cup {None}]
SheetType ==
  [row : Sheet!RowOrNone, base : Sheet!FormOrNone, form : Sheet!FormOrNone, excused : BOOLEAN]
SavingType ==
  [st : {"none", "sent", "served", "settling"}, row : Sheet!RowOrNone, base : Sheet!FormOrNone,
   form : Sheet!FormOrNone, excused : BOOLEAN, at : SheetKeys \cup {None}]

\* A form agrees with the server wherever this administrator wrote last.
SheetKept(r, draft) ==
  \A f \in SheetFields : writer[r][f] = "own" => draft[f] = stored[r][f]
Fresh(table) == \A r \in SheetRows : SheetKept(r, table[r])

\* Who edits or saves a row has its form.
Complete ==
  /\ sheet.row # None => sheet.base \in Sheet!Forms /\ sheet.form \in Sheet!Forms
  /\ saving.st = "sent" =>
       saving.row \in SheetRows /\ saving.base \in Sheet!Forms /\ saving.form \in Sheet!Forms
  /\ \A k \in SheetKeys : reading[k].st = "served" => reading[k].rows \in Sheet!Tables

\* While no own save waits for its answer, what was read is as fresh as the own
\* edits, unless it was read before one; and so are the rows on screen.
ReadFresh ==
  \A k \in SheetKeys :
    saving.st # "served" /\ reading[k].st = "served" /\ ~joined[k] => Fresh(reading[k].rows)
ScreenFresh ==
  saving.st # "served" /\ ~Sheet!Reading(key) /\ ~joined[key] => Fresh(cached[key])

\* The list on screen is there or under way.
Looked == Sheet!HasData(key) \/ Sheet!Reading(key)

\* A sheet that could be saved was opened on fresh rows, and so was the one saved.
SheetFresh ==
  sheet.row # None /\ ~sheet.excused /\ saving.st \notin {"served", "settling"} =>
    SheetKept(sheet.row, sheet.base)
SaveFresh == saving.st = "sent" /\ ~saving.excused => SheetKept(saving.row, saving.base)

SheetInv ==
  /\ Sheet!TypeOK
  /\ Complete
  /\ charged.errors = 0 => ReadFresh /\ ScreenFresh /\ Looked /\ SheetFresh /\ SaveFresh

LEMMA SheetTypes ==
  ASSUME Sheet!ConstantsOK
  PROVE  /\ Sheet!NoReading \in Readings /\ Sheet!Asked \in Readings
         /\ Sheet!Closed \in SheetType /\ Sheet!NoSaving \in SavingType
         /\ Sheet!Closed.row = None /\ Sheet!NoSaving.st = "none"
         /\ Sheet!NoReading.st = "idle" /\ Sheet!Asked.st = "sent"
BY DEF Sheet!NoReading, Sheet!Asked, Sheet!Closed, Sheet!NoSaving, Readings, SheetType,
       SavingType, Sheet!RowOrNone, Sheet!FormOrNone

LEMMA SheetInit == ASSUME Sheet!ConstantsOK, Sheet!Init PROVE SheetInv
<1>1. /\ \A k \in SheetKeys : reading[k] \in Readings /\ reading[k].st \in {"idle", "sent"}
      /\ reading \in [SheetKeys -> Readings] /\ reading[key].st = "sent"
  BY SheetTypes DEF Sheet!Init
<1>2. stored \in Sheet!Tables
  BY DEF Sheet!Init, Sheet!Tables, Sheet!Forms
<1>3. Sheet!TypeOK
  <2>1. writer \in [SheetRows -> [SheetFields -> {None, "own", "other"}]]
    BY DEF Sheet!Init
  <2>2. charged \in [inputs : 0 .. MaxSheetInputs, errors : 0 .. MaxSheetErrors]
    BY DEF Sheet!Init, Sheet!ConstantsOK
  <2>3. QED
    BY <1>1, <1>2, <2>1, <2>2, SheetTypes
       DEF Sheet!Init, Sheet!TypeOK, Readings, SheetType, SavingType
<1>4. Complete
  BY <1>1, SheetTypes DEF Sheet!Init, Complete
<1>5. ReadFresh /\ ScreenFresh /\ Looked /\ SheetFresh /\ SaveFresh
  BY <1>1, SheetTypes
     DEF Sheet!Init, ReadFresh, ScreenFresh, Looked, SheetFresh, SaveFresh, Sheet!Reading
<1>6. QED
  BY <1>3, <1>4, <1>5 DEF SheetInv

\* A spent bound.
LEMMA SheetSpends ==
  ASSUME Sheet!ConstantsOK, Sheet!TypeOK
  PROVE  /\ Sheet!Spend("inputs", MaxSheetInputs) =>
              /\ charged' \in [inputs : 0 .. MaxSheetInputs, errors : 0 .. MaxSheetErrors]
              /\ charged'.errors = charged.errors
         /\ Sheet!Spend("errors", MaxSheetErrors) =>
              /\ charged' \in [inputs : 0 .. MaxSheetInputs, errors : 0 .. MaxSheetErrors]
              /\ charged'.errors # 0
BY DEF Sheet!Spend, Sheet!TypeOK, Sheet!ConstantsOK

---------------------------------------------------------------------------
(* The list *)

LEMMA ServeRowsStep ==
  ASSUME Sheet!ConstantsOK, SheetInv, NEW k \in SheetKeys, Sheet!ServeRows(k) PROVE SheetInv'
<1>1. /\ reading \in [SheetKeys -> Readings] /\ stored \in Sheet!Tables
      /\ joined \in [SheetKeys -> BOOLEAN]
  BY DEF SheetInv, Sheet!TypeOK, Readings
<1>2. /\ reading'[k].st = "served" /\ reading'[k].rows = stored /\ reading[k].st = "sent"
      /\ \A l \in SheetKeys : l # k => reading'[l] = reading[l] /\ joined'[l] = joined[l]
      /\ reading' \in [SheetKeys -> Readings] /\ joined' \in [SheetKeys -> BOOLEAN]
  BY <1>1 DEF Sheet!ServeRows, Readings
<1>3. UNCHANGED <<layout, stored, writer, cached, key, sheet, saving, charged>>
  BY DEF Sheet!ServeRows
<1>4. Sheet!TypeOK' /\ Complete'
  BY <1>1, <1>2, <1>3 DEF SheetInv, Sheet!TypeOK, Readings, Complete, Sheet!RowOrNone,
     Sheet!FormOrNone
<1>5. ASSUME charged.errors = 0
      PROVE  ReadFresh' /\ ScreenFresh' /\ Looked' /\ SheetFresh' /\ SaveFresh'
  <2>1. ReadFresh'
    BY <1>2, <1>3, <1>5 DEF SheetInv, ReadFresh, Fresh, SheetKept
  <2>2. ScreenFresh' /\ Looked'
    BY <1>2, <1>3, <1>5
       DEF SheetInv, Sheet!TypeOK, ScreenFresh, Looked, Sheet!HasData, Sheet!Reading, Fresh, SheetKept
  <2>3. SheetFresh' /\ SaveFresh'
    BY <1>3, <1>5 DEF SheetInv, SheetFresh, SaveFresh, SheetKept
  <2>4. QED
    BY <2>1, <2>2, <2>3
<1>6. QED
  BY <1>3, <1>4, <1>5 DEF SheetInv

LEMMA ReceiveRowsStep ==
  ASSUME Sheet!ConstantsOK, SheetInv, NEW k \in SheetKeys, Sheet!ReceiveRows(k) PROVE SheetInv'
<1>1. /\ reading \in [SheetKeys -> Readings]
      /\ cached \in [SheetKeys -> Sheet!Tables \cup {None}]
      /\ reading[k].st = "served" /\ reading[k].rows \in Sheet!Tables
  BY DEF SheetInv, Sheet!TypeOK, Readings, Complete, Sheet!ReceiveRows
<1>2. /\ reading'[k].st = "idle" /\ cached'[k] = reading[k].rows
      /\ \A l \in SheetKeys : l # k => reading'[l] = reading[l] /\ cached'[l] = cached[l]
      /\ reading' \in [SheetKeys -> Readings]
      /\ cached' \in [SheetKeys -> Sheet!Tables \cup {None}]
  BY <1>1, SheetTypes DEF Sheet!ReceiveRows
<1>3. UNCHANGED <<layout, stored, writer, key, sheet, saving, joined, charged>>
  BY DEF Sheet!ReceiveRows
<1>4. Sheet!TypeOK' /\ Complete'
  BY <1>1, <1>2, <1>3
     DEF SheetInv, Sheet!TypeOK, Readings, Complete, Sheet!RowOrNone, Sheet!FormOrNone
<1>5. ASSUME charged.errors = 0
      PROVE  ReadFresh' /\ ScreenFresh' /\ Looked' /\ SheetFresh' /\ SaveFresh'
  <2>1. ReadFresh'
    BY <1>2, <1>3, <1>5 DEF SheetInv, ReadFresh, Fresh, SheetKept
  <2>2. key \in SheetKeys /\ saving' = saving /\ key' = key /\ joined' = joined
    BY <1>3 DEF SheetInv, Sheet!TypeOK
  <2>3. ScreenFresh'
    <3>1. CASE key = k
      <4>1. saving.st # "served" /\ ~joined[k] => Fresh(cached'[k])
        BY <1>1, <1>2, <1>5 DEF SheetInv, ReadFresh
      <4>2. QED
        BY <1>3, <2>2, <3>1, <4>1 DEF ScreenFresh, Fresh, SheetKept
    <3>2. CASE key # k
      BY <1>2, <1>3, <1>5, <2>2, <3>2 DEF SheetInv, ScreenFresh, Sheet!Reading, Fresh,
         SheetKept
    <3>3. QED
      BY <3>1, <3>2
  <2>4. Looked'
    <3>1. None \notin Sheet!Tables
      BY DEF Sheet!ConstantsOK
    <3>2. QED
      BY <1>1, <1>2, <1>5, <2>2, <3>1 DEF SheetInv, Looked, Sheet!HasData, Sheet!Reading
  <2>5. SheetFresh' /\ SaveFresh'
    BY <1>3, <1>5 DEF SheetInv, SheetFresh, SaveFresh, SheetKept
  <2>6. QED
    BY <2>1, <2>3, <2>4, <2>5
<1>6. QED
  BY <1>3, <1>4, <1>5 DEF SheetInv

\* After a failed call nothing is promised.
LEMMA FailRowsStep ==
  ASSUME Sheet!ConstantsOK, SheetInv, NEW k \in SheetKeys, Sheet!FailRows(k) PROVE SheetInv'
<1>1. /\ reading' \in [SheetKeys -> Readings]
      /\ \A l \in SheetKeys : reading'[l] \in {reading[l], Sheet!NoReading}
  BY SheetTypes DEF SheetInv, Sheet!TypeOK, Readings, Sheet!FailRows
<1>2. UNCHANGED <<layout, stored, writer, cached, key, sheet, saving, joined>>
  BY DEF Sheet!FailRows
<1>3. /\ charged' \in [inputs : 0 .. MaxSheetInputs, errors : 0 .. MaxSheetErrors]
      /\ charged'.errors # 0
  BY SheetSpends DEF SheetInv, Sheet!FailRows
<1>4. Sheet!TypeOK' /\ Complete'
  BY <1>1, <1>2, <1>3, SheetTypes
     DEF SheetInv, Sheet!TypeOK, Readings, Complete, Sheet!RowOrNone, Sheet!FormOrNone
<1>5. QED
  BY <1>3, <1>4 DEF SheetInv

LEMMA ChangeKeyStep ==
  ASSUME Sheet!ConstantsOK, SheetInv, NEW k \in SheetKeys, Sheet!ChangeKey(k) PROVE SheetInv'
<1>1. /\ reading' \in [SheetKeys -> Readings]
      /\ reading'[k].st # "idle" /\ key' = k
      /\ \A l \in SheetKeys : reading'[l] = reading[l] \/ reading'[l].st = "sent"
  BY SheetTypes DEF SheetInv, Sheet!TypeOK, Readings, Sheet!ChangeKey, Sheet!Reading
<1>2. UNCHANGED <<layout, stored, writer, cached, sheet, saving, joined>>
  BY DEF Sheet!ChangeKey
<1>3. /\ charged' \in [inputs : 0 .. MaxSheetInputs, errors : 0 .. MaxSheetErrors]
      /\ charged'.errors = charged.errors
  BY SheetSpends DEF SheetInv, Sheet!ChangeKey
<1>4. Sheet!TypeOK' /\ Complete'
  BY <1>1, <1>2, <1>3
     DEF SheetInv, Sheet!TypeOK, Readings, Complete, Sheet!RowOrNone, Sheet!FormOrNone
<1>5. ASSUME charged.errors = 0
      PROVE  ReadFresh' /\ ScreenFresh' /\ Looked' /\ SheetFresh' /\ SaveFresh'
  <2>1. ReadFresh'
    BY <1>1, <1>2, <1>5 DEF SheetInv, ReadFresh, Fresh, SheetKept
  <2>2. ScreenFresh' /\ Looked'
    BY <1>1, <1>2, <1>5 DEF ScreenFresh, Looked, Sheet!Reading
  <2>3. SheetFresh' /\ SaveFresh'
    BY <1>2, <1>5 DEF SheetInv, SheetFresh, SaveFresh, SheetKept
  <2>4. QED
    BY <2>1, <2>2, <2>3
<1>6. QED
  BY <1>3, <1>4, <1>5 DEF SheetInv

---------------------------------------------------------------------------
(* The sheet *)

\* Steps in which only the sheet and the bounds change.
LEMMA SheetOnlyStep ==
  ASSUME Sheet!ConstantsOK, SheetInv, sheet' \in SheetType,
         charged' \in [inputs : 0 .. MaxSheetInputs, errors : 0 .. MaxSheetErrors],
         charged'.errors = charged.errors,
         UNCHANGED <<layout, stored, writer, cached, key, reading, saving, joined>>,
         sheet'.row # None => sheet'.base \in Sheet!Forms /\ sheet'.form \in Sheet!Forms,
         charged.errors = 0 => SheetFresh'
  PROVE  SheetInv'
<1>1. Sheet!TypeOK'
  BY DEF SheetInv, Sheet!TypeOK, SheetType, Sheet!RowOrNone, Sheet!FormOrNone
<1>2. Complete'
  BY DEF SheetInv, Complete
<1>3. ASSUME charged.errors = 0 PROVE ReadFresh' /\ ScreenFresh' /\ Looked' /\ SaveFresh'
  BY <1>3 DEF SheetInv, ReadFresh, ScreenFresh, Looked, SaveFresh, Sheet!HasData,
     Sheet!Reading,
              Fresh, SheetKept
<1>4. QED
  BY <1>1, <1>2, <1>3 DEF SheetInv

LEMMA OpenEditStep ==
  ASSUME Sheet!ConstantsOK, SheetInv, NEW k \in SheetKeys, NEW r \in SheetRows,
         Sheet!OpenEdit(k, r)
  PROVE  SheetInv'
<1>1. /\ k \in Sheet!OnScreen /\ cached[k] \in Sheet!Tables
      /\ joined[k] \in BOOLEAN /\ Sheet!Reading(key) \in BOOLEAN
  BY DEF SheetInv, Sheet!TypeOK, Sheet!OpenEdit, Sheet!OnScreen, Sheet!HasData, Sheet!Reading
<1>2. cached[k][r] \in Sheet!Forms
  BY <1>1 DEF Sheet!Tables
<1>3. /\ sheet' = [row |-> r, base |-> cached[k][r], form |-> cached[k][r],
                   excused |-> joined[k] \/ Sheet!Reading(key)]
      /\ UNCHANGED <<layout, stored, writer, cached, key, reading, saving, joined>>
  BY DEF Sheet!OpenEdit
<1>4. /\ charged' \in [inputs : 0 .. MaxSheetInputs, errors : 0 .. MaxSheetErrors]
      /\ charged'.errors = charged.errors
  BY SheetSpends DEF SheetInv, Sheet!OpenEdit
<1>5. sheet' \in SheetType
  BY <1>1, <1>2, <1>3 DEF SheetType, Sheet!RowOrNone, Sheet!FormOrNone
<1>6. ASSUME charged.errors = 0 PROVE SheetFresh'
  <2>1. CASE Sheet!Reading(key) \/ joined[k] \/ saving.st = "served"
    BY <2>1, <1>3 DEF SheetFresh
  <2>2. CASE ~Sheet!Reading(key) /\ ~joined[k] /\ saving.st # "served"
    <3>1. k = key
      BY <1>1, <1>6, <2>2 DEF SheetInv, Looked, Sheet!OnScreen
    <3>2. Fresh(cached[k])
      BY <1>6, <2>2, <3>1 DEF SheetInv, ScreenFresh
    <3>3. QED
      BY <1>3, <3>2 DEF SheetFresh, Fresh, SheetKept
  <2>3. QED
    BY <2>1, <2>2
<1>7. QED
  BY <1>2, <1>3, <1>4, <1>5, <1>6, SheetOnlyStep

LEMMA EditStep ==
  ASSUME Sheet!ConstantsOK, SheetInv, NEW f \in SheetFields, Sheet!Edit(f) PROVE SheetInv'
<1>1. sheet \in SheetType /\ sheet.row # None /\ sheet.base \in Sheet!Forms /\ sheet.form \in Sheet!Forms
  BY DEF SheetInv, Sheet!TypeOK, Complete, SheetType, Sheet!Edit
<1>2. DEFINE flipped == [sheet.form EXCEPT ![f] = ~sheet.form[f]]
<1>3. sheet' = [sheet EXCEPT !.form = flipped]
  BY DEF Sheet!Edit
<1>4. flipped \in Sheet!Forms
  BY <1>1 DEF Sheet!Forms
<1>5. /\ sheet' \in SheetType /\ sheet'.row = sheet.row /\ sheet'.base = sheet.base
      /\ sheet'.form \in Sheet!Forms /\ sheet'.excused = sheet.excused
  BY <1>1, <1>3, <1>4 DEF SheetType, Sheet!FormOrNone
<1>6. /\ charged' \in [inputs : 0 .. MaxSheetInputs, errors : 0 .. MaxSheetErrors]
      /\ charged'.errors = charged.errors
      /\ UNCHANGED <<layout, stored, writer, cached, key, reading, saving, joined>>
  BY SheetSpends DEF SheetInv, Sheet!Edit
<1>7. charged.errors = 0 => SheetFresh'
  BY <1>5, <1>6 DEF SheetInv, SheetFresh, SheetKept
<1>8. QED
  BY <1>1, <1>5, <1>6, <1>7, SheetOnlyStep

LEMMA CloseSheetStep ==
  ASSUME Sheet!ConstantsOK, SheetInv, Sheet!CloseSheet PROVE SheetInv'
<1>1. sheet' = Sheet!Closed /\ UNCHANGED <<layout, stored, writer, cached, key, reading, saving, joined, charged>>
  BY DEF Sheet!CloseSheet
<1>2. charged' \in [inputs : 0 .. MaxSheetInputs, errors : 0 .. MaxSheetErrors]
  BY <1>1 DEF SheetInv, Sheet!TypeOK
<1>3. SheetFresh'
  BY <1>1, SheetTypes DEF SheetFresh
<1>4. QED
  BY <1>1, <1>2, <1>3, SheetTypes, SheetOnlyStep

---------------------------------------------------------------------------
(* The save *)

LEMMA SheetSubmitStep ==
  ASSUME Sheet!ConstantsOK, SheetInv, Sheet!Submit PROVE SheetInv'
<1>1. /\ sheet \in SheetType /\ sheet.row \in SheetRows
      /\ sheet.base \in Sheet!Forms /\ sheet.form \in Sheet!Forms
  BY DEF SheetInv, Sheet!TypeOK, SheetType, Complete, Sheet!Submit, Sheet!RowOrNone
<1>2. /\ saving' \in SavingType /\ saving'.st = "sent" /\ saving'.row = sheet.row
      /\ saving'.base = sheet.base /\ saving'.form = sheet.form
      /\ saving'.excused = sheet.excused /\ saving.st = "none"
  BY <1>1 DEF Sheet!Submit, Sheet!Sent, Sheet!NoSaving, SavingType, SheetType,
     Sheet!RowOrNone,
              Sheet!FormOrNone
<1>3. UNCHANGED <<layout, stored, writer, cached, key, reading, sheet, joined, charged>>
  BY DEF Sheet!Submit
<1>4. Sheet!TypeOK'
  BY <1>2, <1>3 DEF SheetInv, Sheet!TypeOK, SavingType, Sheet!RowOrNone, Sheet!FormOrNone
<1>5. Complete'
  BY <1>1, <1>2, <1>3 DEF SheetInv, Complete
<1>6. ASSUME charged.errors = 0
      PROVE  ReadFresh' /\ ScreenFresh' /\ Looked' /\ SheetFresh' /\ SaveFresh'
  <2>1. ReadFresh' /\ ScreenFresh' /\ Looked'
    BY <1>2, <1>3, <1>6
       DEF SheetInv, ReadFresh, ScreenFresh, Looked, Sheet!HasData, Sheet!Reading, Fresh, SheetKept
  <2>2. SheetFresh' /\ SaveFresh'
    BY <1>1, <1>2, <1>3, <1>6, None \notin SheetRows
       DEF SheetInv, SheetFresh, SaveFresh, SheetKept, Sheet!ConstantsOK
  <2>3. QED
    BY <2>1, <2>2
<1>7. QED
  BY <1>3, <1>4, <1>5, <1>6 DEF SheetInv

\* What is sent replaces the row; who wrote a field that changed is remembered.
LEMMA WrittenKeeps ==
  ASSUME Sheet!TypeOK, NEW r \in SheetRows, NEW draft \in Sheet!Forms,
         NEW who \in {"own", "other"}, Sheet!Written(r, draft, who)
  PROVE  /\ stored' \in Sheet!Tables
         /\ writer' \in [SheetRows -> [SheetFields -> {None, "own", "other"}]]
         /\ stored'[r] = draft /\ \A q \in SheetRows : q # r => stored'[q] = stored[q]
         /\ \A f \in SheetFields :
              writer'[r][f] = (IF draft[f] # stored[r][f] THEN who ELSE writer[r][f])
         /\ \A q \in SheetRows : q # r => writer'[q] = writer[q]
BY DEF Sheet!TypeOK, Sheet!Tables, Sheet!Forms, Sheet!Written

LEMMA OtherSavesStep ==
  ASSUME Sheet!ConstantsOK, SheetInv, NEW r \in SheetRows, NEW f \in SheetFields,
         Sheet!OtherSaves(r, f)
  PROVE  SheetInv'
<1> DEFINE draft == [stored[r] EXCEPT ![f] = ~stored[r][f]]
<1>1. draft \in Sheet!Forms /\ Sheet!Written(r, draft, "other")
  BY DEF SheetInv, Sheet!TypeOK, Sheet!Tables, Sheet!Forms, Sheet!OtherSaves
<1>2. UNCHANGED <<layout, cached, key, reading, sheet, saving, joined>>
  BY DEF Sheet!OtherSaves
<1>3. /\ charged' \in [inputs : 0 .. MaxSheetInputs, errors : 0 .. MaxSheetErrors]
      /\ charged'.errors = charged.errors
  BY SheetSpends DEF SheetInv, Sheet!OtherSaves
<1> HIDE DEF draft
<1>4. /\ stored' \in Sheet!Tables
      /\ writer' \in [SheetRows -> [SheetFields -> {None, "own", "other"}]]
      /\ stored'[r] = draft /\ \A q \in SheetRows : q # r => stored'[q] = stored[q]
      /\ \A g \in SheetFields :
           writer'[r][g] = (IF draft[g] # stored[r][g] THEN "other" ELSE writer[r][g])
      /\ \A q \in SheetRows : q # r => writer'[q] = writer[q]
  BY <1>1, WrittenKeeps DEF SheetInv
<1>5. \A old : \A q \in SheetRows : SheetKept(q, old) => SheetKept(q, old)'
  BY <1>4 DEF SheetKept
<1>6. Sheet!TypeOK' /\ Complete'
  BY <1>2, <1>3, <1>4 DEF SheetInv, Sheet!TypeOK, Complete, Sheet!RowOrNone, Sheet!FormOrNone
<1>7. ASSUME charged.errors = 0
      PROVE  ReadFresh' /\ ScreenFresh' /\ Looked' /\ SheetFresh' /\ SaveFresh'
  <2>1. ReadFresh' /\ ScreenFresh' /\ Looked'
    BY <1>2, <1>5, <1>7
       DEF SheetInv, ReadFresh, ScreenFresh, Looked, Sheet!HasData, Sheet!Reading, Fresh
  <2>2. sheet.row \in SheetRows \/ sheet.row = None
    BY DEF SheetInv, Sheet!TypeOK, Sheet!RowOrNone
  <2>3. saving.st = "sent" => saving.row \in SheetRows
    BY DEF SheetInv, Complete
  <2>4. SheetFresh' /\ SaveFresh'
    BY <1>2, <1>5, <1>7, <2>2, <2>3 DEF SheetInv, SheetFresh, SaveFresh
  <2>5. QED
    BY <2>1, <2>4
<1>8. QED
  BY <1>3, <1>6, <1>7 DEF SheetInv

\* The server writes what is sent: until the answer is here nothing is promised.
LEMMA ServeSaveStep ==
  ASSUME Sheet!ConstantsOK, SheetInv, Sheet!ServeSave PROVE SheetInv'
<1>1. /\ saving.row \in SheetRows /\ saving.form \in Sheet!Forms
      /\ Sheet!Written(saving.row, saving.form, "own")
  BY DEF SheetInv, Complete, Sheet!ServeSave
<1>2. /\ stored' \in Sheet!Tables
      /\ writer' \in [SheetRows -> [SheetFields -> {None, "own", "other"}]]
  BY <1>1, WrittenKeeps DEF SheetInv
<1>3. saving' \in SavingType /\ saving'.st = "served"
  BY <1>1, SheetTypes DEF Sheet!ServeSave, SavingType, Sheet!RowOrNone
<1>4. UNCHANGED <<layout, cached, key, reading, sheet, joined, charged>>
  BY DEF Sheet!ServeSave
<1>5. Sheet!TypeOK' /\ Complete'
  BY <1>2, <1>3, <1>4
     DEF SheetInv, Sheet!TypeOK, Complete, SavingType, Sheet!RowOrNone, Sheet!FormOrNone
<1>6. charged.errors = 0 => ReadFresh' /\ ScreenFresh' /\ Looked' /\ SheetFresh' /\ SaveFresh'
  BY <1>3, <1>4
     DEF SheetInv, ReadFresh, ScreenFresh, Looked, SheetFresh, SaveFresh, Sheet!HasData,
         Sheet!Reading
<1>7. QED
  BY <1>4, <1>5, <1>6 DEF SheetInv

\* What was read before the answer is asked again or marked.
LEMMA SaveSucceedsStep ==
  ASSUME Sheet!ConstantsOK, SheetInv, Sheet!SaveSucceeds PROVE SheetInv'
<1> DEFINE again(k) == k = key /\ (Sheet!HasData(k) \/ ~Sheet!Reading(k))
<1>1. /\ reading \in [SheetKeys -> Readings] /\ joined \in [SheetKeys -> BOOLEAN]
      /\ key \in SheetKeys
  BY DEF SheetInv, Sheet!TypeOK, Readings
<1>2. /\ reading' = [k \in SheetKeys |-> IF again(k) THEN Sheet!Asked ELSE reading[k]]
      /\ joined' = [k \in SheetKeys |-> joined[k] \/ (reading[k].st = "served" /\ ~again(k))]
      /\ UNCHANGED <<layout, stored, writer, cached, key, sheet, charged>>
  BY DEF Sheet!SaveSucceeds
<1>3. reading' \in [SheetKeys -> Readings] /\ joined' \in [SheetKeys -> BOOLEAN]
  BY <1>1, <1>2, SheetTypes
<1>4. /\ \A k \in SheetKeys : reading'[k].st = "served" => reading'[k] = reading[k] /\ joined'[k]
      /\ reading'[key].st # "idle"
  BY <1>1, <1>2, SheetTypes DEF Sheet!Reading
<1>5. saving' \in SavingType /\ saving'.st = "settling"
  BY <1>1, SheetTypes DEF Sheet!SaveSucceeds, Sheet!NoSaving, SavingType, Sheet!RowOrNone,
     Sheet!FormOrNone
<1>6. Sheet!TypeOK'
  BY <1>2, <1>3, <1>5
     DEF SheetInv, Sheet!TypeOK, Readings, SavingType, Sheet!RowOrNone, Sheet!FormOrNone
<1>7. Complete'
  BY <1>2, <1>4, <1>5 DEF SheetInv, Complete
<1>8. ReadFresh' /\ ScreenFresh' /\ Looked' /\ SheetFresh' /\ SaveFresh'
  BY <1>2, <1>4, <1>5 DEF ReadFresh, ScreenFresh, Looked, SheetFresh, SaveFresh, Sheet!Reading
<1>9. QED
  BY <1>2, <1>6, <1>7, <1>8 DEF SheetInv

LEMMA SaveSettlesStep ==
  ASSUME Sheet!ConstantsOK, SheetInv, Sheet!SaveSettles PROVE SheetInv'
<1>1. /\ saving' = Sheet!NoSaving /\ sheet' = Sheet!Closed /\ saving.st = "settling"
      /\ UNCHANGED <<layout, stored, writer, cached, key, reading, joined, charged>>
  BY DEF Sheet!SaveSettles
<1>2. Sheet!TypeOK' /\ Complete'
  BY <1>1, SheetTypes
     DEF SheetInv, Sheet!TypeOK, Complete, SavingType, SheetType, Sheet!RowOrNone, Sheet!FormOrNone
<1>3. charged.errors = 0 => ReadFresh' /\ ScreenFresh' /\ Looked' /\ SheetFresh' /\ SaveFresh'
  BY <1>1, SheetTypes
     DEF SheetInv, ReadFresh, ScreenFresh, Looked, SheetFresh, SaveFresh, Sheet!HasData,
         Sheet!Reading, Fresh, SheetKept
<1>4. QED
  BY <1>1, <1>2, <1>3 DEF SheetInv

LEMMA SaveFailsStep ==
  ASSUME Sheet!ConstantsOK, SheetInv, Sheet!SaveFails PROVE SheetInv'
<1>1. /\ saving' = Sheet!NoSaving
      /\ UNCHANGED <<layout, stored, writer, cached, key, reading, sheet, joined>>
  BY DEF Sheet!SaveFails
<1>2. /\ charged' \in [inputs : 0 .. MaxSheetInputs, errors : 0 .. MaxSheetErrors]
      /\ charged'.errors # 0
  BY SheetSpends DEF SheetInv, Sheet!SaveFails
<1>3. Sheet!TypeOK' /\ Complete'
  BY <1>1, <1>2, SheetTypes
     DEF SheetInv, Sheet!TypeOK, Complete, SavingType, Sheet!RowOrNone, Sheet!FormOrNone
<1>4. QED
  BY <1>2, <1>3 DEF SheetInv

---------------------------------------------------------------------------
LEMMA SheetStutter ==
  ASSUME SheetInv, UNCHANGED Sheet!sheetVars PROVE SheetInv'
<1>1. UNCHANGED <<layout, stored, writer, cached, key, reading, sheet, saving, joined, charged>>
  BY DEF Sheet!sheetVars
<1>2. QED
  BY <1>1 DEF SheetInv, Sheet!TypeOK, Complete, ReadFresh, ScreenFresh, Looked, SheetFresh,
              SaveFresh, Sheet!HasData, Sheet!Reading, Fresh, SheetKept, Sheet!RowOrNone,
              Sheet!FormOrNone

LEMMA SheetNext ==
  ASSUME Sheet!ConstantsOK, SheetInv, [Sheet!Next]_(Sheet!sheetVars) PROVE SheetInv'
<1>1. ASSUME NEW k \in SheetKeys,
             Sheet!ServeRows(k) \/ Sheet!ReceiveRows(k) \/ Sheet!FailRows(k) \/ Sheet!ChangeKey(k)
      PROVE  SheetInv'
  BY <1>1, ServeRowsStep, ReceiveRowsStep, FailRowsStep, ChangeKeyStep
<1>2. ASSUME NEW k \in SheetKeys, NEW r \in SheetRows, Sheet!OpenEdit(k, r) PROVE SheetInv'
  BY <1>2, OpenEditStep
<1>3. ASSUME NEW f \in SheetFields, Sheet!Edit(f) PROVE SheetInv'
  BY <1>3, EditStep
<1>4. ASSUME NEW f \in SheetFields, NEW r \in SheetRows, Sheet!OtherSaves(r, f) PROVE SheetInv'
  BY <1>4, OtherSavesStep
<1>5. CASE \/ Sheet!CloseSheet \/ Sheet!Submit \/ Sheet!ServeSave \/ Sheet!SaveSucceeds
           \/ Sheet!SaveSettles \/ Sheet!SaveFails
  BY <1>5, CloseSheetStep, SheetSubmitStep, ServeSaveStep, SaveSucceedsStep, SaveSettlesStep,
     SaveFailsStep
<1>6. QED
  BY <1>1, <1>2, <1>3, <1>4, <1>5, SheetStutter DEF Sheet!Next

\* The sheet keeps its types.
THEOREM SheetTyped == ASSUME Sheet!ConstantsOK PROVE Sheet!Spec => []Sheet!TypeOK
<1>1. SheetInv => Sheet!TypeOK
  BY DEF SheetInv
<1>2. QED
  BY <1>1, SheetInit, SheetNext, PTL DEF Sheet!Spec

\* A save undoes no earlier edit of the same administrator in a field left alone.
THEOREM OwnEditsStay == ASSUME Sheet!ConstantsOK PROVE Sheet!Spec => []Sheet!OwnEditsKept
<1>1. SheetInv => Sheet!OwnEditsKept
  BY DEF SheetInv, Sheet!OwnEditsKept, SaveFresh, SheetKept
<1>2. QED
  BY <1>1, SheetInit, SheetNext, PTL DEF Sheet!Spec

---------------------------------------------------------------------------
(* EntityForm: the forms of the rows of the console *)

Row == [Entity!Fields -> Entity!Tokens]

\* What a save leaves of a row, of the values it was made with.
Stored ==
  LET p == Entity!Param(form) IN
  IF mode = "update"
  THEN [f \in Entity!Fields |-> IF f \in DOMAIN p THEN p[f] ELSE before[f]]
  ELSE Entity!Created(p)

\* The answer is that of the form on the screen.
AnswerMeant ==
  /\ outcome # "saved" => row = before
  /\ outcome \in {"saved", "refused"} => Entity!Errors(form) = {}
  /\ outcome = "saved" => Entity!Accepted(Entity!Param(form)) /\ row = Stored
  /\ outcome = "refused" => ~Entity!Accepted(Entity!Param(form))

\* Only tokens and roots of trees are copied; an update has a row.
ModesMeant ==
  /\ mode = "copy" => kind \in {"perm", "menu"}
  /\ mode = "update" => row \in Row /\ before \in Row
  /\ mode = "create" => before = None

\* What was not typed in an update is as it was read; two fields cannot be typed.
FormMeant ==
  /\ mode = "update" => \A f \in Entity!Fields \ touched :
       \/ form[f] = Entity!FormOf(before)[f]
       \/ kind = "tenant" /\ f = "slug" /\ "name" \in touched
  /\ mode = "update" => \A f \in Entity!Fields \cap {"dict_type", "username"} :
       form[f] = before[f]
  /\ kind = "client" /\ mode = "create" => form["settings"] = "old"

\* A dictionary always has an extension.
ExtGiven ==
  kind = "dict" =>
    /\ mode = "update" => before["ext"] # ""
    /\ outcome = "saved" => row["ext"] # ""

EntityInv ==
  /\ Entity!TypeOK /\ AnswerMeant /\ ModesMeant /\ FormMeant
  /\ ExtGiven

---------------------------------------------------------------------------
(* Fields and requests *)

LEMMA KindFields ==
  /\ kind = "role" => Entity!Fields = {"name", "code", "description", "settings"}
  /\ kind = "perm" =>
       Entity!Fields = {"parent", "name", "code", "resource", "action", "method", "description",
                        "settings"}
  /\ kind = "menu" =>
       Entity!Fields = {"name", "code", "description", "path", "component", "redirect", "icon",
                        "settings"}
  /\ kind = "dict" =>
       Entity!Fields = {"label", "dict_type", "dict_key", "dict_value", "description", "ext",
                        "settings"}
  /\ kind = "tenant" =>
       Entity!Fields = {"name", "slug", "description", "plan_code", "owner_user_id", "logo_url",
                        "expired_at", "settings"}
  /\ kind = "user" =>
       Entity!Fields = {"username", "password", "nickname", "email", "phone", "avatar_url",
                        "bio", "settings"}
  /\ kind = "client" =>
       Entity!Fields = {"name", "description", "client_secret", "redirect_uris",
                        "allowed_scopes", "settings"}
BY DEF Entity!Fields, Entity!Inputs, Entity!RoleInputs, Entity!PermInputs, Entity!MenuInputs,
       Entity!DictInputs, Entity!TenantInputs, Entity!UserInputs, Entity!ClientInputs

\* The inputs of every field are among the tokens.
LEMMA InputTokens ==
  ASSUME kind \in Entity!Kinds, NEW f \in Entity!Fields, NEW value, value \in Entity!Inputs[f]
  PROVE  value \in Entity!Tokens
<1>1. PICK plain : /\ plain = Entity!Plain
                   /\ \A text \in plain : text \in Entity!Tokens
  BY DEF Entity!Plain, Entity!Tokens
<1>2. PICK tokens : tokens = Entity!Tokens /\ \A text \in plain : text \in tokens
  BY <1>1
<1>3. /\ "" \in tokens /\ "old" \in tokens /\ "new" \in tokens /\ "long" \in tokens
      /\ "spaces" \in tokens /\ "odd" \in tokens /\ "taken" \in tokens
  BY <1>2 DEF Entity!Tokens
<1>4. CASE kind = "role"
  <2>1. PICK inputs : inputs = Entity!Inputs
    OBVIOUS
  <2>2. inputs = Entity!RoleInputs
    BY <1>4, <2>1 DEF Entity!Inputs
  <2>3. inputs.name \subseteq tokens
    BY <1>1, <1>2, <1>3, <2>2 DEF Entity!RoleInputs, Entity!Switch
  <2>4. inputs.code \subseteq tokens
    BY <1>1, <1>2, <1>3, <2>2 DEF Entity!RoleInputs, Entity!Switch
  <2>5. inputs.description \subseteq tokens
    BY <1>1, <1>2, <1>3, <2>2 DEF Entity!RoleInputs, Entity!Switch
  <2>6. inputs.settings \subseteq tokens
    BY <1>1, <1>2, <1>3, <2>2 DEF Entity!RoleInputs, Entity!Switch
  <2>7. f \in {"name", "code", "description", "settings"} /\ value \in inputs[f]
    BY <1>4, <2>1, KindFields
  <2>8. QED
    BY <1>2, <2>3, <2>4, <2>5, <2>6, <2>7
<1>5. CASE kind = "perm"
  <2>1. PICK inputs : inputs = Entity!Inputs
    OBVIOUS
  <2>2. inputs = Entity!PermInputs
    BY <1>5, <2>1 DEF Entity!Inputs
  <2>3. inputs.parent \subseteq tokens
    BY <1>1, <1>2, <1>3, <2>2 DEF Entity!PermInputs, Entity!Switch
  <2>4. inputs.name \subseteq tokens
    BY <1>1, <1>2, <1>3, <2>2 DEF Entity!PermInputs, Entity!Switch
  <2>5. inputs.code \subseteq tokens
    BY <1>1, <1>2, <1>3, <2>2 DEF Entity!PermInputs, Entity!Switch
  <2>6. inputs.resource \subseteq tokens
    BY <1>1, <1>2, <1>3, <2>2 DEF Entity!PermInputs, Entity!Switch
  <2>7. inputs.action \subseteq tokens
    BY <1>1, <1>2, <1>3, <2>2 DEF Entity!PermInputs, Entity!Switch
  <2>8. inputs.method \subseteq tokens
    BY <1>1, <1>2, <1>3, <2>2 DEF Entity!PermInputs, Entity!Switch
  <2>9. inputs.description \subseteq tokens
    BY <1>1, <1>2, <1>3, <2>2 DEF Entity!PermInputs, Entity!Switch
  <2>10. inputs.settings \subseteq tokens
    BY <1>1, <1>2, <1>3, <2>2 DEF Entity!PermInputs, Entity!Switch
  <2>11. f \in {"parent", "name", "code", "resource", "action", "method", "description", "settings"} /\ value \in inputs[f]
    BY <1>5, <2>1, KindFields
  <2>12. QED
    BY <1>2, <2>3, <2>4, <2>5, <2>6, <2>7, <2>8, <2>9, <2>10, <2>11
<1>6. CASE kind = "menu"
  <2>1. PICK inputs : inputs = Entity!Inputs
    OBVIOUS
  <2>2. inputs = Entity!MenuInputs
    BY <1>6, <2>1 DEF Entity!Inputs
  <2>3. inputs.name \subseteq tokens
    BY <1>1, <1>2, <1>3, <2>2 DEF Entity!MenuInputs, Entity!Switch
  <2>4. inputs.code \subseteq tokens
    BY <1>1, <1>2, <1>3, <2>2 DEF Entity!MenuInputs, Entity!Switch
  <2>5. inputs.description \subseteq tokens
    BY <1>1, <1>2, <1>3, <2>2 DEF Entity!MenuInputs, Entity!Switch
  <2>6. inputs.path \subseteq tokens
    BY <1>1, <1>2, <1>3, <2>2 DEF Entity!MenuInputs, Entity!Switch
  <2>7. inputs.component \subseteq tokens
    BY <1>1, <1>2, <1>3, <2>2 DEF Entity!MenuInputs, Entity!Switch
  <2>8. inputs.redirect \subseteq tokens
    BY <1>1, <1>2, <1>3, <2>2 DEF Entity!MenuInputs, Entity!Switch
  <2>9. inputs.icon \subseteq tokens
    BY <1>1, <1>2, <1>3, <2>2 DEF Entity!MenuInputs, Entity!Switch
  <2>10. inputs.settings \subseteq tokens
    BY <1>1, <1>2, <1>3, <2>2 DEF Entity!MenuInputs, Entity!Switch
  <2>11. f \in {"name", "code", "description", "path", "component", "redirect", "icon", "settings"} /\ value \in inputs[f]
    BY <1>6, <2>1, KindFields
  <2>12. QED
    BY <1>2, <2>3, <2>4, <2>5, <2>6, <2>7, <2>8, <2>9, <2>10, <2>11
<1>7. CASE kind = "dict"
  <2>1. PICK inputs : inputs = Entity!Inputs
    OBVIOUS
  <2>2. inputs = Entity!DictInputs
    BY <1>7, <2>1 DEF Entity!Inputs
  <2>3. inputs.label \subseteq tokens
    BY <1>1, <1>2, <1>3, <2>2 DEF Entity!DictInputs, Entity!Switch
  <2>4. inputs.dict_type \subseteq tokens
    BY <1>1, <1>2, <1>3, <2>2 DEF Entity!DictInputs, Entity!Switch
  <2>5. inputs.dict_key \subseteq tokens
    BY <1>1, <1>2, <1>3, <2>2 DEF Entity!DictInputs, Entity!Switch
  <2>6. inputs.dict_value \subseteq tokens
    BY <1>1, <1>2, <1>3, <2>2 DEF Entity!DictInputs, Entity!Switch
  <2>7. inputs.description \subseteq tokens
    BY <1>1, <1>2, <1>3, <2>2 DEF Entity!DictInputs, Entity!Switch
  <2>8. inputs.ext \subseteq tokens
    BY <1>1, <1>2, <1>3, <2>2 DEF Entity!DictInputs, Entity!Switch
  <2>9. inputs.settings \subseteq tokens
    BY <1>1, <1>2, <1>3, <2>2 DEF Entity!DictInputs, Entity!Switch
  <2>10. f \in {"label", "dict_type", "dict_key", "dict_value", "description", "ext", "settings"} /\ value \in inputs[f]
    BY <1>7, <2>1, KindFields
  <2>11. QED
    BY <1>2, <2>3, <2>4, <2>5, <2>6, <2>7, <2>8, <2>9, <2>10
<1>8. CASE kind = "tenant"
  <2>1. PICK inputs : inputs = Entity!Inputs
    OBVIOUS
  <2>2. inputs = Entity!TenantInputs
    BY <1>8, <2>1 DEF Entity!Inputs
  <2>3. inputs.name \subseteq tokens
    BY <1>1, <1>2, <1>3, <2>2 DEF Entity!TenantInputs, Entity!Switch
  <2>4. inputs.slug \subseteq tokens
    BY <1>1, <1>2, <1>3, <2>2 DEF Entity!TenantInputs, Entity!Switch
  <2>5. inputs.description \subseteq tokens
    BY <1>1, <1>2, <1>3, <2>2 DEF Entity!TenantInputs, Entity!Switch
  <2>6. inputs.plan_code \subseteq tokens
    BY <1>1, <1>2, <1>3, <2>2 DEF Entity!TenantInputs, Entity!Switch
  <2>7. inputs.owner_user_id \subseteq tokens
    BY <1>1, <1>2, <1>3, <2>2 DEF Entity!TenantInputs, Entity!Switch
  <2>8. inputs.logo_url \subseteq tokens
    BY <1>1, <1>2, <1>3, <2>2 DEF Entity!TenantInputs, Entity!Switch
  <2>9. inputs.expired_at \subseteq tokens
    BY <1>1, <1>2, <1>3, <2>2 DEF Entity!TenantInputs, Entity!Switch
  <2>10. inputs.settings \subseteq tokens
    BY <1>1, <1>2, <1>3, <2>2 DEF Entity!TenantInputs, Entity!Switch
  <2>11. f \in {"name", "slug", "description", "plan_code", "owner_user_id", "logo_url", "expired_at", "settings"} /\ value \in inputs[f]
    BY <1>8, <2>1, KindFields
  <2>12. QED
    BY <1>2, <2>3, <2>4, <2>5, <2>6, <2>7, <2>8, <2>9, <2>10, <2>11
<1>9. CASE kind = "user"
  <2>1. PICK inputs : inputs = Entity!Inputs
    OBVIOUS
  <2>2. inputs = Entity!UserInputs
    BY <1>9, <2>1 DEF Entity!Inputs
  <2>3. inputs.username \subseteq tokens
    BY <1>1, <1>2, <1>3, <2>2 DEF Entity!UserInputs, Entity!Switch
  <2>4. inputs.password \subseteq tokens
    BY <1>1, <1>2, <1>3, <2>2 DEF Entity!UserInputs, Entity!Switch
  <2>5. inputs.nickname \subseteq tokens
    BY <1>1, <1>2, <1>3, <2>2 DEF Entity!UserInputs, Entity!Switch
  <2>6. inputs.email \subseteq tokens
    BY <1>1, <1>2, <1>3, <2>2 DEF Entity!UserInputs, Entity!Switch
  <2>7. inputs.phone \subseteq tokens
    BY <1>1, <1>2, <1>3, <2>2 DEF Entity!UserInputs, Entity!Switch
  <2>8. inputs.avatar_url \subseteq tokens
    BY <1>1, <1>2, <1>3, <2>2 DEF Entity!UserInputs, Entity!Switch
  <2>9. inputs.bio \subseteq tokens
    BY <1>1, <1>2, <1>3, <2>2 DEF Entity!UserInputs, Entity!Switch
  <2>10. inputs.settings \subseteq tokens
    BY <1>1, <1>2, <1>3, <2>2 DEF Entity!UserInputs, Entity!Switch
  <2>11. f \in {"username", "password", "nickname", "email", "phone", "avatar_url", "bio", "settings"} /\ value \in inputs[f]
    BY <1>9, <2>1, KindFields
  <2>12. QED
    BY <1>2, <2>3, <2>4, <2>5, <2>6, <2>7, <2>8, <2>9, <2>10, <2>11
<1>10. CASE kind = "client"
  <2>1. PICK inputs : inputs = Entity!Inputs
    OBVIOUS
  <2>2. inputs = Entity!ClientInputs
    BY <1>10, <2>1 DEF Entity!Inputs
  <2>3. inputs.name \subseteq tokens
    BY <1>1, <1>2, <1>3, <2>2 DEF Entity!ClientInputs, Entity!Switch
  <2>4. inputs.description \subseteq tokens
    BY <1>1, <1>2, <1>3, <2>2 DEF Entity!ClientInputs, Entity!Switch
  <2>5. inputs.client_secret \subseteq tokens
    BY <1>1, <1>2, <1>3, <2>2 DEF Entity!ClientInputs, Entity!Switch
  <2>6. inputs.redirect_uris \subseteq tokens
    BY <1>1, <1>2, <1>3, <2>2 DEF Entity!ClientInputs, Entity!Switch
  <2>7. inputs.allowed_scopes \subseteq tokens
    BY <1>1, <1>2, <1>3, <2>2 DEF Entity!ClientInputs, Entity!Switch
  <2>8. inputs.settings \subseteq tokens
    BY <1>1, <1>2, <1>3, <2>2 DEF Entity!ClientInputs, Entity!Switch
  <2>9. f \in {"name", "description", "client_secret", "redirect_uris", "allowed_scopes", "settings"} /\ value \in inputs[f]
    BY <1>10, <2>1, KindFields
  <2>10. QED
    BY <1>2, <2>3, <2>4, <2>5, <2>6, <2>7, <2>8, <2>9
<1>11. QED
  BY <1>4, <1>5, <1>6, <1>7, <1>8, <1>9, <1>10 DEF Entity!Kinds

\* Some inputs are locked.
LEMMA LockedInputs ==
  /\ kind = "dict" /\ mode = "update" => Entity!Inputs["dict_type"] = {}
  /\ kind = "user" /\ mode = "update" => Entity!Inputs["username"] = {}
  /\ kind = "client" /\ mode = "create" => Entity!Inputs["settings"] = {}
BY DEF Entity!Inputs, Entity!DictInputs, Entity!UserInputs, Entity!ClientInputs

\* What is left of a request without some fields, or without the blank ones of them.
LEMMA LeftOut ==
  ASSUME NEW v, NEW fields
  PROVE  /\ \A f : f \in DOMAIN Entity!Without(v, fields) <=> f \in DOMAIN v /\ f \notin fields
         /\ \A f \in DOMAIN Entity!Without(v, fields) : Entity!Without(v, fields)[f] = v[f]
BY DEF Entity!Without

LEMMA BlanksLeftOut ==
  ASSUME NEW v, NEW fields
  PROVE  /\ \A f : f \in DOMAIN Entity!BlankLeftOut(v, fields)
                   <=> f \in DOMAIN v /\ ~(f \in fields /\ v[f] = "")
         /\ \A f \in DOMAIN Entity!BlankLeftOut(v, fields) : Entity!BlankLeftOut(v, fields)[f] = v[f]
BY DEF Entity!BlankLeftOut, Entity!Without, Entity!Blank

\* The fields a request of v is without.
Absent(v, f) ==
  \/ f \in Entity!Uncleared /\ v[f] = ""
  \/ mode = "update" /\ f \in {"dict_type", "username"}
  \/ f = "client_secret" \/ (f = "password" /\ v[f] = "")
  \/ kind = "client" /\ mode = "create" /\ f = "settings"
  \/ kind = "client" /\ mode # "create" /\ f = "name" /\ v[f] \in {"", "spaces"}

\* What the others carry.
Carried(v, f, sent) ==
  \/ sent = v[f]
  \/ kind = "dict" /\ f = "ext" /\ v[f] = "" /\ sent = "{}"
  \/ kind = "client" /\ mode = "create" /\ f = "name" /\ v[f] = "spaces" /\ sent = ""

ParamMeant(v, p) ==
  /\ DOMAIN p \subseteq Entity!Fields
  /\ \A f \in DOMAIN p : Carried(v, f, p[f])
  /\ \A f \in Entity!Fields \ DOMAIN p : Absent(v, f)
  /\ kind = "user" /\ "password" \in DOMAIN p => v["password"] # ""
  /\ kind = "client" /\ "client_secret" \in DOMAIN p => mode = "create"
  /\ kind = "dict" => "ext" \in DOMAIN p /\ p["ext"] # ""

\* Four kinds of requests leave out blank fields and nothing else.
LEMMA BlanksMeant ==
  ASSUME kind \in {"role", "perm", "menu", "tenant"}, NEW v \in Row,
         NEW fields \in SUBSET Entity!Uncleared,
         Entity!Param(v) = Entity!BlankLeftOut(v, fields)
  PROVE  ParamMeant(v, Entity!Param(v))
<1> DEFINE p == Entity!Param(v)
<1>1. p = Entity!BlankLeftOut(v, fields) /\ DOMAIN v = Entity!Fields
  BY DEF Row
<1> HIDE DEF p
<1>2. /\ \A f : f \in DOMAIN p <=> f \in Entity!Fields /\ ~(f \in fields /\ v[f] = "")
      /\ \A f \in DOMAIN p : p[f] = v[f]
  BY <1>1, BlanksLeftOut
<1>3. ParamMeant(v, p)
  BY <1>2 DEF ParamMeant, Carried, Absent
<1>4. QED
  BY <1>3 DEF p

LEMMA SimpleParams ==
  ASSUME kind \in {"role", "perm", "menu", "tenant"}, NEW v \in Row PROVE ParamMeant(v, Entity!Param(v))
<1>1. CASE kind = "role"
  <2>1. Entity!Param(v) = Entity!BlankLeftOut(v, {"description"})
    BY <1>1 DEF Entity!Param, Entity!RoleParam
  <2>2. {"description"} \in SUBSET Entity!Uncleared
    BY DEF Entity!Uncleared, Entity!Optional
  <2>3. QED
    BY <2>1, <2>2, BlanksMeant
<1>2. CASE kind = "perm"
  <2>1. Entity!Param(v) = Entity!BlankLeftOut(v, {"resource", "action", "method", "description"})
    BY <1>2 DEF Entity!Param, Entity!PermParam
  <2>2. {"resource", "action", "method", "description"} \in SUBSET Entity!Uncleared
    BY DEF Entity!Uncleared, Entity!Optional
  <2>3. QED
    BY <2>1, <2>2, BlanksMeant
<1>3. CASE kind = "menu"
  <2>1. Entity!Param(v) = Entity!BlankLeftOut(v, {"description", "path", "component", "redirect", "icon"})
    BY <1>3 DEF Entity!Param, Entity!MenuParam
  <2>2. {"description", "path", "component", "redirect", "icon"} \in SUBSET Entity!Uncleared
    BY DEF Entity!Uncleared, Entity!Optional
  <2>3. QED
    BY <2>1, <2>2, BlanksMeant
<1>4. CASE kind = "tenant"
  <2>1. Entity!Param(v) = Entity!BlankLeftOut(v, {"description", "plan_code", "owner_user_id", "logo_url", "expired_at"})
    BY <1>4 DEF Entity!Param, Entity!TenantParam
  <2>2. {"description", "plan_code", "owner_user_id", "logo_url", "expired_at"} \in SUBSET Entity!Uncleared
    BY DEF Entity!Uncleared, Entity!Optional
  <2>3. QED
    BY <2>1, <2>2, BlanksMeant
<1>5. QED
  BY <1>1, <1>2, <1>3, <1>4

LEMMA DictParams == ASSUME kind = "dict", NEW v \in Row PROVE ParamMeant(v, Entity!Param(v))
<1>1. PICK sent : sent = [v EXCEPT !.ext = IF @ = "" THEN "{}" ELSE @]
  OBVIOUS
<1>2. PICK absent : absent = IF mode = "update" THEN {"dict_type"} ELSE {}
  OBVIOUS
<1>3. PICK kept : kept = Entity!Without(sent, absent)
  OBVIOUS
<1>4. PICK p : p = Entity!BlankLeftOut(kept, {"description"})
  OBVIOUS
<1>5. Entity!Param(v) = p
  BY <1>1, <1>2, <1>3, <1>4 DEF Entity!Param, Entity!DictParam
<1>6. DOMAIN v = Entity!Fields /\ "ext" \in Entity!Fields /\ "description" \in Entity!Uncleared
  BY KindFields DEF Row, Entity!Uncleared, Entity!Optional
<1>7. /\ DOMAIN sent = Entity!Fields
      /\ \A f \in Entity!Fields \ {"ext"} : sent[f] = v[f]
      /\ sent["ext"] = IF v["ext"] = "" THEN "{}" ELSE v["ext"]
  BY <1>1, <1>6
<1>8. /\ \A f : f \in DOMAIN kept <=> f \in Entity!Fields /\ f \notin absent
      /\ \A f \in DOMAIN kept : kept[f] = sent[f]
  BY <1>3, <1>7, LeftOut
<1>9. /\ \A f : f \in DOMAIN p <=> f \in DOMAIN kept /\ ~(f \in {"description"} /\ kept[f] = "")
      /\ \A f \in DOMAIN p : p[f] = kept[f]
  BY <1>4, BlanksLeftOut
<1>10. ParamMeant(v, p)
  BY <1>2, <1>6, <1>7, <1>8, <1>9 DEF ParamMeant, Carried, Absent
<1>11. QED
  BY <1>5, <1>10

LEMMA UserParams == ASSUME kind = "user", NEW v \in Row PROVE ParamMeant(v, Entity!Param(v))
<1>1. PICK absent : absent = IF mode = "update" THEN {"username"} ELSE {}
  OBVIOUS
<1>2. PICK clear : clear = {"email", "phone", "password", "nickname", "avatar_url", "bio"}
  OBVIOUS
<1>3. PICK kept : kept = Entity!Without(v, absent)
  OBVIOUS
<1>4. PICK p : p = Entity!BlankLeftOut(kept, clear)
  OBVIOUS
<1>5. Entity!Param(v) = p
  BY <1>1, <1>2, <1>3, <1>4 DEF Entity!Param, Entity!UserParam
<1>6. DOMAIN v = Entity!Fields /\ \A f \in clear : f = "password" \/ f \in Entity!Uncleared
  BY <1>2 DEF Row, Entity!Uncleared, Entity!Optional
<1>7. /\ \A f : f \in DOMAIN kept <=> f \in Entity!Fields /\ f \notin absent
      /\ \A f \in DOMAIN kept : kept[f] = v[f]
  BY <1>3, <1>6, LeftOut
<1>8. /\ \A f : f \in DOMAIN p <=> f \in DOMAIN kept /\ ~(f \in clear /\ kept[f] = "")
      /\ \A f \in DOMAIN p : p[f] = kept[f]
  BY <1>4, BlanksLeftOut
<1>9. ParamMeant(v, p)
  BY <1>1, <1>2, <1>6, <1>7, <1>8 DEF ParamMeant, Carried, Absent
<1>10. QED
  BY <1>5, <1>9

LEMMA ClientParams ==
  ASSUME kind = "client", NEW v \in Row PROVE ParamMeant(v, Entity!Param(v))
<1>1. PICK sent : sent = [v EXCEPT !.name = IF @ = "spaces" THEN "" ELSE @]
  OBVIOUS
<1>2. PICK absent : absent = IF mode = "create" THEN {"settings"} ELSE {"client_secret"}
  OBVIOUS
<1>3. PICK clear : clear = IF mode = "create" THEN {"description"} ELSE {"name", "description"}
  OBVIOUS
<1>4. PICK kept : kept = Entity!Without(sent, absent)
  OBVIOUS
<1>5. PICK p : p = Entity!BlankLeftOut(kept, clear)
  OBVIOUS
<1>6. Entity!Param(v) = p
  BY <1>1, <1>2, <1>3, <1>4, <1>5 DEF Entity!Param, Entity!ClientParam
<1>7. DOMAIN v = Entity!Fields /\ "name" \in Entity!Fields /\ "description" \in Entity!Uncleared
  BY KindFields DEF Row, Entity!Uncleared, Entity!Optional
<1>8. /\ DOMAIN sent = Entity!Fields
      /\ \A f \in Entity!Fields \ {"name"} : sent[f] = v[f]
      /\ sent["name"] = IF v["name"] = "spaces" THEN "" ELSE v["name"]
  BY <1>1, <1>7
<1>9. /\ \A f : f \in DOMAIN kept <=> f \in Entity!Fields /\ f \notin absent
      /\ \A f \in DOMAIN kept : kept[f] = sent[f]
  BY <1>4, <1>8, LeftOut
<1>10. /\ \A f : f \in DOMAIN p <=> f \in DOMAIN kept /\ ~(f \in clear /\ kept[f] = "")
       /\ \A f \in DOMAIN p : p[f] = kept[f]
  BY <1>5, BlanksLeftOut
<1>11. ParamMeant(v, p)
  BY <1>2, <1>3, <1>7, <1>8, <1>9, <1>10 DEF ParamMeant, Carried, Absent
<1>12. QED
  BY <1>6, <1>11

LEMMA Params == ASSUME kind \in Entity!Kinds, NEW v \in Row PROVE ParamMeant(v, Entity!Param(v))
BY SimpleParams, DictParams, UserParams, ClientParams DEF Entity!Kinds

---------------------------------------------------------------------------
(* The sheet *)

\* An empty form, and the form of a row, are forms.
LEMMA FormTypes ==
  /\ Entity!EmptyForm \in Row
  /\ \A r \in Row : Entity!FormOf(r) \in Row
  /\ \A r \in Row : \A f \in Entity!Fields \ Entity!Secrets : Entity!FormOf(r)[f] = r[f]
BY DEF Entity!EmptyForm, Entity!FormOf, Row, Entity!Tokens

LEMMA EntityInit == ASSUME Entity!ConstantsOK, Entity!Init PROVE EntityInv
<1>1. /\ kind \in Entity!Kinds /\ mode \in {"create", "update", "copy"}
      /\ mode = "copy" => kind \in {"perm", "menu"}
      /\ touched = {} /\ before = row /\ edits = 0 /\ outcome = "none"
  BY DEF Entity!Init
<1>2. \A r \in Entity!RowsAtFirst : r \in Row /\ (kind = "dict" => r["ext"] # "")
  <2>1. "" \in Entity!Tokens /\ "old" \in Entity!Tokens /\ "ext" \notin Entity!Optional
    BY DEF Entity!Tokens, Entity!Optional
  <2>2. kind = "dict" => "ext" \in Entity!Fields
    BY KindFields
  <2>3. QED
    BY <2>1, <2>2 DEF Entity!RowsAtFirst, Row
<1>3. \A v \in Entity!FormsAtFirst : v \in Row /\ (kind = "client" => v["settings"] = "old")
  <2>1. ASSUME NEW v \in Entity!FormsAtFirst PROVE v \in Row
    BY <2>1, FormTypes DEF Entity!FormsAtFirst, Row, Entity!Tokens
  <2>2. ASSUME NEW v \in Entity!FormsAtFirst, kind = "client" PROVE v["settings"] = "old"
    BY <2>2, KindFields DEF Entity!FormsAtFirst, Entity!EmptyForm, Entity!Required
  <2>3. QED
    BY <2>1, <2>2
<1>4. CASE mode = "create"
  <2>1. row = None /\ form \in Entity!FormsAtFirst
    BY <1>4 DEF Entity!Init
  <2>2. Entity!TypeOK
    BY <1>1, <1>3, <2>1 DEF Entity!TypeOK, Entity!ConstantsOK, Row
  <2>3. QED
    BY <1>1, <1>3, <1>4, <2>1, <2>2
       DEF EntityInv, AnswerMeant, ModesMeant, FormMeant, ExtGiven
<1>5. CASE mode # "create"
  <2>1. row \in Row /\ form = Entity!FormOf(row) /\ (kind = "dict" => row["ext"] # "")
    BY <1>2, <1>5 DEF Entity!Init
  <2>2. Entity!TypeOK
    <3>1. form \in Row
      BY <2>1, FormTypes
    <3>2. row \in Row
      BY <2>1
    <3>3. QED
      BY <1>1, <3>1, <3>2 DEF Entity!TypeOK, Entity!ConstantsOK, Row
  <2>3. FormMeant
    BY <1>1, <1>5, <2>1, FormTypes DEF FormMeant, Entity!Secrets
  <2>4. QED
    BY <1>1, <1>5, <2>1, <2>2, <2>3 DEF EntityInv, AnswerMeant, ModesMeant, ExtGiven
<1>6. QED
  BY <1>4, <1>5

LEMMA TypeStep ==
  ASSUME Entity!ConstantsOK, EntityInv, NEW f \in Entity!Fields, Entity!Type(f) PROVE EntityInv'
<1>1. PICK value \in Entity!Inputs[f] : form' = Entity!Typed(f, value)
  BY DEF Entity!Type
<1>2. /\ outcome # "saved" /\ outcome' = "none" /\ edits < MaxEntityInputs /\ edits' = edits + 1
      /\ touched' = touched \cup {f}
      /\ UNCHANGED <<kind, mode, row, before>>
  BY DEF Entity!Type
<1>3. /\ kind \in Entity!Kinds /\ form \in Row /\ value \in Entity!Tokens
      /\ Entity!Fields' = Entity!Fields
  BY <1>1, <1>2, InputTokens
     DEF EntityInv, Entity!TypeOK, Row, Entity!Fields, Entity!Inputs, Entity!RoleInputs,
         Entity!PermInputs, Entity!MenuInputs, Entity!DictInputs, Entity!TenantInputs,
         Entity!UserInputs, Entity!ClientInputs
<1>4. /\ form' \in Row
      /\ \A g \in Entity!Fields \ {f} :
           form'[g] = form[g] \/ (kind = "tenant" /\ g = "slug" /\ f = "name")
  BY <1>1, <1>3 DEF Entity!Typed, Row, Entity!Tokens
<1>5. Entity!TypeOK'
  <2>1. edits' \in 0 .. MaxEntityInputs
    BY <1>2 DEF EntityInv, Entity!TypeOK, Entity!ConstantsOK
  <2>2. QED
    BY <1>2, <1>3, <1>4, <2>1 DEF EntityInv, Entity!TypeOK, Row, Entity!Tokens
<1>6. FormMeant'
  <2>1. ASSUME mode = "update", NEW g \in Entity!Fields \ touched'
        PROVE  \/ form'[g] = Entity!FormOf(before)[g]
               \/ kind = "tenant" /\ g = "slug" /\ "name" \in touched'
    BY <1>2, <1>4, <2>1 DEF EntityInv, FormMeant
  <2>2. ASSUME mode = "update", NEW g \in Entity!Fields \cap {"dict_type", "username"}
        PROVE  form'[g] = before[g]
    <3>1. f # g
      BY <1>1, <1>3, <2>2, LockedInputs, KindFields DEF Entity!Kinds
    <3>2. QED
      BY <1>4, <2>2, <3>1 DEF EntityInv, FormMeant
  <2>3. ASSUME kind = "client", mode = "create" PROVE form'["settings"] = "old"
    <3>1. f # "settings" /\ "settings" \in Entity!Fields
      BY <1>1, <2>3, LockedInputs, KindFields
    <3>2. QED
      BY <1>4, <2>3, <3>1 DEF EntityInv, FormMeant
  <2>4. Entity!FormOf(before)' = Entity!FormOf(before)
    BY <1>2, <1>3 DEF Entity!FormOf, Entity!Secrets
  <2>5. QED
    BY <1>2, <1>3, <2>1, <2>2, <2>3, <2>4 DEF FormMeant
<1>7. QED
  BY <1>2, <1>3, <1>5, <1>6
     DEF EntityInv, AnswerMeant, ModesMeant, ExtGiven, Row, Entity!Tokens

LEMMA SameFields ==
  ASSUME UNCHANGED kind
  PROVE  Entity!Fields' = Entity!Fields /\ Row' = Row
BY DEF Row, Entity!Tokens, Entity!Fields, Entity!Inputs, Entity!RoleInputs, Entity!PermInputs,
       Entity!MenuInputs, Entity!DictInputs, Entity!TenantInputs, Entity!UserInputs,
       Entity!ClientInputs

\* Nothing a form says changes without it, its kind and its mode.
LEMMA SameAnswers ==
  ASSUME UNCHANGED <<kind, mode, form>>
  PROVE  /\ (Entity!Errors(form))' = Entity!Errors(form)
         /\ (Entity!Param(form))' = Entity!Param(form)
         /\ (Entity!Accepted(Entity!Param(form)))' <=> Entity!Accepted(Entity!Param(form))
<1>1. (Entity!Errors(form))' = Entity!Errors(form)
  BY DEF Entity!Errors, Entity!RoleErrors, Entity!PermErrors, Entity!MenuErrors,
         Entity!DictErrors, Entity!TenantErrors, Entity!UserErrors, Entity!ClientErrors,
         Entity!Blank, Entity!TooLong
<1>2. (Entity!Param(form))' = Entity!Param(form)
  BY DEF Entity!Param, Entity!RoleParam, Entity!PermParam, Entity!MenuParam, Entity!DictParam,
         Entity!TenantParam, Entity!UserParam, Entity!ClientParam, Entity!BlankLeftOut,
         Entity!Without, Entity!Blank
<1>3. (Entity!Accepted(Entity!Param(form)))' <=> Entity!Accepted(Entity!Param(form))
  BY <1>2
     DEF Entity!Accepted, Entity!Taken, Entity!Is, Entity!ResourceFits, Entity!TenantReads,
         Entity!BytesFit, Entity!ClientNameFits
<1>4. QED
  BY <1>1, <1>2, <1>3

LEMMA EntitySaveStep ==
  ASSUME Entity!ConstantsOK, EntityInv, Entity!Save PROVE EntityInv'
<1> DEFINE p == Entity!Param(form)
<1>1. /\ outcome # "saved" /\ row = before
      /\ UNCHANGED <<kind, mode, form, touched, before, edits>>
  BY DEF EntityInv, AnswerMeant, Entity!Save
<1>2. form \in Row /\ kind \in Entity!Kinds
  BY DEF EntityInv, Entity!TypeOK, Row
<1>3. ParamMeant(form, p)
  BY <1>2, Params
<1>4. CASE UNCHANGED row /\ outcome' \in {"invalid", "refused"}
  <2>1. AnswerMeant'
    BY <1>1, <1>4, SameAnswers DEF AnswerMeant, Entity!Save
  <2>2. FormMeant'
    BY <1>1, SameFields DEF EntityInv, FormMeant, Entity!FormOf, Entity!Secrets
  <2>3. QED
    BY <1>1, <1>4, <2>1, <2>2, SameFields
       DEF EntityInv, Entity!TypeOK, ModesMeant, ExtGiven, Entity!Tokens
<1>5. CASE /\ outcome' = "saved" /\ Entity!Errors(form) = {} /\ Entity!Accepted(p)
           /\ row' = IF mode = "update" THEN Entity!Updated(p) ELSE Entity!Created(p)
  <2>1. row' = Stored
    BY <1>1, <1>5 DEF Stored, Entity!Updated
  <2>2. \A f \in DOMAIN p : p[f] \in Entity!Tokens
    BY <1>2, <1>3 DEF ParamMeant, Carried, Row, Entity!Tokens
  <2>3. row' \in Row /\ (kind = "dict" => row'["ext"] # "")
    <3>1. CASE mode = "update"
      <4>1. before \in Row
        BY <1>1, <3>1 DEF EntityInv, ModesMeant
      <4>2. QED
        BY <1>3, <2>1, <2>2, <3>1, <4>1, KindFields DEF Stored, Row, ParamMeant
    <3>2. CASE mode # "update"
      BY <1>3, <2>1, <2>2, <3>2, KindFields
         DEF Stored, Entity!Created, Row, Entity!Tokens, ParamMeant
    <3>3. QED
      BY <3>1, <3>2
  <2>4. Stored' = Stored
    BY <1>1, SameAnswers, SameFields DEF Stored, Entity!Created
  <2>5. AnswerMeant'
    BY <1>1, <1>5, <2>1, <2>4, SameAnswers DEF AnswerMeant
  <2>6. FormMeant'
    BY <1>1, SameFields DEF EntityInv, FormMeant, Entity!FormOf, Entity!Secrets
  <2>7. QED
    BY <1>1, <1>5, <2>3, <2>5, <2>6, SameFields
       DEF EntityInv, Entity!TypeOK, ModesMeant, ExtGiven, Entity!Tokens, Row
<1>6. QED
  BY <1>4, <1>5 DEF Entity!Save

LEMMA ReopenStep ==
  ASSUME Entity!ConstantsOK, EntityInv, Entity!Reopen PROVE EntityInv'
<1>1. /\ row # None /\ mode' = "update" /\ form' = Entity!FormOf(row)
      /\ touched' = {} /\ before' = row /\ outcome' = "none" /\ UNCHANGED <<kind, row, edits>>
  BY DEF Entity!Reopen
<1>2. row \in Row
  BY <1>1 DEF EntityInv, Entity!TypeOK, Row
<1>3. form' \in Row
  BY <1>1, <1>2, FormTypes
<1>4. Entity!FormOf(before)' = Entity!FormOf(row)
  BY <1>1, SameFields DEF Entity!FormOf, Entity!Secrets
<1>5. FormMeant'
  BY <1>1, <1>2, <1>4, SameFields, FormTypes DEF FormMeant, Entity!Secrets
<1>6. ExtGiven'
  <2>1. outcome = "saved" \/ (row = before /\ mode # "create")
    BY <1>1 DEF EntityInv, AnswerMeant, ModesMeant
  <2>2. kind = "dict" => mode # "copy" /\ mode \in {"create", "update", "copy"}
    BY DEF EntityInv, ModesMeant, Entity!TypeOK
  <2>3. QED
    BY <1>1, <2>1, <2>2 DEF EntityInv, ExtGiven
<1>7. QED
  BY <1>1, <1>2, <1>3, <1>5, <1>6, SameFields
     DEF EntityInv, Entity!TypeOK, AnswerMeant, ModesMeant, Row, Entity!Tokens

LEMMA EntityNext ==
  ASSUME Entity!ConstantsOK, EntityInv, [Entity!Next]_(Entity!entityVars) PROVE EntityInv'
<1>1. CASE UNCHANGED Entity!entityVars
  <2>1. UNCHANGED <<kind, mode, row, form, touched, before, edits, outcome>>
    BY <1>1 DEF Entity!entityVars
  <2>2. Stored' = Stored
    BY <2>1, SameAnswers, SameFields DEF Stored, Entity!Created
  <2>3. AnswerMeant'
    BY <2>1, <2>2, SameAnswers DEF EntityInv, AnswerMeant
  <2>4. FormMeant'
    BY <2>1, SameFields DEF EntityInv, FormMeant, Entity!FormOf, Entity!Secrets
  <2>5. QED
    BY <2>1, <2>3, <2>4, SameFields
       DEF EntityInv, Entity!TypeOK, ModesMeant, ExtGiven, Entity!Tokens
<1>2. QED
  BY <1>1, TypeStep, EntitySaveStep, ReopenStep DEF Entity!Next

---------------------------------------------------------------------------
LEMMA EntitySaved == ASSUME EntityInv PROVE Entity!SavedIsShown /\ Entity!UntouchedKept
<1> SUFFICES ASSUME outcome = "saved" PROVE Entity!SavedIsShown /\ Entity!UntouchedKept
  BY DEF Entity!SavedIsShown, Entity!UntouchedKept
<1>1. PICK p : p = Entity!Param(form)
  OBVIOUS
<1>2. /\ Entity!Errors(form) = {} /\ Entity!Accepted(p) /\ row = Stored
      /\ form \in Row /\ kind \in Entity!Kinds
  BY <1>1 DEF EntityInv, AnswerMeant, Entity!TypeOK, Row
<1>3. ParamMeant(form, p)
  BY <1>1, <1>2, Params
<1>4. kind = "client" => form["name"] # ""
  BY <1>2, KindFields DEF Entity!Errors, Entity!ClientErrors, Entity!Blank
<1>5. kind = "client" /\ "name" \in DOMAIN p => p["name"] # ""
  BY <1>2 DEF Entity!Accepted, Entity!ClientNameFits, Entity!Is
<1>6. ASSUME NEW f \in Entity!Fields
      PROVE  row[f] = IF f \in DOMAIN p THEN p[f]
                      ELSE IF mode = "update" THEN before[f]
                      ELSE IF f = "settings" THEN "old" ELSE ""
  BY <1>1, <1>2 DEF Stored, Entity!Created
<1>7. Entity!SavedIsShown
  <2>1. SUFFICES ASSUME NEW f \in Entity!Fields \ Entity!Secrets
                 PROVE  \/ row[f] = form[f]
                        \/ /\ f \in Entity!Uncleared /\ form[f] = "" /\ mode = "update"
                           /\ row[f] = before[f]
                        \/ f = "ext" /\ form[f] = "" /\ row[f] = "{}"
                        \/ /\ kind = "client" /\ f = "name" /\ form[f] = "spaces"
                           /\ mode = "update"
    BY DEF Entity!SavedIsShown
  <2>2. CASE f \in DOMAIN p
    BY <1>3, <1>5, <1>6, <2>2 DEF ParamMeant, Carried
  <2>3. CASE f \notin DOMAIN p
    <3>1. Absent(form, f)
      BY <1>3, <2>3 DEF ParamMeant
    <3>2. f \in Entity!Uncleared => f # "settings"
      BY DEF Entity!Uncleared, Entity!Optional
    <3>3. mode \in {"create", "update"} \/ kind # "client"
      BY DEF EntityInv, ModesMeant, Entity!TypeOK
    <3>4. QED
      BY <1>4, <1>6, <2>3, <3>1, <3>2, <3>3
         DEF Absent, EntityInv, FormMeant, Entity!Secrets
  <2>4. QED
    BY <2>2, <2>3
<1>8. Entity!UntouchedKept
  <2>1. SUFFICES ASSUME mode = "update", NEW f \in Entity!Fields \ touched
                 PROVE  row[f] = before[f] \/ (kind = "tenant" /\ f = "slug" /\ "name" \in touched)
    BY DEF Entity!UntouchedKept
  <2>2. \/ form[f] = Entity!FormOf(before)[f]
        \/ kind = "tenant" /\ f = "slug" /\ "name" \in touched
    BY <2>1 DEF EntityInv, FormMeant
  <2>3. Entity!FormOf(before)[f] = IF f \in Entity!Secrets THEN "" ELSE before[f]
    BY DEF Entity!FormOf
  <2>4. f \in DOMAIN p => f # "client_secret" \/ kind # "client"
    BY <1>3, <2>1 DEF ParamMeant
  <2>5. f = "client_secret" => kind = "client"
    BY <1>2, KindFields DEF Entity!Kinds
  <2>6. f = "password" => kind = "user"
    BY <1>2, KindFields DEF Entity!Kinds
  <2>7. CASE f \in DOMAIN p /\ f \notin Entity!Secrets
    BY <1>3, <1>5, <1>6, <2>1, <2>2, <2>3, <2>7
       DEF ParamMeant, Carried, EntityInv, ExtGiven, ModesMeant
  <2>8. CASE f \in DOMAIN p /\ f \in Entity!Secrets
    BY <1>3, <2>2, <2>3, <2>4, <2>5, <2>6, <2>8 DEF ParamMeant, Entity!Secrets
  <2>9. QED
    BY <1>6, <2>1, <2>7, <2>8
<1>9. QED
  BY <1>7, <1>8

LEMMA EntityRefused == ASSUME EntityInv PROVE Entity!RefusalHasCause
<1> SUFFICES ASSUME outcome = "refused" PROVE Entity!RefusalHasCause
  BY DEF Entity!RefusalHasCause
<1>1. PICK p : p = Entity!Param(form)
  OBVIOUS
<1>2. /\ Entity!Errors(form) = {} /\ ~Entity!Accepted(p)
      /\ form \in Row /\ kind \in Entity!Kinds
  BY <1>1 DEF EntityInv, AnswerMeant, Entity!TypeOK, Row
<1>3. ParamMeant(form, p)
  BY <1>1, <1>2, Params
<1>4. ASSUME NEW f, NEW tokens, Entity!Is(p, f, tokens)
      PROVE  /\ f \in Entity!Fields /\ f \in DOMAIN form
             /\ Entity!Is(form, f, tokens) \/ (kind = "dict" /\ f = "ext")
                  \/ (kind = "client" /\ f = "name" /\ form[f] = "spaces")
  BY <1>2, <1>3, <1>4 DEF ParamMeant, Carried, Entity!Is, Row
<1>5. Entity!Taken(p) => Entity!Taken(form)
  BY <1>4 DEF Entity!Taken
<1>6. kind = "perm" /\ ~Entity!ResourceFits(p) => form["resource"] \in {"long", "wide"}
  BY <1>4 DEF Entity!ResourceFits, Entity!Is
<1>7. kind = "dict" => ~Entity!Is(p, "ext", {"odd"})
  <2>1. kind = "dict" => form["ext"] # "odd"
    BY <1>2 DEF Entity!Errors, Entity!DictErrors
  <2>2. QED
    BY <1>3, <2>1 DEF ParamMeant, Carried, Entity!Is
<1>8. kind = "tenant" /\ ~Entity!TenantReads(p) =>
        form["expired_at"] = "odd" \/ form["owner_user_id"] = "odd"
  <2>1. Entity!Is(p, "expired_at", {"odd"}) /\ kind = "tenant" =>
          Entity!Is(form, "expired_at", {"odd"})
    BY <1>4
  <2>2. Entity!Is(p, "owner_user_id", {"odd"}) /\ kind = "tenant" =>
          Entity!Is(form, "owner_user_id", {"odd"})
    BY <1>4
  <2>3. QED
    BY <2>1, <2>2 DEF Entity!TenantReads, Entity!Is
<1>9. kind = "user" /\ ~Entity!BytesFit(p) =>
        mode = "update" /\ "wide" \in {form["nickname"], form["phone"], form["bio"]}
  BY <1>4 DEF Entity!BytesFit, Entity!Is
<1>10. kind = "client" /\ ~Entity!ClientNameFits(p) => form["name"] \in {"long", "spaces"}
  <2>1. kind = "client" => form["name"] # ""
    BY <1>2, KindFields DEF Entity!Errors, Entity!ClientErrors, Entity!Blank
  <2>2. Entity!Is(p, "name", {"", "long"}) =>
          Entity!Is(form, "name", {"", "long"}) \/ kind = "dict" \/ form["name"] = "spaces"
    BY <1>4
  <2>3. QED
    BY <2>1, <2>2 DEF Entity!ClientNameFits, Entity!Is
<1>11. QED
  BY <1>2, <1>5, <1>6, <1>7, <1>8, <1>9, <1>10 DEF Entity!Accepted, Entity!RefusalHasCause

\* The forms of the rows keep their types.
THEOREM EntityTyped == ASSUME Entity!ConstantsOK PROVE Entity!Spec => []Entity!TypeOK
<1>1. EntityInv => Entity!TypeOK
  BY DEF EntityInv
<1>2. QED
  BY <1>1, EntityInit, EntityNext, PTL DEF Entity!Spec

\* A save stores what the sheet showed and no more, or is refused for a cause the
\* sheet cannot know.
THEOREM EntitySaves == ASSUME Entity!ConstantsOK PROVE Entity!Spec => []Entity!SheetSavesItsFields
<1>1. EntityInv => Entity!SheetSavesItsFields
  BY EntitySaved, EntityRefused DEF Entity!SheetSavesItsFields
<1>2. QED
  BY <1>1, EntityInit, EntityNext, PTL DEF Entity!Spec

---------------------------------------------------------------------------
(* RuleForm: the form of the dialog of a notification rule *)

\* The answer is that of the values on the screen.
RuleInv ==
  /\ Rule!TypeOK
  /\ verdict = "invalid" => Rule!Errors(values) # {}
  /\ verdict = "refused" =>
       /\ Rule!Errors(values) = {} /\ ~Rule!BrowserBlocks(values)
       /\ ~Rule!Accepted(Rule!Param(values))
  /\ verdict = "saved" =>
       /\ Rule!Errors(values) = {} /\ ~Rule!BrowserBlocks(values)
       /\ Rule!Accepted(Rule!Param(values))

\* An input leaves a form, and no answer to it.
LEMMA TypedForm ==
  ASSUME RuleInv, NEW next \in Rule!RuleForms, Rule!Typed(next) PROVE RuleInv'
BY DEF RuleInv, Rule!Typed, Rule!TypeOK

LEMMA RuleInputs ==
  ASSUME RuleInv,
         \/ Rule!Basics \/ Rule!TriggerMode \/ Rule!EventCode \/ Rule!DelaySeconds
         \/ Rule!ScheduleKind \/ Rule!ScheduleTime \/ Rule!ToggleWeekday \/ Rule!CronExpression
         \/ Rule!StartAndEnd \/ Rule!RecipientSelector \/ Rule!ToggleUser
         \/ Rule!ToggleEnabled
  PROVE  RuleInv'
<1>1. values \in Rule!RuleForms
  BY DEF RuleInv, Rule!TypeOK
<1>2. CASE Rule!Basics
  <2>1. PICK text \in Rule!Names : Rule!Typed([values EXCEPT !.basics = text])
    BY <1>2 DEF Rule!Basics
  <2>2. [values EXCEPT !.basics = text] \in Rule!RuleForms
    BY <1>1 DEF Rule!RuleForms
  <2>3. QED
    BY <2>1, <2>2, TypedForm
<1>3. CASE Rule!TriggerMode
  <2>1. PICK manner \in Rule!Modes :
          Rule!Typed([values EXCEPT !.trigger_mode = manner,
                        !.recipient_selector_type = Rule!ModeSelector(manner, @)])
    BY <1>3 DEF Rule!TriggerMode
  <2>2. Rule!ModeSelector(manner, values.recipient_selector_type) \in Rule!Selectors
    BY <1>1 DEF Rule!RuleForms, Rule!ModeSelector, Rule!Selectors
  <2>3. [values EXCEPT !.trigger_mode = manner,
           !.recipient_selector_type = Rule!ModeSelector(manner, @)] \in Rule!RuleForms
    BY <1>1, <2>2 DEF Rule!RuleForms
  <2>4. QED
    BY <2>1, <2>3, TypedForm
<1>4. CASE Rule!EventCode
  <2>1. PICK event \in Rule!EventCodes : Rule!Typed([values EXCEPT !.event_code = event])
    BY <1>4 DEF Rule!EventCode
  <2>2. [values EXCEPT !.event_code = event] \in Rule!RuleForms
    BY <1>1 DEF Rule!RuleForms
  <2>3. QED
    BY <2>1, <2>2, TypedForm
<1>5. CASE Rule!DelaySeconds
  <2>1. PICK delay \in Rule!Delays : Rule!Typed([values EXCEPT !.delay_seconds = delay])
    BY <1>5 DEF Rule!DelaySeconds
  <2>2. [values EXCEPT !.delay_seconds = delay] \in Rule!RuleForms
    BY <1>1 DEF Rule!RuleForms
  <2>3. QED
    BY <2>1, <2>2, TypedForm
<1>6. CASE Rule!ScheduleKind
  <2>1. PICK sort \in {"daily", "weekly"} :
          Rule!Typed([values EXCEPT !.schedule_kind = sort,
                        !.schedule_weekdays = IF sort = "weekly" THEN @ ELSE {}])
    BY <1>6 DEF Rule!ScheduleKind
  <2>2. (IF sort = "weekly" THEN values.schedule_weekdays ELSE {}) \in SUBSET {1}
    BY <1>1 DEF Rule!RuleForms
  <2>3. [values EXCEPT !.schedule_kind = sort,
           !.schedule_weekdays = IF sort = "weekly" THEN @ ELSE {}] \in Rule!RuleForms
    BY <1>1, <2>2 DEF Rule!RuleForms
  <2>4. QED
    BY <2>1, <2>3, TypedForm
<1>7. CASE Rule!ScheduleTime
  <2>1. PICK time \in {"", "09:00"} : Rule!Typed([values EXCEPT !.schedule_time = time])
    BY <1>7 DEF Rule!ScheduleTime
  <2>2. [values EXCEPT !.schedule_time = time] \in Rule!RuleForms
    BY <1>1 DEF Rule!RuleForms
  <2>3. QED
    BY <2>1, <2>2, TypedForm
<1>8. CASE Rule!ToggleWeekday
  <2>1. [values EXCEPT !.schedule_weekdays = {1} \ @] \in Rule!RuleForms
    BY <1>1 DEF Rule!RuleForms
  <2>2. QED
    BY <1>8, <2>1, TypedForm DEF Rule!ToggleWeekday
<1>9. CASE Rule!CronExpression
  <2>1. PICK cron \in Rule!CronExpressions :
          Rule!Typed([values EXCEPT !.cron_expression = cron])
    BY <1>9 DEF Rule!CronExpression
  <2>2. [values EXCEPT !.cron_expression = cron] \in Rule!RuleForms
    BY <1>1 DEF Rule!RuleForms
  <2>3. QED
    BY <2>1, <2>2, TypedForm
<1>10. CASE Rule!StartAndEnd
  <2>1. PICK window \in Rule!Windows : Rule!Typed([values EXCEPT !.window = window])
    BY <1>10 DEF Rule!StartAndEnd
  <2>2. [values EXCEPT !.window = window] \in Rule!RuleForms
    BY <1>1 DEF Rule!RuleForms
  <2>3. QED
    BY <2>1, <2>2, TypedForm
<1>11. CASE Rule!RecipientSelector
  <2>1. PICK selector \in Rule!RecipientSelectorOptions(values.trigger_mode) :
          Rule!Typed([values EXCEPT !.recipient_selector_type = selector,
                        !.recipient_user_ids = IF selector = "explicit_users" THEN @ ELSE {}])
    BY <1>11 DEF Rule!RecipientSelector
  <2>2. /\ selector \in Rule!Selectors
        /\ (IF selector = "explicit_users" THEN values.recipient_user_ids ELSE {})
             \in SUBSET {"user"}
    BY <1>1 DEF Rule!RuleForms, Rule!RecipientSelectorOptions
  <2>3. [values EXCEPT !.recipient_selector_type = selector,
           !.recipient_user_ids = IF selector = "explicit_users" THEN @ ELSE {}]
           \in Rule!RuleForms
    BY <1>1, <2>2 DEF Rule!RuleForms
  <2>4. QED
    BY <2>1, <2>3, TypedForm
<1>12. CASE Rule!ToggleUser
  <2>1. [values EXCEPT !.recipient_user_ids = {"user"} \ @] \in Rule!RuleForms
    BY <1>1 DEF Rule!RuleForms
  <2>2. QED
    BY <1>12, <2>1, TypedForm DEF Rule!ToggleUser
<1>13. CASE Rule!ToggleEnabled
  <2>1. [values EXCEPT !.enabled = ~@] \in Rule!RuleForms
    BY <1>1 DEF Rule!RuleForms
  <2>2. QED
    BY <1>13, <2>1, TypedForm DEF Rule!ToggleEnabled
<1>14. QED
  BY <1>2, <1>3, <1>4, <1>5, <1>6, <1>7, <1>8, <1>9, <1>10, <1>11, <1>12, <1>13

LEMMA RuleNext == ASSUME RuleInv, [Rule!Next]_(Rule!formVars) PROVE RuleInv'
<1>1. CASE Rule!Save
  BY <1>1 DEF RuleInv, Rule!TypeOK, Rule!Save
<1>2. CASE UNCHANGED Rule!formVars
  BY <1>2 DEF RuleInv, Rule!TypeOK, Rule!formVars
<1>3. QED
  BY <1>1, <1>2, RuleInputs DEF Rule!Next

LEMMA RuleInit == ASSUME Rule!Init PROVE RuleInv
<1>1. Rule!DEFAULT_RULE_FORM_VALUES \in Rule!RuleForms
  BY DEF Rule!DEFAULT_RULE_FORM_VALUES, Rule!RuleForms, Rule!Modes, Rule!Delays, Rule!Windows,
         Rule!Selectors, Rule!Names, Rule!EventCodes, Rule!CronExpressions
<1>2. QED
  BY <1>1 DEF RuleInv, Rule!TypeOK, Rule!Init

---------------------------------------------------------------------------
\* Every error is on the screen but that of a window the event mode hides and that
\* of an event any other mode hides.
LEMMA ErrorsShown ==
  ASSUME NEW v, Rule!Errors(v) # {}
  PROVE  \/ Rule!Errors(v) \cap Rule!ShownErrors(v) # {}
         \/ v.trigger_mode = "event" /\ v.window = "reversed"
         \/ v.trigger_mode # "event" /\ v.event_code = "over"
<1>1. ASSUME NEW f \in Rule!Errors(v), f \notin {"end_at", "event_code"}
      PROVE  f \in Rule!ShownErrors(v)
  BY <1>1 DEF Rule!Errors, Rule!ShownErrors, Rule!TimeMissing, Rule!WeekdaysMissing
<1>2. ASSUME "end_at" \in Rule!Errors(v), v.trigger_mode # "event"
      PROVE  "end_at" \in Rule!ShownErrors(v)
  BY <1>2 DEF Rule!ShownErrors
<1>3. "end_at" \in Rule!Errors(v) => v.window = "reversed"
  BY DEF Rule!Errors
<1>4. "event_code" \in Rule!Errors(v) /\ v.trigger_mode # "event" => v.event_code = "over"
  BY DEF Rule!Errors
<1>5. v.trigger_mode = "event" => "event_code" \in Rule!ShownErrors(v)
  BY DEF Rule!ShownErrors
<1>6. QED
  BY <1>1, <1>2, <1>3, <1>4, <1>5

\* What the request carries of a form.
LEMMA ParamFields ==
  ASSUME NEW v \in Rule!RuleForms
  PROVE  LET p == Rule!Param(v) IN
         /\ p.basics = v.basics /\ p.enabled = v.enabled
         /\ p.trigger_mode = v.trigger_mode /\ p.event_code = v.event_code
         /\ p.delay_seconds = v.delay_seconds
         /\ p.recipient_selector_type = v.recipient_selector_type
         /\ v.trigger_mode = "fixed_schedule" =>
              p.schedule_kind = v.schedule_kind /\ p.schedule_time = v.schedule_time
         /\ v.trigger_mode = "fixed_schedule" /\ v.schedule_kind = "weekly" =>
              p.schedule_weekdays = v.schedule_weekdays
         /\ p.cron_expression =
              IF v.trigger_mode = "cron_expression" THEN v.cron_expression ELSE ""
         /\ v.recipient_selector_type = "explicit_users" =>
              p.recipient_user_ids = v.recipient_user_ids
BY DEF Rule!Param, Rule!RuleForms

\* A form without an error is refused for what only the server looks at.
LEMMA RefusalCauses ==
  ASSUME NEW v \in Rule!RuleForms, Rule!Errors(v) = {}, ~Rule!BrowserBlocks(v),
         ~Rule!Accepted(Rule!Param(v))
  PROVE  Rule!OnlyServerRefuses(v)
<1> DEFINE p == Rule!Param(v)
<1> SUFFICES ASSUME ~Rule!OnlyServerRefuses(v) PROVE FALSE
  OBVIOUS
<1>1. /\ v.trigger_mode = "event" => v.event_code # ""
      /\ v.event_code # "over" /\ v.basics # ""
  BY DEF Rule!Errors
<1>2. /\ v.recipient_selector_type # "actor" /\ v.delay_seconds # "huge"
      /\ v.basics # "wide" /\ v.event_code # "wide"
      /\ v.trigger_mode = "cron_expression" =>
           v.cron_expression # "long" /\ (v.enabled => v.cron_expression # "bad")
      /\ v.trigger_mode # "delay_once" => v.delay_seconds \notin {"0", "1.5"}
  BY DEF Rule!OnlyServerRefuses
<1>3. v.trigger_mode = "delay_once" => v.delay_seconds \notin {"", "0"}
  BY DEF Rule!Errors
<1>4. v.trigger_mode = "fixed_schedule" => v.schedule_time # ""
  BY DEF Rule!Errors, Rule!TimeMissing
<1>5. v.trigger_mode = "fixed_schedule" /\ v.schedule_kind = "weekly" => v.schedule_weekdays # {}
  BY DEF Rule!Errors, Rule!WeekdaysMissing
<1>6. v.trigger_mode = "cron_expression" => v.cron_expression # ""
  BY DEF Rule!Errors
<1>7. v.recipient_selector_type = "explicit_users" => v.recipient_user_ids # {}
  BY DEF Rule!Errors
<1>8. v.schedule_kind # "" /\ v.delay_seconds \in {"", "0", "1.5", "60", "huge"}
  BY DEF Rule!RuleForms, Rule!Delays
<1>9. Rule!CommandOk(p)
  BY <1>1, <1>2, <1>3, <1>4, <1>5, <1>6, <1>7, <1>8, ParamFields DEF Rule!CommandOk
<1>10. Rule!ScheduleOk(p)
  BY <1>2, ParamFields DEF Rule!ScheduleOk
<1>11. Rule!RequestOk(p)
  <2>1. p.delay_seconds \in {"", "60"}
    BY <1>2, <1>8, ParamFields DEF Rule!BrowserBlocks
  <2>2. p.cron_expression # "long"
    BY <1>2, ParamFields
  <2>3. QED
    BY <1>1, <1>2, <1>7, <2>1, <2>2, ParamFields DEF Rule!RequestOk
<1>12. QED
  BY <1>9, <1>10, <1>11 DEF Rule!Accepted

\* The server takes no form that only it would refuse.
LEMMA SavedForeseen ==
  ASSUME NEW v \in Rule!RuleForms, Rule!Accepted(Rule!Param(v))
  PROVE  ~Rule!OnlyServerRefuses(v)
<1> DEFINE p == Rule!Param(v)
<1>1. /\ p.recipient_selector_type # "actor" /\ p.delay_seconds \in {"", "60"}
      /\ p.cron_expression # "long"
  BY DEF Rule!Accepted, Rule!RequestOk
<1>2. p.basics # "wide" /\ p.event_code # "wide"
  BY DEF Rule!Accepted, Rule!CommandOk
<1>3. p.enabled /\ p.trigger_mode = "cron_expression" => p.cron_expression # "bad"
  BY DEF Rule!Accepted, Rule!ScheduleOk
<1>4. QED
  BY <1>1, <1>2, <1>3, ParamFields DEF Rule!OnlyServerRefuses

\* Two forms that agree on what their mode shows are shown alike.
LEMMA SeenAlike ==
  ASSUME NEW fields, NEW v, NEW w,
         fields = {"basics", "trigger_mode", "event_code", "delay_seconds", "schedule_kind",
                   "schedule_time", "schedule_weekdays", "cron_expression", "window",
                   "recipient_selector_type", "recipient_user_ids", "enabled"},
         v = [f \in fields |-> v[f]], w = [f \in fields |-> w[f]],
         w.basics = v.basics, w.enabled = v.enabled, w.trigger_mode = v.trigger_mode,
         w.event_code = v.event_code, w.delay_seconds = v.delay_seconds,
         w.window = v.window, w.recipient_selector_type = v.recipient_selector_type,
         v.trigger_mode = "fixed_schedule" =>
           w.schedule_kind = v.schedule_kind /\ w.schedule_time = v.schedule_time,
         v.trigger_mode = "fixed_schedule" /\ v.schedule_kind = "weekly" =>
           w.schedule_weekdays = v.schedule_weekdays,
         v.trigger_mode = "cron_expression" => w.cron_expression = v.cron_expression,
         v.recipient_selector_type = "explicit_users" =>
           w.recipient_user_ids = v.recipient_user_ids
  PROVE  Rule!Seen(w) = Rule!Seen(v)
<1>1. Rule!Seen(w).basics = Rule!Seen(v).basics
  BY DEF Rule!Seen
<1>2. Rule!Seen(w).trigger_mode = Rule!Seen(v).trigger_mode
  BY DEF Rule!Seen
<1>3. Rule!Seen(w).recipient_selector_type = Rule!Seen(v).recipient_selector_type
  BY DEF Rule!Seen
<1>4. Rule!Seen(w).event_code = Rule!Seen(v).event_code
  BY DEF Rule!Seen
<1>5. Rule!Seen(w).delay_seconds = Rule!Seen(v).delay_seconds
  BY DEF Rule!Seen
<1>6. Rule!Seen(w).schedule_kind = Rule!Seen(v).schedule_kind
  BY DEF Rule!Seen
<1>7. Rule!Seen(w).schedule_time = Rule!Seen(v).schedule_time
  BY DEF Rule!Seen
<1>8. Rule!Seen(w).schedule_weekdays = Rule!Seen(v).schedule_weekdays
  BY DEF Rule!Seen
<1>9. Rule!Seen(w).cron_expression = Rule!Seen(v).cron_expression
  BY DEF Rule!Seen
<1>10. Rule!Seen(w).window = Rule!Seen(v).window
  BY DEF Rule!Seen
<1>11. Rule!Seen(w).recipient_user_ids = Rule!Seen(v).recipient_user_ids
  BY DEF Rule!Seen
<1>12. Rule!Seen(w).enabled = Rule!Seen(v).enabled
  BY DEF Rule!Seen
<1>13. \A f \in fields : Rule!Seen(w)[f] = Rule!Seen(v)[f]
  BY <1>1, <1>2, <1>3, <1>4, <1>5, <1>6, <1>7, <1>8, <1>9, <1>10, <1>11, <1>12
<1>14. /\ Rule!Seen(v) = [f \in fields |-> Rule!Seen(v)[f]]
       /\ Rule!Seen(w) = [f \in fields |-> Rule!Seen(w)[f]]
  BY DEF Rule!Seen
<1>15. QED
  BY <1>13, <1>14

\* A stored rule reads back as it was shown.
LEMMA ReadsBack ==
  ASSUME NEW v \in Rule!RuleForms
  PROVE  Rule!Seen(Rule!FormOf(Rule!Param(v))) = Rule!Seen(v)
<1> DEFINE p == Rule!Param(v)
           q == Rule!FormOf(p)
           fields == DOMAIN v
<1>1. /\ p = [f \in fields |-> p[f]] /\ q = [f \in fields |-> q[f]]
  <2>1. v = [f \in fields |-> v[f]]
    BY DEF Rule!RuleForms
  <2>2. p = [f \in fields |-> p[f]]
    BY <2>1 DEF Rule!Param
  <2>3. q = [f \in fields |-> q[f]]
    BY <2>2 DEF Rule!FormOf
  <2>4. QED
    BY <2>2, <2>3
<1>2. fields = {"basics", "trigger_mode", "event_code", "delay_seconds", "schedule_kind",
                "schedule_time", "schedule_weekdays", "cron_expression", "window",
                "recipient_selector_type", "recipient_user_ids", "enabled"}
  BY DEF Rule!RuleForms
<1>3. /\ q.basics = v.basics /\ q.enabled = v.enabled /\ q.trigger_mode = v.trigger_mode
      /\ q.event_code = v.event_code /\ q.delay_seconds = v.delay_seconds
      /\ q.window = v.window /\ q.recipient_selector_type = v.recipient_selector_type
      /\ v.trigger_mode = "fixed_schedule" =>
           q.schedule_kind = v.schedule_kind /\ q.schedule_time = v.schedule_time
      /\ v.trigger_mode = "fixed_schedule" /\ v.schedule_kind = "weekly" =>
           q.schedule_weekdays = v.schedule_weekdays
      /\ v.trigger_mode = "cron_expression" => q.cron_expression = v.cron_expression
      /\ v.recipient_selector_type = "explicit_users" =>
           q.recipient_user_ids = v.recipient_user_ids
  <2>1. v.schedule_kind # ""
    BY DEF Rule!RuleForms
  <2>2. p.basics = v.basics /\ p.window = v.window
    BY DEF Rule!Param, Rule!SentWindow, Rule!RuleForms
  <2>3. \A f \in fields \ {"schedule_kind"} : q[f] = p[f]
    BY <1>1 DEF Rule!FormOf
  <2>4. q.schedule_kind = IF p.schedule_kind = "" THEN "daily" ELSE p.schedule_kind
    BY <1>1, <1>2 DEF Rule!FormOf
  <2>5. QED
    BY <1>2, <2>1, <2>2, <2>3, <2>4, ParamFields
<1>4. v = [f \in fields |-> v[f]]
  BY DEF Rule!RuleForms
<1>5. QED
  BY <1>1, <1>2, <1>3, <1>4, SeenAlike

\* The form of a rule keeps its types.
THEOREM RuleTyped == Rule!Spec => []Rule!TypeOK
<1>1. RuleInv => Rule!TypeOK
  BY DEF RuleInv
<1>2. QED
  BY <1>1, RuleInit, RuleNext, PTL DEF Rule!Spec

\* Save stores the rule that is shown, or the dialog shows what is wrong with it, or
\* the server refuses it for a cause the form does not check.
THEOREM RuleSaves == Rule!Spec => []Rule!SaveDoesAsShown
<1>1. RuleInv => Rule!SaveDoesAsShown
  BY ErrorsShown, RefusalCauses, SavedForeseen, ReadsBack
     DEF RuleInv, Rule!TypeOK, Rule!SaveDoesAsShown, Rule!InvalidShown, Rule!RefusalHasCause,
         Rule!SavedReadsBack
<1>2. QED
  BY <1>1, RuleInit, RuleNext, PTL DEF Rule!Spec

---------------------------------------------------------------------------
(* NotificationDialogs: the dialogs of the notifications page *)

MessageTypes == Messages!TypeOK

\* One dialog is open at a time.
OneDialog ==
  \A k \in Messages!Kinds, j \in Messages!Kinds : dialogs[k].open /\ dialogs[j].open => k = j

\* What is listed exists, and a rule is only sent where a template is listed, so
\* that its dialog does not make way for the template's.
ListedExists ==
  /\ \A k \in Messages!RowKinds : listed[k] # None => saved[k] # None
  /\ pending["rule"].st = "sent" => listed["template"] # None

\* A call carries a text, not the empty form.
CallHasText ==
  \A k \in Messages!Kinds : pending[k].st = "sent" => pending[k].text \in MessageTexts

\* A message that can be offered again, in a shut dialog or a fresh one, was sent.
OldMessage ==
  (~dialogs["send"].open \/ fresh["send"]) /\ typed["send"] # "blank" =>
    closedBy["send"] = "success"

MessagesInv ==
  /\ MessageTypes /\ OneDialog /\ ListedExists /\ CallHasText
  /\ Messages!CallHasDialog /\ OldMessage

LEMMA MessagesInit == ASSUME Messages!ConstantsOK, Messages!Init PROVE MessagesInv
<1>1. /\ dialogs = [k \in Messages!Kinds |-> Messages!DEFAULT_DIALOG]
      /\ pending = [k \in Messages!Kinds |-> Messages!NoCall]
      /\ typed = [k \in Messages!Kinds |-> "blank"]
      /\ listed = [k \in Messages!RowKinds |-> None]
  BY DEF Messages!Init, Messages!Shut
<1>2. MessageTypes
  BY <1>1
     DEF Messages!Init, MessageTypes, Messages!TypeOK, Messages!ConstantsOK, Messages!Forms,
         Messages!DEFAULT_DIALOG, Messages!NoCall
<1>3. OneDialog /\ ListedExists /\ CallHasText /\ Messages!CallHasDialog /\ OldMessage
  BY <1>1
     DEF OneDialog, ListedExists, CallHasText, Messages!CallHasDialog, OldMessage,
         Messages!DEFAULT_DIALOG, Messages!NoCall, Messages!Kinds, Messages!RowKinds
<1>4. QED
  BY <1>2, <1>3 DEF MessagesInv

LEMMA MessageSpend ==
  ASSUME Messages!ConstantsOK, MessageTypes, Messages!Spend
  PROVE  budget' \in [inputs : 0 .. MaxMessageInputs, errors : 0 .. MaxMessageErrors]
BY DEF MessageTypes, Messages!TypeOK, Messages!ConstantsOK, Messages!Spend

\* The page opens the one dialog of kind k, on the row of that kind or on none.
LEMMA MessageOpenStep ==
  ASSUME Messages!ConstantsOK, MessagesInv, NEW k \in Messages!Kinds,
         NEW item \in MessageTexts \cup {None},
         Messages!PageReachable, Messages!Spend, Messages!OpenFor(k, item),
         UNCHANGED <<saved, listed, typed, pending, closedBy>>
  PROVE  MessagesInv'
<1>1. /\ dialogs' = [dialogs EXCEPT ![k] = [open |-> TRUE, item |-> item]]
      /\ fresh' = [fresh EXCEPT ![k] = TRUE]
      /\ \A j \in Messages!Kinds : ~dialogs[j].open
  BY DEF Messages!OpenFor, Messages!PageReachable
<1>2. MessageTypes'
  BY <1>1, MessageSpend DEF MessagesInv, MessageTypes, Messages!TypeOK, Messages!Forms
<1>3. \A j \in Messages!Kinds : pending[j].st # "sent"
  BY <1>1 DEF MessagesInv, Messages!CallHasDialog
<1>4. OneDialog' /\ Messages!CallHasDialog'
  BY <1>1, <1>3 DEF MessagesInv, MessageTypes, Messages!TypeOK, OneDialog,
     Messages!CallHasDialog
<1>5. OldMessage'
  BY <1>1 DEF MessagesInv, OldMessage, Messages!Kinds
<1>6. QED
  BY <1>2, <1>4, <1>5 DEF MessagesInv, ListedExists, CallHasText

LEMMA OpensStep ==
  ASSUME Messages!ConstantsOK, MessagesInv,
         \/ Messages!OpenSend
         \/ \E k \in Messages!RowKinds : Messages!OpenCreate(k) \/ Messages!OpenEdit(k)
  PROVE  MessagesInv'
<1>1. CASE Messages!OpenSend
  BY <1>1, MessageOpenStep DEF Messages!OpenSend, Messages!Kinds
<1>2. ASSUME NEW k \in Messages!RowKinds, Messages!OpenCreate(k) PROVE MessagesInv'
  BY <1>2, MessageOpenStep DEF Messages!OpenCreate, Messages!Kinds
<1>3. ASSUME NEW k \in Messages!RowKinds, Messages!OpenEdit(k) PROVE MessagesInv'
  <2>1. listed[k] \in MessageTexts \cup {None} /\ k \in Messages!Kinds
    BY DEF MessagesInv, MessageTypes, Messages!TypeOK, Messages!Kinds
  <2>2. QED
    BY <1>3, <2>1, MessageOpenStep DEF Messages!OpenEdit
<1>4. QED
  BY <1>1, <1>2, <1>3

\* The list is read, or another administrator saves: the dialogs stay.
LEMMA RowsStep ==
  ASSUME Messages!ConstantsOK, MessagesInv, NEW k \in Messages!RowKinds,
         Messages!Load(k) \/ Messages!Elsewhere(k)
  PROVE  MessagesInv'
<1>1. UNCHANGED <<dialogs, typed, fresh, pending, closedBy>>
  BY DEF Messages!Load, Messages!Elsewhere
<1>2. MessageTypes' /\ ListedExists'
  <2>1. CASE Messages!Load(k)
    <3>1. listed' = [listed EXCEPT ![k] = saved[k]] /\ UNCHANGED <<saved, budget>>
      BY <2>1 DEF Messages!Load
    <3>2. saved[k] \in MessageTexts \cup {None} /\ listed[k] # saved[k]
      BY <2>1 DEF MessagesInv, MessageTypes, Messages!TypeOK, Messages!Load
    <3>3. ListedExists'
      BY <1>1, <3>1, <3>2
         DEF MessagesInv, MessageTypes, Messages!TypeOK, ListedExists, Messages!RowKinds
    <3>4. QED
      BY <1>1, <3>1, <3>2, <3>3 DEF MessagesInv, MessageTypes, Messages!TypeOK, Messages!Forms
  <2>2. CASE Messages!Elsewhere(k)
    <3>1. PICK text \in MessageTexts : saved' = [saved EXCEPT ![k] = text] /\ UNCHANGED listed
      BY <2>2 DEF Messages!Elsewhere
    <3>2. budget' \in [inputs : 0 .. MaxMessageInputs, errors : 0 .. MaxMessageErrors]
      BY <2>2, MessageSpend DEF MessagesInv, Messages!Elsewhere
    <3>3. ListedExists'
      BY <1>1, <3>1
         DEF MessagesInv, MessageTypes, Messages!TypeOK, ListedExists, Messages!ConstantsOK
    <3>4. QED
      BY <1>1, <3>1, <3>2, <3>3 DEF MessagesInv, MessageTypes, Messages!TypeOK, Messages!Forms
  <2>3. QED
    BY <2>1, <2>2
<1>3. QED
  BY <1>1, <1>2 DEF MessagesInv, OneDialog, CallHasText, Messages!CallHasDialog, OldMessage

\* Typing changes a form whose call is not under way, and stains its dialog.
LEMMA WriteStep ==
  ASSUME Messages!ConstantsOK, MessagesInv, NEW k \in Messages!Kinds,
         NEW text \in Messages!Forms, Messages!Write(k, text)
  PROVE  MessagesInv'
<1>1. /\ typed' = [typed EXCEPT ![k] = text] /\ fresh' = [fresh EXCEPT ![k] = FALSE]
      /\ dialogs[k].open /\ pending[k].st = "none"
      /\ UNCHANGED <<saved, listed, dialogs, pending, closedBy>>
  BY DEF Messages!Write, Messages!isBusy
<1>2. MessageTypes'
  BY <1>1, MessageSpend DEF MessagesInv, MessageTypes, Messages!TypeOK, Messages!Write
<1>3. Messages!CallHasDialog'
  BY <1>1 DEF MessagesInv, MessageTypes, Messages!TypeOK, Messages!CallHasDialog
<1>4. OldMessage'
  BY <1>1 DEF MessagesInv, MessageTypes, Messages!TypeOK, OldMessage, Messages!Kinds
<1>5. QED
  BY <1>1, <1>2, <1>3, <1>4 DEF MessagesInv, OneDialog, ListedExists, CallHasText

LEMMA TypesStep ==
  ASSUME Messages!ConstantsOK, MessagesInv,
         Messages!ApplyTemplate \/ \E k \in Messages!Kinds : Messages!Type(k)
  PROVE  MessagesInv'
<1>1. CASE Messages!ApplyTemplate
  <2>1. listed["template"] \in Messages!Forms /\ "send" \in Messages!Kinds
    BY <1>1
       DEF MessagesInv, MessageTypes, Messages!TypeOK, Messages!Forms, Messages!ApplyTemplate,
           Messages!Kinds, Messages!RowKinds
  <2>2. QED
    BY <1>1, <2>1, WriteStep DEF Messages!ApplyTemplate
<1>2. QED
  BY <1>1, WriteStep DEF Messages!Type

\* A dialog whose call is not on its way is shut.
LEMMA CancelStep ==
  ASSUME Messages!ConstantsOK, MessagesInv, NEW k \in Messages!Kinds, Messages!Cancel(k)
  PROVE  MessagesInv'
<1>1. /\ dialogs' = [dialogs EXCEPT ![k] = [open |-> FALSE, item |-> None]]
      /\ typed' = IF k = "send" THEN [typed EXCEPT ![k] = "blank"] ELSE typed
      /\ closedBy' = [closedBy EXCEPT ![k] = "cancel"]
      /\ pending[k].st = "none"
      /\ UNCHANGED <<saved, listed, fresh, pending, budget>>
  BY DEF Messages!Cancel, Messages!Closable, Messages!isBusy, Messages!Cancelled,
         Messages!DEFAULT_DIALOG
<1>2. MessageTypes'
  BY <1>1 DEF MessagesInv, MessageTypes, Messages!TypeOK, Messages!Forms
<1>3. OneDialog' /\ Messages!CallHasDialog'
  BY <1>1 DEF MessagesInv, MessageTypes, Messages!TypeOK, OneDialog, Messages!CallHasDialog
<1>4. OldMessage'
  BY <1>1 DEF MessagesInv, MessageTypes, Messages!TypeOK, OldMessage, Messages!Kinds
<1>5. QED
  BY <1>1, <1>2, <1>3, <1>4 DEF MessagesInv, ListedExists, CallHasText

\* The dialog of a rule that could not be sent makes way for the template's.
LEMMA NewTemplateStep ==
  ASSUME Messages!ConstantsOK, MessagesInv, Messages!NewTemplate PROVE MessagesInv'
<1> DEFINE made == [open |-> TRUE, item |-> None]
<1>1. /\ dialogs' = [[dialogs EXCEPT !["rule"] = [open |-> FALSE, item |-> None]]
                       EXCEPT !["template"] = made]
      /\ fresh' = [fresh EXCEPT !["template"] = TRUE]
      /\ closedBy' = [closedBy EXCEPT !["rule"] = "jump"]
      /\ dialogs["rule"].open /\ listed["template"] = None
      /\ UNCHANGED <<saved, listed, typed, pending, budget>>
  BY DEF Messages!NewTemplate, Messages!DEFAULT_DIALOG
<1>2. /\ Messages!Kinds = {"send", "template", "rule"}
      /\ Messages!RowKinds = {"template", "rule"}
  BY DEF Messages!Kinds, Messages!RowKinds
<1>3. pending["rule"].st # "sent" /\ pending["template"].st # "sent"
  BY <1>1, <1>2 DEF MessagesInv, ListedExists, Messages!CallHasDialog, OneDialog
<1>4. ~dialogs["send"].open
  BY <1>1, <1>2 DEF MessagesInv, OneDialog
<1>5. /\ dialogs' \in [Messages!Kinds -> [open : BOOLEAN, item : MessageTexts \cup {None}]]
      /\ dialogs'["send"] = dialogs["send"] /\ dialogs'["template"] = made
      /\ ~dialogs'["rule"].open
  BY <1>1, <1>2 DEF MessagesInv, MessageTypes, Messages!TypeOK
<1>6. MessageTypes'
  BY <1>1, <1>2, <1>5 DEF MessagesInv, MessageTypes, Messages!TypeOK
<1>7. OneDialog' /\ Messages!CallHasDialog'
  BY <1>1, <1>2, <1>3, <1>4, <1>5 DEF MessagesInv, OneDialog, Messages!CallHasDialog
<1>8. OldMessage'
  BY <1>1, <1>2, <1>4, <1>5 DEF MessagesInv, MessageTypes, Messages!TypeOK, OldMessage
<1>9. QED
  BY <1>1, <1>6, <1>7, <1>8 DEF MessagesInv, ListedExists, CallHasText

LEMMA MessageSubmitStep ==
  ASSUME Messages!ConstantsOK, MessagesInv, NEW k \in Messages!Kinds, Messages!Submit(k)
  PROVE  MessagesInv'
<1> DEFINE call == [st |-> "sent", item |-> dialogs[k].item, text |-> typed[k]]
<1>1. /\ pending' = [pending EXCEPT ![k] = call]
      /\ dialogs[k].open /\ typed[k] # "blank" /\ (k = "rule" => listed["template"] # None)
      /\ UNCHANGED <<saved, listed, dialogs, typed, fresh, closedBy, budget>>
  BY DEF Messages!Submit, Messages!Submittable
<1>2. typed[k] \in MessageTexts /\ dialogs[k].item \in MessageTexts \cup {None}
  BY <1>1 DEF MessagesInv, MessageTypes, Messages!TypeOK, Messages!Forms
<1>3. pending' \in [Messages!Kinds -> [st : {"none", "sent", "settling"},
                                       item : MessageTexts \cup {None}, text : MessageTexts \cup {None}]]
  BY <1>1, <1>2 DEF MessagesInv, MessageTypes, Messages!TypeOK
<1>4. MessageTypes'
  BY <1>1, <1>3 DEF MessagesInv, MessageTypes, Messages!TypeOK
<1>5. CallHasText' /\ Messages!CallHasDialog' /\ ListedExists'
  BY <1>1, <1>2
     DEF MessagesInv, MessageTypes, Messages!TypeOK, CallHasText, Messages!CallHasDialog,
         ListedExists, Messages!Kinds, Messages!RowKinds
<1>6. QED
  BY <1>1, <1>4, <1>5 DEF MessagesInv, OneDialog, OldMessage

\* What the server does of a call keeps the rows, and loses none.
LEMMA AppliedRows ==
  ASSUME Messages!ConstantsOK, MessagesInv, NEW k \in Messages!Kinds, pending[k].st = "sent"
  PROVE  /\ Messages!Applied(k) \in [Messages!RowKinds -> MessageTexts \cup {None}]
         /\ \A j \in Messages!RowKinds : saved[j] # None => Messages!Applied(k)[j] # None
<1>1. pending[k].text \in MessageTexts /\ None \notin MessageTexts
  BY DEF MessagesInv, CallHasText, Messages!ConstantsOK
<1>2. QED
  BY <1>1 DEF MessagesInv, MessageTypes, Messages!TypeOK, Messages!Applied

\* The dialog is open, so it is the one the success closes.
LEMMA MessageSucceedStep ==
  ASSUME Messages!ConstantsOK, MessagesInv, NEW k \in Messages!Kinds, Messages!Succeed(k)
  PROVE  MessagesInv'
<1>1. /\ pending[k].st = "sent" /\ saved' = Messages!Applied(k)
      /\ dialogs' = [dialogs EXCEPT ![k] = [open |-> FALSE, item |-> None]]
      /\ closedBy' = [closedBy EXCEPT ![k] = "success"]
      /\ pending' = [pending EXCEPT ![k] = [pending[k] EXCEPT !.st = "settling"]]
      /\ UNCHANGED <<listed, typed, fresh, budget>>
  BY DEF Messages!Succeed, Messages!DEFAULT_DIALOG
<1>2. /\ saved' \in [Messages!RowKinds -> MessageTexts \cup {None}]
      /\ \A j \in Messages!RowKinds : saved[j] # None => saved'[j] # None
  BY <1>1, AppliedRows
<1>3. /\ pending' \in [Messages!Kinds -> [st : {"none", "sent", "settling"},
                                          item : MessageTexts \cup {None}, text : MessageTexts \cup {None}]]
      /\ pending'[k].st = "settling"
      /\ \A j \in Messages!Kinds \ {k} : pending'[j] = pending[j]
  BY <1>1 DEF MessagesInv, MessageTypes, Messages!TypeOK
<1>4. MessageTypes'
  BY <1>1, <1>2, <1>3 DEF MessagesInv, MessageTypes, Messages!TypeOK, Messages!Forms
<1>5. OneDialog' /\ CallHasText' /\ Messages!CallHasDialog'
  BY <1>1, <1>3
     DEF MessagesInv, MessageTypes, Messages!TypeOK, OneDialog, CallHasText, Messages!CallHasDialog
<1>6. ListedExists'
  BY <1>1, <1>2, <1>3 DEF MessagesInv, ListedExists, Messages!Kinds, Messages!RowKinds
<1>7. OldMessage'
  BY <1>1 DEF MessagesInv, MessageTypes, Messages!TypeOK, OldMessage, Messages!Kinds
<1>8. QED
  BY <1>4, <1>5, <1>6, <1>7 DEF MessagesInv

LEMMA FailStep ==
  ASSUME Messages!ConstantsOK, MessagesInv, NEW k \in Messages!Kinds, Messages!Fail(k)
  PROVE  MessagesInv'
<1>1. /\ pending[k].st = "sent" /\ saved' \in {saved, Messages!Applied(k)}
      /\ pending' = [pending EXCEPT ![k] = Messages!NoCall]
      /\ budget' = [budget EXCEPT !.errors = @ + 1] /\ budget.errors < MaxMessageErrors
      /\ UNCHANGED <<listed, dialogs, typed, fresh, closedBy>>
  BY DEF Messages!Fail
<1>2. /\ saved' \in [Messages!RowKinds -> MessageTexts \cup {None}]
      /\ \A j \in Messages!RowKinds : saved[j] # None => saved'[j] # None
  BY <1>1, AppliedRows DEF MessagesInv, MessageTypes, Messages!TypeOK
<1>3. Messages!NoCall \in [st : {"none", "sent", "settling"}, item : MessageTexts \cup {None},
                           text : MessageTexts \cup {None}] /\ Messages!NoCall.st = "none"
  BY DEF Messages!NoCall
<1>4. /\ pending' \in [Messages!Kinds -> [st : {"none", "sent", "settling"},
                                          item : MessageTexts \cup {None}, text : MessageTexts \cup {None}]]
      /\ pending'[k].st = "none"
      /\ \A j \in Messages!Kinds \ {k} : pending'[j] = pending[j]
  BY <1>1, <1>3 DEF MessagesInv, MessageTypes, Messages!TypeOK
<1>5. budget' \in [inputs : 0 .. MaxMessageInputs, errors : 0 .. MaxMessageErrors]
  BY <1>1 DEF MessagesInv, MessageTypes, Messages!TypeOK, Messages!ConstantsOK
<1>6. MessageTypes'
  BY <1>1, <1>2, <1>4, <1>5 DEF MessagesInv, MessageTypes, Messages!TypeOK, Messages!Forms
<1>7. CallHasText' /\ Messages!CallHasDialog'
  BY <1>1, <1>4 DEF MessagesInv, CallHasText, Messages!CallHasDialog
<1>8. ListedExists'
  BY <1>1, <1>2, <1>4 DEF MessagesInv, ListedExists, Messages!Kinds, Messages!RowKinds
<1>9. QED
  BY <1>1, <1>6, <1>7, <1>8 DEF MessagesInv, OneDialog, OldMessage

LEMMA SettleStep ==
  ASSUME Messages!ConstantsOK, MessagesInv, NEW k \in Messages!Kinds, Messages!Settle(k)
  PROVE  MessagesInv'
<1>1. /\ listed' = IF k \in Messages!RowKinds THEN [listed EXCEPT ![k] = saved[k]] ELSE listed
      /\ pending' = [pending EXCEPT ![k] = Messages!NoCall]
      /\ UNCHANGED <<saved, dialogs, typed, fresh, closedBy, budget>>
  BY DEF Messages!Settle
<1>2. Messages!NoCall \in [st : {"none", "sent", "settling"}, item : MessageTexts \cup {None},
                           text : MessageTexts \cup {None}] /\ Messages!NoCall.st = "none"
  BY DEF Messages!NoCall
<1>3. /\ pending' \in [Messages!Kinds -> [st : {"none", "sent", "settling"},
                                          item : MessageTexts \cup {None}, text : MessageTexts \cup {None}]]
      /\ pending'[k].st = "none"
      /\ \A j \in Messages!Kinds \ {k} : pending'[j] = pending[j]
  BY <1>1, <1>2 DEF MessagesInv, MessageTypes, Messages!TypeOK
<1>4. listed' \in [Messages!RowKinds -> MessageTexts \cup {None}]
  BY <1>1 DEF MessagesInv, MessageTypes, Messages!TypeOK
<1>5. MessageTypes'
  BY <1>1, <1>3, <1>4 DEF MessagesInv, MessageTypes, Messages!TypeOK, Messages!Forms
<1>6. CallHasText' /\ Messages!CallHasDialog'
  BY <1>1, <1>3 DEF MessagesInv, CallHasText, Messages!CallHasDialog
<1>7. ListedExists'
  BY <1>1, <1>3, <1>4
     DEF MessagesInv, MessageTypes, Messages!TypeOK, ListedExists, Messages!Kinds, Messages!RowKinds
<1>8. QED
  BY <1>1, <1>5, <1>6, <1>7 DEF MessagesInv, OneDialog, OldMessage

LEMMA MessagesNext ==
  ASSUME Messages!ConstantsOK, MessagesInv, [Messages!Next]_(Messages!notificationVars)
  PROVE  MessagesInv'
<1>1. CASE UNCHANGED Messages!notificationVars
  BY <1>1
     DEF MessagesInv, MessageTypes, Messages!TypeOK, OneDialog, ListedExists, CallHasText,
         Messages!CallHasDialog, OldMessage, Messages!notificationVars
<1>2. QED
  BY <1>1, OpensStep, RowsStep, TypesStep, CancelStep, NewTemplateStep, MessageSubmitStep,
     MessageSucceedStep,
     FailStep, SettleStep
     DEF Messages!Next

\* The dialogs of the notifications page keep their types.
THEOREM MessagesTyped == ASSUME Messages!ConstantsOK PROVE Messages!Spec => []Messages!TypeOK
<1>1. MessagesInv => Messages!TypeOK
  BY DEF MessagesInv, MessageTypes
<1>2. QED
  BY <1>1, MessagesInit, MessagesNext, PTL DEF Messages!Spec

\* What was typed is not lost while its call is under way, nor offered again once
\* it was cancelled.
THEOREM MessagesKept == ASSUME Messages!ConstantsOK PROVE Messages!Spec => []Messages!TextsKept
<1>1. MessagesInv => Messages!TextsKept
  BY DEF MessagesInv, Messages!TextsKept, OldMessage, Messages!OldMessageWasSent
<1>2. QED
  BY <1>1, MessagesInit, MessagesNext, PTL DEF Messages!Spec

---------------------------------------------------------------------------
(* ProfileForm: the account settings, and the copies of what they save *)

Calm == ~outrun /\ spending.errors = 0

\* A copy of the account that has every field the user saved.
Agrees(data) == \A f \in ProfileFields : author[f] = "own" => data[f] = account[f]

\* The server has written a save, and the page does not know yet.
Answering(c) == updates[c].st \in {"committed", "served"}
Awaits(c, query) == updates[c].st = "settling" /\ query \in updates[c].waits
NoneAnswers == \A c \in ProfileCalls : ~Answering(c)

ProfileTypes ==
  /\ Profile!TypeOK
  /\ spending \in [inputs : Nat, errors : Nat] /\ outrun \in BOOLEAN
  /\ header.fetch.st \in {"read", "served"} => header.fetch.data \in Profile!Accounts
  /\ profile.fetch.st = "served" => profile.fetch.data \in Profile!Accounts
  /\ settings.open => settings.base \in Profile!Accounts /\ settings.draft \in Profile!Accounts
  /\ settings.uploading => settings.open
  /\ \A c \in ProfileCalls : updates[c].st = "sent" => updates[c].draft \in Profile!Accounts

\* Contexts on their way to Redis have what the user saved, and so has the copy
\* there, unless a save has yet to delete it.
CopiesInv ==
  Calm =>
    /\ copy # None /\ (\A c \in ProfileCalls : updates[c].st # "committed") => Agrees(copy)
    /\ header.fetch.st = "read" => Agrees(header.fetch.data)
    /\ \A data \in fills : Agrees(data)

\* A query that is over, or that no save waits for, has what the user saved.
HeaderInv ==
  Calm /\ NoneAnswers =>
    /\ header.fetch.st = "served" => Agrees(header.fetch.data)
    /\ header.fetch.st = "idle" => Agrees(header.data)
    /\ (\A c \in ProfileCalls : ~Awaits(c, "header")) => Agrees(header.data)

ProfileInv ==
  Calm /\ NoneAnswers /\ ~profile.behind =>
    /\ profile.fetch.st = "served" => Agrees(profile.fetch.data)
    /\ profile.data # None =>
         /\ profile.fetch.st = "idle" => Agrees(profile.data)
         /\ (\A c \in ProfileCalls : ~Awaits(c, "profile")) => Agrees(profile.data)

\* A form that is not excused has no save but its own, and starts from what the
\* user saved until one is written.
ProfileFormInv ==
  settings.open /\ ~settings.excused =>
    /\ \A c \in ProfileCalls : Profile!UnderWay(c) => updates[c].mine
    /\ Calm /\ (\A c \in ProfileCalls : updates[c].st \in {"none", "sent"}) =>
         Agrees(settings.base)

\* Of two saves under way neither is held to the other's, and a save alone undoes
\* nothing.
SavesInv ==
  /\ \A c \in ProfileCalls, d \in ProfileCalls :
       c # d /\ Profile!UnderWay(c) /\ Profile!UnderWay(d) => updates[c].excused
  /\ Profile!OwnSavesKept

OwnInv == ProfileTypes /\ CopiesInv /\ HeaderInv /\ ProfileInv /\ ProfileFormInv /\ SavesInv

\* Nothing but a save of the user adds to what has to be kept.
OwnKept ==
  \A f \in ProfileFields : author'[f] = "own" => author[f] = "own" /\ account'[f] = account[f]

LEMMA ProfileSpends ==
  ASSUME ProfileTypes
  PROVE  /\ Profile!Input => spending' \in [inputs : Nat, errors : Nat] /\ spending'.errors = spending.errors
         /\ Profile!Error => spending' \in [inputs : Nat, errors : Nat] /\ spending'.errors # 0
<1>1. spending \in [inputs : Nat, errors : Nat]
  BY DEF ProfileTypes
<1>2. QED
  BY <1>1 DEF Profile!Input, Profile!Error

LEMMA ProfileInit == ASSUME Profile!ConstantsOK, Profile!Init PROVE OwnInv
<1>1. /\ account \in Profile!Accounts /\ author = [f \in ProfileFields |-> None]
      /\ copy = account /\ fills = {} /\ outrun = FALSE
      /\ header = [data |-> account, fetch |-> [st |-> "idle", data |-> None]]
      /\ profile = [data |-> None, fetch |-> [st |-> "idle", data |-> None], behind |-> FALSE]
      /\ settings = [open |-> FALSE, base |-> None, draft |-> None, uploading |-> FALSE,
                     excused |-> FALSE]
      /\ spending = [inputs |-> 0, errors |-> 0]
      /\ updates = [c \in ProfileCalls |->
           [st |-> "none", base |-> None, draft |-> None, mine |-> FALSE, excused |-> FALSE,
            waits |-> {}]]
  BY DEF Profile!Init, Profile!Idle, Profile!Closed, Profile!NoUpdate
<1>2. /\ header \in [data : Profile!Accounts,
                     fetch : Profile!FetchStates({"idle", "sent", "read", "served"})]
      /\ profile \in [data : Profile!AccountOrNone,
                      fetch : Profile!FetchStates({"idle", "sent", "served"}), behind : BOOLEAN]
      /\ settings \in [open : BOOLEAN, base : Profile!AccountOrNone,
                       draft : Profile!AccountOrNone, uploading : BOOLEAN, excused : BOOLEAN]
      /\ updates \in [ProfileCalls ->
           [st : {"none", "sent", "committed", "served", "settling"},
            base : Profile!AccountOrNone, draft : Profile!AccountOrNone, mine : BOOLEAN,
            excused : BOOLEAN, waits : SUBSET {"header", "profile"}]]
  BY <1>1 DEF Profile!AccountOrNone, Profile!FetchStates
<1>3. copy \in Profile!AccountOrNone /\ author \in [ProfileFields -> {None, "own", "other"}]
  BY <1>1 DEF Profile!AccountOrNone
<1>4. ProfileTypes
  BY <1>1, <1>2, <1>3 DEF ProfileTypes, Profile!TypeOK
<1>5. \A data : data = account => Agrees(data)
  BY DEF Agrees
<1>6. QED
  BY <1>1, <1>4, <1>5
     DEF OwnInv, CopiesInv, HeaderInv, ProfileInv, ProfileFormInv, SavesInv, Profile!OwnSavesKept,
         Profile!UnderWay

\* Redis and the fetches: every answer has what the user saved unless a save is
\* still on its way to the page.
LEMMA ServesStep ==
  ASSUME Profile!ConstantsOK, OwnInv,
         \/ Profile!Expires \/ Profile!HeaderHit \/ Profile!HeaderMiss \/ Profile!HeaderFill
         \/ Profile!HeaderRefetch \/ \E data \in Profile!Accounts : Profile!AbandonedFill(data)
  PROVE  OwnInv'
<1>1. /\ UNCHANGED <<account, author, profile, settings, updates, outrun>>
      /\ spending' \in [inputs : Nat, errors : Nat] /\ spending'.errors = spending.errors
  BY ProfileSpends
     DEF OwnInv, ProfileTypes, Profile!Expires, Profile!HeaderHit, Profile!HeaderMiss,
         Profile!HeaderFill, Profile!HeaderRefetch, Profile!AbandonedFill
<1>2. /\ copy \in Profile!AccountOrNone /\ account \in Profile!Accounts
      /\ header \in [data : Profile!Accounts,
                     fetch : Profile!FetchStates({"idle", "sent", "read", "served"})]
      /\ header.fetch.st \in {"read", "served"} => header.fetch.data \in Profile!Accounts
  BY DEF OwnInv, ProfileTypes, Profile!TypeOK
<1>3. /\ header'.data = header.data
      /\ header' \in [data : Profile!Accounts,
                      fetch : Profile!FetchStates({"idle", "sent", "read", "served"})]
      /\ header'.fetch.st \in {"read", "served"} => header'.fetch.data \in Profile!Accounts
      /\ copy' \in Profile!AccountOrNone /\ fills' \subseteq fills
  BY <1>2
     DEF Profile!Expires, Profile!HeaderHit, Profile!HeaderMiss, Profile!HeaderFill,
         Profile!HeaderRefetch, Profile!AbandonedFill, Profile!FetchStates,
         Profile!AccountOrNone, Profile!Sent
<1>4. ProfileTypes'
  BY <1>1, <1>3 DEF OwnInv, ProfileTypes, Profile!TypeOK
<1>5. CopiesInv' /\ HeaderInv'
  <2>1. CASE Profile!Expires
    BY <1>1, <2>1
       DEF OwnInv, CopiesInv, HeaderInv, Calm, NoneAnswers, Answering, Awaits, Agrees, Profile!Expires
  <2>2. CASE Profile!HeaderHit
    BY <1>1, <1>2, <2>2
       DEF OwnInv, CopiesInv, HeaderInv, Calm, NoneAnswers, Answering, Awaits, Agrees, Profile!HeaderHit
  <2>3. CASE Profile!HeaderMiss
    BY <1>1, <1>2, <2>3
       DEF OwnInv, CopiesInv, HeaderInv, Calm, NoneAnswers, Answering, Awaits, Agrees, Profile!HeaderMiss
  <2>4. CASE Profile!HeaderFill
    <3>1. /\ header.fetch.st = "read" /\ copy' = header.fetch.data /\ UNCHANGED fills
          /\ header'.fetch.st = "served" /\ header'.fetch.data = header.fetch.data
      BY <1>2, <2>4 DEF Profile!HeaderFill, Profile!FetchStates
    <3>2. QED
      BY <1>1, <1>3, <3>1
         DEF OwnInv, CopiesInv, HeaderInv, Calm, NoneAnswers, Answering, Awaits, Agrees
  <2>5. CASE Profile!HeaderRefetch
    BY <1>1, <1>2, <2>5
       DEF OwnInv, CopiesInv, HeaderInv, Calm, NoneAnswers, Answering, Awaits, Agrees,
           Profile!HeaderRefetch, Profile!Sent
  <2>6. CASE \E data \in Profile!Accounts : Profile!AbandonedFill(data)
    BY <1>1, <1>2, <2>6
       DEF OwnInv, CopiesInv, HeaderInv, Calm, NoneAnswers, Answering, Awaits, Agrees,
           Profile!AbandonedFill
  <2>7. QED
    BY <2>1, <2>2, <2>3, <2>4, <2>5, <2>6
<1>6. ProfileInv'
  BY <1>1 DEF OwnInv, ProfileInv, Calm, NoneAnswers, Answering, Awaits, Agrees
<1>7. ProfileFormInv'
  BY <1>1 DEF OwnInv, ProfileFormInv, Calm, Agrees, Profile!UnderWay
<1>8. SavesInv'
  BY <1>1 DEF OwnInv, SavesInv, Profile!OwnSavesKept, Profile!UnderWay
<1>9. QED
  BY <1>4, <1>5, <1>6, <1>7, <1>8 DEF OwnInv

\* The records of the dialog and of the saves.
Dialogs ==
  [open : BOOLEAN, base : Profile!AccountOrNone, draft : Profile!AccountOrNone,
   uploading : BOOLEAN, excused : BOOLEAN]
Saves ==
  [st : {"none", "sent", "committed", "served", "settling"}, base : Profile!AccountOrNone,
   draft : Profile!AccountOrNone, mine : BOOLEAN, excused : BOOLEAN,
   waits : SUBSET {"header", "profile"}]

LEMMA ProfileRecords ==
  ASSUME ProfileTypes
  PROVE  /\ settings \in Dialogs /\ updates \in [ProfileCalls -> Saves]
         /\ account \in Profile!Accounts /\ author \in [ProfileFields -> {None, "own", "other"}]
         /\ header.data \in Profile!Accounts
         /\ header.fetch.st \in {"idle", "sent", "read", "served"}
         /\ profile \in [data : Profile!AccountOrNone,
                         fetch : Profile!FetchStates({"idle", "sent", "served"}), behind : BOOLEAN]
         /\ profile.fetch.st \in {"idle", "sent", "served"} /\ profile.behind \in BOOLEAN
         /\ profile.data # None => profile.data \in Profile!Accounts
BY DEF ProfileTypes, Profile!TypeOK, Dialogs, Saves, Profile!FetchStates,
   Profile!AccountOrNone

\* Another administrator adds nothing the user saved, and takes none away.
LEMMA OtherStep ==
  ASSUME Profile!ConstantsOK, OwnInv, NEW f \in ProfileFields, NEW v \in Values,
         Profile!OtherEdits(f, v)
  PROVE  OwnInv'
<1>1. /\ account' = [account EXCEPT ![f] = v]
      /\ author' = [g \in ProfileFields |-> IF account'[g] # account[g] THEN "other" ELSE author[g]]
      /\ UNCHANGED <<copy, fills, header, profile, settings, updates, outrun>>
      /\ spending' \in [inputs : Nat, errors : Nat] /\ spending'.errors = spending.errors
  BY ProfileSpends DEF OwnInv, Profile!OtherEdits, Profile!Written
<1>2. account' \in Profile!Accounts /\ author' \in [ProfileFields -> {None, "own", "other"}]
  BY <1>1, ProfileRecords DEF OwnInv, Profile!Accounts, Profile!Texts
<1>3. OwnKept
  BY <1>1 DEF OwnKept
<1>4. ProfileTypes'
  BY <1>1, <1>2 DEF OwnInv, ProfileTypes, Profile!TypeOK
<1>5. CopiesInv' /\ HeaderInv' /\ ProfileInv'
  BY <1>1, <1>3
     DEF OwnInv, CopiesInv, HeaderInv, ProfileInv, Calm, NoneAnswers, Answering, Awaits, Agrees,
         OwnKept
<1>6. ProfileFormInv'
  BY <1>1, <1>3 DEF OwnInv, ProfileFormInv, Calm, Agrees, Profile!UnderWay, OwnKept
<1>7. SavesInv'
  BY <1>1, <1>3 DEF OwnInv, SavesInv, Profile!OwnSavesKept, Profile!UnderWay, OwnKept
<1>8. QED
  BY <1>4, <1>5, <1>6, <1>7 DEF OwnInv

\* The visitor types and uploads, or closes the dialog.
LEMMA TypingStep ==
  ASSUME Profile!ConstantsOK, OwnInv,
         \/ Profile!CloseSettings \/ Profile!handleCropConfirm
         \/ \E v \in Profile!Texts : Profile!UploadEnds(v)
         \/ \E f \in ProfileFields : \E v \in Profile!Texts : Profile!Type(f, v)
  PROVE  OwnInv'
<1>1. /\ UNCHANGED <<account, author, copy, fills, header, profile, outrun>>
      /\ spending' \in [inputs : Nat, errors : Nat] /\ spending'.errors = spending.errors
      /\ settings.open
  BY ProfileSpends
     DEF OwnInv, ProfileTypes, Profile!CloseSettings, Profile!handleCropConfirm,
         Profile!UploadEnds, Profile!Type
<1>2. /\ settings \in Dialogs /\ updates \in [ProfileCalls -> Saves]
      /\ settings.base \in Profile!Accounts /\ settings.draft \in Profile!Accounts
  BY <1>1, ProfileRecords DEF OwnInv, ProfileTypes
<1>3. /\ updates' \in [ProfileCalls -> Saves]
      /\ \A c \in ProfileCalls :
           /\ updates'[c].st = updates[c].st /\ updates'[c].base = updates[c].base
           /\ updates'[c].draft = updates[c].draft /\ updates'[c].excused = updates[c].excused
           /\ updates'[c].waits = updates[c].waits
           /\ settings'.open => updates'[c].mine = updates[c].mine
      /\ settings' \in Dialogs
      /\ settings'.open => /\ settings'.base = settings.base /\ settings'.excused = settings.excused
                           /\ settings'.draft \in Profile!Accounts
      /\ settings'.uploading => settings'.open
  <2>1. CASE Profile!CloseSettings
    <3>1. /\ settings' = [open |-> FALSE, base |-> None, draft |-> None, uploading |-> FALSE,
                          excused |-> FALSE]
          /\ updates' = [c \in ProfileCalls |-> [updates[c] EXCEPT !.mine = FALSE]]
      BY <2>1 DEF Profile!CloseSettings, Profile!Closed, Profile!Disowned
    <3>2. settings' \in Dialogs /\ ~settings'.open /\ ~settings'.uploading
      BY <3>1 DEF Dialogs, Profile!AccountOrNone
    <3>3. updates' \in [ProfileCalls -> Saves]
      BY <1>2, <3>1 DEF Saves
    <3>4. QED
      BY <1>2, <3>1, <3>2, <3>3 DEF Saves
  <2>2. CASE Profile!handleCropConfirm
    BY <1>2, <2>2 DEF Profile!handleCropConfirm, Dialogs
  <2>3. CASE \E v \in Profile!Texts : Profile!UploadEnds(v)
    <3>1. PICK v \in Profile!Texts :
            /\ settings' = [settings EXCEPT !.uploading = FALSE, !.draft = [@ EXCEPT ![Avatar] = v]]
            /\ UNCHANGED updates
      BY <2>3 DEF Profile!UploadEnds
    <3>2. [settings.draft EXCEPT ![Avatar] = v] \in Profile!Accounts
      BY <1>2 DEF Profile!Accounts
    <3>3. QED
      BY <1>2, <3>1, <3>2 DEF Dialogs, Profile!AccountOrNone
  <2>4. CASE \E f \in ProfileFields : \E v \in Profile!Texts : Profile!Type(f, v)
    <3>1. PICK f \in ProfileFields, v \in Profile!Texts :
            /\ settings' = [settings EXCEPT !.draft = [@ EXCEPT ![f] = v]]
            /\ UNCHANGED updates
      BY <2>4 DEF Profile!Type
    <3>2. [settings.draft EXCEPT ![f] = v] \in Profile!Accounts
      BY <1>2 DEF Profile!Accounts
    <3>3. QED
      BY <1>1, <1>2, <3>1, <3>2 DEF Dialogs, Profile!AccountOrNone
  <2>5. QED
    BY <2>1, <2>2, <2>3, <2>4
<1>4. ProfileTypes'
  BY <1>1, <1>2, <1>3 DEF OwnInv, ProfileTypes, Profile!TypeOK, Dialogs, Saves
<1>5. CopiesInv' /\ HeaderInv' /\ ProfileInv'
  BY <1>1, <1>3
     DEF OwnInv, CopiesInv, HeaderInv, ProfileInv, Calm, NoneAnswers, Answering, Awaits, Agrees
<1>6. ProfileFormInv'
  BY <1>1, <1>3 DEF OwnInv, ProfileFormInv, Calm, Agrees, Profile!UnderWay
<1>7. SavesInv'
  BY <1>1, <1>3 DEF OwnInv, SavesInv, Profile!OwnSavesKept, Profile!UnderWay
<1>8. QED
  BY <1>4, <1>5, <1>6, <1>7 DEF OwnInv

\* A form filled with what the page shows, while no save is under way and the
\* profile was read again since the last one, has what the user saved.
LEMMA FreshForm ==
  ASSUME HeaderInv', ProfileInv', settings'.open,
         settings'.base = IF profile'.data # None THEN profile'.data ELSE header'.data,
         ~settings'.excused =>
           /\ profile'.data = None \/ ~profile'.behind
           /\ \A c \in ProfileCalls : updates'[c].st = "none"
  PROVE  ProfileFormInv'
<1> SUFFICES ASSUME ~settings'.excused, Calm' PROVE Agrees(settings.base)'
  BY DEF ProfileFormInv, Profile!UnderWay
<1>1. NoneAnswers' /\ \A c \in ProfileCalls : ~Awaits(c, "header")' /\ ~Awaits(c, "profile")'
  BY DEF NoneAnswers, Answering, Awaits
<1>2. Agrees(header.data)'
  BY <1>1 DEF HeaderInv
<1>3. profile'.data # None => Agrees(profile.data)'
  BY <1>1 DEF ProfileInv
<1>4. QED
  BY <1>2, <1>3 DEF Agrees

LEMMA ProfileOpenStep ==
  ASSUME Profile!ConstantsOK, OwnInv, Profile!OpenSettings
  PROVE  OwnInv'
<1> DEFINE data == IF profile.data # None THEN profile.data ELSE header.data
           calls == profile.data = None /\ ~Profile!Fetching(profile)
<1>1. /\ settings' = [open |-> TRUE, base |-> data, draft |-> data, uploading |-> FALSE,
                      excused |-> Profile!Excused(profile)]
      /\ profile' = IF calls THEN [profile EXCEPT !.fetch = [st |-> "sent", data |-> None]] ELSE profile
      /\ UNCHANGED <<account, author, copy, fills, header, updates, outrun>>
      /\ spending' \in [inputs : Nat, errors : Nat] /\ spending'.errors = spending.errors
  BY ProfileSpends
     DEF OwnInv, Profile!OpenSettings, Profile!FormOf, Profile!ShownProfile, Profile!Sent
<1>2. data \in Profile!Accounts /\ Profile!Excused(profile) \in BOOLEAN
  BY ProfileRecords DEF OwnInv, Profile!Excused
<1>3. /\ profile' \in [data : Profile!AccountOrNone,
                       fetch : Profile!FetchStates({"idle", "sent", "served"}), behind : BOOLEAN]
      /\ profile'.data = profile.data /\ profile'.behind = profile.behind
      /\ profile'.fetch = profile.fetch \/ (profile.data = None /\ profile'.fetch.st = "sent")
  <2>1. [st |-> "sent", data |-> None] \in Profile!FetchStates({"idle", "sent", "served"})
    BY DEF Profile!FetchStates, Profile!AccountOrNone
  <2>2. QED
    BY <1>1, <2>1, ProfileRecords DEF OwnInv
<1>4. settings' \in Dialogs
  BY <1>1, <1>2 DEF Dialogs, Profile!AccountOrNone
<1>5. ProfileTypes'
  <2>1. profile'.fetch.st = "served" => profile'.fetch.data \in Profile!Accounts
    BY <1>3 DEF OwnInv, ProfileTypes
  <2>2. QED
    BY <1>1, <1>2, <1>3, <1>4, <2>1 DEF OwnInv, ProfileTypes, Profile!TypeOK, Dialogs
<1>6. CopiesInv' /\ HeaderInv'
  BY <1>1 DEF OwnInv, CopiesInv, HeaderInv, Calm, NoneAnswers, Answering, Awaits, Agrees
<1>7. ProfileInv'
  BY <1>1, <1>3 DEF OwnInv, ProfileInv, Calm, NoneAnswers, Answering, Awaits, Agrees
<1>8. ProfileFormInv'
  <2>1. settings'.base = IF profile'.data # None THEN profile'.data ELSE header'.data
    BY <1>1, <1>3
  <2>2. settings'.open /\ settings'.excused = Profile!Excused(profile)
    BY <1>1
  <2>3. ~Profile!Excused(profile) =>
          /\ profile.data = None \/ ~profile.behind
          /\ \A c \in ProfileCalls : updates[c].st = "none"
    BY DEF Profile!Excused, Profile!UnderWay
  <2>4. QED
    BY <1>1, <1>3, <1>6, <1>7, <2>1, <2>2, <2>3, FreshForm
<1>9. SavesInv'
  BY <1>1 DEF OwnInv, SavesInv, Profile!OwnSavesKept, Profile!UnderWay
<1>10. QED
  BY <1>5, <1>6, <1>7, <1>8, <1>9 DEF OwnInv

\* What the page shows when a fetch ends: the same form, or a fresh one, and
\* nobody waits any longer for a fetch that is over.
LEMMA ShowsFacts ==
  ASSUME ProfileTypes, NEW p, NEW h, Profile!Shows(p, h),
         IF p.data # None THEN p.data \in Profile!Accounts ELSE h.data \in Profile!Accounts,
         p.behind \in BOOLEAN
  PROVE  /\ updates' \in [ProfileCalls -> Saves] /\ settings' \in Dialogs
         /\ \A c \in ProfileCalls :
              /\ updates'[c].st = updates[c].st /\ updates'[c].base = updates[c].base
              /\ updates'[c].draft = updates[c].draft /\ updates'[c].excused = updates[c].excused
              /\ updates'[c].waits = updates[c].waits \ Profile!Ended(p, h)
         /\ \/ settings' = settings /\ \A c \in ProfileCalls : updates'[c].mine = updates[c].mine
            \/ /\ settings'.open /\ ~settings'.uploading /\ settings'.draft \in Profile!Accounts
               /\ settings'.base = (IF p.data # None THEN p.data ELSE h.data)
               /\ settings'.base \in Profile!Accounts
               /\ settings'.excused = Profile!Excused(p)
<1> DEFINE data == IF p.data # None THEN p.data ELSE h.data
           kept == ~settings.open \/ data = settings.base
<1>1. /\ settings' = IF kept THEN settings
                     ELSE [open |-> TRUE, base |-> data, draft |-> data, uploading |-> FALSE,
                           excused |-> Profile!Excused(p)]
      /\ updates' = [c \in ProfileCalls |->
           [updates[c] EXCEPT !.mine = updates[c].mine /\ kept,
                              !.waits = updates[c].waits \ Profile!Ended(p, h)]]
  BY DEF Profile!Shows, Profile!FormOf, Profile!ShownProfile
<1>2. /\ settings \in Dialogs /\ updates \in [ProfileCalls -> Saves]
      /\ data \in Profile!Accounts /\ Profile!Excused(p) \in BOOLEAN
  BY ProfileRecords DEF Profile!Excused
<1>3. PICK over : over = Profile!Ended(p, h)
  OBVIOUS
<1>4. PICK hurried : hurried = Profile!Excused(p)
  OBVIOUS
<1>5. /\ updates' \in [ProfileCalls -> Saves]
      /\ \A c \in ProfileCalls :
           /\ updates'[c].st = updates[c].st /\ updates'[c].base = updates[c].base
           /\ updates'[c].draft = updates[c].draft /\ updates'[c].excused = updates[c].excused
           /\ updates'[c].waits = updates[c].waits \ over
           /\ updates'[c].mine = (updates[c].mine /\ kept)
  <2>1. updates' = [c \in ProfileCalls |->
          [updates[c] EXCEPT !.mine = updates[c].mine /\ kept, !.waits = updates[c].waits \ over]]
    BY <1>1, <1>3
  <2>2. \A c \in ProfileCalls : (updates[c].mine /\ kept) \in BOOLEAN
    OBVIOUS
  <2>3. \A c \in ProfileCalls :
          /\ updates[c] \in Saves
          /\ updates[c].waits \ over \in SUBSET {"header", "profile"}
    BY <1>2 DEF Saves
  <2> HIDE DEF kept
  <2>4. ASSUME NEW c \in ProfileCalls
        PROVE  /\ updates'[c] \in Saves
               /\ updates'[c].st = updates[c].st /\ updates'[c].base = updates[c].base
               /\ updates'[c].draft = updates[c].draft /\ updates'[c].excused = updates[c].excused
               /\ updates'[c].waits = updates[c].waits \ over
               /\ updates'[c].mine = (updates[c].mine /\ kept)
    <3>1. PICK mine, waits : mine = (updates[c].mine /\ kept) /\ waits = updates[c].waits \ over
      OBVIOUS
    <3>2. updates'[c] = [updates[c] EXCEPT !.mine = mine, !.waits = waits]
      BY <2>1, <3>1
    <3>3. mine \in BOOLEAN /\ waits \in SUBSET {"header", "profile"}
      BY <2>2, <2>3, <3>1
    <3>4. /\ updates'[c] \in Saves
          /\ updates'[c].st = updates[c].st /\ updates'[c].base = updates[c].base
          /\ updates'[c].draft = updates[c].draft /\ updates'[c].excused = updates[c].excused
          /\ updates'[c].waits = waits /\ updates'[c].mine = mine
      BY <2>3, <3>2, <3>3 DEF Saves
    <3>5. QED
      BY <3>1, <3>4
  <2>5. updates' = [c \in ProfileCalls |-> updates'[c]]
    BY <2>1
  <2>6. QED
    BY <2>4, <2>5
<1>6. CASE kept
  <2>1. settings' = settings /\ \A c \in ProfileCalls : updates[c].mine \in BOOLEAN
    BY <1>1, <1>2, <1>6 DEF Saves
  <2>2. QED
    BY <1>2, <1>3, <1>5, <1>6, <2>1
<1>7. CASE ~kept
  <2>1. settings' = [open |-> TRUE, base |-> data, draft |-> data, uploading |-> FALSE,
                     excused |-> hurried]
    BY <1>1, <1>4, <1>7
  <2>2. settings' \in Dialogs
    BY <1>2, <1>4, <2>1 DEF Dialogs, Profile!AccountOrNone
  <2>3. QED
    BY <1>2, <1>3, <1>4, <1>5, <2>1, <2>2
<1>8. QED
  BY <1>6, <1>7

\* A fetch is over, so the page is drawn again.
LEMMA ShownForms ==
  ASSUME Profile!ConstantsOK, OwnInv, NEW p, NEW h, p = profile', h = header',
         Profile!Shows(p, h), HeaderInv', ProfileInv', UNCHANGED <<account, author, outrun>>,
         spending'.errors = spending.errors \/ spending'.errors # 0,
         p.data = None \/ p.data \in Profile!Accounts, h.data \in Profile!Accounts,
         p.behind \in BOOLEAN
  PROVE  ProfileFormInv' /\ SavesInv'
<1>1. /\ \A c \in ProfileCalls :
           /\ updates'[c].st = updates[c].st /\ updates'[c].base = updates[c].base
           /\ updates'[c].draft = updates[c].draft /\ updates'[c].excused = updates[c].excused
      /\ \/ settings' = settings /\ \A c \in ProfileCalls : updates'[c].mine = updates[c].mine
         \/ /\ settings'.open
            /\ settings'.base = (IF p.data # None THEN p.data ELSE h.data)
            /\ settings'.excused = Profile!Excused(p)
  BY ShowsFacts DEF OwnInv
<1>2. SavesInv'
  BY <1>1 DEF OwnInv, SavesInv, Profile!OwnSavesKept, Profile!UnderWay
<1>3. CASE settings' = settings /\ \A c \in ProfileCalls : updates'[c].mine = updates[c].mine
  <2>1. Calm' => Calm
    BY DEF Calm
  <2>2. Agrees(settings.base) => Agrees(settings.base)'
    BY <1>3 DEF Agrees
  <2>3. QED
    BY <1>1, <1>2, <1>3, <2>1, <2>2 DEF OwnInv, ProfileFormInv, Profile!UnderWay
<1>4. CASE /\ settings'.open
           /\ settings'.base = (IF p.data # None THEN p.data ELSE h.data)
           /\ settings'.excused = Profile!Excused(p)
  <2>1. ~settings'.excused =>
          /\ p.data = None \/ ~p.behind
          /\ \A c \in ProfileCalls : updates'[c].st = "none"
    BY <1>1, <1>4 DEF Profile!Excused, Profile!UnderWay
  <2>2. settings'.base = IF profile'.data # None THEN profile'.data ELSE header'.data
    BY <1>4
  <2>3. ~settings'.excused =>
          /\ profile'.data = None \/ ~profile'.behind
          /\ \A c \in ProfileCalls : updates'[c].st = "none"
    BY <2>1
  <2>4. QED
    BY <1>2, <1>4, <2>2, <2>3, FreshForm
<1>5. QED
  BY <1>1, <1>2, <1>3, <1>4

LEMMA ShownTypes ==
  ASSUME ProfileTypes, NEW p, NEW h, p = profile', h = header', Profile!Shows(p, h),
         UNCHANGED <<account, author, copy, outrun>>, fills' \subseteq Profile!Accounts,
         spending' \in [inputs : Nat, errors : Nat],
         profile' \in [data : Profile!AccountOrNone,
                       fetch : Profile!FetchStates({"idle", "sent", "served"}), behind : BOOLEAN],
         header' \in [data : Profile!Accounts,
                      fetch : Profile!FetchStates({"idle", "sent", "read", "served"})],
         header'.fetch.st \in {"read", "served"} => header'.fetch.data \in Profile!Accounts,
         profile'.fetch.st = "served" => profile'.fetch.data \in Profile!Accounts
  PROVE  ProfileTypes'
<1>1. /\ p.data # None => p.data \in Profile!Accounts
      /\ h.data \in Profile!Accounts /\ p.behind \in BOOLEAN
  BY DEF Profile!AccountOrNone
<1>2. /\ updates' \in [ProfileCalls -> Saves] /\ settings' \in Dialogs
      /\ \A c \in ProfileCalls :
           updates'[c].st = updates[c].st /\ updates'[c].draft = updates[c].draft
      /\ \/ settings' = settings
         \/ /\ settings'.open /\ ~settings'.uploading /\ settings'.draft \in Profile!Accounts
            /\ settings'.base \in Profile!Accounts
  BY <1>1, ShowsFacts
<1>3. QED
  BY <1>2 DEF ProfileTypes, Profile!TypeOK, Dialogs, Saves

LEMMA HeaderReceivedStep ==
  ASSUME Profile!ConstantsOK, OwnInv, Profile!HeaderReceived
  PROVE  OwnInv'
<1>1. PICK p, h : p = profile /\ h = [data |-> header.fetch.data, fetch |-> Profile!Idle]
  OBVIOUS
<1>2. /\ header.fetch.st = "served" /\ header' = h /\ Profile!Shows(p, h) /\ profile' = p
      /\ UNCHANGED <<account, author, copy, fills, profile, outrun, spending>>
  BY <1>1 DEF Profile!HeaderReceived
<1>3. /\ header.fetch.data \in Profile!Accounts
      /\ h.data = header.fetch.data /\ h.fetch.st = "idle" /\ h.fetch.data = None
      /\ h \in [data : Profile!Accounts,
                fetch : Profile!FetchStates({"idle", "sent", "read", "served"})]
  BY <1>1, <1>2
     DEF OwnInv, ProfileTypes, Profile!Idle, Profile!FetchStates, Profile!AccountOrNone
<1>4. p \in [data : Profile!AccountOrNone,
             fetch : Profile!FetchStates({"idle", "sent", "served"}), behind : BOOLEAN]
  BY <1>1, ProfileRecords DEF OwnInv
<1>5. p.data = None \/ p.data \in Profile!Accounts
  BY <1>1, ProfileRecords DEF OwnInv
<1>6. ProfileTypes'
  BY <1>1, <1>2, <1>3, <1>4, ShownTypes DEF OwnInv, ProfileTypes, Profile!TypeOK
<1>7. \A c \in ProfileCalls :
        /\ updates'[c].st = updates[c].st
        /\ updates'[c].waits = updates[c].waits \ Profile!Ended(p, h)
  BY <1>2, <1>3, <1>4, <1>5, ShowsFacts DEF OwnInv
<1>8. CopiesInv'
  BY <1>2, <1>3, <1>7 DEF OwnInv, CopiesInv, Calm, Agrees
<1>9. HeaderInv'
  BY <1>2, <1>3, <1>7 DEF OwnInv, HeaderInv, Calm, NoneAnswers, Answering, Agrees
<1>10. ProfileInv'
  <2>1. profile.fetch.st # "idle" =>
          \A c \in ProfileCalls : Awaits(c, "profile") => Awaits(c, "profile")'
    BY <1>1, <1>7 DEF Awaits, Profile!Ended, Profile!Fetching
  <2>2. QED
    BY <1>2, <1>7, <2>1 DEF OwnInv, ProfileInv, Calm, NoneAnswers, Answering, Agrees
<1>11. ProfileFormInv' /\ SavesInv'
  BY <1>2, <1>3, <1>4, <1>5, <1>9, <1>10, ShownForms
<1>12. QED
  BY <1>6, <1>8, <1>9, <1>10, <1>11 DEF OwnInv

LEMMA ProfileReceivedStep ==
  ASSUME Profile!ConstantsOK, OwnInv, Profile!ProfileReceived
  PROVE  OwnInv'
<1>1. PICK p, h : /\ h = header
                  /\ p = [data |-> profile.fetch.data, fetch |-> Profile!Idle,
                          behind |-> profile.behind]
  OBVIOUS
<1>2. /\ profile.fetch.st = "served" /\ header' = h /\ Profile!Shows(p, h) /\ profile' = p
      /\ UNCHANGED <<account, author, copy, fills, header, outrun, spending>>
  BY <1>1 DEF Profile!ProfileReceived
<1>3. /\ profile.fetch.data \in Profile!Accounts /\ p.behind = profile.behind
      /\ p.data = profile.fetch.data /\ p.fetch.st = "idle" /\ p.fetch.data = None
      /\ p \in [data : Profile!AccountOrNone,
                fetch : Profile!FetchStates({"idle", "sent", "served"}), behind : BOOLEAN]
  BY <1>1, <1>2, ProfileRecords
     DEF OwnInv, ProfileTypes, Profile!Idle, Profile!FetchStates, Profile!AccountOrNone
<1>4. h \in [data : Profile!Accounts,
             fetch : Profile!FetchStates({"idle", "sent", "read", "served"})]
      /\ h.data \in Profile!Accounts /\ p.behind \in BOOLEAN
  BY <1>1, <1>3, ProfileRecords DEF OwnInv, ProfileTypes, Profile!TypeOK
<1>5. ProfileTypes'
  BY <1>1, <1>2, <1>3, <1>4, ShownTypes DEF OwnInv, ProfileTypes, Profile!TypeOK
<1>6. \A c \in ProfileCalls :
        /\ updates'[c].st = updates[c].st
        /\ updates'[c].waits = updates[c].waits \ Profile!Ended(p, h)
  BY <1>2, <1>3, <1>4, ShowsFacts DEF OwnInv
<1>7. CopiesInv'
  BY <1>2, <1>6 DEF OwnInv, CopiesInv, Calm, Agrees
<1>8. HeaderInv'
  <2>1. header.fetch.st # "idle" =>
          \A c \in ProfileCalls : Awaits(c, "header") => Awaits(c, "header")'
    BY <1>1, <1>6 DEF Awaits, Profile!Ended, Profile!Fetching
  <2>2. QED
    BY <1>2, <1>6, <2>1 DEF OwnInv, HeaderInv, Calm, NoneAnswers, Answering, Agrees
<1>9. ProfileInv'
  BY <1>2, <1>3, <1>6 DEF OwnInv, ProfileInv, Calm, NoneAnswers, Answering, Agrees
<1>10. ProfileFormInv' /\ SavesInv'
  BY <1>2, <1>3, <1>4, <1>8, <1>9, ShownForms
<1>11. QED
  BY <1>5, <1>7, <1>8, <1>9, <1>10 DEF OwnInv

\* A fetch fails: nothing is promised from now on but that no form takes another
\* save for its own.
LEMMA FetchFailsStep ==
  ASSUME Profile!ConstantsOK, OwnInv, Profile!FetchFails
  PROVE  OwnInv'
<1>1. PICK p, h : p = profile' /\ h = header'
  OBVIOUS
<1>2. /\ UNCHANGED <<account, author, copy, outrun>>
      /\ spending' \in [inputs : Nat, errors : Nat] /\ spending'.errors # 0
      /\ Profile!Shows(p, h)
      /\ fills' = fills \/ (header.fetch.st = "read" /\ fills' = fills \cup {header.fetch.data})
      /\ header' = header \/ header' = [header EXCEPT !.fetch = Profile!Idle]
      /\ profile' = profile \/ profile' = [profile EXCEPT !.fetch = Profile!Idle]
  <2>1. CASE /\ header' = [header EXCEPT !.fetch = Profile!Idle]
             /\ fills' = IF header.fetch.st = "read" THEN fills \cup {header.fetch.data} ELSE fills
             /\ Profile!Shows(profile, [header EXCEPT !.fetch = Profile!Idle])
             /\ UNCHANGED profile
    <3>1. p = profile /\ h = [header EXCEPT !.fetch = Profile!Idle]
      BY <1>1, <2>1
    <3>2. Profile!Shows(p, h)
      BY <2>1, <3>1
    <3>3. QED
      BY <2>1, <3>2, ProfileSpends DEF OwnInv, Profile!FetchFails
  <2>2. CASE /\ profile' = [profile EXCEPT !.fetch = Profile!Idle]
             /\ Profile!Shows([profile EXCEPT !.fetch = Profile!Idle], header)
             /\ UNCHANGED <<header, fills>>
    <3>1. h = header /\ p = [profile EXCEPT !.fetch = Profile!Idle]
      BY <1>1, <2>2
    <3>2. Profile!Shows(p, h)
      BY <2>2, <3>1
    <3>3. QED
      BY <2>2, <3>2, ProfileSpends DEF OwnInv, Profile!FetchFails
  <2>3. QED
    BY <2>1, <2>2 DEF Profile!FetchFails
<1>3. Profile!Idle \in Profile!FetchStates({"idle", "sent", "served"})
      /\ Profile!Idle \in Profile!FetchStates({"idle", "sent", "read", "served"})
      /\ Profile!Idle.st = "idle"
  BY DEF Profile!Idle, Profile!FetchStates, Profile!AccountOrNone
<1>4. /\ header' \in [data : Profile!Accounts,
                      fetch : Profile!FetchStates({"idle", "sent", "read", "served"})]
      /\ header'.fetch.st \in {"read", "served"} => header'.fetch.data \in Profile!Accounts
  BY <1>2, <1>3 DEF OwnInv, ProfileTypes, Profile!TypeOK
<1>5. /\ profile' \in [data : Profile!AccountOrNone,
                       fetch : Profile!FetchStates({"idle", "sent", "served"}), behind : BOOLEAN]
      /\ profile'.fetch.st = "served" => profile'.fetch.data \in Profile!Accounts
  BY <1>2, <1>3 DEF OwnInv, ProfileTypes, Profile!TypeOK
<1>6. fills' \subseteq Profile!Accounts
  BY <1>2 DEF OwnInv, ProfileTypes, Profile!TypeOK
<1>7. ProfileTypes'
  BY <1>1, <1>2, <1>4, <1>5, <1>6, ShownTypes DEF OwnInv
<1>8. CopiesInv' /\ HeaderInv' /\ ProfileInv'
  BY <1>2 DEF CopiesInv, HeaderInv, ProfileInv, Calm
<1>9. /\ p.data = None \/ p.data \in Profile!Accounts
      /\ h.data \in Profile!Accounts /\ p.behind \in BOOLEAN
  BY <1>1, <1>4, <1>5 DEF Profile!AccountOrNone
<1>10. ProfileFormInv' /\ SavesInv'
  BY <1>1, <1>2, <1>8, <1>9, ShownForms
<1>11. QED
  BY <1>7, <1>8, <1>10 DEF OwnInv

\* Postgres is read for the profile, or an unused profile is dropped.
LEMMA ProfileQueryStep ==
  ASSUME Profile!ConstantsOK, OwnInv, Profile!ProfileServed \/ Profile!Collect
  PROVE  OwnInv'
<1>1. /\ UNCHANGED <<account, author, copy, fills, header, settings, updates, outrun>>
      /\ spending' \in [inputs : Nat, errors : Nat] /\ spending'.errors = spending.errors
  BY ProfileSpends DEF OwnInv, ProfileTypes, Profile!ProfileServed, Profile!Collect
<1>2. /\ profile \in [data : Profile!AccountOrNone,
                      fetch : Profile!FetchStates({"idle", "sent", "served"}), behind : BOOLEAN]
      /\ account \in Profile!Accounts
      /\ profile.fetch.st = "served" => profile.fetch.data \in Profile!Accounts
  BY ProfileRecords DEF OwnInv, ProfileTypes
<1>3. CASE Profile!ProfileServed
  <2>1. profile' = [profile EXCEPT !.fetch = [st |-> "served", data |-> account]]
    BY <1>3 DEF Profile!ProfileServed
  <2>2. [st |-> "served", data |-> account] \in Profile!FetchStates({"idle", "sent", "served"})
    BY <1>2 DEF Profile!FetchStates, Profile!AccountOrNone
  <2>3. /\ profile' \in [data : Profile!AccountOrNone,
                         fetch : Profile!FetchStates({"idle", "sent", "served"}), behind : BOOLEAN]
        /\ profile'.data = profile.data /\ profile'.behind = profile.behind
        /\ profile'.fetch.st = "served" /\ profile'.fetch.data = account
    BY <1>2, <2>1, <2>2
  <2>4. ProfileTypes'
    BY <1>1, <1>2, <2>3 DEF OwnInv, ProfileTypes, Profile!TypeOK
  <2>5. ProfileInv'
    BY <1>1, <2>3 DEF OwnInv, ProfileInv, Calm, NoneAnswers, Answering, Awaits, Agrees
  <2>6. QED
    BY <1>1, <2>4, <2>5
       DEF OwnInv, CopiesInv, HeaderInv, ProfileFormInv, SavesInv, Calm, NoneAnswers, Answering, Awaits,
           Agrees, Profile!UnderWay, Profile!OwnSavesKept
<1>4. CASE Profile!Collect
  <2>1. /\ profile' = [profile EXCEPT !.data = None, !.behind = FALSE]
        /\ profile.fetch.st = "idle"
    BY <1>4 DEF Profile!Collect, Profile!Fetching
  <2>2. /\ profile' \in [data : Profile!AccountOrNone,
                         fetch : Profile!FetchStates({"idle", "sent", "served"}), behind : BOOLEAN]
        /\ profile'.data = None /\ profile'.fetch.st = "idle"
    BY <1>2, <2>1 DEF Profile!AccountOrNone
  <2>3. ProfileTypes'
    BY <1>1, <2>2 DEF OwnInv, ProfileTypes, Profile!TypeOK
  <2>4. ProfileInv'
    BY <2>2 DEF ProfileInv
  <2>5. QED
    BY <1>1, <2>3, <2>4
       DEF OwnInv, CopiesInv, HeaderInv, ProfileFormInv, SavesInv, Calm, NoneAnswers, Answering, Awaits,
           Agrees, Profile!UnderWay, Profile!OwnSavesKept
<1>5. QED
  BY <1>3, <1>4

\* A save of a form that is not excused is the only one, and starts from what the
\* user saved before.
LEMMA ProfileSaveStep ==
  ASSUME Profile!ConstantsOK, OwnInv, NEW c \in ProfileCalls, Profile!Save(c)
  PROVE  OwnInv'
<1>1. /\ settings.open /\ ~Profile!isBusy /\ updates[c].st = "none"
      /\ updates' = [d \in ProfileCalls |->
           IF d = c THEN [st |-> "sent", base |-> settings.base, draft |-> settings.draft,
                          mine |-> TRUE, excused |-> settings.excused, waits |-> {}]
                    ELSE [updates[d] EXCEPT !.excused = @ \/ Profile!UnderWay(d)]]
      /\ UNCHANGED <<account, author, copy, fills, header, profile, settings, outrun, spending>>
  BY DEF Profile!Save, Profile!UnderWay
<1>2. /\ settings \in Dialogs /\ updates \in [ProfileCalls -> Saves]
      /\ settings.base \in Profile!Accounts /\ settings.draft \in Profile!Accounts
  BY <1>1, ProfileRecords DEF OwnInv, ProfileTypes
<1>3. /\ updates'[c] = [st |-> "sent", base |-> settings.base, draft |-> settings.draft,
                        mine |-> TRUE, excused |-> settings.excused, waits |-> {}]
      /\ updates'[c] \in Saves
  BY <1>1, <1>2 DEF Dialogs, Saves
<1>4. ASSUME NEW d \in ProfileCalls, d # c
      PROVE  /\ updates'[d] \in Saves
             /\ updates'[d].st = updates[d].st /\ updates'[d].base = updates[d].base
             /\ updates'[d].draft = updates[d].draft /\ updates'[d].mine = updates[d].mine
             /\ updates'[d].waits = updates[d].waits
             /\ updates[d].st # "none" => updates'[d].excused
  <2>1. PICK hurried \in BOOLEAN : hurried = (updates[d].excused \/ updates[d].st # "none")
    OBVIOUS
  <2>2. updates'[d] = [updates[d] EXCEPT !.excused = hurried]
    BY <1>1, <1>4, <2>1 DEF Profile!UnderWay
  <2>3. QED
    BY <1>2, <2>1, <2>2 DEF Saves
<1>5. updates' \in [ProfileCalls -> Saves]
  BY <1>1, <1>3, <1>4
<1>6. ProfileTypes'
  <2>1. \A d \in ProfileCalls : updates'[d].st = "sent" => updates'[d].draft \in Profile!Accounts
    BY <1>2, <1>3, <1>4 DEF OwnInv, ProfileTypes
  <2>2. QED
    BY <1>1, <1>5, <2>1 DEF OwnInv, ProfileTypes, Profile!TypeOK, Saves
<1>7. CopiesInv' /\ HeaderInv' /\ ProfileInv'
  <2>1. /\ \A d \in ProfileCalls : updates'[d].st \in {"committed", "served", "settling"} <=>
                                   updates[d].st \in {"committed", "served", "settling"}
        /\ \A d \in ProfileCalls : updates[d].st \in {"committed", "served", "settling"} =>
             updates'[d].st = updates[d].st /\ updates'[d].waits = updates[d].waits
    BY <1>1, <1>3, <1>4
  <2>2. NoneAnswers' => NoneAnswers
    BY <2>1 DEF NoneAnswers, Answering
  <2>3. CopiesInv'
    BY <1>1, <2>1 DEF OwnInv, CopiesInv, Calm, Agrees
  <2>4. HeaderInv' /\ ProfileInv'
    BY <1>1, <2>1, <2>2 DEF OwnInv, HeaderInv, ProfileInv, Calm, Awaits, Agrees
  <2>5. QED
    BY <2>3, <2>4
<1>8. ~settings.excused => \A d \in ProfileCalls : updates[d].st = "none"
  BY <1>1 DEF OwnInv, ProfileFormInv, Profile!isBusy, Profile!UnderWay
<1>9. ProfileFormInv'
  <2>1. ~settings.excused /\ Calm => Agrees(settings.base)
    BY <1>1, <1>8 DEF OwnInv, ProfileFormInv
  <2>2. ~settings.excused => \A d \in ProfileCalls : updates'[d].st # "none" => updates'[d].mine
    BY <1>3, <1>4, <1>8
  <2>3. QED
    BY <1>1, <2>1, <2>2 DEF ProfileFormInv, Calm, Agrees, Profile!UnderWay
<1>10. SavesInv'
  <2>1. ASSUME NEW d \in ProfileCalls, NEW e \in ProfileCalls, d # e,
               updates'[d].st # "none", updates'[e].st # "none"
        PROVE  updates'[d].excused
    BY <1>3, <1>4, <1>8, <2>1
  <2>2. ASSUME NEW d \in ProfileCalls, updates'[d].st = "sent", ~updates'[d].excused,
               ~outrun, spending.errors = 0,
               NEW f \in ProfileFields, author[f] = "own",
               updates'[d].draft[f] = updates'[d].base[f], updates'[d].draft[f] # None
        PROVE  updates'[d].draft[f] = account[f]
    <3>1. d = c /\ ~settings.excused
      BY <1>3, <1>4, <2>2
    <3>2. Agrees(settings.base)
      BY <1>1, <1>8, <2>2, <3>1 DEF OwnInv, ProfileFormInv, Calm
    <3>3. QED
      BY <1>3, <2>2, <3>1, <3>2 DEF Agrees
  <2>3. QED
    BY <1>1, <2>1, <2>2 DEF SavesInv, Profile!OwnSavesKept, Profile!UnderWay
<1>11. QED
  BY <1>6, <1>7, <1>9, <1>10 DEF OwnInv

\* The server writes a save: until the page knows, nothing is promised of what it
\* holds, and a context read before is on its way no more.
LEMMA CommitStep ==
  ASSUME Profile!ConstantsOK, OwnInv, NEW c \in ProfileCalls, Profile!Commits(c)
  PROVE  OwnInv'
<1> DEFINE draft == updates[c].draft
           next == IF \E f \in ProfileFields : draft[f] # None THEN "committed" ELSE "served"
<1>1. /\ updates[c].st = "sent"
      /\ account' = [f \in ProfileFields |-> IF draft[f] # None THEN draft[f] ELSE account[f]]
      /\ author' = [f \in ProfileFields |-> IF account'[f] # account[f] THEN "own" ELSE author[f]]
      /\ outrun' = (outrun \/ fills # {} \/ header.fetch.st = "read")
      /\ updates' = [updates EXCEPT ![c] = [updates[c] EXCEPT !.st = next]]
      /\ UNCHANGED <<copy, fills, header, profile, settings, spending>>
  BY DEF Profile!Commits, Profile!Written, Profile!Updated
<1>2. /\ updates \in [ProfileCalls -> Saves] /\ account \in Profile!Accounts
      /\ author \in [ProfileFields -> {None, "own", "other"}] /\ draft \in Profile!Accounts
  BY <1>1, ProfileRecords DEF OwnInv, ProfileTypes
<1>3. /\ updates' \in [ProfileCalls -> Saves]
      /\ updates'[c].st = next /\ updates'[c].mine = updates[c].mine
      /\ updates'[c].excused = updates[c].excused
      /\ \A d \in ProfileCalls : d # c => updates'[d] = updates[d]
  <2>1. next \in {"committed", "served"}
    OBVIOUS
  <2> HIDE DEF next
  <2>2. QED
    BY <1>1, <1>2, <2>1 DEF Saves
<1>4. /\ account' \in Profile!Accounts /\ author' \in [ProfileFields -> {None, "own", "other"}]
      /\ outrun' \in BOOLEAN
  BY <1>1, <1>2 DEF Profile!Accounts, Profile!Texts
<1>5. ProfileTypes'
  <2>1. \A d \in ProfileCalls : updates'[d].st = "sent" => updates'[d].draft \in Profile!Accounts
    BY <1>3 DEF OwnInv, ProfileTypes
  <2>2. QED
    BY <1>1, <1>3, <1>4, <2>1 DEF OwnInv, ProfileTypes, Profile!TypeOK, Saves
<1>6. CopiesInv'
  <2>1. CASE next = "committed"
    BY <1>1, <1>3, <2>1 DEF CopiesInv, Calm
  <2>2. CASE next = "served"
    <3>1. \A f \in ProfileFields : draft[f] = None
      BY <2>2
    <3>2. account' = account /\ author' = author
      BY <1>1, <1>2, <3>1 DEF Profile!Accounts
    <3>3. \A d \in ProfileCalls : updates[d].st = "committed" => updates'[d].st = "committed"
      BY <1>1, <1>3
    <3>4. QED
      BY <1>1, <3>2, <3>3 DEF OwnInv, CopiesInv, Calm, Agrees
  <2>3. QED
    BY <2>1, <2>2
<1>7. HeaderInv' /\ ProfileInv'
  BY <1>3 DEF HeaderInv, ProfileInv, NoneAnswers, Answering
<1>8. ProfileFormInv'
  BY <1>1, <1>3 DEF OwnInv, ProfileFormInv, Profile!UnderWay
<1>9. SavesInv'
  <2>1. \A d \in ProfileCalls, e \in ProfileCalls :
          d # e /\ Profile!UnderWay(d)' /\ Profile!UnderWay(e)' => updates'[d].excused
    BY <1>1, <1>3 DEF OwnInv, SavesInv, Profile!UnderWay
  <2>2. \A d \in ProfileCalls : updates'[d].st = "sent" => updates'[d].excused
    BY <1>1, <1>3 DEF OwnInv, SavesInv, Profile!UnderWay
  <2>3. QED
    BY <2>1, <2>2 DEF SavesInv, Profile!OwnSavesKept
<1>10. QED
  BY <1>5, <1>6, <1>7, <1>8, <1>9 DEF OwnInv

\* The copy in Redis is deleted after the commit.
LEMMA InvalidateStep ==
  ASSUME Profile!ConstantsOK, OwnInv, NEW c \in ProfileCalls, Profile!Invalidates(c)
  PROVE  OwnInv'
<1>1. /\ updates[c].st = "committed" /\ copy' = None
      /\ updates' = [updates EXCEPT ![c] = [updates[c] EXCEPT !.st = "served"]]
      /\ UNCHANGED <<account, author, fills, header, profile, settings, outrun, spending>>
  BY DEF Profile!Invalidates
<1>2. updates \in [ProfileCalls -> Saves]
  BY ProfileRecords DEF OwnInv
<1>3. /\ updates' \in [ProfileCalls -> Saves] /\ updates'[c].st = "served"
      /\ updates'[c].mine = updates[c].mine /\ updates'[c].excused = updates[c].excused
      /\ \A d \in ProfileCalls : d # c => updates'[d] = updates[d]
  BY <1>1, <1>2 DEF Saves
<1>4. ProfileTypes'
  <2>1. \A d \in ProfileCalls : updates'[d].st = "sent" => updates'[d].draft \in Profile!Accounts
    BY <1>3 DEF OwnInv, ProfileTypes
  <2>2. QED
    BY <1>1, <1>3, <2>1 DEF OwnInv, ProfileTypes, Profile!TypeOK, Saves, Profile!AccountOrNone
<1>5. CopiesInv'
  BY <1>1 DEF OwnInv, CopiesInv, Calm, Agrees
<1>6. HeaderInv' /\ ProfileInv'
  BY <1>3 DEF HeaderInv, ProfileInv, NoneAnswers, Answering
<1>7. ProfileFormInv'
  BY <1>1, <1>3 DEF OwnInv, ProfileFormInv, Profile!UnderWay
<1>8. SavesInv'
  BY <1>1, <1>3 DEF OwnInv, SavesInv, Profile!OwnSavesKept, Profile!UnderWay
<1>9. QED
  BY <1>4, <1>5, <1>6, <1>7, <1>8 DEF OwnInv

\* The page asks for the header again, and for the profile it shows; a profile it
\* does not show, or is just being answered, is known to be behind.
LEMMA ProfileSucceedStep ==
  ASSUME Profile!ConstantsOK, OwnInv, NEW c \in ProfileCalls, Profile!SaveSucceeds(c)
  PROVE  OwnInv'
<1>1. PICK given : given = (IF settings.open THEN IF Profile!Joined THEN {"header"}
                                                  ELSE {"header", "profile"}
                            ELSE {"header"})
  OBVIOUS
<1>2. PICK waits : waits = (IF settings.open THEN {"header", "profile"} ELSE {"header"})
  OBVIOUS
<1>3. /\ updates[c].st = "served"
      /\ header' = [header EXCEPT !.fetch = [st |-> "sent", data |-> None]]
      /\ fills' = IF header.fetch.st = "read" THEN fills \cup {header.fetch.data} ELSE fills
      /\ updates' = [d \in ProfileCalls |->
           IF d = c THEN [updates[c] EXCEPT !.st = "settling", !.waits = waits]
                    ELSE [updates[d] EXCEPT !.waits = updates[d].waits \ given]]
      /\ UNCHANGED <<account, author, copy, settings, outrun, spending>>
  BY <1>1, <1>2 DEF Profile!SaveSucceeds, Profile!Sent
<1>4. profile' = Profile!ProfileAfterSave
  BY DEF Profile!SaveSucceeds
<1>5. updates \in [ProfileCalls -> Saves] /\ settings.open \in BOOLEAN
  BY ProfileRecords DEF OwnInv, Dialogs
<1>6. /\ updates' \in [ProfileCalls -> Saves]
      /\ updates'[c].st = "settling" /\ updates'[c].mine = updates[c].mine
      /\ updates'[c].excused = updates[c].excused
      /\ "header" \in updates'[c].waits
      /\ settings.open => "profile" \in updates'[c].waits
      /\ \A d \in ProfileCalls : d # c =>
           /\ updates'[d].st = updates[d].st /\ updates'[d].base = updates[d].base
           /\ updates'[d].draft = updates[d].draft /\ updates'[d].mine = updates[d].mine
           /\ updates'[d].excused = updates[d].excused
           /\ updates'[d].waits = updates[d].waits \ given
  <2>1. waits \in SUBSET {"header", "profile"} /\ "header" \in waits
    BY <1>2
  <2>2. /\ updates'[c] = [updates[c] EXCEPT !.st = "settling", !.waits = waits]
        /\ \A d \in ProfileCalls : d # c =>
             updates'[d] = [updates[d] EXCEPT !.waits = updates[d].waits \ given]
        /\ updates' = [d \in ProfileCalls |-> updates'[d]]
    BY <1>3
  <2>3. /\ updates'[c] \in Saves /\ updates'[c].waits = waits
        /\ updates'[c].st = "settling" /\ updates'[c].mine = updates[c].mine
        /\ updates'[c].excused = updates[c].excused
    <3>1. PICK u \in Saves : u = updates[c]
      BY <1>5
    <3>2. updates'[c] = [u EXCEPT !.st = "settling", !.waits = waits]
      BY <2>2, <3>1
    <3>3. QED
      BY <2>1, <3>1, <3>2 DEF Saves
  <2>4. ASSUME NEW d \in ProfileCalls, d # c
        PROVE  /\ updates'[d] \in Saves
               /\ updates'[d].st = updates[d].st /\ updates'[d].base = updates[d].base
               /\ updates'[d].draft = updates[d].draft /\ updates'[d].mine = updates[d].mine
               /\ updates'[d].excused = updates[d].excused
               /\ updates'[d].waits = updates[d].waits \ given
    <3>1. PICK u \in Saves : u = updates[d]
      BY <1>5, <2>4
    <3>2. PICK w \in SUBSET {"header", "profile"} : w = u.waits \ given
      BY <1>1, <3>1 DEF Saves
    <3>3. updates'[d] = [u EXCEPT !.waits = w]
      BY <2>2, <2>4, <3>1, <3>2
    <3>4. QED
      BY <3>1, <3>2, <3>3 DEF Saves
  <2>5. QED
    BY <1>2, <2>1, <2>2, <2>3, <2>4
<1>7. /\ profile' \in [data : Profile!AccountOrNone,
                       fetch : Profile!FetchStates({"idle", "sent", "served"}), behind : BOOLEAN]
      /\ profile'.data = profile.data
      /\ profile'.fetch = profile.fetch \/ profile'.fetch.st = "sent"
      /\ ~profile'.behind =>
           \/ profile'.data = None /\ profile'.fetch.st # "served"
           \/ settings.open /\ profile'.fetch.st = "sent"
  <2>1. profile \in [data : Profile!AccountOrNone,
                     fetch : Profile!FetchStates({"idle", "sent", "served"}), behind : BOOLEAN]
    BY ProfileRecords DEF OwnInv
  <2>2. CASE ~settings.open
    <3>1. profile' = [profile EXCEPT !.behind = profile.data # None \/ profile.fetch.st # "idle"]
      BY <1>4, <2>2 DEF Profile!ProfileAfterSave, Profile!Fetching
    <3>2. PICK behind \in BOOLEAN : behind = (profile.data # None \/ profile.fetch.st # "idle")
      OBVIOUS
    <3>3. profile' = [profile EXCEPT !.behind = behind]
      BY <3>1, <3>2
    <3>4. QED
      BY <2>1, <3>2, <3>3
  <2>3. CASE settings.open /\ Profile!Joined
    <3>1. profile' = [profile EXCEPT !.behind = profile.fetch.st = "served"] /\ profile.data = None
      BY <1>4, <2>3 DEF Profile!ProfileAfterSave, Profile!Joined
    <3>2. PICK behind \in BOOLEAN : behind = (profile.fetch.st = "served")
      OBVIOUS
    <3>3. profile' = [profile EXCEPT !.behind = behind]
      BY <3>1, <3>2
    <3>4. QED
      BY <2>1, <3>1, <3>2, <3>3
  <2>4. CASE settings.open /\ ~Profile!Joined
    <3>1. profile' = [profile EXCEPT !.fetch = [st |-> "sent", data |-> None], !.behind = FALSE]
      BY <1>4, <2>4 DEF Profile!ProfileAfterSave, Profile!Sent
    <3>2. [st |-> "sent", data |-> None] \in Profile!FetchStates({"idle", "sent", "served"})
      BY DEF Profile!FetchStates, Profile!AccountOrNone
    <3>3. QED
      BY <2>1, <2>4, <3>1, <3>2
  <2>5. QED
    BY <1>5, <2>2, <2>3, <2>4
<1>8. ProfileTypes'
  <2>1. \A d \in ProfileCalls : updates'[d].st = "sent" => updates'[d].draft \in Profile!Accounts
    BY <1>6 DEF OwnInv, ProfileTypes
  <2>2. [st |-> "sent", data |-> None] \in Profile!FetchStates({"idle", "sent", "read", "served"})
    BY DEF Profile!FetchStates, Profile!AccountOrNone
  <2>3. fills' \subseteq Profile!Accounts
    BY <1>3 DEF OwnInv, ProfileTypes, Profile!TypeOK
  <2>4. /\ header' \in [data : Profile!Accounts,
                        fetch : Profile!FetchStates({"idle", "sent", "read", "served"})]
        /\ header'.fetch.st = "sent"
    BY <1>3, <2>2 DEF OwnInv, ProfileTypes, Profile!TypeOK
  <2>5. profile'.fetch.st = "served" => profile'.fetch.data \in Profile!Accounts
    BY <1>7 DEF OwnInv, ProfileTypes
  <2>6. QED
    BY <1>3, <1>6, <1>7, <2>1, <2>3, <2>4, <2>5 DEF OwnInv, ProfileTypes, Profile!TypeOK,
       Saves
<1>9. header'.fetch.st = "sent" /\ header'.data = header.data
  BY <1>3 DEF OwnInv, ProfileTypes, Profile!TypeOK
<1>10. CopiesInv'
  <2>1. \A d \in ProfileCalls : updates[d].st = "committed" => updates'[d].st = "committed"
    BY <1>3, <1>6
  <2>2. QED
    BY <1>3, <1>9, <2>1 DEF OwnInv, CopiesInv, Calm, Agrees
<1>11. HeaderInv'
  BY <1>6, <1>9 DEF HeaderInv, Awaits
<1>12. ProfileInv'
  BY <1>6, <1>7 DEF ProfileInv, Awaits
<1>13. ProfileFormInv'
  BY <1>3, <1>6 DEF OwnInv, ProfileFormInv, Profile!UnderWay
<1>14. SavesInv'
  BY <1>3, <1>6 DEF OwnInv, SavesInv, Profile!OwnSavesKept, Profile!UnderWay
<1>15. QED
  BY <1>8, <1>10, <1>11, <1>12, <1>13, <1>14 DEF OwnInv

\* The save is over, one way or the other.
LEMMA EndStep ==
  ASSUME Profile!ConstantsOK, OwnInv, NEW c \in ProfileCalls,
         Profile!SaveSettles(c) \/ Profile!SaveFails(c)
  PROVE  OwnInv'
<1>1. /\ UNCHANGED <<account, author, copy, fills, header, profile, outrun>>
      /\ spending' \in [inputs : Nat, errors : Nat]
      /\ spending'.errors # 0 \/ spending' = spending
  BY ProfileSpends DEF OwnInv, ProfileTypes, Profile!SaveSettles, Profile!SaveFails
<1>2. updates \in [ProfileCalls -> Saves] /\ settings \in Dialogs
  BY ProfileRecords DEF OwnInv
<1>3. Profile!NoUpdate \in Saves /\ Profile!NoUpdate.st = "none"
  BY DEF Profile!NoUpdate, Saves, Profile!AccountOrNone
<1>4. /\ updates' \in [ProfileCalls -> Saves] /\ updates'[c].st = "none"
      /\ \A d \in ProfileCalls : d # c =>
           /\ updates'[d].st = updates[d].st /\ updates'[d].base = updates[d].base
           /\ updates'[d].draft = updates[d].draft /\ updates'[d].excused = updates[d].excused
           /\ updates'[d].waits = updates[d].waits
           /\ settings'.open => updates'[d].mine = updates[d].mine
      /\ settings' \in Dialogs
      /\ settings'.open \/ settings'.uploading => settings' = settings
      /\ settings'.open => spending'.errors # 0
      /\ spending'.errors = 0 => updates[c].st = "settling" /\ updates[c].waits = {}
  <2>1. CASE Profile!SaveSettles(c)
    <3>1. /\ updates' = [[d \in ProfileCalls |-> [updates[d] EXCEPT !.mine = FALSE]]
                           EXCEPT ![c] = Profile!NoUpdate]
          /\ settings' = [open |-> FALSE, base |-> None, draft |-> None, uploading |-> FALSE,
                          excused |-> FALSE]
          /\ updates[c].st = "settling" /\ updates[c].waits = {}
      BY <2>1 DEF Profile!SaveSettles, Profile!Disowned, Profile!Closed
    <3>2. settings' \in Dialogs /\ ~settings'.open /\ ~settings'.uploading
      BY <3>1 DEF Dialogs, Profile!AccountOrNone
    <3>3. [d \in ProfileCalls |-> [updates[d] EXCEPT !.mine = FALSE]] \in [ProfileCalls -> Saves]
      BY <1>2 DEF Saves
    <3>4. updates' \in [ProfileCalls -> Saves] /\ updates'[c].st = "none"
      BY <1>3, <3>1, <3>3
    <3>5. \A d \in ProfileCalls : d # c => updates'[d] = [updates[d] EXCEPT !.mine = FALSE]
      BY <3>1
    <3>6. \A d \in ProfileCalls : d # c =>
            /\ updates'[d].st = updates[d].st /\ updates'[d].base = updates[d].base
            /\ updates'[d].draft = updates[d].draft /\ updates'[d].excused = updates[d].excused
            /\ updates'[d].waits = updates[d].waits
      BY <1>2, <3>5 DEF Saves
    <3>7. QED
      BY <3>1, <3>2, <3>4, <3>6
  <2>2. CASE Profile!SaveFails(c)
    <3>1. /\ updates' = [updates EXCEPT ![c] = Profile!NoUpdate] /\ UNCHANGED settings
          /\ spending'.errors # 0
      BY <2>2, ProfileSpends DEF OwnInv, Profile!SaveFails
    <3>2. QED
      BY <1>2, <1>3, <3>1
  <2>3. QED
    BY <2>1, <2>2
<1>5. ProfileTypes'
  <2>1. \A d \in ProfileCalls : updates'[d].st = "sent" => updates'[d].draft \in Profile!Accounts
    BY <1>4 DEF OwnInv, ProfileTypes
  <2>2. QED
    BY <1>1, <1>4, <2>1 DEF OwnInv, ProfileTypes, Profile!TypeOK, Saves, Dialogs
<1>6. CopiesInv' /\ HeaderInv' /\ ProfileInv'
  <2>1. CASE spending'.errors # 0
    BY <2>1 DEF CopiesInv, HeaderInv, ProfileInv, Calm
  <2>2. CASE spending'.errors = 0
    <3>1. /\ \A d \in ProfileCalls :
               updates[d].st \in {"committed", "served"} => updates'[d].st = updates[d].st
          /\ \A d \in ProfileCalls : \A q \in {"header", "profile"} :
               Awaits(d, q) => Awaits(d, q)'
          /\ Calm' => Calm
      BY <1>1, <1>4, <2>2 DEF Awaits, Calm
    <3>2. NoneAnswers' => NoneAnswers
      BY <1>4, <3>1 DEF NoneAnswers, Answering
    <3>3. CopiesInv'
      BY <1>1, <3>1 DEF OwnInv, CopiesInv, Agrees
    <3>4. HeaderInv' /\ ProfileInv'
      BY <1>1, <3>1, <3>2 DEF OwnInv, HeaderInv, ProfileInv, Agrees
    <3>5. QED
      BY <3>3, <3>4
  <2>3. QED
    BY <2>1, <2>2
<1>7. ProfileFormInv'
  BY <1>1, <1>4 DEF OwnInv, ProfileFormInv, Calm, Profile!UnderWay
<1>8. SavesInv'
  BY <1>1, <1>4 DEF OwnInv, SavesInv, Profile!OwnSavesKept, Profile!UnderWay
<1>9. QED
  BY <1>5, <1>6, <1>7, <1>8 DEF OwnInv

LEMMA ProfileNext ==
  ASSUME Profile!ConstantsOK, OwnInv, [Profile!Next]_(Profile!profileVars)
  PROVE  OwnInv'
<1>1. CASE UNCHANGED Profile!profileVars
  <2>1. UNCHANGED <<account, author, copy, fills, header, profile, settings, updates, outrun,
                    spending>>
    BY <1>1 DEF Profile!profileVars
  <2>2. ProfileTypes'
    BY <2>1 DEF OwnInv, ProfileTypes, Profile!TypeOK
  <2>3. CopiesInv' /\ HeaderInv' /\ ProfileInv'
    BY <2>1
       DEF OwnInv, CopiesInv, HeaderInv, ProfileInv, Calm, NoneAnswers, Answering, Awaits, Agrees
  <2>4. ProfileFormInv' /\ SavesInv'
    BY <2>1 DEF OwnInv, ProfileFormInv, SavesInv, Calm, Agrees, Profile!UnderWay,
       Profile!OwnSavesKept
  <2>5. QED
    BY <2>2, <2>3, <2>4 DEF OwnInv
<1>2. QED
  BY <1>1, ServesStep, OtherStep, TypingStep, ProfileOpenStep, HeaderReceivedStep,
     ProfileReceivedStep,
     FetchFailsStep, ProfileQueryStep, ProfileSaveStep, CommitStep, InvalidateStep, ProfileSucceedStep, EndStep
     DEF Profile!Next

\* The account, its copies and its dialog keep their types.
THEOREM ProfileTyped == ASSUME Profile!ConstantsOK PROVE Profile!Spec => []Profile!TypeOK
<1>1. OwnInv => Profile!TypeOK
  BY DEF OwnInv, ProfileTypes
<1>2. QED
  BY <1>1, ProfileInit, ProfileNext, PTL DEF Profile!Spec

\* What a user saved stays saved and is what the header shows.
THEOREM OwnSavesStay == ASSUME Profile!ConstantsOK PROVE Profile!Spec => []Profile!OwnProfileKept
<1>1. OwnInv => Profile!OwnProfileKept
  <2>1. ASSUME OwnInv, Profile!Quiet, Calm PROVE Agrees(header.data)
    <3>1. NoneAnswers /\ header.fetch.st = "idle"
      BY <2>1 DEF Profile!Quiet, Profile!Fetching, Profile!UnderWay, NoneAnswers, Answering
    <3>2. QED
      BY <2>1, <3>1 DEF OwnInv, HeaderInv
  <2>2. OwnInv => Profile!HeaderShowsOwnSaves
    BY <2>1 DEF Profile!HeaderShowsOwnSaves, Calm, Agrees
  <2>3. QED
    BY <2>2 DEF OwnInv, SavesInv, Profile!OwnProfileKept
<1>2. QED
  BY <1>1, ProfileInit, ProfileNext, PTL DEF Profile!Spec

---------------------------------------------------------------------------
(* SigninPage: the captcha, the organizations it lists, and the sign-in *)

Steps == 1 .. MaxSigninInputs
Names == Signin!Accounts \cup {""}
Checks == [id : Steps, account : Names, seen : Signin!Forms \cup {None}]
Calls == [id : Steps, account : Names, password : Names, code : 0 .. MaxSigninInputs,
          proved : Names]

SigninTypes ==
  /\ Signin!TypeOK
  /\ checks \subseteq Checks /\ queries \subseteq Calls
  /\ offered = None \/ offered \in Signin!Offers

\* The server remembers a captcha for the account it was passed for until it lapses.
Remembered(call) ==
  call.code # 0 =>
    call.proved \in Signin!Accounts /\ (call.code \in lapsed \/ proofs[call.proved] = call.code)

\* Each call of a captcha was made with one that was good then.
CaptchaInv ==
  /\ \A q \in queries : Remembered(q)
  /\ offered # None => Remembered(offered)
  /\ signin # None => Remembered(signin)
  /\ ~baffled

\* The dialog has the organizations of the account it was filled for.
OfferInv ==
  offered # None =>
    offered.password = offered.account /\ offered.selectable \subseteq Signin!OptionsOf(offered.account)

\* The sign-in is that of the choice confirmed.
ChoiceInv ==
  /\ signin # None =>
       /\ Signin!RightPassword(signin) /\ signin.membership \in Signin!OptionsOf(signin.account)
       /\ confirmed = [account |-> signin.account, membership |-> signin.membership]
  /\ session # None => session = confirmed
  /\ ~rejected

\* Unless queries crossed, the form waits for the one query there is.
SigninFormInv ==
  ~crossed =>
    /\ \A q \in queries : q.id = latest /\ q.account = credentials.account
    /\ open => offered.account = credentials.account

SigninInv == SigninTypes /\ CaptchaInv /\ OfferInv /\ ChoiceInv /\ SigninFormInv

LEMMA SigninInit == ASSUME Signin!ConstantsOK, Signin!Init PROVE SigninInv
<1>1. 0 \in 0 .. MaxSigninInputs /\ MaxSigninInputs \in Nat
  <2>1. MaxSigninInputs \in Nat
    BY DEF Signin!ConstantsOK
  <2>2. QED
    BY <2>1
<1>2. Signin!TypeOK
  <2>1. credentials \in Signin!Forms
    BY DEF Signin!Init, Signin!EmptyForm, Signin!Forms
  <2>2. proofs \in [Signin!Accounts -> 0 .. MaxSigninInputs]
    BY <1>1 DEF Signin!Init
  <2>3. QED
    BY <1>1, <2>1, <2>2 DEF Signin!Init, Signin!TypeOK
<1>3. QED
  BY <1>2
     DEF Signin!Init, SigninInv, SigninTypes, CaptchaInv, OfferInv, ChoiceInv, SigninFormInv

\* The number of a call is new.
LEMMA StepsGo ==
  ASSUME Signin!ConstantsOK, SigninTypes, Signin!Input
  PROVE  steps' \in Steps /\ steps' \in 0 .. MaxSigninInputs /\ steps' # 0
<1>1. steps \in 0 .. MaxSigninInputs /\ MaxSigninInputs \in Nat
  BY DEF Signin!ConstantsOK, SigninTypes, Signin!TypeOK
<1>2. steps < MaxSigninInputs /\ steps' = steps + 1
  BY DEF Signin!Input
<1>3. QED
  BY <1>1, <1>2 DEF Steps

\* A slider that goes away leaves its verifications the form they had.
LEMMA ChecksKept ==
  ASSUME SigninTypes
  PROVE  Signin!Unmounted(credentials) \subseteq Checks
<1>1. credentials \in Signin!Forms /\ checks \subseteq Checks
  BY DEF SigninTypes, Signin!TypeOK
<1>2. ASSUME NEW c \in checks
      PROVE  [c EXCEPT !.seen = IF c.seen = None THEN credentials ELSE c.seen] \in Checks
  <2>1. c \in Checks
    BY <1>1, <1>2
  <2>2. CASE c.seen = None
    BY <1>1, <2>1, <2>2 DEF Checks
  <2>3. CASE c.seen # None
    BY <1>1, <2>1, <2>3 DEF Checks
  <2>4. QED
    BY <2>2, <2>3
<1>3. QED
  BY <1>2 DEF Signin!Unmounted

\* What the types say of the checks and the queries that TypeOK repeats.
LEMMA RecordsTyped ==
  ASSUME checks' \subseteq Checks, queries' \subseteq Calls
  PROVE  /\ \A c \in checks' : c.id \in 1 .. MaxSigninInputs
                               /\ (c.seen = None \/ c.seen \in Signin!Forms)
         /\ \A q \in queries' : q.id \in 1 .. MaxSigninInputs /\ q.code \in 0 .. MaxSigninInputs
  BY DEF Checks, Calls, Steps

\* What the visitor, the slider and the administrator do changes no call.
LEMMA SigninQuiet ==
  ASSUME Signin!ConstantsOK, SigninInv,
         \/ Signin!Fill \/ Signin!LoadConfig \/ Signin!SubmitWithSlider \/ Signin!Slide
         \/ Signin!Misfit \/ Signin!Resize \/ Signin!VerifyFails \/ Signin!Pick \/ Signin!Cancel
         \/ Signin!MembersChange
  PROVE  SigninInv'
<1>1. /\ UNCHANGED <<demanded, proofs, queries, latest, offered, signin, session, confirmed,
                     lapsed, baffled, rejected, crossed>>
      /\ UNCHANGED credentials \/ (~Signin!isLoading /\ ~open /\ credentials' \in Signin!Forms)
      /\ UNCHANGED open \/ open' = FALSE
  <2>1. CASE Signin!Fill
    <3>1. PICK a \in Names, p \in Names : credentials' = [account |-> a, password |-> p]
      BY <2>1 DEF Signin!Fill, Names
    <3>2. credentials' \in Signin!Forms
      BY <3>1 DEF Signin!Forms, Names
    <3>3. QED
      BY <2>1, <3>2 DEF Signin!Fill
  <2>2. CASE \/ Signin!LoadConfig \/ Signin!SubmitWithSlider \/ Signin!Slide
             \/ Signin!Misfit \/ Signin!Resize \/ Signin!VerifyFails \/ Signin!Pick
             \/ Signin!Cancel \/ Signin!MembersChange
    BY <2>2
       DEF Signin!LoadConfig, Signin!SubmitWithSlider, Signin!Slide, Signin!Misfit,
           Signin!Resize, Signin!VerifyFails, Signin!Pick, Signin!Cancel, Signin!MembersChange
  <2>3. QED
    BY <2>1, <2>2
<1>2. checks' \subseteq Checks
  <2>1. checks \subseteq Checks /\ credentials.account \in Names
    BY DEF SigninInv, SigninTypes, Signin!TypeOK, Signin!Forms, Names
  <2>2. CASE Signin!Slide
    <3>1. steps' \in Steps
      BY <2>2, StepsGo DEF SigninInv, Signin!Slide
    <3>2. [id |-> steps', account |-> credentials.account, seen |-> None] \in Checks
      BY <2>1, <3>1 DEF Checks
    <3>3. QED
      BY <2>1, <2>2, <3>2 DEF Signin!Slide
  <2>3. CASE Signin!Misfit \/ Signin!VerifyFails
    BY <2>3, ChecksKept DEF SigninInv, Signin!Misfit, Signin!VerifyFails
  <2>4. CASE \/ Signin!Fill \/ Signin!LoadConfig \/ Signin!SubmitWithSlider \/ Signin!Resize
             \/ Signin!Pick \/ Signin!Cancel \/ Signin!MembersChange
    BY <2>1, <2>4
       DEF Signin!Fill, Signin!LoadConfig, Signin!SubmitWithSlider, Signin!Resize, Signin!Pick,
           Signin!Cancel, Signin!MembersChange
  <2>5. QED
    BY <2>2, <2>3, <2>4
<1>3. steps' \in 0 .. MaxSigninInputs
  <2>1. CASE Signin!Input
    BY <2>1, StepsGo DEF SigninInv
  <2>2. CASE UNCHANGED steps
    BY <2>2 DEF SigninInv, SigninTypes, Signin!TypeOK
  <2>3. QED
    BY <2>1, <2>2
       DEF Signin!Fill, Signin!LoadConfig, Signin!SubmitWithSlider, Signin!Slide, Signin!Misfit,
           Signin!Resize, Signin!VerifyFails, Signin!Pick, Signin!Cancel, Signin!MembersChange
<1>4. /\ loaded' \in BOOLEAN /\ active' \subseteq Memberships
      /\ slider' \in {"none", "idle", "checking", "passed"}
      /\ picked' \in Memberships \cup {0}
  <2>1. /\ loaded \in BOOLEAN /\ active \subseteq Memberships
        /\ slider \in {"none", "idle", "checking", "passed"}
        /\ picked \in Memberships \cup {0}
    BY DEF SigninInv, SigninTypes, Signin!TypeOK
  <2>2. CASE Signin!Pick
    <3>1. offered \in Signin!Offers /\ picked' \in offered.selectable
      BY <2>2 DEF SigninInv, SigninTypes, Signin!TypeOK, Signin!Pick
    <3>2. QED
      BY <2>1, <2>2, <3>1 DEF Signin!Pick, Signin!Offers
  <2>3. CASE Signin!MembersChange
    BY <2>1, <2>3 DEF Signin!MembersChange
  <2>4. CASE \/ Signin!Fill \/ Signin!LoadConfig \/ Signin!SubmitWithSlider \/ Signin!Slide
             \/ Signin!Misfit \/ Signin!Resize \/ Signin!VerifyFails \/ Signin!Cancel
    BY <2>1, <2>4
       DEF Signin!Fill, Signin!LoadConfig, Signin!SubmitWithSlider, Signin!Slide, Signin!Misfit,
           Signin!Resize, Signin!VerifyFails, Signin!Cancel
  <2>5. QED
    BY <2>2, <2>3, <2>4
<1>5. SigninTypes'
  <2>1. credentials' \in Signin!Forms /\ open' \in BOOLEAN
    BY <1>1 DEF SigninInv, SigninTypes, Signin!TypeOK
  <2>2. QED
    BY <1>1, <1>2, <1>3, <1>4, <2>1, RecordsTyped DEF SigninInv, SigninTypes, Signin!TypeOK
<1>6. CaptchaInv' /\ OfferInv' /\ ChoiceInv'
  BY <1>1
     DEF SigninInv, CaptchaInv, OfferInv, ChoiceInv, Remembered, Signin!RightPassword
<1>7. SigninFormInv'
  BY <1>1 DEF SigninInv, SigninFormInv, Signin!isLoading
<1>8. QED
  BY <1>5, <1>6, <1>7 DEF SigninInv

\* A call that was good stays so while captchas only lapse or are passed.
LEMMA CaptchasStay ==
  ASSUME SigninInv, lapsed \subseteq lapsed',
         \A a \in Signin!Accounts :
           proofs[a] # 0 => proofs'[a] = proofs[a] \/ proofs[a] \in lapsed',
         NEW call, Remembered(call)
  PROVE  call.code # 0 =>
           call.proved \in Signin!Accounts
             /\ (call.code \in lapsed' \/ proofs'[call.proved] = call.code)
  BY DEF Remembered

\* A query is made, of the form or of what the slider that passed was shown with.
LEMMA QueryStep ==
  ASSUME Signin!ConstantsOK, SigninInv, Signin!SubmitDirectly \/ Signin!Verified
  PROVE  SigninInv'
<1>1. PICK given, pass, proved :
        /\ Signin!Query(given, pass, proved) /\ Signin!Input
        /\ given \in Signin!Forms /\ pass \in 0 .. MaxSigninInputs /\ proved \in Names
        /\ pass # 0 => proved \in Signin!Accounts /\ proofs'[proved] = pass
        /\ proofs' \in [Signin!Accounts -> 0 .. MaxSigninInputs]
        /\ lapsed \subseteq lapsed' /\ lapsed' \subseteq Steps
        /\ \A a \in Signin!Accounts :
             proofs[a] # 0 => proofs'[a] = proofs[a] \/ proofs[a] \in lapsed'
        /\ checks' \subseteq Checks /\ slider' \in {"none", "idle", "checking", "passed"}
        /\ UNCHANGED <<demanded, loaded, active, credentials, offered, open, picked, signin,
                       session, confirmed, baffled, rejected>>
  <2>1. /\ credentials \in Signin!Forms /\ credentials.account \in Names
        /\ proofs \in [Signin!Accounts -> 0 .. MaxSigninInputs] /\ lapsed \subseteq Steps
        /\ slider \in {"none", "idle", "checking", "passed"}
        /\ checks \subseteq Checks /\ MaxSigninInputs \in Nat
    BY DEF SigninInv, SigninTypes, Signin!TypeOK, Signin!Forms, Names, Steps,
       Signin!ConstantsOK
  <2>2. CASE Signin!SubmitDirectly
    <3>1. /\ Signin!Query(credentials, 0, credentials.account) /\ Signin!Input
          /\ UNCHANGED <<proofs, lapsed>> /\ slider' = "none" /\ checks' \subseteq Checks
          /\ UNCHANGED <<demanded, loaded, active, credentials, offered, open, picked, signin,
                         session, confirmed, baffled, rejected>>
      BY <2>2, ChecksKept DEF Signin!SubmitDirectly, SigninInv
    <3>2. 0 \in 0 .. MaxSigninInputs
      BY <2>1
    <3>3. QED
      BY <2>1, <3>1, <3>2
  <2>3. CASE Signin!Verified
    <3>1. PICK c \in checks :
            /\ c.account # "" /\ Signin!Input
            /\ checks' = checks \ {c}
            /\ proofs' = [proofs EXCEPT ![c.account] = c.id]
            /\ lapsed' = lapsed \cup ({proofs[c.account]} \ {0})
            /\ slider' = IF slider = "checking" THEN "passed" ELSE slider
            /\ Signin!Query(IF c.seen = None THEN credentials ELSE c.seen, c.id, c.account)
            /\ UNCHANGED <<demanded, loaded, active, credentials, offered, open, picked, signin,
                           session, confirmed, baffled, rejected>>
      BY <2>3 DEF Signin!Verified
    <3>2. PICK given : given = IF c.seen = None THEN credentials ELSE c.seen
      OBVIOUS
    <3>3. c \in Checks
      BY <2>1, <3>1
    <3>4. c.account \in Signin!Accounts /\ c.id \in Steps /\ c.account \in Names
      BY <3>1, <3>3 DEF Checks, Names
    <3>5. given \in Signin!Forms
      BY <2>1, <3>2, <3>3 DEF Checks
    <3>6. c.id \in 0 .. MaxSigninInputs /\ c.id # 0
      BY <2>1, <3>4 DEF Steps
    <3>7. proofs' \in [Signin!Accounts -> 0 .. MaxSigninInputs] /\ proofs'[c.account] = c.id
      BY <2>1, <3>1, <3>4, <3>6
    <3>8. lapsed' \subseteq Steps
      <4>1. proofs[c.account] \in 0 .. MaxSigninInputs
        BY <2>1, <3>4
      <4>2. proofs[c.account] = 0 \/ proofs[c.account] \in Steps
        <5>1. ASSUME NEW n \in 0 .. MaxSigninInputs PROVE n = 0 \/ n \in 1 .. MaxSigninInputs
          BY <2>1
        <5>2. QED
          BY <4>1, <5>1 DEF Steps
      <4>3. ASSUME NEW x \in lapsed' PROVE x \in Steps
        BY <2>1, <3>1, <4>2, <4>3
      <4>4. QED
        BY <4>3
    <3>9. ASSUME NEW a \in Signin!Accounts, proofs[a] # 0
          PROVE  proofs'[a] = proofs[a] \/ proofs[a] \in lapsed'
      BY <2>1, <3>1, <3>9
    <3>10. Signin!Query(given, c.id, c.account)
      BY <3>1, <3>2
    <3>11. checks' \subseteq Checks /\ slider' \in {"none", "idle", "checking", "passed"}
      BY <2>1, <3>1
    <3>12. QED
      BY <3>1, <3>4, <3>5, <3>6, <3>7, <3>8, <3>9, <3>10, <3>11
  <2>4. QED
    BY <2>2, <2>3
<1>2. PICK call \in Calls :
        /\ call = [id |-> steps', account |-> given.account, password |-> given.password,
                   code |-> pass, proved |-> proved]
        /\ call.id = steps' /\ call.account = given.account /\ call.code = pass
        /\ call.proved = proved
  <2>1. steps' \in Steps
    BY <1>1, StepsGo DEF SigninInv
  <2>2. given.account \in Names /\ given.password \in Names
    BY <1>1 DEF Signin!Forms, Names
  <2>3. PICK a \in Names, p \in Names, n \in Steps :
          a = given.account /\ p = given.password /\ n = steps'
    BY <2>1, <2>2
  <2>4. [id |-> n, account |-> a, password |-> p, code |-> pass, proved |-> proved] \in Calls
    BY <1>1 DEF Calls
  <2>5. QED
    BY <2>3, <2>4
<1>3. /\ queries' = queries \cup {call} /\ latest' = steps'
      /\ crossed' = (crossed \/ queries # {} \/ given # credentials)
  BY <1>1, <1>2 DEF Signin!Query
<1>4. crossed' \in BOOLEAN /\ (~crossed' => ~crossed /\ queries = {} /\ given = credentials)
  <2>1. CASE crossed \/ queries # {} \/ given # credentials
    <3>1. TRUE = (crossed \/ queries # {} \/ given # credentials)
      BY <2>1
    <3>2. QED
      BY <1>3, <3>1
  <2>2. CASE ~(crossed \/ queries # {} \/ given # credentials)
    <3>1. FALSE = (crossed \/ queries # {} \/ given # credentials)
      BY <2>2
    <3>2. QED
      BY <1>3, <2>2, <3>1
  <2>3. QED
    BY <2>1, <2>2
<1>5. SigninTypes'
  <2>1. steps' \in 0 .. MaxSigninInputs
    BY <1>1, StepsGo DEF SigninInv
  <2>2. queries' \subseteq Calls
    BY <1>3 DEF SigninInv, SigninTypes
  <2>3. QED
    BY <1>1, <1>3, <1>4, <2>1, <2>2, RecordsTyped
       DEF SigninInv, SigninTypes, Signin!TypeOK, Steps
<1>6. CaptchaInv'
  <2>1. ASSUME NEW c, Remembered(c)
        PROVE  c.code # 0 => c.proved \in Signin!Accounts
                               /\ (c.code \in lapsed' \/ proofs'[c.proved] = c.code)
    BY <1>1, <2>1, CaptchasStay
  <2>2. call.code # 0 => call.proved \in Signin!Accounts /\ proofs'[call.proved] = call.code
    BY <1>1, <1>2
  <2>3. QED
    BY <1>1, <1>3, <2>1, <2>2 DEF SigninInv, CaptchaInv, Remembered
<1>7. OfferInv' /\ ChoiceInv'
  BY <1>1 DEF SigninInv, OfferInv, ChoiceInv, Signin!RightPassword
<1>8. SigninFormInv'
  BY <1>1, <1>2, <1>3, <1>4 DEF SigninInv, SigninFormInv
<1>9. QED
  BY <1>5, <1>6, <1>7, <1>8 DEF SigninInv

\* The dialog opens on what a query listed.
LEMMA ListedStep ==
  ASSUME Signin!ConstantsOK, SigninInv, Signin!Listed
  PROVE  SigninInv'
<1>1. PICK q \in queries :
        /\ Signin!RightPassword(q)
        /\ queries' = queries \ {q}
        /\ offered' = [account |-> q.account, password |-> q.password, code |-> q.code,
                       proved |-> q.proved,
                       selectable |-> Signin!OptionsOf(q.account) \cap active]
        /\ slider' = "none" /\ checks' = Signin!Unmounted(credentials) /\ open' = TRUE
        /\ UNCHANGED <<demanded, loaded, active, proofs, credentials, latest, picked, signin,
                       session, confirmed, lapsed, baffled, rejected, crossed, steps>>
  BY DEF Signin!Listed, Signin!ProofsAfterQuery
<1>2. q \in Calls /\ Remembered(q)
  BY DEF SigninInv, SigninTypes, CaptchaInv
<1>3. PICK o \in Signin!Offers :
        /\ offered' = o /\ o.account = q.account /\ o.password = q.account /\ o.code = q.code
        /\ o.proved = q.proved /\ o.selectable \subseteq Signin!OptionsOf(q.account)
  <2>1. q.account \in Signin!Accounts /\ q.password = q.account
    BY <1>1 DEF Signin!RightPassword
  <2>2. q.code \in 0 .. MaxSigninInputs /\ q.proved \in Signin!Accounts \cup {""}
    BY <1>2 DEF Calls, Names
  <2>3. Signin!OptionsOf(q.account) \cap active \in SUBSET Memberships
    BY DEF Signin!OptionsOf
  <2>4. offered' \in Signin!Offers
    BY <1>1, <2>1, <2>2, <2>3 DEF Signin!Offers
  <2>5. QED
    BY <1>1, <2>1, <2>4
<1>4. SigninTypes'
  <2>1. checks' \subseteq Checks /\ queries' \subseteq Calls
    BY <1>1, ChecksKept DEF SigninInv, SigninTypes
  <2>2. offered' # None
    BY <1>3 DEF Signin!ConstantsOK
  <2>3. QED
    BY <1>1, <1>3, <2>1, <2>2, RecordsTyped DEF SigninInv, SigninTypes, Signin!TypeOK
<1>5. CaptchaInv'
  BY <1>1, <1>2, <1>3 DEF SigninInv, CaptchaInv, Remembered
<1>6. OfferInv' /\ ChoiceInv' /\ SigninFormInv'
  BY <1>1, <1>3
     DEF SigninInv, OfferInv, ChoiceInv, SigninFormInv, Signin!RightPassword, Signin!OptionsOf
<1>7. QED
  BY <1>4, <1>5, <1>6 DEF SigninInv

\* A call that was made with a good captcha is refused for it only after it lapsed.
LEMMA NeverBaffling ==
  ASSUME Signin!ConstantsOK, SigninInv, NEW call, Remembered(call)
  PROVE  ~Signin!Baffling(call)
  BY DEF Signin!Baffling, Signin!Proved, Remembered

\* Nothing is listed.
LEMMA NotListedStep ==
  ASSUME Signin!ConstantsOK, SigninInv, Signin!NotListed
  PROVE  SigninInv'
<1>1. PICK q \in queries :
        /\ queries' = queries \ {q} /\ slider' = "none"
        /\ checks' = Signin!Unmounted(credentials)
        /\ baffled' = (baffled \/ Signin!Baffling(q))
        /\ UNCHANGED <<demanded, loaded, active, proofs, credentials, latest, offered, open,
                       picked, signin, session, confirmed, lapsed, rejected, crossed, steps>>
  BY DEF Signin!NotListed, Signin!ProofsAfterQuery
<1>2. baffled' = FALSE
  <2>1. ~baffled /\ ~Signin!Baffling(q)
    BY NeverBaffling DEF SigninInv, CaptchaInv
  <2>2. FALSE = (baffled \/ Signin!Baffling(q))
    BY <2>1
  <2>3. QED
    BY <1>1, <2>2
<1>3. SigninTypes'
  <2>1. checks' \subseteq Checks /\ queries' \subseteq Calls
    BY <1>1, ChecksKept DEF SigninInv, SigninTypes
  <2>2. QED
    BY <1>1, <1>2, <2>1, RecordsTyped DEF SigninInv, SigninTypes, Signin!TypeOK
<1>4. CaptchaInv'
  BY <1>1, <1>2 DEF SigninInv, CaptchaInv, Remembered
<1>5. OfferInv' /\ ChoiceInv' /\ SigninFormInv'
  BY <1>1 DEF SigninInv, OfferInv, ChoiceInv, SigninFormInv, Signin!RightPassword
<1>6. QED
  BY <1>3, <1>4, <1>5 DEF SigninInv

\* The choice on screen is confirmed.
LEMMA ConfirmStep ==
  ASSUME Signin!ConstantsOK, SigninInv, Signin!Confirm, session = None
  PROVE  SigninInv'
<1>1. PICK m :
        /\ open /\ m \in offered.selectable /\ Signin!Input
        /\ signin' = [account |-> offered.account, password |-> offered.password,
                      code |-> offered.code, proved |-> offered.proved, membership |-> m]
        /\ confirmed' = [account |-> offered.account, membership |-> m]
        /\ UNCHANGED <<demanded, loaded, active, proofs, credentials, slider, checks, queries,
                       latest, offered, open, picked, session, lapsed, baffled, rejected, crossed>>
  BY DEF Signin!Confirm, Signin!SigninPayload
<1>2. /\ offered # None /\ offered \in Signin!Offers /\ Remembered(offered)
      /\ offered.password = offered.account
      /\ offered.selectable \subseteq Signin!OptionsOf(offered.account)
  BY <1>1 DEF SigninInv, SigninTypes, Signin!TypeOK, CaptchaInv, OfferInv
<1>3. SigninTypes'
  <2>1. steps' \in 0 .. MaxSigninInputs
    BY <1>1, StepsGo DEF SigninInv
  <2>2. QED
    BY <1>1, <1>2, <2>1, RecordsTyped DEF SigninInv, SigninTypes, Signin!TypeOK
<1>4. CaptchaInv'
  BY <1>1, <1>2 DEF SigninInv, CaptchaInv, Remembered
<1>5. ChoiceInv'
  <2>1. offered.account \in Signin!Accounts
    BY <1>2 DEF Signin!Offers
  <2>2. m \in Signin!OptionsOf(offered.account)
    BY <1>1, <1>2
  <2>3. QED
    BY <1>1, <1>2, <2>1, <2>2 DEF SigninInv, ChoiceInv, Signin!RightPassword, Signin!OptionsOf
<1>6. OfferInv' /\ SigninFormInv'
  BY <1>1 DEF SigninInv, OfferInv, SigninFormInv
<1>7. QED
  BY <1>3, <1>4, <1>5, <1>6 DEF SigninInv

\* A captcha that is used lapses.
LEMMA ProofUsed ==
  ASSUME Signin!ConstantsOK, SigninInv, signin # None,
         Signin!UseProof(signin) \/ UNCHANGED <<proofs, lapsed>>
  PROVE  /\ lapsed \subseteq lapsed' /\ lapsed' \subseteq Steps
         /\ proofs' \in [Signin!Accounts -> 0 .. MaxSigninInputs]
         /\ \A a \in Signin!Accounts :
              proofs[a] # 0 => proofs'[a] = proofs[a] \/ proofs[a] \in lapsed'
<1>1. /\ proofs \in [Signin!Accounts -> 0 .. MaxSigninInputs] /\ lapsed \subseteq Steps
      /\ MaxSigninInputs \in Nat
  BY DEF SigninInv, SigninTypes, Signin!TypeOK, Steps, Signin!ConstantsOK
<1>2. CASE UNCHANGED <<proofs, lapsed>>
  BY <1>1, <1>2
<1>3. CASE /\ demanded /\ Signin!Proved(signin)
           /\ proofs' = [proofs EXCEPT ![signin.account] = 0]
           /\ lapsed' = lapsed \cup {signin.code}
  <2>1. /\ signin.account \in Signin!Accounts /\ signin.code # 0
        /\ proofs[signin.account] = signin.code
    BY <1>3 DEF Signin!Proved
  <2>2. signin.code \in Steps
    <3>1. signin.code \in 0 .. MaxSigninInputs
      BY <1>1, <2>1
    <3>2. QED
      BY <1>1, <2>1, <3>1 DEF Steps
  <2>3. 0 \in 0 .. MaxSigninInputs
    BY <1>1
  <2>4. QED
    BY <1>1, <1>3, <2>1, <2>2, <2>3
<1>4. QED
  BY <1>2, <1>3 DEF Signin!UseProof

\* The sign-in ends, with tokens or without.
LEMMA SigninEnds ==
  ASSUME Signin!ConstantsOK, SigninInv, session = None, Signin!SignedIn \/ Signin!NotSignedIn
  PROVE  SigninInv'
<1>1. /\ signin # None /\ signin' = None
      /\ Signin!UseProof(signin) \/ UNCHANGED <<proofs, lapsed>>
      /\ UNCHANGED <<demanded, loaded, active, credentials, queries, latest, offered, picked,
                     confirmed, crossed, steps>>
  BY DEF Signin!SignedIn, Signin!NotSignedIn
<1>2. /\ Signin!RightPassword(signin) /\ signin.membership \in Signin!OptionsOf(signin.account)
      /\ confirmed = [account |-> signin.account, membership |-> signin.membership]
      /\ Remembered(signin) /\ ~rejected /\ ~baffled
  BY <1>1 DEF SigninInv, ChoiceInv, CaptchaInv
<1>3. /\ slider' \in {"none", "idle", "checking", "passed"} /\ checks' \subseteq Checks
      /\ open' = FALSE \/ UNCHANGED open
      /\ baffled' = FALSE /\ rejected' = FALSE
      /\ session' = None \/ session' = confirmed
  <2>1. CASE Signin!SignedIn
    <3>1. OwnerOf[signin.membership] = signin.account
      BY <1>2 DEF Signin!OptionsOf
    <3>2. session' = confirmed
      BY <1>2, <2>1, <3>1 DEF Signin!SignedIn
    <3>3. baffled \in BOOLEAN /\ rejected \in BOOLEAN
      BY DEF SigninInv, SigninTypes, Signin!TypeOK
    <3>4. QED
      BY <1>2, <2>1, <3>2, <3>3 DEF Signin!SignedIn, SigninInv, SigninTypes, Signin!TypeOK
  <2>2. CASE Signin!NotSignedIn
    <3>1. FALSE = (baffled \/ Signin!Baffling(signin))
      BY <1>2, NeverBaffling
    <3>2. baffled' = FALSE
      BY <2>2, <3>1 DEF Signin!NotSignedIn
    <3>3. ~(Signin!Proved(signin) /\ ~Signin!MaySignIn(signin) /\ confirmed.membership \in active)
      BY <1>2 DEF Signin!MaySignIn
    <3>4. FALSE = (rejected \/ (Signin!Proved(signin) /\ ~Signin!MaySignIn(signin)
                                  /\ confirmed.membership \in active))
      BY <1>2, <3>3
    <3>5. rejected' = FALSE
      BY <2>2, <3>4 DEF Signin!NotSignedIn
    <3>6. QED
      BY <2>2, <3>2, <3>5, ChecksKept DEF Signin!NotSignedIn, SigninInv
  <2>3. QED
    BY <2>1, <2>2
<1>4. /\ lapsed \subseteq lapsed' /\ lapsed' \subseteq Steps
      /\ proofs' \in [Signin!Accounts -> 0 .. MaxSigninInputs]
      /\ \A a \in Signin!Accounts :
           proofs[a] # 0 => proofs'[a] = proofs[a] \/ proofs[a] \in lapsed'
  BY <1>1, ProofUsed
<1>5. SigninTypes'
  <2>1. queries' \subseteq Calls /\ open' \in BOOLEAN
    BY <1>1, <1>3 DEF SigninInv, SigninTypes, Signin!TypeOK
  <2>2. open' => offered' # None
    BY <1>1, <1>3 DEF SigninInv, SigninTypes, Signin!TypeOK
  <2>3. QED
    BY <1>1, <1>3, <1>4, <2>1, <2>2, RecordsTyped DEF SigninInv, SigninTypes, Signin!TypeOK,
       Steps
<1>6. CaptchaInv'
  <2>1. ASSUME NEW c, Remembered(c)
        PROVE  c.code # 0 => c.proved \in Signin!Accounts
                               /\ (c.code \in lapsed' \/ proofs'[c.proved] = c.code)
    BY <1>4, <2>1, CaptchasStay
  <2>2. QED
    BY <1>1, <1>3, <2>1 DEF SigninInv, CaptchaInv, Remembered
<1>7. OfferInv' /\ SigninFormInv'
  BY <1>1, <1>3 DEF SigninInv, OfferInv, SigninFormInv
<1>8. ChoiceInv'
  BY <1>1, <1>3 DEF ChoiceInv
<1>9. QED
  BY <1>5, <1>6, <1>7, <1>8 DEF SigninInv

\* The server forgets a captcha.
LEMMA ProofExpiresStep ==
  ASSUME Signin!ConstantsOK, SigninInv, Signin!ProofExpires
  PROVE  SigninInv'
<1>1. PICK a \in Signin!Accounts :
        /\ proofs[a] # 0
        /\ proofs' = [proofs EXCEPT ![a] = 0] /\ lapsed' = lapsed \cup {proofs[a]}
        /\ UNCHANGED <<demanded, loaded, active, credentials, slider, checks, queries, latest,
                       offered, open, picked, signin, session, confirmed, baffled, rejected,
                       crossed, steps>>
  BY DEF Signin!ProofExpires
<1>2. /\ proofs \in [Signin!Accounts -> 0 .. MaxSigninInputs] /\ lapsed \subseteq Steps
      /\ MaxSigninInputs \in Nat
  BY DEF SigninInv, SigninTypes, Signin!TypeOK, Steps, Signin!ConstantsOK
<1>3. proofs[a] \in Steps
  <2>1. proofs[a] \in 0 .. MaxSigninInputs
    BY <1>2
  <2>2. QED
    BY <1>1, <1>2, <2>1 DEF Steps
<1>4. /\ lapsed \subseteq lapsed' /\ lapsed' \subseteq Steps
      /\ proofs' \in [Signin!Accounts -> 0 .. MaxSigninInputs]
      /\ \A b \in Signin!Accounts :
           proofs[b] # 0 => proofs'[b] = proofs[b] \/ proofs[b] \in lapsed'
  <2>1. 0 \in 0 .. MaxSigninInputs
    BY <1>2
  <2>2. QED
    BY <1>1, <1>2, <1>3, <2>1
<1>5. SigninTypes'
  BY <1>1, <1>4, RecordsTyped DEF SigninInv, SigninTypes, Signin!TypeOK, Steps
<1>6. CaptchaInv'
  <2>1. ASSUME NEW c, Remembered(c)
        PROVE  c.code # 0 => c.proved \in Signin!Accounts
                               /\ (c.code \in lapsed' \/ proofs'[c.proved] = c.code)
    BY <1>4, <2>1, CaptchasStay
  <2>2. QED
    BY <1>1, <2>1 DEF SigninInv, CaptchaInv, Remembered
<1>7. OfferInv' /\ ChoiceInv' /\ SigninFormInv'
  BY <1>1 DEF SigninInv, OfferInv, ChoiceInv, SigninFormInv, Signin!RightPassword
<1>8. QED
  BY <1>5, <1>6, <1>7 DEF SigninInv

LEMMA SigninNext == ASSUME Signin!ConstantsOK, SigninInv, [Signin!Next]_(Signin!signinVars) PROVE SigninInv'
<1>1. CASE UNCHANGED Signin!signinVars
  <2>1. UNCHANGED <<demanded, loaded, active, proofs, credentials, slider, checks, queries,
                    latest, offered, open, picked, signin, session, confirmed, lapsed, baffled,
                    rejected, crossed, steps>>
    BY <1>1 DEF Signin!signinVars
  <2>2. SigninTypes'
    BY <2>1, RecordsTyped DEF SigninInv, SigninTypes, Signin!TypeOK
  <2>3. CaptchaInv' /\ OfferInv' /\ ChoiceInv' /\ SigninFormInv'
    BY <2>1
       DEF SigninInv, CaptchaInv, Remembered, OfferInv, ChoiceInv, SigninFormInv, Signin!RightPassword
  <2>4. QED
    BY <2>2, <2>3 DEF SigninInv
<1>2. CASE Signin!Next
  BY <1>2, SigninQuiet, QueryStep, ListedStep, NotListedStep, ConfirmStep, SigninEnds,
     ProofExpiresStep DEF Signin!Next
<1>3. QED
  BY <1>1, <1>2

LEMMA SigninInductive == ASSUME Signin!ConstantsOK PROVE Signin!Spec => []SigninInv
<1>1. Signin!Init => SigninInv
  BY SigninInit
<1>2. SigninInv /\ [Signin!Next]_(Signin!signinVars) => SigninInv'
  BY SigninNext
<1>3. QED
  BY <1>1, <1>2, PTL DEF Signin!Spec

\* The form, the calls, the dialog and the captchas keep their types.
THEOREM SigninTyped == ASSUME Signin!ConstantsOK PROVE Signin!Spec => []Signin!TypeOK
<1>1. SigninInv => Signin!TypeOK
  BY DEF SigninInv, SigninTypes
<1>2. QED
  BY <1>1, SigninInductive, PTL

\* The tokens are those of the choice confirmed, the organizations those of the account
\* on screen, and the captcha serves both calls.
THEOREM SigninsAreConfirmed ==
  ASSUME Signin!ConstantsOK PROVE Signin!Spec => []Signin!SigninFollowsVisitor
<1>1. SigninInv => Signin!SigninFollowsVisitor
  BY DEF SigninInv, CaptchaInv, ChoiceInv, SigninFormInv, Signin!SigninFollowsVisitor,
         Signin!SigninIsConfirmed, Signin!DialogIsOfForm, Signin!CaptchaRefusalHasCause
<1>2. QED
  BY <1>1, SigninInductive, PTL

---------------------------------------------------------------------------
(* CodeForm: the code that was asked for, and the captcha it takes *)

Texts == Code!Spellings \cup {""}
Numbers == 1 .. MaxCodeInputs
Provings == [id : Numbers, proved : Texts, seen : Texts \cup {None}]
Askings == [id : Numbers, contact : Contacts \cup {""}, proof : Code!Ids, proved : Texts]
Submissions == [contact : Contacts, code : Code!Ids]

CodeTypes ==
  /\ Code!TypeOK
  /\ proving \subseteq Provings /\ sending \subseteq Askings
  /\ submit = None \/ submit \in Submissions

\* The server remembers a captcha for the spelling it was passed for until it is spoilt.
CodeKept(s) ==
  s.proof # 0 =>
    /\ s.proved \in Code!Spellings /\ s.proved # ""
    /\ s.proof \in spoilt \/ remembered[s.proved] = s.proof

\* Each request of a captcha was made with one that was good then.
PuzzleInv == (\A s \in sending : CodeKept(s)) /\ ~puzzled

\* The page counts down as long as the server, but for the contacts it knows too little of.
CountdownInv == (\A c \in Contacts \ excused : cooling[c] <= resend) /\ ~vain

\* A contact that is cooling, or that the visitor was told about, was sent a code.
MailInv ==
  \A c \in Contacts :
    Code!Reachable(c) /\ (cooling[c] # 0 \/ (told # None /\ told = c)) =>
      live[c] # 0 \/ c \in gone

CodeInv == CodeTypes /\ PuzzleInv /\ CountdownInv /\ MailInv

LEMMA BoundsOK ==
  ASSUME Code!ConstantsOK
  PROVE  /\ MaxCodeInputs \in Nat /\ Cooldown \in Nat \ {0} /\ 0 \in Code!Ids
         /\ 0 \in 0 .. Cooldown /\ Cooldown \in 0 .. Cooldown
         /\ \A n \in Code!Ids : n = 0 \/ n \in Numbers
         /\ \A n \in Numbers : n \in Code!Ids /\ n # 0
<1>1. MaxCodeInputs \in Nat /\ Cooldown \in Nat \ {0}
  BY DEF Code!ConstantsOK
<1>2. QED
  BY <1>1 DEF Code!Ids, Numbers

LEMMA CodeInit == ASSUME Code!ConstantsOK, Code!Init PROVE CodeInv
<1>1. /\ remembered \in [Code!Spellings -> Code!Ids] /\ live \in [Contacts -> Code!Ids]
      /\ cooling \in [Contacts -> 0 .. Cooldown]
  BY BoundsOK DEF Code!Init
<1>2. CodeTypes
  BY <1>1, BoundsOK DEF Code!Init, CodeTypes, Code!TypeOK
<1>3. PuzzleInv /\ CountdownInv /\ MailInv
  <2>1. \A c \in Contacts : cooling[c] = 0
    BY DEF Code!Init
  <2>2. resend = 0
    BY DEF Code!Init
  <2>3. 0 <= 0
    OBVIOUS
  <2>4. QED
    BY <2>1, <2>2, <2>3 DEF Code!Init, PuzzleInv, CountdownInv, MailInv
<1>4. QED
  BY <1>2, <1>3 DEF CodeInv

\* The number of a call is new.
LEMMA CountGoes ==
  ASSUME Code!ConstantsOK, CodeTypes, Code!Input
  PROVE  count' \in Numbers /\ count' \in Code!Ids
<1>1. count \in 0 .. MaxCodeInputs /\ count < MaxCodeInputs /\ count' = count + 1
  BY DEF CodeTypes, Code!TypeOK, Code!Ids, Code!Input
<1>2. QED
  BY <1>1, BoundsOK DEF Numbers, Code!Ids

\* A slider that goes away leaves its verifications the contact they had.
LEMMA ProvingsKept ==
  ASSUME CodeTypes
  PROVE  Code!Unmounted \subseteq Provings
<1>1. contact \in Texts /\ proving \subseteq Provings
  BY DEF CodeTypes, Code!TypeOK, Texts
<1>2. ASSUME NEW v \in proving
      PROVE  [v EXCEPT !.seen = IF v.seen = None THEN contact ELSE v.seen] \in Provings
  <2>1. v \in Provings
    BY <1>1, <1>2
  <2>2. CASE v.seen = None
    BY <1>1, <2>1, <2>2 DEF Provings
  <2>3. CASE v.seen # None
    BY <1>1, <2>1, <2>3 DEF Provings
  <2>4. QED
    BY <2>2, <2>3
<1>3. QED
  BY <1>2 DEF Code!Unmounted

\* What the types say of the records that TypeOK repeats.
LEMMA CallsTyped ==
  ASSUME Code!ConstantsOK, proving' \subseteq Provings, sending' \subseteq Askings,
         submit' = None \/ submit' \in Submissions
  PROVE  /\ \A v \in proving' : v.id \in Code!Ids
         /\ \A s \in sending' : s.id \in Code!Ids /\ s.contact \in Contacts \cup {""}
         /\ submit' = None \/ submit'.code \in Code!Ids
  BY BoundsOK DEF Provings, Askings, Submissions

\* A contact that is written is one the server knows how to write.
LEMMA Written ==
  ASSUME Code!ConstantsOK, NEW text \in Texts
  PROVE  /\ Code!Norm(text) \in Contacts \cup {""}
         /\ text # "" => Code!Norm(text) \in Contacts
  BY DEF Code!ConstantsOK, Code!Norm, Texts, Code!Spellings

\* What the visitor does with the form changes nothing the server has.
LEMMA CodeQuiet ==
  ASSUME Code!ConstantsOK, CodeInv,
         \/ Code!TypeContact \/ Code!TypeCode \/ Code!LoadConfig \/ Code!AskWithSlider
         \/ Code!Slide \/ Code!Resize \/ Code!VerifyFails \/ Code!Submit \/ Code!CloseDialog
         \/ Code!OpenDialog
  PROVE  CodeInv'
<1>1. UNCHANGED <<purpose, asks, registered, remembered, live, cooling, gone, spoilt, excused,
                  puzzled, vain, sending, newest, resend, told>>
  BY DEF Code!TypeContact, Code!TypeCode, Code!LoadConfig, Code!AskWithSlider, Code!Slide,
         Code!Resize, Code!VerifyFails, Code!Submit, Code!CloseDialog, Code!OpenDialog,
         Code!server, Code!histories
<1>2. proving' \subseteq Provings
  <2>1. proving \subseteq Provings /\ contact \in Texts
    BY DEF CodeInv, CodeTypes, Code!TypeOK, Texts
  <2>2. CASE Code!Slide
    <3>1. count' \in Numbers
      BY <2>2, CountGoes DEF CodeInv, Code!Slide
    <3>2. [id |-> count', proved |-> contact, seen |-> None] \in Provings
      BY <2>1, <3>1 DEF Provings
    <3>3. QED
      BY <2>1, <2>2, <3>2 DEF Code!Slide
  <2>3. CASE Code!VerifyFails \/ Code!CloseDialog
    BY <2>3, ProvingsKept DEF CodeInv, Code!VerifyFails, Code!CloseDialog
  <2>4. CASE \/ Code!TypeContact \/ Code!TypeCode \/ Code!LoadConfig \/ Code!AskWithSlider
             \/ Code!Resize \/ Code!Submit \/ Code!OpenDialog
    BY <2>1, <2>4
       DEF Code!TypeContact, Code!TypeCode, Code!LoadConfig, Code!AskWithSlider, Code!Resize,
           Code!Submit, Code!OpenDialog
  <2>5. QED
    BY <2>2, <2>3, <2>4
<1>3. count' \in Code!Ids
  <2>1. CASE Code!Input
    BY <2>1, CountGoes DEF CodeInv
  <2>2. CASE UNCHANGED count
    BY <2>2 DEF CodeInv, CodeTypes, Code!TypeOK
  <2>3. QED
    BY <2>1, <2>2
       DEF Code!TypeContact, Code!TypeCode, Code!LoadConfig, Code!AskWithSlider, Code!Slide,
           Code!Resize, Code!VerifyFails, Code!Submit, Code!CloseDialog, Code!OpenDialog
<1>4. submit' = None \/ submit' \in Submissions
  <2>1. CASE Code!Submit
    <3>1. contact \in Texts /\ contact # "" /\ code \in Code!Ids
      BY <2>1 DEF CodeInv, CodeTypes, Code!TypeOK, Texts, Code!Submit
    <3>2. Code!Norm(contact) \in Contacts
      BY <3>1, Written
    <3>3. QED
      BY <2>1, <3>1, <3>2 DEF Code!Submit, Submissions
  <2>2. CASE ~Code!Submit
    <3>1. UNCHANGED submit
      BY <2>2
         DEF Code!TypeContact, Code!TypeCode, Code!LoadConfig, Code!AskWithSlider, Code!Slide,
             Code!Resize, Code!VerifyFails, Code!CloseDialog, Code!OpenDialog
    <3>2. QED
      BY <3>1 DEF CodeInv, CodeTypes
  <2>3. QED
    BY <2>1, <2>2
<1>5. /\ contact' \in Code!Spellings \cup {""} /\ code' \in Code!Ids
      /\ aware' \in BOOLEAN /\ shows' \in BOOLEAN
      /\ puzzle' \in {"none", "idle", "checking", "passed"}
  <2>1. /\ contact \in Code!Spellings \cup {""} /\ code \in Code!Ids
        /\ aware \in BOOLEAN /\ shows \in BOOLEAN
        /\ puzzle \in {"none", "idle", "checking", "passed"}
        /\ live \in [Contacts -> Code!Ids]
    BY DEF CodeInv, CodeTypes, Code!TypeOK
  <2>2. CASE Code!TypeContact \/ Code!TypeCode
    BY <2>1, <2>2 DEF Code!TypeContact, Code!TypeCode
  <2>3. CASE \/ Code!LoadConfig \/ Code!AskWithSlider \/ Code!Slide \/ Code!Resize
             \/ Code!VerifyFails \/ Code!Submit \/ Code!CloseDialog \/ Code!OpenDialog
    BY <2>1, <2>3
       DEF Code!LoadConfig, Code!AskWithSlider, Code!Slide, Code!Resize, Code!VerifyFails,
           Code!Submit, Code!CloseDialog, Code!OpenDialog
  <2>4. QED
    BY <2>2, <2>3
<1>6. CodeTypes'
  <2>1. sending' \subseteq Askings
    BY <1>1 DEF CodeInv, CodeTypes
  <2>2. QED
    BY <1>1, <1>2, <1>3, <1>4, <1>5, <2>1, CallsTyped DEF CodeInv, CodeTypes, Code!TypeOK
<1>7. PuzzleInv' /\ CountdownInv' /\ MailInv'
  BY <1>1 DEF CodeInv, PuzzleInv, CodeKept, CountdownInv, MailInv, Code!Reachable
<1>8. QED
  BY <1>6, <1>7 DEF CodeInv

\* A request that had a good captcha keeps it while captchas are only used, replaced or expire.
LEMMA ProofsStay ==
  ASSUME CodeInv, spoilt \subseteq spoilt',
         \A s \in Code!Spellings :
           remembered[s] # 0 => remembered'[s] = remembered[s] \/ remembered[s] \in spoilt',
         NEW call, CodeKept(call)
  PROVE  call.proof # 0 =>
           /\ call.proved \in Code!Spellings /\ call.proved # ""
           /\ call.proof \in spoilt' \/ remembered'[call.proved] = call.proof
  BY DEF CodeKept

\* A code is asked for, for the contact typed or for the one the slider was shown with.
LEMMA AskStep ==
  ASSUME Code!ConstantsOK, CodeInv, Code!AskDirectly \/ Code!Verified
  PROVE  CodeInv'
<1>1. PICK text, proof, proved :
        /\ Code!Request(text, proof, proved) /\ Code!Input
        /\ text \in Texts /\ proof \in Code!Ids /\ proved \in Texts
        /\ proof # 0 => proved \in Code!Spellings /\ proved # "" /\ remembered'[proved] = proof
        /\ remembered' \in [Code!Spellings -> Code!Ids]
        /\ spoilt \subseteq spoilt' /\ spoilt' \subseteq Code!Ids
        /\ \A s \in Code!Spellings :
             remembered[s] # 0 => remembered'[s] = remembered[s] \/ remembered[s] \in spoilt'
        /\ proving' \subseteq Provings /\ puzzle' \in {"none", "idle", "checking", "passed"}
        /\ UNCHANGED <<purpose, asks, registered, live, cooling, gone, excused, puzzled, vain,
                       aware, shows, contact, code, submit, resend, told>>
  <2>1. /\ contact \in Texts /\ remembered \in [Code!Spellings -> Code!Ids]
        /\ spoilt \subseteq Code!Ids /\ puzzle \in {"none", "idle", "checking", "passed"}
        /\ proving \subseteq Provings
    BY DEF CodeInv, CodeTypes, Code!TypeOK, Texts
  <2>2. CASE Code!AskDirectly
    <3>1. /\ Code!Request(contact, 0, contact) /\ Code!Input
          /\ UNCHANGED <<remembered, spoilt, proving, puzzle>>
          /\ UNCHANGED <<purpose, asks, registered, live, cooling, gone, excused, puzzled, vain,
                         aware, shows, contact, code, submit, resend, told>>
      BY <2>2 DEF Code!AskDirectly, Code!server, Code!histories
    <3>2. QED
      BY <2>1, <3>1, BoundsOK
  <2>3. CASE Code!Verified
    <3>1. PICK v \in proving :
            /\ v.proved # "" /\ Code!Input /\ proving' = proving \ {v}
            /\ remembered' = [remembered EXCEPT ![v.proved] = v.id]
            /\ spoilt' = spoilt \cup ({remembered[v.proved]} \ {0})
            /\ puzzle' = IF puzzle = "checking" THEN "passed" ELSE puzzle
            /\ Code!Request(IF v.seen = None THEN contact ELSE v.seen, v.id, v.proved)
            /\ UNCHANGED <<purpose, asks, registered, live, cooling, gone, excused, puzzled, vain,
                           aware, shows, contact, code, submit, resend, told>>
      BY <2>3 DEF Code!Verified
    <3>2. PICK text : text = IF v.seen = None THEN contact ELSE v.seen
      OBVIOUS
    <3>3. v \in Provings
      BY <2>1, <3>1
    <3>4. /\ v.proved \in Texts /\ v.proved \in Code!Spellings
          /\ v.id \in Code!Ids /\ v.id # 0
      BY <3>1, <3>3, BoundsOK DEF Provings, Texts
    <3>5. text \in Texts
      BY <2>1, <3>2, <3>3 DEF Provings
    <3>6. remembered' \in [Code!Spellings -> Code!Ids] /\ remembered'[v.proved] = v.id
      BY <2>1, <3>1, <3>4
    <3>7. spoilt \subseteq spoilt' /\ spoilt' \subseteq Code!Ids
      <4>1. remembered[v.proved] \in Code!Ids
        BY <2>1, <3>4
      <4>2. QED
        BY <2>1, <3>1, <4>1
    <3>8. ASSUME NEW s \in Code!Spellings, remembered[s] # 0
          PROVE  remembered'[s] = remembered[s] \/ remembered[s] \in spoilt'
      BY <2>1, <3>1, <3>8
    <3>9. Code!Request(text, v.id, v.proved)
      BY <3>1, <3>2
    <3>10. proving' \subseteq Provings /\ puzzle' \in {"none", "idle", "checking", "passed"}
      BY <2>1, <3>1
    <3>11. QED
      BY <3>1, <3>4, <3>5, <3>6, <3>7, <3>8, <3>9, <3>10
  <2>4. QED
    BY <2>2, <2>3
<1>2. PICK call \in Askings :
        /\ call = [id |-> count', contact |-> Code!Norm(text), proof |-> proof,
                   proved |-> proved]
        /\ call.proof = proof /\ call.proved = proved
  <2>1. PICK n \in Numbers, c \in Contacts \cup {""} : n = count' /\ c = Code!Norm(text)
    BY <1>1, CountGoes, Written DEF CodeInv
  <2>2. [id |-> n, contact |-> c, proof |-> proof, proved |-> proved] \in Askings
    BY <1>1 DEF Askings
  <2>3. QED
    BY <2>1, <2>2
<1>3. sending' = sending \cup {call} /\ newest' = count'
  BY <1>1, <1>2 DEF Code!Request
<1>4. CodeTypes'
  <2>1. count' \in Code!Ids
    BY <1>1, CountGoes DEF CodeInv
  <2>2. sending' \subseteq Askings
    BY <1>3 DEF CodeInv, CodeTypes
  <2>3. QED
    BY <1>1, <1>3, <2>1, <2>2, CallsTyped DEF CodeInv, CodeTypes, Code!TypeOK
<1>5. PuzzleInv'
  <2>1. ASSUME NEW s, CodeKept(s)
        PROVE  s.proof # 0 => /\ s.proved \in Code!Spellings /\ s.proved # ""
                              /\ s.proof \in spoilt' \/ remembered'[s.proved] = s.proof
    BY <1>1, <2>1, ProofsStay
  <2>2. call.proof # 0 => /\ call.proved \in Code!Spellings /\ call.proved # ""
                          /\ remembered'[call.proved] = call.proof
    BY <1>1, <1>2
  <2>3. QED
    BY <1>1, <1>3, <2>1, <2>2 DEF CodeInv, PuzzleInv, CodeKept
<1>6. CountdownInv' /\ MailInv'
  BY <1>1 DEF CodeInv, CountdownInv, MailInv, Code!Reachable
<1>7. QED
  BY <1>4, <1>5, <1>6 DEF CodeInv

\* A captcha that is used is spoilt.
LEMMA PuzzleUsed ==
  ASSUME Code!ConstantsOK, CodeInv, NEW s \in sending,
         (Code!Proved(s) /\ Code!UseProof(s)) \/ UNCHANGED <<remembered, spoilt>>
  PROVE  /\ spoilt \subseteq spoilt' /\ spoilt' \subseteq Code!Ids
         /\ remembered' \in [Code!Spellings -> Code!Ids]
         /\ \A t \in Code!Spellings :
              remembered[t] # 0 => remembered'[t] = remembered[t] \/ remembered[t] \in spoilt'
<1>1. /\ remembered \in [Code!Spellings -> Code!Ids] /\ spoilt \subseteq Code!Ids
      /\ s \in Askings
  BY DEF CodeInv, CodeTypes, Code!TypeOK
<1>2. CASE UNCHANGED <<remembered, spoilt>>
  BY <1>1, <1>2
<1>3. CASE /\ asks /\ Code!Proved(s)
           /\ remembered' = [remembered EXCEPT ![s.contact] = 0]
           /\ spoilt' = spoilt \cup {s.proof}
  <2>1. s.contact \in Code!Spellings /\ remembered[s.contact] = s.proof
    BY <1>3 DEF Code!Proved, Code!Spellings
  <2>2. s.proof \in Code!Ids
    BY <1>1 DEF Askings
  <2>3. QED
    BY <1>1, <1>3, <2>1, <2>2, BoundsOK
<1>4. QED
  BY <1>2, <1>3 DEF Code!UseProof

\* A code is mailed.
LEMMA Mailed ==
  ASSUME Code!ConstantsOK, CodeInv, NEW s \in sending, s.contact # "", Code!Mail(s)
  PROVE  /\ live' \in [Contacts -> Code!Ids] /\ gone' \subseteq Contacts
         /\ cooling' \in [Contacts -> 0 .. Cooldown]
         /\ cooling'[s.contact] = Cooldown
         /\ \A c \in Contacts \ {s.contact} :
              /\ cooling'[c] = cooling[c] /\ live'[c] = live[c]
              /\ c \in gone => c \in gone'
         /\ Code!Reachable(s.contact) => live'[s.contact] # 0
<1>1. /\ s \in Askings /\ live \in [Contacts -> Code!Ids] /\ gone \subseteq Contacts
      /\ cooling \in [Contacts -> 0 .. Cooldown]
  BY DEF CodeInv, CodeTypes, Code!TypeOK
<1>2. s.contact \in Contacts /\ s.id \in Code!Ids /\ s.id # 0
  BY <1>1, BoundsOK DEF Askings
<1>3. /\ cooling' = [cooling EXCEPT ![s.contact] = Cooldown]
      /\ cooling' \in [Contacts -> 0 .. Cooldown]
  BY <1>1, <1>2, BoundsOK DEF Code!Mail
<1>4. CASE Code!Reachable(s.contact)
  <2>1. live' = [live EXCEPT ![s.contact] = s.id] /\ gone' = gone \ {s.contact}
    BY <1>4 DEF Code!Mail
  <2>2. QED
    BY <1>1, <1>2, <1>3, <2>1
<1>5. CASE ~Code!Reachable(s.contact)
  <2>1. UNCHANGED <<live, gone>>
    BY <1>5 DEF Code!Mail
  <2>2. QED
    BY <1>1, <1>2, <1>3, <1>5, <2>1
<1>6. QED
  BY <1>4, <1>5

\* The page hears that a code was sent.
LEMMA SentStep ==
  ASSUME Code!ConstantsOK, CodeInv, Code!Sent
  PROVE  CodeInv'
<1>1. PICK s \in sending :
        /\ s.contact # "" /\ Code!Proved(s) /\ Code!UseProof(s)
        /\ Code!Mail(s) \/ Code!KeepQuiet(s)
        /\ vain' = (vain \/ (cooling[s.contact] # 0 /\ resend = 0 /\ s.contact \notin excused))
        /\ sending' = sending \ {s} /\ puzzle' = "none" /\ proving' = Code!Unmounted
        /\ resend' = Cooldown /\ told' = s.contact
        /\ excused' = IF cooling[s.contact] = 0 THEN excused \ {s.contact} ELSE excused
        /\ UNCHANGED <<purpose, asks, registered, puzzled, aware, shows, contact, code, newest,
                       submit, count>>
  BY DEF Code!Sent, Code!ResendSeconds
<1>2. /\ s \in Askings /\ s.contact \in Contacts /\ cooling \in [Contacts -> 0 .. Cooldown]
      /\ resend \in 0 .. Cooldown /\ excused \subseteq Contacts
      /\ live \in [Contacts -> Code!Ids] /\ gone \subseteq Contacts
  BY <1>1 DEF CodeInv, CodeTypes, Code!TypeOK, Askings
<1>3. /\ live' \in [Contacts -> Code!Ids] /\ gone' \subseteq Contacts
      /\ cooling' \in [Contacts -> 0 .. Cooldown]
      /\ \A c \in Contacts \ {s.contact} :
           cooling'[c] = cooling[c] /\ live'[c] = live[c] /\ (c \in gone => c \in gone')
      /\ Code!Reachable(s.contact) => live'[s.contact] # 0 \/ s.contact \in gone'
  <2>1. CASE Code!Mail(s)
    BY <1>1, <2>1, Mailed
  <2>2. CASE Code!KeepQuiet(s)
    <3>1. UNCHANGED <<live, gone, cooling>> /\ cooling[s.contact] # 0
      BY <2>2 DEF Code!KeepQuiet
    <3>2. QED
      BY <1>2, <3>1 DEF CodeInv, MailInv
  <2>3. QED
    BY <1>1, <2>1, <2>2
<1>4. /\ spoilt \subseteq spoilt' /\ spoilt' \subseteq Code!Ids
      /\ remembered' \in [Code!Spellings -> Code!Ids]
      /\ \A t \in Code!Spellings :
           remembered[t] # 0 => remembered'[t] = remembered[t] \/ remembered[t] \in spoilt'
  BY <1>1, PuzzleUsed
<1>5. vain' = FALSE
  <2>1. ~vain /\ (s.contact \notin excused => cooling[s.contact] <= resend)
    BY <1>2 DEF CodeInv, CountdownInv
  <2>2. cooling[s.contact] \in 0 .. Cooldown /\ Cooldown \in Nat
    BY <1>2, BoundsOK
  <2>3. ~(cooling[s.contact] # 0 /\ resend = 0 /\ s.contact \notin excused)
    BY <1>2, <2>1, <2>2
  <2>4. FALSE = (vain \/ (cooling[s.contact] # 0 /\ resend = 0 /\ s.contact \notin excused))
    BY <2>1, <2>3
  <2>5. QED
    BY <1>1, <2>4
<1>6. CodeTypes'
  <2>1. proving' \subseteq Provings /\ sending' \subseteq Askings
    BY <1>1, ProvingsKept DEF CodeInv, CodeTypes
  <2>2. resend' \in 0 .. Cooldown /\ excused' \subseteq Contacts
    BY <1>1, <1>2, BoundsOK
  <2>3. submit' = None \/ submit' \in Submissions
    BY <1>1 DEF CodeInv, CodeTypes
  <2>4. QED
    BY <1>1, <1>2, <1>3, <1>4, <1>5, <2>1, <2>2, <2>3, CallsTyped
       DEF CodeInv, CodeTypes, Code!TypeOK
<1>7. PuzzleInv'
  <2>1. ASSUME NEW t, CodeKept(t)
        PROVE  t.proof # 0 => /\ t.proved \in Code!Spellings /\ t.proved # ""
                              /\ t.proof \in spoilt' \/ remembered'[t.proved] = t.proof
    BY <1>4, <2>1, ProofsStay
  <2>2. QED
    BY <1>1, <2>1 DEF CodeInv, PuzzleInv, CodeKept
<1>8. CountdownInv'
  <2>1. ASSUME NEW c \in Contacts PROVE cooling'[c] <= resend'
    <3>1. cooling'[c] \in 0 .. Cooldown /\ Cooldown \in Nat
      BY <1>3, BoundsOK
    <3>2. resend' = Cooldown
      BY <1>1
    <3>3. QED
      BY <3>1, <3>2
  <2>2. QED
    BY <1>5, <2>1 DEF CountdownInv
<1>9. MailInv'
  BY <1>1, <1>2, <1>3 DEF CodeInv, MailInv, Code!Reachable
<1>10. QED
  BY <1>6, <1>7, <1>8, <1>9 DEF CodeInv

\* The page hears that none was sent, or nothing at all.
LEMMA NotSentStep ==
  ASSUME Code!ConstantsOK, CodeInv, Code!NotSent
  PROVE  CodeInv'
<1>1. PICK s \in sending :
        /\ puzzled' = (puzzled \/ (~Code!Proved(s) /\ s.proof # 0 /\ s.proof \notin spoilt
                                     /\ s.proved = s.contact))
        /\ (Code!Proved(s) /\ Code!UseProof(s)) \/ UNCHANGED <<remembered, spoilt>>
        /\ \/ UNCHANGED <<live, gone, cooling, excused>>
           \/ s.contact # "" /\ Code!Mail(s) /\ excused' = excused \cup {s.contact}
        /\ sending' = sending \ {s} /\ puzzle' = "none" /\ proving' = Code!Unmounted
        /\ UNCHANGED <<purpose, asks, registered, vain, aware, shows, contact, code, newest,
                       submit, resend, told, count>>
  BY DEF Code!NotSent, Code!SendBreaks
<1>2. /\ s \in Askings /\ s.contact \in Contacts \cup {""}
      /\ cooling \in [Contacts -> 0 .. Cooldown] /\ excused \subseteq Contacts
      /\ live \in [Contacts -> Code!Ids] /\ gone \subseteq Contacts
  BY <1>1 DEF CodeInv, CodeTypes, Code!TypeOK, Askings
<1>3. /\ live' \in [Contacts -> Code!Ids] /\ gone' \subseteq Contacts
      /\ cooling' \in [Contacts -> 0 .. Cooldown] /\ excused' \subseteq Contacts
  BY <1>1, <1>2, Mailed
<1>4. /\ spoilt \subseteq spoilt' /\ spoilt' \subseteq Code!Ids
      /\ remembered' \in [Code!Spellings -> Code!Ids]
      /\ \A t \in Code!Spellings :
           remembered[t] # 0 => remembered'[t] = remembered[t] \/ remembered[t] \in spoilt'
  BY <1>1, PuzzleUsed
<1>5. puzzled' = FALSE
  <2>1. ~puzzled /\ CodeKept(s) /\ "" \notin Contacts
    BY <1>1 DEF CodeInv, PuzzleInv, Code!ConstantsOK
  <2>2. ~(~Code!Proved(s) /\ s.proof # 0 /\ s.proof \notin spoilt /\ s.proved = s.contact)
    BY <1>2, <2>1 DEF CodeKept, Code!Proved
  <2>3. FALSE = (puzzled \/ (~Code!Proved(s) /\ s.proof # 0 /\ s.proof \notin spoilt
                               /\ s.proved = s.contact))
    BY <2>1, <2>2
  <2>4. QED
    BY <1>1, <2>3
<1>6. CodeTypes'
  <2>1. proving' \subseteq Provings /\ sending' \subseteq Askings
    BY <1>1, ProvingsKept DEF CodeInv, CodeTypes
  <2>2. submit' = None \/ submit' \in Submissions
    BY <1>1 DEF CodeInv, CodeTypes
  <2>3. QED
    BY <1>1, <1>3, <1>4, <1>5, <2>1, <2>2, CallsTyped DEF CodeInv, CodeTypes, Code!TypeOK
<1>7. PuzzleInv'
  <2>1. ASSUME NEW t, CodeKept(t)
        PROVE  t.proof # 0 => /\ t.proved \in Code!Spellings /\ t.proved # ""
                              /\ t.proof \in spoilt' \/ remembered'[t.proved] = t.proof
    BY <1>4, <2>1, ProofsStay
  <2>2. QED
    BY <1>1, <1>5, <2>1 DEF CodeInv, PuzzleInv, CodeKept
<1>8. CountdownInv' /\ MailInv'
  <2>1. CASE UNCHANGED <<live, gone, cooling, excused>>
    BY <1>1, <2>1 DEF CodeInv, CountdownInv, MailInv, Code!Reachable
  <2>2. CASE s.contact # "" /\ Code!Mail(s) /\ excused' = excused \cup {s.contact}
    <3>1. /\ \A c \in Contacts \ {s.contact} :
               cooling'[c] = cooling[c] /\ live'[c] = live[c] /\ (c \in gone => c \in gone')
          /\ Code!Reachable(s.contact) => live'[s.contact] # 0
      BY <2>2, Mailed
    <3>2. CountdownInv'
      BY <1>1, <2>2, <3>1 DEF CodeInv, CountdownInv
    <3>3. MailInv'
      BY <1>1, <3>1 DEF CodeInv, MailInv, Code!Reachable
    <3>4. QED
      BY <3>2, <3>3
  <2>3. QED
    BY <1>1, <2>1, <2>2
<1>9. QED
  BY <1>6, <1>7, <1>8 DEF CodeInv

\* A submission spends the code, or nothing.
LEMMA Submitted ==
  ASSUME Code!ConstantsOK, CodeInv, Code!Succeed \/ Code!Fail
  PROVE  CodeInv'
<1>1. /\ submit # None /\ submit' = None
      /\ \/ /\ Code!Admitted /\ Code!SpendCode
            /\ registered' \in {registered, registered \cup {submit.contact}}
         \/ UNCHANGED <<live, gone, registered>>
      /\ UNCHANGED <<purpose, asks, remembered, cooling, spoilt, excused, puzzled, vain, aware,
                     sending, newest, resend, told, count>>
      /\ UNCHANGED shows \/ shows' = FALSE
      /\ UNCHANGED proving \/ proving' = Code!Unmounted
      /\ UNCHANGED puzzle \/ puzzle' = "none"
      /\ UNCHANGED contact \/ contact' = ""
      /\ UNCHANGED code \/ code' = 0
  BY DEF Code!Succeed, Code!Fail
<1>2. /\ submit \in Submissions /\ submit.contact \in Contacts
      /\ live \in [Contacts -> Code!Ids] /\ gone \subseteq Contacts
      /\ registered \subseteq Contacts
  BY <1>1 DEF CodeInv, CodeTypes, Code!TypeOK, Submissions
<1>3. /\ live' \in [Contacts -> Code!Ids] /\ gone' \subseteq Contacts
      /\ registered' \subseteq Contacts
      /\ \A c \in Contacts : live'[c] = live[c] \/ c \in gone'
      /\ gone \subseteq gone'
      /\ purpose = "signup" \/ registered' = registered
  <2>1. CASE UNCHANGED <<live, gone, registered>>
    BY <1>2, <2>1
  <2>2. CASE /\ Code!Admitted /\ Code!SpendCode
             /\ registered' \in {registered, registered \cup {submit.contact}}
    <3>1. /\ live' = [live EXCEPT ![submit.contact] = 0]
          /\ gone' = gone \cup {submit.contact}
      BY <2>2 DEF Code!SpendCode
    <3>2. purpose = "recovery" => submit.contact \in registered
      BY <2>2 DEF Code!Admitted
    <3>3. purpose = "signup" \/ purpose = "recovery"
      BY DEF CodeInv, CodeTypes, Code!TypeOK
    <3>4. QED
      BY <1>2, <2>2, <3>1, <3>2, <3>3, BoundsOK
  <2>3. QED
    BY <1>1, <2>1, <2>2
<1>4. CodeTypes'
  <2>1. proving' \subseteq Provings /\ sending' \subseteq Askings
    BY <1>1, ProvingsKept DEF CodeInv, CodeTypes
  <2>2. /\ shows' \in BOOLEAN /\ puzzle' \in {"none", "idle", "checking", "passed"}
        /\ contact' \in Code!Spellings \cup {""} /\ code' \in Code!Ids
    BY <1>1, BoundsOK DEF CodeInv, CodeTypes, Code!TypeOK
  <2>3. QED
    BY <1>1, <1>3, <2>1, <2>2, CallsTyped DEF CodeInv, CodeTypes, Code!TypeOK
<1>5. PuzzleInv' /\ CountdownInv'
  BY <1>1 DEF CodeInv, PuzzleInv, CodeKept, CountdownInv
<1>6. MailInv'
  BY <1>1, <1>3 DEF CodeInv, MailInv, Code!Reachable
<1>7. QED
  BY <1>4, <1>5, <1>6 DEF CodeInv

\* The page is loaded anew.
LEMMA ReloadStep ==
  ASSUME Code!ConstantsOK, CodeInv, Code!Reload
  PROVE  CodeInv'
<1>1. /\ Code!Input /\ shows' = TRUE /\ contact' = "" /\ code' = 0 /\ puzzle' = "none"
      /\ resend' = 0 /\ told' = None /\ aware' = FALSE /\ excused' = Contacts
      /\ UNCHANGED <<purpose, asks, registered, remembered, live, cooling, gone, spoilt, puzzled,
                     vain, sending, proving, newest, submit>>
  BY DEF Code!Reload, Code!server
<1>2. CodeTypes'
  <2>1. count' \in Code!Ids
    BY <1>1, CountGoes DEF CodeInv
  <2>2. /\ proving' \subseteq Provings /\ sending' \subseteq Askings
        /\ submit' = None \/ submit' \in Submissions
    BY <1>1 DEF CodeInv, CodeTypes
  <2>3. QED
    BY <1>1, <2>1, <2>2, BoundsOK, CallsTyped DEF CodeInv, CodeTypes, Code!TypeOK
<1>3. PuzzleInv' /\ CountdownInv' /\ MailInv'
  BY <1>1 DEF CodeInv, PuzzleInv, CodeKept, CountdownInv, MailInv, Code!Reachable
<1>4. QED
  BY <1>2, <1>3 DEF CodeInv

\* Page and server count down together.
LEMMA TickStep ==
  ASSUME Code!ConstantsOK, CodeInv, Code!Tick
  PROVE  CodeInv'
<1>1. /\ resend' = Code!Less(resend)
      /\ cooling' = [c \in Contacts |-> Code!Less(cooling[c])]
      /\ UNCHANGED <<purpose, asks, registered, remembered, live, gone, spoilt, excused, puzzled,
                     vain, aware, shows, contact, code, puzzle, proving, sending, newest, submit,
                     told, count>>
  BY DEF Code!Tick, Code!histories
<1>2. /\ resend \in 0 .. Cooldown /\ cooling \in [Contacts -> 0 .. Cooldown]
      /\ Cooldown \in Nat
  BY BoundsOK DEF CodeInv, CodeTypes, Code!TypeOK
<1>3. ASSUME NEW n \in 0 .. Cooldown
      PROVE  Code!Less(n) \in 0 .. Cooldown /\ (n = 0 => Code!Less(n) = 0)
  BY <1>2 DEF Code!Less
<1>4. ASSUME NEW m \in 0 .. Cooldown, NEW n \in 0 .. Cooldown, m <= n
      PROVE  Code!Less(m) <= Code!Less(n)
  BY <1>2, <1>4 DEF Code!Less
<1>5. resend' \in 0 .. Cooldown /\ cooling' \in [Contacts -> 0 .. Cooldown]
  BY <1>1, <1>2, <1>3
<1>6. CodeTypes'
  <2>1. /\ proving' \subseteq Provings /\ sending' \subseteq Askings
        /\ submit' = None \/ submit' \in Submissions
    BY <1>1 DEF CodeInv, CodeTypes
  <2>2. QED
    BY <1>1, <1>5, <2>1, CallsTyped DEF CodeInv, CodeTypes, Code!TypeOK
<1>7. PuzzleInv'
  BY <1>1 DEF CodeInv, PuzzleInv, CodeKept
<1>8. CountdownInv'
  <2>1. ASSUME NEW c \in Contacts \ excused PROVE cooling'[c] <= resend'
    <3>1. cooling[c] \in 0 .. Cooldown /\ cooling[c] <= resend
      BY <1>2 DEF CodeInv, CountdownInv
    <3>2. QED
      BY <1>1, <1>2, <1>4, <3>1
  <2>2. QED
    BY <1>1, <2>1 DEF CodeInv, CountdownInv
<1>9. MailInv'
  <2>1. ASSUME NEW c \in Contacts, cooling'[c] # 0 PROVE cooling[c] # 0
    BY <1>1, <1>2, <1>3, <2>1
  <2>2. QED
    BY <1>1, <2>1 DEF CodeInv, MailInv, Code!Reachable
<1>10. QED
  BY <1>6, <1>7, <1>8, <1>9 DEF CodeInv

\* A code or a captcha expires.
LEMMA ExpiryStep ==
  ASSUME Code!ConstantsOK, CodeInv, Code!CodeExpires \/ Code!ProofExpires
  PROVE  CodeInv'
<1>1. CASE Code!CodeExpires
  <2>1. PICK c \in Contacts :
          /\ live' = [live EXCEPT ![c] = 0] /\ gone' = gone \cup {c}
          /\ UNCHANGED <<purpose, asks, registered, remembered, cooling, spoilt, excused, puzzled,
                         vain, aware, shows, contact, code, puzzle, proving, sending, newest,
                         submit, resend, told, count>>
    BY <1>1 DEF Code!CodeExpires
  <2>2. live \in [Contacts -> Code!Ids] /\ gone \subseteq Contacts
    BY DEF CodeInv, CodeTypes, Code!TypeOK
  <2>3. live' \in [Contacts -> Code!Ids] /\ gone' \subseteq Contacts
    BY <2>1, <2>2, BoundsOK
  <2>4. CodeTypes'
    <3>1. /\ proving' \subseteq Provings /\ sending' \subseteq Askings
          /\ submit' = None \/ submit' \in Submissions
      BY <2>1 DEF CodeInv, CodeTypes
    <3>2. QED
      BY <2>1, <2>3, <3>1, CallsTyped DEF CodeInv, CodeTypes, Code!TypeOK
  <2>5. PuzzleInv' /\ CountdownInv'
    BY <2>1 DEF CodeInv, PuzzleInv, CodeKept, CountdownInv
  <2>6. MailInv'
    BY <2>1, <2>2 DEF CodeInv, MailInv, Code!Reachable
  <2>7. QED
    BY <2>4, <2>5, <2>6 DEF CodeInv
<1>2. CASE Code!ProofExpires
  <2>1. PICK s \in Code!Spellings :
          /\ remembered' = [remembered EXCEPT ![s] = 0]
          /\ spoilt' = spoilt \cup {remembered[s]}
          /\ UNCHANGED <<purpose, asks, registered, live, cooling, gone, excused, puzzled, vain,
                         aware, shows, contact, code, puzzle, proving, sending, newest, submit,
                         resend, told, count>>
    BY <1>2 DEF Code!ProofExpires
  <2>2. remembered \in [Code!Spellings -> Code!Ids] /\ spoilt \subseteq Code!Ids
    BY DEF CodeInv, CodeTypes, Code!TypeOK
  <2>3. /\ remembered' \in [Code!Spellings -> Code!Ids] /\ spoilt' \subseteq Code!Ids
        /\ spoilt \subseteq spoilt'
        /\ \A t \in Code!Spellings :
             remembered[t] # 0 => remembered'[t] = remembered[t] \/ remembered[t] \in spoilt'
    BY <2>1, <2>2, BoundsOK
  <2>4. CodeTypes'
    <3>1. /\ proving' \subseteq Provings /\ sending' \subseteq Askings
          /\ submit' = None \/ submit' \in Submissions
      BY <2>1 DEF CodeInv, CodeTypes
    <3>2. QED
      BY <2>1, <2>3, <3>1, CallsTyped DEF CodeInv, CodeTypes, Code!TypeOK
  <2>5. PuzzleInv'
    <3>1. ASSUME NEW t, CodeKept(t)
          PROVE  t.proof # 0 => /\ t.proved \in Code!Spellings /\ t.proved # ""
                                /\ t.proof \in spoilt' \/ remembered'[t.proved] = t.proof
      BY <2>3, <3>1, ProofsStay
    <3>2. QED
      BY <2>1, <3>1 DEF CodeInv, PuzzleInv, CodeKept
  <2>6. CountdownInv' /\ MailInv'
    BY <2>1 DEF CodeInv, CountdownInv, MailInv, Code!Reachable
  <2>7. QED
    BY <2>4, <2>5, <2>6 DEF CodeInv
<1>3. QED
  BY <1>1, <1>2

LEMMA CodeNext == ASSUME Code!ConstantsOK, CodeInv, [Code!Next]_(Code!codeVars) PROVE CodeInv'
<1>1. CASE UNCHANGED Code!codeVars
  <2>1. UNCHANGED <<purpose, asks, aware, registered, remembered, live, cooling, shows, contact,
                    code, puzzle, proving, sending, newest, submit, resend, told, gone, spoilt,
                    excused, puzzled, vain, count>>
    BY <1>1 DEF Code!codeVars
  <2>2. CodeTypes'
    <3>1. /\ proving' \subseteq Provings /\ sending' \subseteq Askings
          /\ submit' = None \/ submit' \in Submissions
      BY <2>1 DEF CodeInv, CodeTypes
    <3>2. QED
      BY <2>1, <3>1, CallsTyped DEF CodeInv, CodeTypes, Code!TypeOK
  <2>3. PuzzleInv' /\ CountdownInv' /\ MailInv'
    BY <2>1 DEF CodeInv, PuzzleInv, CodeKept, CountdownInv, MailInv, Code!Reachable
  <2>4. QED
    BY <2>2, <2>3 DEF CodeInv
<1>2. CASE Code!Next
  BY <1>2, CodeQuiet, AskStep, SentStep, NotSentStep, Submitted, ReloadStep, TickStep,
     ExpiryStep
     DEF Code!Next
<1>3. QED
  BY <1>1, <1>2

LEMMA CodeInductive == ASSUME Code!ConstantsOK PROVE Code!Spec => []CodeInv
<1>1. Code!Init => CodeInv
  BY CodeInit
<1>2. CodeInv /\ [Code!Next]_(Code!codeVars) => CodeInv'
  BY CodeNext
<1>3. QED
  BY <1>1, <1>2, PTL DEF Code!Spec

\* The form, its calls and what the server remembers keep their types.
THEOREM CodeTyped == ASSUME Code!ConstantsOK PROVE Code!Spec => []Code!TypeOK
<1>1. CodeInv => Code!TypeOK
  BY DEF CodeInv, CodeTypes
<1>2. QED
  BY <1>1, CodeInductive, PTL

\* "Code sent" means that a good one was sent, and the captcha passed for it is taken.
THEOREM CodesAreTold == ASSUME Code!ConstantsOK PROVE Code!Spec => []Code!CodeIsAsTold
<1>1. CodeInv => Code!ToldCodeLives
  BY DEF CodeInv, CodeTypes, Code!TypeOK, MailInv, Code!ToldCodeLives
<1>2. CodeInv => Code!CodeIsAsTold
  BY <1>1
     DEF CodeInv, PuzzleInv, CountdownInv, Code!CodeIsAsTold, Code!ToldIsMailed,
         Code!CaptchaRefusalHasCause
<1>3. QED
  BY <1>2, CodeInductive, PTL

==============================================================================
