---------------------------- MODULE ConsoleProofs ----------------------------
(***************************************************************************)
(* Proofs about the console, for every value of its constants.  The area   *)
(* of a behaviour never changes, so the behaviour is one of the area's     *)
(* module, and what FormProofs, ViewProofs and AdminProofs prove of the    *)
(* pages holds of the console.  Those name the variables of the modules;   *)
(* here they are the v1, v2, ... of the console, so each page has two      *)
(* names: the console's and that of the proofs, which the lemmas Same...   *)
(* show to be the same.                                                    *)
(***************************************************************************)
EXTENDS Console, TLAPS

Views == INSTANCE ViewProofs WITH
  view <- v1, lists <- v2, filter <- v3, wanted <- v4, page <- v5, screen <- v6,
  question <- v7, action <- v8, blind <- v9, shrunk <- v10, spent <- v11, setting <- v1,
  settled <- v2, tokens <- v3, at <- v4, listing <- v5, asking <- v6, early <- v7,
  tries <- v8, above <- v1, alive <- v2, keyword <- v3, pageOf <- v4, expanded <- v5,
  chosen <- v6, shownRows <- v7, asked <- v8, job <- v9, missed <- v10, ghost <- v11,
  adrift <- v12, troubled <- v13, turns <- v14, fetched <- v15, rows <- v1, cache <- v2,
  request <- v3, errors <- v4, raced <- v5, lost <- v6, version <- v1, emits <- v2,
  stream <- v3, signals <- v4, shown <- v5, answer <- v6, listed <- v7, mark <- v8,
  behind <- v9, troubles <- v10, side <- v1, menus <- v2, grants <- v3, trees <- v4,
  clearing <- v5, load <- v6, nav <- v7, groupCode <- v8, staled <- v9, faults <- v10,
  moves <- v11, desk <- v1, granted <- v2, context <- v3, header <- v4, branch <- v5,
  task <- v6, outcome <- v7, used <- v8

Admins == INSTANCE AdminProofs WITH
  row <- v1, joins <- v2, announced <- v3, rows <- v4, search <- v5, listing <- v6,
  ruling <- v7, turned <- v8, crowded <- v9, contested <- v10, elsewhere <- v11,
  overtaken <- v12, patchy <- v13, moves <- v14, codeOf <- v1, leadsTo <- v2,
  minted <- v3, invites <- v4, tokenOf <- v5, named <- v6, teamCall <- v7, opened <- v8,
  link <- v9, aged <- v10, torn <- v11, rivals <- v12, afar <- v13, inviteInputs <- v14,
  inviteErrors <- v15, page <- v1, parentOf <- v2, live <- v3, filter <- v4,
  screen <- v5, answer <- v6, selected <- v7, confirm <- v8, removal <- v9,
  adding <- v10, strayed <- v11, used <- v12, kind <- v1, parent <- v2, assigned <- v3,
  tree <- v4, entry <- v5, fetch <- v6, dialog <- v7, save <- v8, bounds <- v9

Forms == INSTANCE FormProofs WITH
  layout <- v1, stored <- v2, writer <- v3, cached <- v4, key <- v5, reading <- v6,
  sheet <- v7, saving <- v8, joined <- v9, charged <- v10, kind <- v1, mode <- v2,
  row <- v3, form <- v4, touched <- v5, before <- v6, edits <- v7, outcome <- v8,
  values <- v1, verdict <- v2, saved <- v1, listed <- v2, dialogs <- v3, typed <- v4,
  fresh <- v5, pending <- v6, closedBy <- v7, budget <- v8, account <- v1, author <- v2,
  copy <- v3, fills <- v4, header <- v5, profile <- v6, settings <- v7, updates <- v8,
  outrun <- v9, spending <- v10, demanded <- v1, loaded <- v2, active <- v3, proofs <- v4,
  credentials <- v5, slider <- v6, checks <- v7, queries <- v8, latest <- v9,
  offered <- v10, open <- v11, picked <- v12, signin <- v13, session <- v14,
  confirmed <- v15, lapsed <- v16, baffled <- v17, rejected <- v18, crossed <- v19,
  steps <- v20, purpose <- v1, asks <- v2, aware <- v3, registered <- v4, remembered <- v5,
  live <- v6, cooling <- v7, shows <- v8, contact <- v9, code <- v10, puzzle <- v11,
  proving <- v12, sending <- v13, newest <- v14, submit <- v15, resend <- v16, told <- v17,
  gone <- v18, spoilt <- v19, excused <- v20, puzzled <- v21, vain <- v22, count <- v23

---------------------------------------------------------------------------
(* EditSheet *)

\* What the console and the proofs call Sheet are the same.
LEMMA SameSheet ==
  /\ Sheet!Init <=> Forms!Sheet!Init
  /\ Sheet!Next <=> Forms!Sheet!Next
  /\ Sheet!TypeOK <=> Forms!Sheet!TypeOK
  /\ Sheet!OwnEditsKept <=> Forms!Sheet!OwnEditsKept
  /\ Forms!Sheet!ConstantsOK
<1>1. Sheet!Init <=> Forms!Sheet!Init
  BY DEF Sheet!Init, Forms!Sheet!Init, Sheet!Layouts, Forms!Sheet!Layouts,
         Sheet!UsersSheet, Forms!Sheet!UsersSheet, Sheet!OAuthClientsSheet,
         Forms!Sheet!OAuthClientsSheet, Sheet!RolesSheet, Forms!Sheet!RolesSheet,
         Sheet!MenusSheet, Forms!Sheet!MenusSheet, Sheet!PermsSheet,
         Forms!Sheet!PermsSheet, Sheet!DictsSheet, Forms!Sheet!DictsSheet,
         Sheet!TenantsSheet, Forms!Sheet!TenantsSheet, Sheet!Asked, Forms!Sheet!Asked,
         Sheet!NoReading, Forms!Sheet!NoReading, Sheet!Closed, Forms!Sheet!Closed,
         Sheet!NoSaving, Forms!Sheet!NoSaving
<1>2. Sheet!Next <=> Forms!Sheet!Next
  BY DEF Sheet!Next, Forms!Sheet!Next, Sheet!ServeRows, Forms!Sheet!ServeRows,
         Sheet!ReceiveRows, Forms!Sheet!ReceiveRows, Sheet!NoReading,
         Forms!Sheet!NoReading, Sheet!FailRows, Forms!Sheet!FailRows, Sheet!Spend,
         Forms!Sheet!Spend, Sheet!Reading, Forms!Sheet!Reading, Sheet!ChangeKey,
         Forms!Sheet!ChangeKey, Sheet!Asked, Forms!Sheet!Asked, Sheet!OpenEdit,
         Forms!Sheet!OpenEdit, Sheet!OnScreen, Forms!Sheet!OnScreen, Sheet!HasData,
         Forms!Sheet!HasData, Sheet!Edit, Forms!Sheet!Edit, Sheet!OtherSaves,
         Forms!Sheet!OtherSaves, Sheet!Written, Forms!Sheet!Written, Sheet!CloseSheet,
         Forms!Sheet!CloseSheet, Sheet!Closed, Forms!Sheet!Closed, Sheet!Submit,
         Forms!Sheet!Submit, Sheet!Sent, Forms!Sheet!Sent, Sheet!NoSaving,
         Forms!Sheet!NoSaving, Sheet!ServeSave, Forms!Sheet!ServeSave, Sheet!SaveSucceeds,
         Forms!Sheet!SaveSucceeds, Sheet!SaveSettles, Forms!Sheet!SaveSettles,
         Sheet!SaveFails, Forms!Sheet!SaveFails
<1>3. Sheet!TypeOK <=> Forms!Sheet!TypeOK
  BY DEF Sheet!TypeOK, Forms!Sheet!TypeOK, Sheet!Layouts, Forms!Sheet!Layouts,
         Sheet!UsersSheet, Forms!Sheet!UsersSheet, Sheet!OAuthClientsSheet,
         Forms!Sheet!OAuthClientsSheet, Sheet!RolesSheet, Forms!Sheet!RolesSheet,
         Sheet!MenusSheet, Forms!Sheet!MenusSheet, Sheet!PermsSheet,
         Forms!Sheet!PermsSheet, Sheet!DictsSheet, Forms!Sheet!DictsSheet,
         Sheet!TenantsSheet, Forms!Sheet!TenantsSheet, Sheet!Tables, Forms!Sheet!Tables,
         Sheet!Forms, Forms!Sheet!Forms, Sheet!RowOrNone, Forms!Sheet!RowOrNone,
         Sheet!FormOrNone, Forms!Sheet!FormOrNone
<1>4. Sheet!OwnEditsKept <=> Forms!Sheet!OwnEditsKept
  BY DEF Sheet!OwnEditsKept, Forms!Sheet!OwnEditsKept
<1>5. Forms!Sheet!ConstantsOK
  BY AreaAssumption
     DEF Sheet!ConstantsOK, Forms!Sheet!ConstantsOK, Sheet!Forms, Forms!Sheet!Forms,
         Sheet!Tables, Forms!Sheet!Tables
<1>6. QED
  BY <1>1, <1>2, <1>3, <1>4, <1>5

\* A behaviour of the area is one of EditSheet, and no other behaviour enters it.
LEMMA SheetFollowed ==
  Spec => /\ area = "sheet" => [](area = "sheet") /\ Forms!Sheet!Spec
          /\ ~(area = "sheet") => []~(area = "sheet")
<1>1. Init /\ area = "sheet" => Forms!Sheet!Init
  BY SameSheet DEF Init
<1>2. area = "sheet" /\ [Next]_vars =>
        (area = "sheet")' /\ [Forms!Sheet!Next]_(Forms!Sheet!sheetVars)
  BY SameSheet
     DEF Next, vars, past2, past6, past8, past9, past10, past11, past12, past13, past14,
         past15, past20, Forms!Sheet!sheetVars
<1>3. ~(area = "sheet") /\ [Next]_vars => ~(area = "sheet")'
  BY DEF Next, vars
<1>4. QED
  BY <1>1, <1>2, <1>3, PTL DEF Spec, Forms!Sheet!Spec

\* The sheet of a row keeps its types.
THEOREM SheetTypeCorrect == Spec => [](area = "sheet" => Sheet!TypeOK)
<1>1. Forms!Sheet!Spec => []Forms!Sheet!TypeOK
  BY SameSheet, Forms!SheetTyped
<1>2. (area = "sheet" => Sheet!TypeOK) <=> (area = "sheet" => Forms!Sheet!TypeOK)
  BY SameSheet
<1>3. QED
  BY <1>1, <1>2, SheetFollowed, PTL

\* A save from the sheet of any page undoes no earlier edit of the same administrator in
\* a field left alone, with any number of rows, fields, lists and failures (hooks/use-
\* edit-sheet and the mutate sheets, over cached lists).
THEOREM OwnEditsKeptAlways == Spec => []OwnEditsKept
<1>1. Forms!Sheet!Spec => []Forms!Sheet!OwnEditsKept
  BY SameSheet, Forms!OwnEditsStay
<1>2. OwnEditsKept <=> (area = "sheet" => Forms!Sheet!OwnEditsKept)
  BY SameSheet DEF OwnEditsKept
<1>3. QED
  BY <1>1, <1>2, SheetFollowed, PTL

---------------------------------------------------------------------------
(* EntityForm *)

\* What the console and the proofs call Entity are the same.
LEMMA SameEntity ==
  /\ Entity!Init <=> Forms!Entity!Init
  /\ Entity!Next <=> Forms!Entity!Next
  /\ Entity!TypeOK <=> Forms!Entity!TypeOK
  /\ Entity!SheetSavesItsFields <=> Forms!Entity!SheetSavesItsFields
  /\ Forms!Entity!ConstantsOK
<1>1. Entity!Init <=> Forms!Entity!Init
  BY DEF Entity!Init, Forms!Entity!Init, Entity!Kinds, Forms!Entity!Kinds,
         Entity!RowsAtFirst, Forms!Entity!RowsAtFirst, Entity!Fields, Forms!Entity!Fields,
         Entity!Inputs, Forms!Entity!Inputs, Entity!RoleInputs, Forms!Entity!RoleInputs,
         Entity!Plain, Forms!Entity!Plain, Entity!Switch, Forms!Entity!Switch,
         Entity!PermInputs, Forms!Entity!PermInputs, Entity!MenuInputs,
         Forms!Entity!MenuInputs, Entity!DictInputs, Forms!Entity!DictInputs,
         Entity!TenantInputs, Forms!Entity!TenantInputs, Entity!UserInputs,
         Forms!Entity!UserInputs, Entity!ClientInputs, Forms!Entity!ClientInputs,
         Entity!Optional, Forms!Entity!Optional, Entity!FormsAtFirst,
         Forms!Entity!FormsAtFirst, Entity!EmptyForm, Forms!Entity!EmptyForm,
         Entity!Required, Forms!Entity!Required, Entity!FormOf, Forms!Entity!FormOf,
         Entity!Secrets, Forms!Entity!Secrets
<1>2. Entity!Next <=> Forms!Entity!Next
  BY DEF Entity!Next, Forms!Entity!Next, Entity!Fields, Forms!Entity!Fields, Entity!Inputs,
         Forms!Entity!Inputs, Entity!RoleInputs, Forms!Entity!RoleInputs, Entity!Plain,
         Forms!Entity!Plain, Entity!Switch, Forms!Entity!Switch, Entity!PermInputs,
         Forms!Entity!PermInputs, Entity!MenuInputs, Forms!Entity!MenuInputs,
         Entity!DictInputs, Forms!Entity!DictInputs, Entity!TenantInputs,
         Forms!Entity!TenantInputs, Entity!UserInputs, Forms!Entity!UserInputs,
         Entity!ClientInputs, Forms!Entity!ClientInputs, Entity!Type, Forms!Entity!Type,
         Entity!Typed, Forms!Entity!Typed, Entity!Save, Forms!Entity!Save, Entity!Errors,
         Forms!Entity!Errors, Entity!RoleErrors, Forms!Entity!RoleErrors, Entity!Blank,
         Forms!Entity!Blank, Entity!TooLong, Forms!Entity!TooLong, Entity!PermErrors,
         Forms!Entity!PermErrors, Entity!MenuErrors, Forms!Entity!MenuErrors,
         Entity!DictErrors, Forms!Entity!DictErrors, Entity!TenantErrors,
         Forms!Entity!TenantErrors, Entity!UserErrors, Forms!Entity!UserErrors,
         Entity!ClientErrors, Forms!Entity!ClientErrors, Entity!Accepted,
         Forms!Entity!Accepted, Entity!Taken, Forms!Entity!Taken, Entity!Is,
         Forms!Entity!Is, Entity!ResourceFits, Forms!Entity!ResourceFits,
         Entity!TenantReads, Forms!Entity!TenantReads, Entity!BytesFit,
         Forms!Entity!BytesFit, Entity!ClientNameFits, Forms!Entity!ClientNameFits,
         Entity!Param, Forms!Entity!Param, Entity!RoleParam, Forms!Entity!RoleParam,
         Entity!BlankLeftOut, Forms!Entity!BlankLeftOut, Entity!Without,
         Forms!Entity!Without, Entity!PermParam, Forms!Entity!PermParam, Entity!MenuParam,
         Forms!Entity!MenuParam, Entity!DictParam, Forms!Entity!DictParam,
         Entity!TenantParam, Forms!Entity!TenantParam, Entity!UserParam,
         Forms!Entity!UserParam, Entity!ClientParam, Forms!Entity!ClientParam,
         Entity!Updated, Forms!Entity!Updated, Entity!Created, Forms!Entity!Created,
         Entity!Reopen, Forms!Entity!Reopen, Entity!FormOf, Forms!Entity!FormOf,
         Entity!Secrets, Forms!Entity!Secrets
<1>3. Entity!TypeOK <=> Forms!Entity!TypeOK
  BY DEF Entity!TypeOK, Forms!Entity!TypeOK, Entity!Kinds, Forms!Entity!Kinds,
         Entity!Fields, Forms!Entity!Fields, Entity!Inputs, Forms!Entity!Inputs,
         Entity!RoleInputs, Forms!Entity!RoleInputs, Entity!Plain, Forms!Entity!Plain,
         Entity!Switch, Forms!Entity!Switch, Entity!PermInputs, Forms!Entity!PermInputs,
         Entity!MenuInputs, Forms!Entity!MenuInputs, Entity!DictInputs,
         Forms!Entity!DictInputs, Entity!TenantInputs, Forms!Entity!TenantInputs,
         Entity!UserInputs, Forms!Entity!UserInputs, Entity!ClientInputs,
         Forms!Entity!ClientInputs, Entity!Tokens, Forms!Entity!Tokens
<1>4. Entity!SheetSavesItsFields <=> Forms!Entity!SheetSavesItsFields
  BY DEF Entity!SheetSavesItsFields, Forms!Entity!SheetSavesItsFields, Entity!SavedIsShown,
         Forms!Entity!SavedIsShown, Entity!Fields, Forms!Entity!Fields, Entity!Inputs,
         Forms!Entity!Inputs, Entity!RoleInputs, Forms!Entity!RoleInputs, Entity!Plain,
         Forms!Entity!Plain, Entity!Switch, Forms!Entity!Switch, Entity!PermInputs,
         Forms!Entity!PermInputs, Entity!MenuInputs, Forms!Entity!MenuInputs,
         Entity!DictInputs, Forms!Entity!DictInputs, Entity!TenantInputs,
         Forms!Entity!TenantInputs, Entity!UserInputs, Forms!Entity!UserInputs,
         Entity!ClientInputs, Forms!Entity!ClientInputs, Entity!Secrets,
         Forms!Entity!Secrets, Entity!Uncleared, Forms!Entity!Uncleared, Entity!Optional,
         Forms!Entity!Optional, Entity!UntouchedKept, Forms!Entity!UntouchedKept,
         Entity!RefusalHasCause, Forms!Entity!RefusalHasCause, Entity!Taken,
         Forms!Entity!Taken, Entity!Is, Forms!Entity!Is
<1>5. Forms!Entity!ConstantsOK
  BY AreaAssumption
     DEF Entity!ConstantsOK, Forms!Entity!ConstantsOK
<1>6. QED
  BY <1>1, <1>2, <1>3, <1>4, <1>5

\* A behaviour of the area is one of EntityForm, and no other behaviour enters it.
LEMMA EntityFollowed ==
  Spec => /\ area = "entity" => [](area = "entity") /\ Forms!Entity!Spec
          /\ ~(area = "entity") => []~(area = "entity")
<1>1. Init /\ area = "entity" => Forms!Entity!Init
  BY SameEntity DEF Init
<1>2. area = "entity" /\ [Next]_vars =>
        (area = "entity")' /\ [Forms!Entity!Next]_(Forms!Entity!entityVars)
  BY SameEntity
     DEF Next, vars, past2, past6, past8, past9, past10, past11, past12, past13, past14,
         past15, past20, Forms!Entity!entityVars
<1>3. ~(area = "entity") /\ [Next]_vars => ~(area = "entity")'
  BY DEF Next, vars
<1>4. QED
  BY <1>1, <1>2, <1>3, PTL DEF Spec, Forms!Entity!Spec

\* The forms of the rows keep their types.
THEOREM EntityTypeCorrect == Spec => [](area = "entity" => Entity!TypeOK)
<1>1. Forms!Entity!Spec => []Forms!Entity!TypeOK
  BY SameEntity, Forms!EntityTyped
<1>2. (area = "entity" => Entity!TypeOK) <=> (area = "entity" => Forms!Entity!TypeOK)
  BY SameEntity
<1>3. QED
  BY <1>1, <1>2, EntityFollowed, PTL

\* The mutate sheets of roles, permissions, menus, dictionaries, tenants, users and
\* clients store what they showed and no more, or are refused for a cause they cannot
\* know.
THEOREM SheetsSaveTheirFields == Spec => []SheetSavesItsFields
<1>1. Forms!Entity!Spec => []Forms!Entity!SheetSavesItsFields
  BY SameEntity, Forms!EntitySaves
<1>2. SheetSavesItsFields <=> (area = "entity" => Forms!Entity!SheetSavesItsFields)
  BY SameEntity DEF SheetSavesItsFields
<1>3. QED
  BY <1>1, <1>2, EntityFollowed, PTL

---------------------------------------------------------------------------
(* RuleForm *)

\* What the console and the proofs call Rule are the same.
LEMMA SameRule ==
  /\ Rule!Init <=> Forms!Rule!Init
  /\ Rule!Next <=> Forms!Rule!Next
  /\ Rule!TypeOK <=> Forms!Rule!TypeOK
  /\ Rule!SaveDoesAsShown <=> Forms!Rule!SaveDoesAsShown
<1>1. Rule!Init <=> Forms!Rule!Init
  BY DEF Rule!Init, Forms!Rule!Init, Rule!DEFAULT_RULE_FORM_VALUES,
         Forms!Rule!DEFAULT_RULE_FORM_VALUES
<1>2. Rule!Next <=> Forms!Rule!Next
  BY DEF Rule!Next, Forms!Rule!Next, Rule!Basics, Forms!Rule!Basics, Rule!Names,
         Forms!Rule!Names, Rule!Typed, Forms!Rule!Typed, Rule!TriggerMode,
         Forms!Rule!TriggerMode, Rule!Modes, Forms!Rule!Modes, Rule!ModeSelector,
         Forms!Rule!ModeSelector, Rule!EventCode, Forms!Rule!EventCode, Rule!EventCodes,
         Forms!Rule!EventCodes, Rule!DelaySeconds, Forms!Rule!DelaySeconds, Rule!Delays,
         Forms!Rule!Delays, Rule!ScheduleKind, Forms!Rule!ScheduleKind, Rule!ScheduleTime,
         Forms!Rule!ScheduleTime, Rule!ToggleWeekday, Forms!Rule!ToggleWeekday,
         Rule!CronExpression, Forms!Rule!CronExpression, Rule!CronExpressions,
         Forms!Rule!CronExpressions, Rule!StartAndEnd, Forms!Rule!StartAndEnd,
         Rule!Windows, Forms!Rule!Windows, Rule!RecipientSelector,
         Forms!Rule!RecipientSelector, Rule!RecipientSelectorOptions,
         Forms!Rule!RecipientSelectorOptions, Rule!Selectors, Forms!Rule!Selectors,
         Rule!ToggleUser, Forms!Rule!ToggleUser, Rule!ToggleEnabled,
         Forms!Rule!ToggleEnabled, Rule!Save, Forms!Rule!Save, Rule!BrowserBlocks,
         Forms!Rule!BrowserBlocks, Rule!Errors, Forms!Rule!Errors, Rule!TimeMissing,
         Forms!Rule!TimeMissing, Rule!WeekdaysMissing, Forms!Rule!WeekdaysMissing,
         Rule!Accepted, Forms!Rule!Accepted, Rule!RequestOk, Forms!Rule!RequestOk,
         Rule!CommandOk, Forms!Rule!CommandOk, Rule!ScheduleOk, Forms!Rule!ScheduleOk,
         Rule!Param, Forms!Rule!Param, Rule!SentWindow, Forms!Rule!SentWindow
<1>3. Rule!TypeOK <=> Forms!Rule!TypeOK
  BY DEF Rule!TypeOK, Forms!Rule!TypeOK, Rule!RuleForms, Forms!Rule!RuleForms, Rule!Names,
         Forms!Rule!Names, Rule!Modes, Forms!Rule!Modes, Rule!EventCodes,
         Forms!Rule!EventCodes, Rule!Delays, Forms!Rule!Delays, Rule!CronExpressions,
         Forms!Rule!CronExpressions, Rule!Windows, Forms!Rule!Windows, Rule!Selectors,
         Forms!Rule!Selectors
<1>4. Rule!SaveDoesAsShown <=> Forms!Rule!SaveDoesAsShown
  BY DEF Rule!SaveDoesAsShown, Forms!Rule!SaveDoesAsShown, Rule!InvalidShown,
         Forms!Rule!InvalidShown, Rule!Errors, Forms!Rule!Errors, Rule!TimeMissing,
         Forms!Rule!TimeMissing, Rule!WeekdaysMissing, Forms!Rule!WeekdaysMissing,
         Rule!ShownErrors, Forms!Rule!ShownErrors, Rule!RefusalHasCause,
         Forms!Rule!RefusalHasCause, Rule!OnlyServerRefuses, Forms!Rule!OnlyServerRefuses,
         Rule!SavedReadsBack, Forms!Rule!SavedReadsBack, Rule!Seen, Forms!Rule!Seen,
         Rule!FormOf, Forms!Rule!FormOf, Rule!Param, Forms!Rule!Param, Rule!SentWindow,
         Forms!Rule!SentWindow
<1>5. QED
  BY <1>1, <1>2, <1>3, <1>4

\* A behaviour of the area is one of RuleForm, and no other behaviour enters it.
LEMMA RuleFollowed ==
  Spec => /\ area = "rule" => [](area = "rule") /\ Forms!Rule!Spec
          /\ ~(area = "rule") => []~(area = "rule")
<1>1. Init /\ area = "rule" => Forms!Rule!Init
  BY SameRule DEF Init
<1>2. area = "rule" /\ [Next]_vars =>
        (area = "rule")' /\ [Forms!Rule!Next]_(Forms!Rule!formVars)
  BY SameRule
     DEF Next, vars, past2, past6, past8, past9, past10, past11, past12, past13, past14,
         past15, past20, Forms!Rule!formVars
<1>3. ~(area = "rule") /\ [Next]_vars => ~(area = "rule")'
  BY DEF Next, vars
<1>4. QED
  BY <1>1, <1>2, <1>3, PTL DEF Spec, Forms!Rule!Spec

\* The form of a notification rule keeps its types.
THEOREM RuleTypeCorrect == Spec => [](area = "rule" => Rule!TypeOK)
<1>1. Forms!Rule!Spec => []Forms!Rule!TypeOK
  BY SameRule, Forms!RuleTyped
<1>2. (area = "rule" => Rule!TypeOK) <=> (area = "rule" => Forms!Rule!TypeOK)
  BY SameRule
<1>3. QED
  BY <1>1, <1>2, RuleFollowed, PTL

\* Save stores the rule the dialog shows, or the dialog shows what is wrong, or the
\* server refuses the rule: for a cause the form does not check, the recipient of which
\* no request is accepted among them, for every such cause and for no other.
THEOREM RuleSavesAsShown == Spec => []SaveDoesAsShown
<1>1. Forms!Rule!Spec => []Forms!Rule!SaveDoesAsShown
  BY SameRule, Forms!RuleSaves
<1>2. SaveDoesAsShown <=> (area = "rule" => Forms!Rule!SaveDoesAsShown)
  BY SameRule DEF SaveDoesAsShown
<1>3. QED
  BY <1>1, <1>2, RuleFollowed, PTL

---------------------------------------------------------------------------
(* NotificationDialogs *)

\* What the console and the proofs call Messages are the same.
LEMMA SameMessages ==
  /\ Messages!Init <=> Forms!Messages!Init
  /\ Messages!Next <=> Forms!Messages!Next
  /\ Messages!TypeOK <=> Forms!Messages!TypeOK
  /\ Messages!TextsKept <=> Forms!Messages!TextsKept
  /\ Forms!Messages!ConstantsOK
<1>1. Messages!Init <=> Forms!Messages!Init
  BY DEF Messages!Init, Forms!Messages!Init, Messages!RowKinds, Forms!Messages!RowKinds,
         Messages!Shut, Forms!Messages!Shut, Messages!Kinds, Forms!Messages!Kinds,
         Messages!DEFAULT_DIALOG, Forms!Messages!DEFAULT_DIALOG, Messages!NoCall,
         Forms!Messages!NoCall
<1>2. Messages!Next <=> Forms!Messages!Next
  BY DEF Messages!Next, Forms!Messages!Next, Messages!OpenSend, Forms!Messages!OpenSend,
         Messages!PageReachable, Forms!Messages!PageReachable, Messages!Kinds,
         Forms!Messages!Kinds, Messages!RowKinds, Forms!Messages!RowKinds, Messages!Spend,
         Forms!Messages!Spend, Messages!OpenFor, Forms!Messages!OpenFor,
         Messages!ApplyTemplate, Forms!Messages!ApplyTemplate, Messages!Write,
         Forms!Messages!Write, Messages!isBusy, Forms!Messages!isBusy,
         Messages!NewTemplate, Forms!Messages!NewTemplate, Messages!DEFAULT_DIALOG,
         Forms!Messages!DEFAULT_DIALOG, Messages!OpenCreate, Forms!Messages!OpenCreate,
         Messages!OpenEdit, Forms!Messages!OpenEdit, Messages!Load, Forms!Messages!Load,
         Messages!Elsewhere, Forms!Messages!Elsewhere, Messages!Type, Forms!Messages!Type,
         Messages!Forms, Forms!Messages!Forms, Messages!Cancel, Forms!Messages!Cancel,
         Messages!Closable, Forms!Messages!Closable, Messages!Cancelled,
         Forms!Messages!Cancelled, Messages!Submit, Forms!Messages!Submit,
         Messages!Submittable, Forms!Messages!Submittable, Messages!Succeed,
         Forms!Messages!Succeed, Messages!Applied, Forms!Messages!Applied, Messages!Fail,
         Forms!Messages!Fail, Messages!NoCall, Forms!Messages!NoCall, Messages!Settle,
         Forms!Messages!Settle
<1>3. Messages!TypeOK <=> Forms!Messages!TypeOK
  BY DEF Messages!TypeOK, Forms!Messages!TypeOK, Messages!RowKinds,
         Forms!Messages!RowKinds, Messages!Kinds, Forms!Messages!Kinds, Messages!Forms,
         Forms!Messages!Forms
<1>4. Messages!TextsKept <=> Forms!Messages!TextsKept
  BY DEF Messages!TextsKept, Forms!Messages!TextsKept, Messages!CallHasDialog,
         Forms!Messages!CallHasDialog, Messages!Kinds, Forms!Messages!Kinds,
         Messages!RowKinds, Forms!Messages!RowKinds, Messages!OldMessageWasSent,
         Forms!Messages!OldMessageWasSent
<1>5. Forms!Messages!ConstantsOK
  BY AreaAssumption
     DEF Messages!ConstantsOK, Forms!Messages!ConstantsOK
<1>6. QED
  BY <1>1, <1>2, <1>3, <1>4, <1>5

\* A behaviour of the area is one of NotificationDialogs, and no other behaviour enters it.
LEMMA MessagesFollowed ==
  Spec => /\ area = "messages" => [](area = "messages") /\ Forms!Messages!Spec
          /\ ~(area = "messages") => []~(area = "messages")
<1>1. Init /\ area = "messages" => Forms!Messages!Init
  BY SameMessages DEF Init
<1>2. area = "messages" /\ [Next]_vars =>
        (area = "messages")' /\ [Forms!Messages!Next]_(Forms!Messages!notificationVars)
  BY SameMessages
     DEF Next, vars, past2, past6, past8, past9, past10, past11, past12, past13, past14,
         past15, past20, Forms!Messages!notificationVars
<1>3. ~(area = "messages") /\ [Next]_vars => ~(area = "messages")'
  BY DEF Next, vars
<1>4. QED
  BY <1>1, <1>2, <1>3, PTL DEF Spec, Forms!Messages!Spec

\* The dialogs of the notifications page keep their types.
THEOREM MessagesTypeCorrect == Spec => [](area = "messages" => Messages!TypeOK)
<1>1. Forms!Messages!Spec => []Forms!Messages!TypeOK
  BY SameMessages, Forms!MessagesTyped
<1>2. (area = "messages" => Messages!TypeOK) <=> (area = "messages" => Forms!Messages!TypeOK)
  BY SameMessages
<1>3. QED
  BY <1>1, <1>2, MessagesFollowed, PTL

\* What was typed into a dialog of the notifications page is not lost while its call is
\* under way, nor offered again after it was cancelled.
THEOREM TextsKeptAlways == Spec => []TextsKept
<1>1. Forms!Messages!Spec => []Forms!Messages!TextsKept
  BY SameMessages, Forms!MessagesKept
<1>2. TextsKept <=> (area = "messages" => Forms!Messages!TextsKept)
  BY SameMessages DEF TextsKept
<1>3. QED
  BY <1>1, <1>2, MessagesFollowed, PTL

---------------------------------------------------------------------------
(* ProfileForm *)

\* What the console and the proofs call Profile are the same.
LEMMA SameProfile ==
  /\ Profile!Init <=> Forms!Profile!Init
  /\ Profile!Next <=> Forms!Profile!Next
  /\ Profile!TypeOK <=> Forms!Profile!TypeOK
  /\ Profile!OwnProfileKept <=> Forms!Profile!OwnProfileKept
  /\ Forms!Profile!ConstantsOK
<1>1. Profile!Init <=> Forms!Profile!Init
  BY DEF Profile!Init, Forms!Profile!Init, Profile!Accounts, Forms!Profile!Accounts,
         Profile!Texts, Forms!Profile!Texts, Profile!Idle, Forms!Profile!Idle,
         Profile!Closed, Forms!Profile!Closed, Profile!NoUpdate, Forms!Profile!NoUpdate
<1>2. Profile!Next <=> Forms!Profile!Next
  BY DEF Profile!Next, Forms!Profile!Next, Profile!OpenSettings,
         Forms!Profile!OpenSettings, Profile!Input, Forms!Profile!Input, Profile!FormOf,
         Forms!Profile!FormOf, Profile!ShownProfile, Forms!Profile!ShownProfile,
         Profile!Excused, Forms!Profile!Excused, Profile!UnderWay, Forms!Profile!UnderWay,
         Profile!Fetching, Forms!Profile!Fetching, Profile!Sent, Forms!Profile!Sent,
         Profile!CloseSettings, Forms!Profile!CloseSettings, Profile!Closed,
         Forms!Profile!Closed, Profile!Disowned, Forms!Profile!Disowned,
         Profile!handleCropConfirm, Forms!Profile!handleCropConfirm, Profile!isBusy,
         Forms!Profile!isBusy, Profile!Texts, Forms!Profile!Texts, Profile!UploadEnds,
         Forms!Profile!UploadEnds, Profile!Type, Forms!Profile!Type, Profile!OtherEdits,
         Forms!Profile!OtherEdits, Profile!Written, Forms!Profile!Written, Profile!Save,
         Forms!Profile!Save, Profile!isDirty, Forms!Profile!isDirty, Profile!Commits,
         Forms!Profile!Commits, Profile!Updated, Forms!Profile!Updated,
         Profile!Invalidates, Forms!Profile!Invalidates, Profile!SaveSucceeds,
         Forms!Profile!SaveSucceeds, Profile!Joined, Forms!Profile!Joined,
         Profile!ProfileAfterSave, Forms!Profile!ProfileAfterSave, Profile!SaveSettles,
         Forms!Profile!SaveSettles, Profile!NoUpdate, Forms!Profile!NoUpdate,
         Profile!SaveFails, Forms!Profile!SaveFails, Profile!Error, Forms!Profile!Error,
         Profile!Accounts, Forms!Profile!Accounts, Profile!AbandonedFill,
         Forms!Profile!AbandonedFill, Profile!Expires, Forms!Profile!Expires,
         Profile!HeaderHit, Forms!Profile!HeaderHit, Profile!HeaderMiss,
         Forms!Profile!HeaderMiss, Profile!HeaderFill, Forms!Profile!HeaderFill,
         Profile!HeaderRefetch, Forms!Profile!HeaderRefetch, Profile!HeaderReceived,
         Forms!Profile!HeaderReceived, Profile!Idle, Forms!Profile!Idle, Profile!Shows,
         Forms!Profile!Shows, Profile!Ended, Forms!Profile!Ended, Profile!ProfileServed,
         Forms!Profile!ProfileServed, Profile!ProfileReceived,
         Forms!Profile!ProfileReceived, Profile!FetchFails, Forms!Profile!FetchFails,
         Profile!Collect, Forms!Profile!Collect
<1>3. Profile!TypeOK <=> Forms!Profile!TypeOK
  BY DEF Profile!TypeOK, Forms!Profile!TypeOK, Profile!Accounts, Forms!Profile!Accounts,
         Profile!Texts, Forms!Profile!Texts, Profile!AccountOrNone,
         Forms!Profile!AccountOrNone, Profile!FetchStates, Forms!Profile!FetchStates
<1>4. Profile!OwnProfileKept <=> Forms!Profile!OwnProfileKept
  BY DEF Profile!OwnProfileKept, Forms!Profile!OwnProfileKept, Profile!HeaderShowsOwnSaves,
         Forms!Profile!HeaderShowsOwnSaves, Profile!Quiet, Forms!Profile!Quiet,
         Profile!Fetching, Forms!Profile!Fetching, Profile!UnderWay,
         Forms!Profile!UnderWay, Profile!OwnSavesKept, Forms!Profile!OwnSavesKept
<1>5. Forms!Profile!ConstantsOK
  BY AreaAssumption
     DEF Profile!ConstantsOK, Forms!Profile!ConstantsOK
<1>6. QED
  BY <1>1, <1>2, <1>3, <1>4, <1>5

\* A behaviour of the area is one of ProfileForm, and no other behaviour enters it.
LEMMA ProfileFollowed ==
  Spec => /\ area = "profile" => [](area = "profile") /\ Forms!Profile!Spec
          /\ ~(area = "profile") => []~(area = "profile")
<1>1. Init /\ area = "profile" => Forms!Profile!Init
  BY SameProfile DEF Init
<1>2. area = "profile" /\ [Next]_vars =>
        (area = "profile")' /\ [Forms!Profile!Next]_(Forms!Profile!profileVars)
  BY SameProfile
     DEF Next, vars, past2, past6, past8, past9, past10, past11, past12, past13, past14,
         past15, past20, Forms!Profile!profileVars
<1>3. ~(area = "profile") /\ [Next]_vars => ~(area = "profile")'
  BY DEF Next, vars
<1>4. QED
  BY <1>1, <1>2, <1>3, PTL DEF Spec, Forms!Profile!Spec

\* The account, its copies and the settings dialog keep their types.
THEOREM ProfileTypeCorrect == Spec => [](area = "profile" => Profile!TypeOK)
<1>1. Forms!Profile!Spec => []Forms!Profile!TypeOK
  BY SameProfile, Forms!ProfileTyped
<1>2. (area = "profile" => Profile!TypeOK) <=> (area = "profile" => Forms!Profile!TypeOK)
  BY SameProfile
<1>3. QED
  BY <1>1, <1>2, ProfileFollowed, PTL

\* What a user saved of the profile stays saved and is what the header shows, whatever
\* the fields, the saves under way and the cache of Redis.
THEOREM OwnProfileKeptAlways == Spec => []OwnProfileKept
<1>1. Forms!Profile!Spec => []Forms!Profile!OwnProfileKept
  BY SameProfile, Forms!OwnSavesStay
<1>2. OwnProfileKept <=> (area = "profile" => Forms!Profile!OwnProfileKept)
  BY SameProfile DEF OwnProfileKept
<1>3. QED
  BY <1>1, <1>2, ProfileFollowed, PTL

---------------------------------------------------------------------------
(* SigninPage *)

\* What the console and the proofs call Signin are the same.
LEMMA SameSignin ==
  /\ Signin!Init <=> Forms!Signin!Init
  /\ Signin!Next <=> Forms!Signin!Next
  /\ Signin!TypeOK <=> Forms!Signin!TypeOK
  /\ Signin!SigninFollowsVisitor <=> Forms!Signin!SigninFollowsVisitor
  /\ Forms!Signin!ConstantsOK
<1>1. Signin!Init <=> Forms!Signin!Init
  BY DEF Signin!Init, Forms!Signin!Init, Signin!Accounts, Forms!Signin!Accounts,
         Signin!EmptyForm, Forms!Signin!EmptyForm
<1>2. Signin!Next <=> Forms!Signin!Next
  BY DEF Signin!Next, Forms!Signin!Next, Signin!Fill, Forms!Signin!Fill, Signin!isLoading,
         Forms!Signin!isLoading, Signin!Input, Forms!Signin!Input, Signin!Accounts,
         Forms!Signin!Accounts, Signin!LoadConfig, Forms!Signin!LoadConfig,
         Signin!SubmitWithSlider, Forms!Signin!SubmitWithSlider, Signin!Valid,
         Forms!Signin!Valid, Signin!captchaSliderEnabled,
         Forms!Signin!captchaSliderEnabled, Signin!SubmitDirectly,
         Forms!Signin!SubmitDirectly, Signin!Query, Forms!Signin!Query, Signin!Unmounted,
         Forms!Signin!Unmounted, Signin!Slide, Forms!Signin!Slide, Signin!Misfit,
         Forms!Signin!Misfit, Signin!Resize, Forms!Signin!Resize, Signin!Verified,
         Forms!Signin!Verified, Signin!VerifyFails, Forms!Signin!VerifyFails,
         Signin!Listed, Forms!Signin!Listed, Signin!Proved, Forms!Signin!Proved,
         Signin!RightPassword, Forms!Signin!RightPassword, Signin!OptionsOf,
         Forms!Signin!OptionsOf, Signin!ProofsAfterQuery, Forms!Signin!ProofsAfterQuery,
         Signin!NotListed, Forms!Signin!NotListed, Signin!Baffling, Forms!Signin!Baffling,
         Signin!Pick, Forms!Signin!Pick, Signin!Selected, Forms!Signin!Selected,
         Signin!Cancel, Forms!Signin!Cancel, Signin!Confirm, Forms!Signin!Confirm,
         Signin!SigninPayload, Forms!Signin!SigninPayload, Signin!SignedIn,
         Forms!Signin!SignedIn, Signin!MaySignIn, Forms!Signin!MaySignIn, Signin!UseProof,
         Forms!Signin!UseProof, Signin!NotSignedIn, Forms!Signin!NotSignedIn,
         Signin!ProofExpires, Forms!Signin!ProofExpires, Signin!MembersChange,
         Forms!Signin!MembersChange
<1>3. Signin!TypeOK <=> Forms!Signin!TypeOK
  BY DEF Signin!TypeOK, Forms!Signin!TypeOK, Signin!Accounts, Forms!Signin!Accounts,
         Signin!Forms, Forms!Signin!Forms
<1>4. Signin!SigninFollowsVisitor <=> Forms!Signin!SigninFollowsVisitor
  BY DEF Signin!SigninFollowsVisitor, Forms!Signin!SigninFollowsVisitor,
         Signin!SigninIsConfirmed, Forms!Signin!SigninIsConfirmed, Signin!DialogIsOfForm,
         Forms!Signin!DialogIsOfForm, Signin!CaptchaRefusalHasCause,
         Forms!Signin!CaptchaRefusalHasCause
<1>5. Forms!Signin!ConstantsOK
  BY AreaAssumption
     DEF Signin!ConstantsOK, Forms!Signin!ConstantsOK, Signin!Accounts,
         Forms!Signin!Accounts, Signin!Offers, Forms!Signin!Offers
<1>6. QED
  BY <1>1, <1>2, <1>3, <1>4, <1>5

\* A behaviour of the area is one of SigninPage, and no other behaviour enters it.
LEMMA SigninFollowed ==
  Spec => /\ area = "signin" => [](area = "signin") /\ Forms!Signin!Spec
          /\ ~(area = "signin") => []~(area = "signin")
<1>1. Init /\ area = "signin" => Forms!Signin!Init
  BY SameSignin DEF Init
<1>2. area = "signin" /\ [Next]_vars =>
        (area = "signin")' /\ [Forms!Signin!Next]_(Forms!Signin!signinVars)
  BY SameSignin
     DEF Next, vars, past2, past6, past8, past9, past10, past11, past12, past13, past14,
         past15, past20, Forms!Signin!signinVars
<1>3. ~(area = "signin") /\ [Next]_vars => ~(area = "signin")'
  BY DEF Next, vars
<1>4. QED
  BY <1>1, <1>2, <1>3, PTL DEF Spec, Forms!Signin!Spec

\* The sign-in form, its captcha, its calls and its dialog keep their types.
THEOREM SigninTypeCorrect == Spec => [](area = "signin" => Signin!TypeOK)
<1>1. Forms!Signin!Spec => []Forms!Signin!TypeOK
  BY SameSignin, Forms!SigninTyped
<1>2. (area = "signin" => Signin!TypeOK) <=> (area = "signin" => Forms!Signin!TypeOK)
  BY SameSignin
<1>3. QED
  BY <1>1, <1>2, SigninFollowed, PTL

\* The tokens kept are those of the choice the visitor confirmed, the organizations on
\* screen those of the account typed, and a captcha is refused only for a cause the
\* visitor met, however many queries, sliders and choices there are (the sign-in page).
THEOREM SigninsFollowVisitor == Spec => []SigninFollowsVisitor
<1>1. Forms!Signin!Spec => []Forms!Signin!SigninFollowsVisitor
  BY SameSignin, Forms!SigninsAreConfirmed
<1>2. SigninFollowsVisitor <=> (area = "signin" => Forms!Signin!SigninFollowsVisitor)
  BY SameSignin DEF SigninFollowsVisitor
<1>3. QED
  BY <1>1, <1>2, SigninFollowed, PTL

---------------------------------------------------------------------------
(* CodeForm *)

\* What the console and the proofs call Code are the same.
LEMMA SameCode ==
  /\ Code!Init <=> Forms!Code!Init
  /\ Code!Next <=> Forms!Code!Next
  /\ Code!TypeOK <=> Forms!Code!TypeOK
  /\ Code!CodeIsAsTold <=> Forms!Code!CodeIsAsTold
  /\ Forms!Code!ConstantsOK
<1>1. Code!Init <=> Forms!Code!Init
  BY DEF Code!Init, Forms!Code!Init, Code!Spellings, Forms!Code!Spellings
<1>2. Code!Next <=> Forms!Code!Next
  BY DEF Code!Next, Forms!Code!Next, Code!TypeContact, Forms!Code!TypeContact, Code!isBusy,
         Forms!Code!isBusy, Code!Input, Forms!Code!Input, Code!Spellings,
         Forms!Code!Spellings, Code!server, Forms!Code!server, Code!histories,
         Forms!Code!histories, Code!TypeCode, Forms!Code!TypeCode, Code!LoadConfig,
         Forms!Code!LoadConfig, Code!AskWithSlider, Forms!Code!AskWithSlider,
         Code!AskButton, Forms!Code!AskButton, Code!captchaSliderEnabled,
         Forms!Code!captchaSliderEnabled, Code!AskDirectly, Forms!Code!AskDirectly,
         Code!Request, Forms!Code!Request, Code!Norm, Forms!Code!Norm, Code!Slide,
         Forms!Code!Slide, Code!Resize, Forms!Code!Resize, Code!Verified,
         Forms!Code!Verified, Code!VerifyFails, Forms!Code!VerifyFails, Code!Unmounted,
         Forms!Code!Unmounted, Code!Sent, Forms!Code!Sent, Code!Proved, Forms!Code!Proved,
         Code!UseProof, Forms!Code!UseProof, Code!Mail, Forms!Code!Mail, Code!Reachable,
         Forms!Code!Reachable, Code!KeepQuiet, Forms!Code!KeepQuiet, Code!ResendSeconds,
         Forms!Code!ResendSeconds, Code!NotSent, Forms!Code!NotSent, Code!SendBreaks,
         Forms!Code!SendBreaks, Code!Submit, Forms!Code!Submit, Code!Succeed,
         Forms!Code!Succeed, Code!Admitted, Forms!Code!Admitted, Code!CodeIsGood,
         Forms!Code!CodeIsGood, Code!SpendCode, Forms!Code!SpendCode, Code!Fail,
         Forms!Code!Fail, Code!CloseDialog, Forms!Code!CloseDialog, Code!OpenDialog,
         Forms!Code!OpenDialog, Code!Reload, Forms!Code!Reload, Code!Tick, Forms!Code!Tick,
         Code!Less, Forms!Code!Less, Code!CodeExpires, Forms!Code!CodeExpires,
         Code!ProofExpires, Forms!Code!ProofExpires
<1>3. Code!TypeOK <=> Forms!Code!TypeOK
  BY DEF Code!TypeOK, Forms!Code!TypeOK, Code!Spellings, Forms!Code!Spellings, Code!Ids,
         Forms!Code!Ids
<1>4. Code!CodeIsAsTold <=> Forms!Code!CodeIsAsTold
  BY DEF Code!CodeIsAsTold, Forms!Code!CodeIsAsTold, Code!ToldCodeLives,
         Forms!Code!ToldCodeLives, Code!Reachable, Forms!Code!Reachable, Code!ToldIsMailed,
         Forms!Code!ToldIsMailed, Code!CaptchaRefusalHasCause,
         Forms!Code!CaptchaRefusalHasCause
<1>5. Forms!Code!ConstantsOK
  BY AreaAssumption
     DEF Code!ConstantsOK, Forms!Code!ConstantsOK
<1>6. QED
  BY <1>1, <1>2, <1>3, <1>4, <1>5

\* A behaviour of the area is one of CodeForm, and no other behaviour enters it.
LEMMA CodeFollowed ==
  Spec => /\ area = "code" => [](area = "code") /\ Forms!Code!Spec
          /\ ~(area = "code") => []~(area = "code")
<1>1. Init /\ area = "code" => Forms!Code!Init
  BY SameCode DEF Init
<1>2. area = "code" /\ [Next]_vars =>
        (area = "code")' /\ [Forms!Code!Next]_(Forms!Code!codeVars)
  BY SameCode
     DEF Next, vars, past2, past6, past8, past9, past10, past11, past12, past13, past14,
         past15, past20, Forms!Code!codeVars
<1>3. ~(area = "code") /\ [Next]_vars => ~(area = "code")'
  BY DEF Next, vars
<1>4. QED
  BY <1>1, <1>2, <1>3, PTL DEF Spec, Forms!Code!Spec

\* The form that mails a code, its captcha, its calls and what the server remembers keep
\* their types.
THEOREM CodeTypeCorrect == Spec => [](area = "code" => Code!TypeOK)
<1>1. Forms!Code!Spec => []Forms!Code!TypeOK
  BY SameCode, Forms!CodeTyped
<1>2. (area = "code" => Code!TypeOK) <=> (area = "code" => Forms!Code!TypeOK)
  BY SameCode
<1>3. QED
  BY <1>1, <1>2, CodeFollowed, PTL

\* Who was told that a code was sent has one that is good, the button that is enabled
\* again does not ask in vain, and a captcha that was passed is refused only for a
\* cause, each but for what the property names (sign-up, forgotten password).
THEOREM CodesAreAsTold == Spec => []CodeIsAsTold
<1>1. Forms!Code!Spec => []Forms!Code!CodeIsAsTold
  BY SameCode, Forms!CodesAreTold
<1>2. CodeIsAsTold <=> (area = "code" => Forms!Code!CodeIsAsTold)
  BY SameCode DEF CodeIsAsTold
<1>3. QED
  BY <1>1, <1>2, CodeFollowed, PTL

---------------------------------------------------------------------------
(* PagedList *)

\* What the console and the proofs call List are the same.
LEMMA SameList ==
  /\ List!Init <=> Views!List!Init
  /\ List!Next <=> Views!List!Next
  /\ List!TypeOK <=> Views!List!TypeOK
  /\ List!ListAnswersControls <=> Views!List!ListAnswersControls
  /\ Views!List!ConstantsOK
<1>1. List!Init <=> Views!List!Init
  BY DEF List!Init, Views!List!Init, List!Views, Views!List!Views, List!UsersPage,
         Views!List!UsersPage, List!Filters, Views!List!Filters, List!OAuthClientsPage,
         Views!List!OAuthClientsPage, List!TenantApplyPage, Views!List!TenantApplyPage,
         List!OperationLogsPage, Views!List!OperationLogsPage, List!AuditLogsPage,
         Views!List!AuditLogsPage, List!SystemLogsPage, Views!List!SystemLogsPage,
         List!InboxPage, Views!List!InboxPage, List!Blank, Views!List!Blank, List!Asked,
         Views!List!Asked, List!NoQuestion, Views!List!NoQuestion, List!NoAction,
         Views!List!NoAction
<1>2. List!Next <=> Views!List!Next
  BY DEF List!Next, Views!List!Next, List!Filters, Views!List!Filters, List!SetFilter,
         Views!List!SetFilter, List!Spend, Views!List!Spend, List!Turn, Views!List!Turn,
         List!AskIfChanged, Views!List!AskIfChanged, List!Ask, Views!List!Ask, List!Asked,
         Views!List!Asked, List!NoQuestion, Views!List!NoQuestion, List!Blank,
         Views!List!Blank, List!Cardinality, Views!List!Cardinality, List!SetPage,
         Views!List!SetPage, List!PagerTargets, Views!List!PagerTargets, List!PageCount,
         Views!List!PageCount, List!Seen, Views!List!Seen, List!Busy, Views!List!Busy,
         List!Debounce, Views!List!Debounce, List!ServeQuestion, Views!List!ServeQuestion,
         List!Answered, Views!List!Answered, List!Before, Views!List!Before, List!Pending,
         Views!List!Pending, List!ReceiveAnswer, Views!List!ReceiveAnswer,
         List!FailQuestion, Views!List!FailQuestion, List!Refresh, Views!List!Refresh,
         List!Act, Views!List!Act, List!ServeAction, Views!List!ServeAction, List!Without,
         Views!List!Without, List!AnswerAction, Views!List!AnswerAction, List!FirstLoad,
         Views!List!FirstLoad, List!SettleAction, Views!List!SettleAction, List!NoAction,
         Views!List!NoAction, List!StepsBack, Views!List!StepsBack, List!FailAction,
         Views!List!FailAction, List!OtherRemoves, Views!List!OtherRemoves
<1>3. List!TypeOK <=> Views!List!TypeOK
  BY DEF List!TypeOK, Views!List!TypeOK, List!Views, Views!List!Views, List!UsersPage,
         Views!List!UsersPage, List!Filters, Views!List!Filters, List!OAuthClientsPage,
         Views!List!OAuthClientsPage, List!TenantApplyPage, Views!List!TenantApplyPage,
         List!OperationLogsPage, Views!List!OperationLogsPage, List!AuditLogsPage,
         Views!List!AuditLogsPage, List!SystemLogsPage, Views!List!SystemLogsPage,
         List!InboxPage, Views!List!InboxPage, List!PageIndexes, Views!List!PageIndexes,
         List!Cardinality, Views!List!Cardinality, List!Answers, Views!List!Answers
<1>4. List!ListAnswersControls <=> Views!List!ListAnswersControls
  BY DEF List!ListAnswersControls, Views!List!ListAnswersControls,
         List!ScreenAnswersControls, Views!List!ScreenAnswersControls, List!Settled,
         Views!List!Settled, List!Busy, Views!List!Busy, List!EmptyPageNeedsCause,
         Views!List!EmptyPageNeedsCause
<1>5. Views!List!ConstantsOK
  BY AreaAssumption
     DEF List!ConstantsOK, Views!List!ConstantsOK, List!IsFiniteSet, Views!List!IsFiniteSet
<1>6. QED
  BY <1>1, <1>2, <1>3, <1>4, <1>5

\* A behaviour of the area is one of PagedList, and no other behaviour enters it.
LEMMA ListFollowed ==
  Spec => /\ area = "list" => [](area = "list") /\ Views!List!Spec
          /\ ~(area = "list") => []~(area = "list")
<1>1. Init /\ area = "list" => Views!List!Init
  BY SameList DEF Init
<1>2. area = "list" /\ [Next]_vars =>
        (area = "list")' /\ [Views!List!Next]_(Views!List!listVars)
  BY SameList
     DEF Next, vars, past2, past6, past8, past9, past10, past11, past12, past13, past14,
         past15, past20, Views!List!listVars
<1>3. ~(area = "list") /\ [Next]_vars => ~(area = "list")'
  BY DEF Next, vars
<1>4. QED
  BY <1>1, <1>2, <1>3, PTL DEF Spec, Views!List!Spec

\* The controls, the rows on screen and the row actions of the paged lists keep their
\* types.
THEOREM ListTypeCorrect == Spec => [](area = "list" => List!TypeOK)
<1>1. Views!List!Spec => []Views!List!TypeOK
  BY SameList, Views!ListTyped
<1>2. (area = "list" => List!TypeOK) <=> (area = "list" => Views!List!TypeOK)
  BY SameList
<1>3. QED
  BY <1>1, <1>2, ListFollowed, PTL

\* A settled list shows the rows of the filter and the page of its controls, and an
\* empty page of a list that has rows needs one of the causes the property names,
\* whatever the page size (use-debounced-query, the data grids, use-notification-inbox-
\* controller).
THEOREM ListsAnswerControls == Spec => []ListAnswersControls
<1>1. Views!List!Spec => []Views!List!ListAnswersControls
  BY SameList, Views!ListAnswers
<1>2. ListAnswersControls <=> (area = "list" => Views!List!ListAnswersControls)
  BY SameList DEF ListAnswersControls
<1>3. QED
  BY <1>1, <1>2, ListFollowed, PTL

---------------------------------------------------------------------------
(* CursorPage *)

\* What the console and the proofs call Objects are the same.
LEMMA SameObjects ==
  /\ Objects!Init <=> Views!Objects!Init
  /\ Objects!Next <=> Views!Objects!Next
  /\ Objects!TypeOK <=> Views!Objects!TypeOK
  /\ Objects!TokensMatchListing <=> Views!Objects!TokensMatchListing
  /\ Views!Objects!ConstantsOK
<1>1. Objects!Init <=> Views!Objects!Init
  BY DEF Objects!Init, Views!Objects!Init, Objects!Settings, Views!Objects!Settings,
         Objects!First, Views!Objects!First, Objects!NoListing, Views!Objects!NoListing,
         Objects!NoToken, Views!Objects!NoToken
<1>2. Objects!Next <=> Views!Objects!Next
  BY DEF Objects!Next, Views!Objects!Next, Objects!Settings, Views!Objects!Settings,
         Objects!Change, Views!Objects!Change, Objects!Spend, Views!Objects!Spend,
         Objects!Cardinality, Views!Objects!Cardinality, Objects!ResetPagination,
         Views!Objects!ResetPagination, Objects!First, Views!Objects!First,
         Objects!AskIfChanged, Views!Objects!AskIfChanged, Objects!Key, Views!Objects!Key,
         Objects!Asked, Views!Objects!Asked, Objects!Current, Views!Objects!Current,
         Objects!TokenOf, Views!Objects!TokenOf, Objects!Clear, Views!Objects!Clear,
         Objects!Debounce, Views!Objects!Debounce, Objects!PrevPage,
         Views!Objects!PrevPage, Objects!NextPage, Views!Objects!NextPage, Objects!NoToken,
         Views!Objects!NoToken, Objects!Receive, Views!Objects!Receive, Objects!Fail,
         Views!Objects!Fail, Objects!NoListing, Views!Objects!NoListing, Objects!Refresh,
         Views!Objects!Refresh
<1>3. Objects!TypeOK <=> Views!Objects!TypeOK
  BY DEF Objects!TypeOK, Views!Objects!TypeOK, Objects!Settings, Views!Objects!Settings,
         Objects!Tokens, Views!Objects!Tokens
<1>4. Objects!TokensMatchListing <=> Views!Objects!TokensMatchListing
  BY DEF Objects!TokensMatchListing, Views!Objects!TokensMatchListing, Objects!Asked,
         Views!Objects!Asked
<1>5. Views!Objects!ConstantsOK
  BY AreaAssumption
     DEF Objects!ConstantsOK, Views!Objects!ConstantsOK, Objects!Settings,
         Views!Objects!Settings
<1>6. QED
  BY <1>1, <1>2, <1>3, <1>4, <1>5

\* A behaviour of the area is one of CursorPage, and no other behaviour enters it.
LEMMA ObjectsFollowed ==
  Spec => /\ area = "objects" => [](area = "objects") /\ Views!Objects!Spec
          /\ ~(area = "objects") => []~(area = "objects")
<1>1. Init /\ area = "objects" => Views!Objects!Init
  BY SameObjects DEF Init
<1>2. area = "objects" /\ [Next]_vars =>
        (area = "objects")' /\ [Views!Objects!Next]_(Views!Objects!cursorVars)
  BY SameObjects
     DEF Next, vars, past2, past6, past8, past9, past10, past11, past12, past13, past14,
         past15, past20, Views!Objects!cursorVars
<1>3. ~(area = "objects") /\ [Next]_vars => ~(area = "objects")'
  BY DEF Next, vars
<1>4. QED
  BY <1>1, <1>2, <1>3, PTL DEF Spec, Views!Objects!Spec

\* The controls, the stack of tokens and the listing of the storage objects keep their
\* types.
THEOREM ObjectsTypeCorrect == Spec => [](area = "objects" => Objects!TypeOK)
<1>1. Views!Objects!Spec => []Views!Objects!TypeOK
  BY SameObjects, Views!ObjectsTyped
<1>2. (area = "objects" => Objects!TypeOK) <=> (area = "objects" => Views!Objects!TypeOK)
  BY SameObjects
<1>3. QED
  BY <1>1, <1>2, ObjectsFollowed, PTL

\* A continuation token is only sent with the settings it was issued for, however many
\* pages a listing has (the storage objects page).
THEOREM TokensContinueTheirListing == Spec => []TokensMatchListing
<1>1. Views!Objects!Spec => []Views!Objects!TokensMatchListing
  BY SameObjects, Views!TokensContinueTheirListing
<1>2. TokensMatchListing <=> (area = "objects" => Views!Objects!TokensMatchListing)
  BY SameObjects DEF TokensMatchListing
<1>3. QED
  BY <1>1, <1>2, ObjectsFollowed, PTL

---------------------------------------------------------------------------
(* TenantTree *)

\* What the console and the proofs call Directory are the same.
LEMMA SameDirectory ==
  /\ Directory!Init <=> Views!Directory!Init
  /\ Directory!Next <=> Views!Directory!Next
  /\ Directory!TypeOK <=> Views!Directory!TypeOK
  /\ Directory!PanesCurrent <=> Views!Directory!PanesCurrent
  /\ Views!Directory!ConstantsOK
<1>1. Directory!Init <=> Views!Directory!Init
  BY DEF Directory!Init, Views!Directory!Init, Directory!Born, Views!Directory!Born,
         Directory!FirstPages, Views!Directory!FirstPages, Directory!Queries,
         Views!Directory!Queries, Directory!Pages, Views!Directory!Pages,
         Directory!Cardinality, Views!Directory!Cardinality, Directory!NodeQueries,
         Views!Directory!NodeQueries, Directory!KidsQueries, Views!Directory!KidsQueries,
         Directory!NoRows, Views!Directory!NoRows, Directory!Roots, Views!Directory!Roots,
         Directory!NoJob, Views!Directory!NoJob
<1>2. Directory!Next <=> Views!Directory!Next
  BY DEF Directory!Next, Views!Directory!Next, Directory!toggleExpand,
         Views!Directory!toggleExpand, Directory!Input, Views!Directory!Input,
         Directory!Shown, Views!Directory!Shown, Directory!Born, Views!Directory!Born,
         Directory!Asks, Views!Directory!Asks, Directory!InUse, Views!Directory!InUse,
         Directory!Roots, Views!Directory!Roots, Directory!Kids, Views!Directory!Kids,
         Directory!Found, Views!Directory!Found, Directory!Node, Views!Directory!Node,
         Directory!Active, Views!Directory!Active, Directory!KidsQueries,
         Views!Directory!KidsQueries, Directory!Pages, Views!Directory!Pages,
         Directory!Cardinality, Views!Directory!Cardinality, Directory!OtherChanges,
         Views!Directory!OtherChanges, Directory!Below, Views!Directory!Below,
         Directory!ChildrenOf, Views!Directory!ChildrenOf,
         Directory!handleChildPageChange, Views!Directory!handleChildPageChange,
         Directory!Offered, Views!Directory!Offered, Directory!Queries,
         Views!Directory!Queries, Directory!NodeQueries, Views!Directory!NodeQueries,
         Directory!TotalPages, Views!Directory!TotalPages, Directory!Drifts,
         Views!Directory!Drifts, Directory!openAddChild, Views!Directory!openAddChild,
         Directory!NoJob, Views!Directory!NoJob, Directory!Sent, Views!Directory!Sent,
         Directory!Submit, Views!Directory!Submit, Directory!handleSelectNode,
         Views!Directory!handleSelectNode, Directory!handleRootPageChange,
         Views!Directory!handleRootPageChange, Directory!FirstPages,
         Views!Directory!FirstPages, Directory!handleSearchPageChange,
         Views!Directory!handleSearchPageChange, Directory!onTreeSearchChange,
         Views!Directory!onTreeSearchChange, Directory!Serve, Views!Directory!Serve,
         Directory!Read, Views!Directory!Read, Directory!ListOf, Views!Directory!ListOf,
         Directory!PageOf, Views!Directory!PageOf, Directory!Answer,
         Views!Directory!Answer, Directory!Ends, Views!Directory!Ends, Directory!NoRows,
         Views!Directory!NoRows, Directory!AnswerFails, Views!Directory!AnswerFails,
         Directory!onRefresh, Views!Directory!onRefresh,
         Directory!invalidateTenantQueries, Views!Directory!invalidateTenantQueries,
         Directory!ServeJob, Views!Directory!ServeJob, Directory!LaterPages,
         Views!Directory!LaterPages, Directory!Succeed, Views!Directory!Succeed,
         Directory!Settle, Views!Directory!Settle, Directory!FirstPage,
         Views!Directory!FirstPage, Directory!Reselected, Views!Directory!Reselected,
         Directory!JobFails, Views!Directory!JobFails
<1>3. Directory!TypeOK <=> Views!Directory!TypeOK
  BY DEF Directory!TypeOK, Views!Directory!TypeOK, Directory!TenantOrNone,
         Views!Directory!TenantOrNone, Directory!Pages, Views!Directory!Pages,
         Directory!Cardinality, Views!Directory!Cardinality, Directory!Queries,
         Views!Directory!Queries, Directory!NodeQueries, Views!Directory!NodeQueries,
         Directory!KidsQueries, Views!Directory!KidsQueries, Directory!Rows,
         Views!Directory!Rows
<1>4. Directory!PanesCurrent <=> Views!Directory!PanesCurrent
  BY DEF Directory!PanesCurrent, Views!Directory!PanesCurrent, Directory!ListsCurrent,
         Views!Directory!ListsCurrent, Directory!Settled, Views!Directory!Settled,
         Directory!Active, Views!Directory!Active, Directory!InUse, Views!Directory!InUse,
         Directory!Roots, Views!Directory!Roots, Directory!Kids, Views!Directory!Kids,
         Directory!Found, Views!Directory!Found, Directory!Node, Views!Directory!Node,
         Directory!NoJob, Views!Directory!NoJob, Directory!Lists, Views!Directory!Lists,
         Directory!NodeQueries, Views!Directory!NodeQueries, Directory!Read,
         Views!Directory!Read, Directory!ListOf, Views!Directory!ListOf,
         Directory!ChildrenOf, Views!Directory!ChildrenOf, Directory!PageOf,
         Views!Directory!PageOf, Directory!Cardinality, Views!Directory!Cardinality,
         Directory!DetailAlive, Views!Directory!DetailAlive, Directory!EmptyListIsEmpty,
         Views!Directory!EmptyListIsEmpty
<1>5. Views!Directory!ConstantsOK
  BY AreaAssumption
     DEF Directory!ConstantsOK, Views!Directory!ConstantsOK, Directory!IsFiniteSet,
         Views!Directory!IsFiniteSet
<1>6. QED
  BY <1>1, <1>2, <1>3, <1>4, <1>5

\* A behaviour of the area is one of TenantTree, and no other behaviour enters it.
LEMMA DirectoryFollowed ==
  Spec => /\ area = "tenants" => [](area = "tenants") /\ Views!Directory!Spec
          /\ ~(area = "tenants") => []~(area = "tenants")
<1>1. Init /\ area = "tenants" => Views!Directory!Init
  BY SameDirectory DEF Init
<1>2. area = "tenants" /\ [Next]_vars =>
        (area = "tenants")' /\ [Views!Directory!Next]_(Views!Directory!tenantVars)
  BY SameDirectory
     DEF Next, vars, past2, past6, past8, past9, past10, past11, past12, past13, past14,
         past15, past20, Views!Directory!tenantVars
<1>3. ~(area = "tenants") /\ [Next]_vars => ~(area = "tenants")'
  BY DEF Next, vars
<1>4. QED
  BY <1>1, <1>2, <1>3, PTL DEF Spec, Views!Directory!Spec

\* The tenants, the controls, the queries and the call of the tenants page keep their
\* types.
THEOREM DirectoryTypeCorrect == Spec => [](area = "tenants" => Directory!TypeOK)
<1>1. Views!Directory!Spec => []Views!Directory!TypeOK
  BY SameDirectory, Views!TenantsTyped
<1>2. (area = "tenants" => Directory!TypeOK) <=> (area = "tenants" => Views!Directory!TypeOK)
  BY SameDirectory
<1>3. QED
  BY <1>1, <1>2, DirectoryFollowed, PTL

\* With everything answered the lists and the detail of the tenants page are the
\* server's tenants, and no page is empty while its list is not, each but for the cause
\* the property names, a first answer read before one's own change among them, with any
\* number of tenants, searches and pages.
THEOREM PanesCurrentAlways == Spec => []PanesCurrent
<1>1. Views!Directory!Spec => []Views!Directory!PanesCurrent
  BY SameDirectory, Views!PanesAreCurrent
<1>2. PanesCurrent <=> (area = "tenants" => Views!Directory!PanesCurrent)
  BY SameDirectory DEF PanesCurrent
<1>3. QED
  BY <1>1, <1>2, DirectoryFollowed, PTL

---------------------------------------------------------------------------
(* RoleCodes *)

\* What the console and the proofs call Codes are the same.
LEMMA SameCodes ==
  /\ Codes!Init <=> Views!Codes!Init
  /\ Codes!Next <=> Views!Codes!Next
  /\ Codes!TypeOK <=> Views!Codes!TypeOK
  /\ Codes!StaleNeedsRace <=> Views!Codes!StaleNeedsRace
  /\ Views!Codes!ConstantsOK
<1>1. Codes!Init <=> Views!Codes!Init
  BY DEF Codes!Init, Views!Codes!Init, Codes!Idle, Views!Codes!Idle
<1>2. Codes!Next <=> Views!Codes!Next
  BY DEF Codes!Next, Views!Codes!Next, Codes!Hit, Views!Codes!Hit, Codes!At,
         Views!Codes!At, Codes!vars, Views!Codes!vars, Codes!Miss, Views!Codes!Miss,
         Codes!Idle, Views!Codes!Idle, Codes!Assign, Views!Codes!Assign, Codes!Holding,
         Views!Codes!Holding, Codes!ReadRows, Views!Codes!ReadRows, Codes!WriteCache,
         Views!Codes!WriteCache, Codes!Finish, Views!Codes!Finish, Codes!CallFails,
         Views!Codes!CallFails
<1>3. Codes!TypeOK <=> Views!Codes!TypeOK
  BY DEF Codes!TypeOK, Views!Codes!TypeOK, Codes!Commits, Views!Codes!Commits
<1>4. Codes!StaleNeedsRace <=> Views!Codes!StaleNeedsRace
  BY DEF Codes!StaleNeedsRace, Views!Codes!StaleNeedsRace, Codes!Refreshing,
         Views!Codes!Refreshing
<1>5. Views!Codes!ConstantsOK
  BY AreaAssumption
     DEF Codes!ConstantsOK, Views!Codes!ConstantsOK
<1>6. QED
  BY <1>1, <1>2, <1>3, <1>4, <1>5

\* A behaviour of the area is one of RoleCodes, and no other behaviour enters it.
LEMMA CodesFollowed ==
  Spec => /\ area = "codes" => [](area = "codes") /\ Views!Codes!Spec
          /\ ~(area = "codes") => []~(area = "codes")
<1>1. Init /\ area = "codes" => Views!Codes!Init
  BY SameCodes DEF Init
<1>2. area = "codes" /\ [Next]_vars =>
        (area = "codes")' /\ [Views!Codes!Next]_(Views!Codes!vars)
  BY SameCodes
     DEF Next, vars, past2, past6, past8, past9, past10, past11, past12, past13, past14,
         past15, past20, Views!Codes!vars
<1>3. ~(area = "codes") /\ [Next]_vars => ~(area = "codes")'
  BY DEF Next, vars
<1>4. QED
  BY <1>1, <1>2, <1>3, PTL DEF Spec, Views!Codes!Spec

\* The codes of a role, their copy and the requests keep their types.
THEOREM CodesTypeCorrect == Spec => [](area = "codes" => Codes!TypeOK)
<1>1. Views!Codes!Spec => []Views!Codes!TypeOK
  BY SameCodes, Views!CodesTypeCorrect
<1>2. (area = "codes" => Codes!TypeOK) <=> (area = "codes" => Views!Codes!TypeOK)
  BY SameCodes
<1>3. QED
  BY <1>1, <1>2, CodesFollowed, PTL

\* The copy in Redis is only behind the rows of a role while it is being refreshed,
\* after an overtaken fill, or after a refresh that failed (RoleService).
THEOREM StaleCodesNeedRace == Spec => []StaleNeedsRace
<1>1. Views!Codes!Spec => []Views!Codes!StaleNeedsRace
  BY SameCodes, Views!StaleCodesNeedRace
<1>2. StaleNeedsRace <=> (area = "codes" => Views!Codes!StaleNeedsRace)
  BY SameCodes DEF StaleNeedsRace
<1>3. QED
  BY <1>1, <1>2, CodesFollowed, PTL

---------------------------------------------------------------------------
(* Inbox *)

\* What the console and the proofs call Notices are the same.
LEMMA SameNotices ==
  /\ Notices!Init <=> Views!Notices!Init
  /\ Notices!Next <=> Views!Notices!Next
  /\ Notices!TypeOK <=> Views!Notices!TypeOK
  /\ Notices!InboxCurrent <=> Views!Notices!InboxCurrent
  /\ Views!Notices!ConstantsOK
<1>1. Notices!Init <=> Views!Notices!Init
  BY DEF Notices!Init, Views!Notices!Init, Notices!Queries, Views!Notices!Queries,
         Notices!NoAnswer, Views!Notices!NoAnswer, Notices!Sent, Views!Notices!Sent
<1>2. Notices!Next <=> Views!Notices!Next
  BY DEF Notices!Next, Views!Notices!Next, Notices!Queries, Views!Notices!Queries,
         Notices!ServeFetch, Views!Notices!ServeFetch, Notices!ReceiveFetch,
         Views!Notices!ReceiveFetch, Notices!NoAnswer, Views!Notices!NoAnswer,
         Notices!FailFetch, Views!Notices!FailFetch, Notices!Trouble,
         Views!Notices!Trouble, Notices!Room, Views!Notices!Room, Notices!Refresh,
         Views!Notices!Refresh, Notices!Active, Views!Notices!Active, Notices!Sent,
         Views!Notices!Sent, Notices!Visit, Views!Notices!Visit, Notices!HasData,
         Views!Notices!HasData, Notices!Joined, Views!Notices!Joined, Notices!Leave,
         Views!Notices!Leave, Notices!ChangeKey, Views!Notices!ChangeKey, Notices!Change,
         Views!Notices!Change, Notices!Emit, Views!Notices!Emit, Notices!Broadcast,
         Views!Notices!Broadcast, Notices!Lost, Views!Notices!Lost, Notices!Missed,
         Views!Notices!Missed, Notices!LoseSignal, Views!Notices!LoseSignal,
         Notices!ReceiveSignal, Views!Notices!ReceiveSignal, Notices!Invalidate,
         Views!Notices!Invalidate, Notices!Invalidated, Views!Notices!Invalidated,
         Notices!StartsOver, Views!Notices!StartsOver, Notices!Connect,
         Views!Notices!Connect, Notices!Disconnect, Views!Notices!Disconnect, Notices!Mark,
         Views!Notices!Mark, Notices!ServeMark, Views!Notices!ServeMark, Notices!EmitMark,
         Views!Notices!EmitMark, Notices!AnswerMark, Views!Notices!AnswerMark,
         Notices!FailMark, Views!Notices!FailMark
<1>3. Notices!TypeOK <=> Views!Notices!TypeOK
  BY DEF Notices!TypeOK, Views!Notices!TypeOK, Notices!Versions, Views!Notices!Versions,
         Notices!Queries, Views!Notices!Queries
<1>4. Notices!InboxCurrent <=> Views!Notices!InboxCurrent
  BY DEF Notices!InboxCurrent, Views!Notices!InboxCurrent, Notices!Quiet,
         Views!Notices!Quiet, Notices!Queries, Views!Notices!Queries, Notices!Active,
         Views!Notices!Active, Notices!HasData, Views!Notices!HasData
<1>5. Views!Notices!ConstantsOK
  BY AreaAssumption
     DEF Notices!ConstantsOK, Views!Notices!ConstantsOK
<1>6. QED
  BY <1>1, <1>2, <1>3, <1>4, <1>5

\* A behaviour of the area is one of Inbox, and no other behaviour enters it.
LEMMA NoticesFollowed ==
  Spec => /\ area = "notices" => [](area = "notices") /\ Views!Notices!Spec
          /\ ~(area = "notices") => []~(area = "notices")
<1>1. Init /\ area = "notices" => Views!Notices!Init
  BY SameNotices DEF Init
<1>2. area = "notices" /\ [Next]_vars =>
        (area = "notices")' /\ [Views!Notices!Next]_(Views!Notices!inboxVars)
  BY SameNotices
     DEF Next, vars, past2, past6, past8, past9, past10, past11, past12, past13, past14,
         past15, past20, Views!Notices!inboxVars
<1>3. ~(area = "notices") /\ [Next]_vars => ~(area = "notices")'
  BY DEF Next, vars
<1>4. QED
  BY <1>1, <1>2, <1>3, PTL DEF Spec, Views!Notices!Spec

\* The inbox, its queries and its signals keep their types.
THEOREM NoticesTypeCorrect == Spec => [](area = "notices" => Notices!TypeOK)
<1>1. Views!Notices!Spec => []Views!Notices!TypeOK
  BY SameNotices, Views!InboxTyped
<1>2. (area = "notices" => Notices!TypeOK) <=> (area = "notices" => Views!Notices!TypeOK)
  BY SameNotices
<1>3. QED
  BY <1>1, <1>2, NoticesFollowed, PTL

\* With nothing in flight, the badge, the bell and the list that are mounted show the
\* inbox of the server or are known to be behind it.
THEOREM InboxCurrentAlways == Spec => []InboxCurrent
<1>1. Views!Notices!Spec => []Views!Notices!InboxCurrent
  BY SameNotices, Views!InboxShown
<1>2. InboxCurrent <=> (area = "notices" => Views!Notices!InboxCurrent)
  BY SameNotices DEF InboxCurrent
<1>3. QED
  BY <1>1, <1>2, NoticesFollowed, PTL

---------------------------------------------------------------------------
(* RowMenus *)

\* What the console and the proofs call Rights are the same.
LEMMA SameRights ==
  /\ Rights!Init <=> Views!Rights!Init
  /\ Rights!Next <=> Views!Rights!Next
  /\ Rights!TypeOK <=> Views!Rights!TypeOK
  /\ Rights!ActionsAsOffered <=> Views!Rights!ActionsAsOffered
<1>1. Rights!Init <=> Views!Rights!Init
  BY DEF Rights!Init, Views!Rights!Init, Rights!Desks, Views!Rights!Desks,
         Rights!UsersPage, Views!Rights!UsersPage, Rights!UserRow, Views!Rights!UserRow,
         Rights!ClientsPage, Views!Rights!ClientsPage, Rights!ClientRow,
         Views!Rights!ClientRow, Rights!RolesPage, Views!Rights!RolesPage, Rights!RoleRow,
         Views!Rights!RoleRow, Rights!RoleNode, Views!Rights!RoleNode, Rights!RolePanel,
         Views!Rights!RolePanel, Rights!MenusPage, Views!Rights!MenusPage, Rights!MenuRow,
         Views!Rights!MenuRow, Rights!MenuNode, Views!Rights!MenuNode, Rights!MenuPanel,
         Views!Rights!MenuPanel, Rights!PermsPage, Views!Rights!PermsPage, Rights!PermRow,
         Views!Rights!PermRow, Rights!PermNode, Views!Rights!PermNode, Rights!PermPanel,
         Views!Rights!PermPanel, Rights!DictsPage, Views!Rights!DictsPage, Rights!DictRow,
         Views!Rights!DictRow, Rights!DictNode, Views!Rights!DictNode, Rights!DictPanel,
         Views!Rights!DictPanel, Rights!TenantsPage, Views!Rights!TenantsPage,
         Rights!TenantRow, Views!Rights!TenantRow, Rights!TenantNode,
         Views!Rights!TenantNode, Rights!TenantPanel, Views!Rights!TenantPanel,
         Rights!AllCodes, Views!Rights!AllCodes, Rights!NoTask, Views!Rights!NoTask
<1>2. Rights!Next <=> Views!Rights!Next
  BY DEF Rights!Next, Views!Rights!Next, Rights!OthersChange, Views!Rights!OthersChange,
         Rights!NoInput, Views!Rights!NoInput, Rights!AllCodes, Views!Rights!AllCodes,
         Rights!Regrant, Views!Rights!Regrant, Rights!Focus, Views!Rights!Focus,
         Rights!ServeHeader, Views!Rights!ServeHeader, Rights!HeaderAnswers,
         Views!Rights!HeaderAnswers, Rights!Settled, Views!Rights!Settled, Rights!NoTask,
         Views!Rights!NoTask, Rights!SettledOutcome, Views!Rights!SettledOutcome,
         Rights!HeaderFails, Views!Rights!HeaderFails, Rights!Reread, Views!Rights!Reread,
         Rights!Desks, Views!Rights!Desks, Rights!UsersPage, Views!Rights!UsersPage,
         Rights!UserRow, Views!Rights!UserRow, Rights!ClientsPage,
         Views!Rights!ClientsPage, Rights!ClientRow, Views!Rights!ClientRow,
         Rights!RolesPage, Views!Rights!RolesPage, Rights!RoleRow, Views!Rights!RoleRow,
         Rights!RoleNode, Views!Rights!RoleNode, Rights!RolePanel, Views!Rights!RolePanel,
         Rights!MenusPage, Views!Rights!MenusPage, Rights!MenuRow, Views!Rights!MenuRow,
         Rights!MenuNode, Views!Rights!MenuNode, Rights!MenuPanel, Views!Rights!MenuPanel,
         Rights!PermsPage, Views!Rights!PermsPage, Rights!PermRow, Views!Rights!PermRow,
         Rights!PermNode, Views!Rights!PermNode, Rights!PermPanel, Views!Rights!PermPanel,
         Rights!DictsPage, Views!Rights!DictsPage, Rights!DictRow, Views!Rights!DictRow,
         Rights!DictNode, Views!Rights!DictNode, Rights!DictPanel, Views!Rights!DictPanel,
         Rights!TenantsPage, Views!Rights!TenantsPage, Rights!TenantRow,
         Views!Rights!TenantRow, Rights!TenantNode, Views!Rights!TenantNode,
         Rights!TenantPanel, Views!Rights!TenantPanel, Rights!Choose, Views!Rights!Choose,
         Rights!Offered, Views!Rights!Offered, Rights!hasPerm, Views!Rights!hasPerm,
         Rights!isReady, Views!Rights!isReady, Rights!Can, Views!Rights!Can,
         Rights!UserCan, Views!Rights!UserCan, Rights!ClientCan, Views!Rights!ClientCan,
         Rights!RoleCan, Views!Rights!RoleCan, Rights!DeletePerm, Views!Rights!DeletePerm,
         Rights!MenuCan, Views!Rights!MenuCan, Rights!PermCan, Views!Rights!PermCan,
         Rights!DictCan, Views!Rights!DictCan, Rights!TenantCan, Views!Rights!TenantCan,
         Rights!Guard, Views!Rights!Guard, Rights!AddGuard, Views!Rights!AddGuard,
         Rights!AssignGuard, Views!Rights!AssignGuard, Rights!DeleteGuard,
         Views!Rights!DeleteGuard, Rights!Open, Views!Rights!Open, Rights!Refusal,
         Views!Rights!Refusal, Rights!Save, Views!Rights!Save, Rights!Confirm,
         Views!Rights!Confirm, Rights!LooksAgain, Views!Rights!LooksAgain, Rights!Close,
         Views!Rights!Close, Rights!Commit, Views!Rights!Commit, Rights!Assigns,
         Views!Rights!Assigns, Rights!Answer, Views!Rights!Answer, Rights!Refreshes,
         Views!Rights!Refreshes, Rights!Fail, Views!Rights!Fail
<1>3. Rights!TypeOK <=> Views!Rights!TypeOK
  BY DEF Rights!TypeOK, Views!Rights!TypeOK, Rights!Desks, Views!Rights!Desks,
         Rights!UsersPage, Views!Rights!UsersPage, Rights!UserRow, Views!Rights!UserRow,
         Rights!ClientsPage, Views!Rights!ClientsPage, Rights!ClientRow,
         Views!Rights!ClientRow, Rights!RolesPage, Views!Rights!RolesPage, Rights!RoleRow,
         Views!Rights!RoleRow, Rights!RoleNode, Views!Rights!RoleNode, Rights!RolePanel,
         Views!Rights!RolePanel, Rights!MenusPage, Views!Rights!MenusPage, Rights!MenuRow,
         Views!Rights!MenuRow, Rights!MenuNode, Views!Rights!MenuNode, Rights!MenuPanel,
         Views!Rights!MenuPanel, Rights!PermsPage, Views!Rights!PermsPage, Rights!PermRow,
         Views!Rights!PermRow, Rights!PermNode, Views!Rights!PermNode, Rights!PermPanel,
         Views!Rights!PermPanel, Rights!DictsPage, Views!Rights!DictsPage, Rights!DictRow,
         Views!Rights!DictRow, Rights!DictNode, Views!Rights!DictNode, Rights!DictPanel,
         Views!Rights!DictPanel, Rights!TenantsPage, Views!Rights!TenantsPage,
         Rights!TenantRow, Views!Rights!TenantRow, Rights!TenantNode,
         Views!Rights!TenantNode, Rights!TenantPanel, Views!Rights!TenantPanel,
         Rights!AllCodes, Views!Rights!AllCodes
<1>4. Rights!ActionsAsOffered <=> Views!Rights!ActionsAsOffered
  BY DEF Rights!ActionsAsOffered, Views!Rights!ActionsAsOffered, Rights!QuietNeedsFailure,
         Views!Rights!QuietNeedsFailure, Rights!ForbiddenNeedsRevocation,
         Views!Rights!ForbiddenNeedsRevocation, Rights!CascadeNeedsPermission,
         Views!Rights!CascadeNeedsPermission, Rights!LooksAgain, Views!Rights!LooksAgain,
         Rights!OwnAssignmentSeen, Views!Rights!OwnAssignmentSeen
<1>5. QED
  BY <1>1, <1>2, <1>3, <1>4

\* A behaviour of the area is one of RowMenus, and no other behaviour enters it.
LEMMA RightsFollowed ==
  Spec => /\ area = "rights" => [](area = "rights") /\ Views!Rights!Spec
          /\ ~(area = "rights") => []~(area = "rights")
<1>1. Init /\ area = "rights" => Views!Rights!Init
  BY SameRights DEF Init
<1>2. area = "rights" /\ [Next]_vars =>
        (area = "rights")' /\ [Views!Rights!Next]_(Views!Rights!menuVars)
  BY SameRights
     DEF Next, vars, past2, past6, past8, past9, past10, past11, past12, past13, past14,
         past15, past20, Views!Rights!menuVars
<1>3. ~(area = "rights") /\ [Next]_vars => ~(area = "rights")'
  BY DEF Next, vars
<1>4. QED
  BY <1>1, <1>2, <1>3, PTL DEF Spec, Views!Rights!Spec

\* The menus of the rows, and what they started, keep their types.
THEOREM RightsTypeCorrect == Spec => [](area = "rights" => Rights!TypeOK)
<1>1. Views!Rights!Spec => []Views!Rights!TypeOK
  BY SameRights, Views!RightsTyped
<1>2. (area = "rights" => Rights!TypeOK) <=> (area = "rights" => Views!Rights!TypeOK)
  BY SameRights
<1>3. QED
  BY <1>1, <1>2, RightsFollowed, PTL

\* What the menu of a row offers can be done, on each of the management pages and
\* whatever the codes of the administrator.
THEOREM MenusOfferWhatHolds == Spec => []ActionsAsOffered
<1>1. Views!Rights!Spec => []Views!Rights!ActionsAsOffered
  BY SameRights, Views!MenusHold
<1>2. ActionsAsOffered <=> (area = "rights" => Views!Rights!ActionsAsOffered)
  BY SameRights DEF ActionsAsOffered
<1>3. QED
  BY <1>1, <1>2, RightsFollowed, PTL

---------------------------------------------------------------------------
(* Membership *)

\* What the console and the proofs call Members are the same.
LEMMA SameMembers ==
  /\ Members!Init <=> Admins!Members!Init
  /\ Members!Next <=> Admins!Members!Next
  /\ Members!TypeOK <=> Admins!Members!TypeOK
  /\ Members!DecisionsHold <=> Admins!Members!DecisionsHold
  /\ Members!RejectStep <=> Admins!Members!RejectStep
  /\ Admins!Members!ConstantsOK
<1>1. Members!Init <=> Admins!Members!Init
  BY DEF Members!Init, Admins!Members!Init, Members!Page, Admins!Members!Page,
         Members!Live, Admins!Members!Live, Members!Statuses, Admins!Members!Statuses,
         Members!Listed, Admins!Members!Listed, Members!Matches, Admins!Members!Matches,
         Members!Rank, Admins!Members!Rank, Members!Cardinality,
         Admins!Members!Cardinality, Members!Ahead, Admins!Members!Ahead,
         Members!Searches, Admins!Members!Searches, Members!Answered,
         Admins!Members!Answered, Members!Unread, Admins!Members!Unread, Members!NoRuling,
         Admins!Members!NoRuling
<1>2. Members!Next <=> Admins!Members!Next
  BY DEF Members!Next, Admins!Members!Next, Members!handleJoin, Admins!Members!handleJoin,
         Members!Input, Admins!Members!Input, Members!OffersJoin,
         Admins!Members!OffersJoin, Members!Card, Admins!Members!Card,
         Members!FindMembership, Admins!Members!FindMembership, Members!Live,
         Admins!Members!Live, Members!Statuses, Admins!Members!Statuses,
         Members!InsertMembership, Admins!Members!InsertMembership, Members!Reload,
         Admins!Members!Reload, Members!Searches, Admins!Members!Searches,
         Members!setKeyword, Admins!Members!setKeyword, Members!HasData,
         Admins!Members!HasData, Members!Reading, Admins!Members!Reading,
         Members!ServeList, Admins!Members!ServeList, Members!Page, Admins!Members!Page,
         Members!Listed, Admins!Members!Listed, Members!Matches, Admins!Members!Matches,
         Members!Rank, Admins!Members!Rank, Members!Cardinality,
         Admins!Members!Cardinality, Members!Ahead, Admins!Members!Ahead,
         Members!ReceiveList, Admins!Members!ReceiveList, Members!Answered,
         Admins!Members!Answered, Members!Unread, Admins!Members!Unread,
         Members!ListFails, Admins!Members!ListFails, Members!Press, Admins!Members!Press,
         Members!NoRuling, Admins!Members!NoRuling, Members!isAdmin,
         Admins!Members!isAdmin, Members!OnScreen, Admins!Members!OnScreen,
         Members!Offered, Admins!Members!Offered, Members!ReadBefore,
         Admins!Members!ReadBefore, Members!ReadTarget, Admins!Members!ReadTarget,
         Members!WriteRuling, Admins!Members!WriteRuling, Members!Decide,
         Admins!Members!Decide, Members!Ruled, Admins!Members!Ruled, Members!Announces,
         Admins!Members!Announces, Members!Admits, Admins!Members!Admits, Members!Succeed,
         Admins!Members!Succeed, Members!RulingFails, Admins!Members!RulingFails,
         Members!OtherDecides, Admins!Members!OtherDecides
<1>3. Members!TypeOK <=> Admins!Members!TypeOK
  BY DEF Members!TypeOK, Admins!Members!TypeOK, Members!Statuses, Admins!Members!Statuses,
         Members!Rows, Admins!Members!Rows, Members!Searches, Admins!Members!Searches,
         Members!Verdicts, Admins!Members!Verdicts
<1>4. Members!DecisionsHold <=> Admins!Members!DecisionsHold
  BY DEF Members!DecisionsHold, Admins!Members!DecisionsHold,
         Members!LockedOutNeedsRejection, Admins!Members!LockedOutNeedsRejection,
         Members!OneDecisionAnnounced, Admins!Members!OneDecisionAnnounced,
         Members!Cardinality, Admins!Members!Cardinality, Members!FounderMayDecide,
         Admins!Members!FounderMayDecide, Members!Reading, Admins!Members!Reading,
         Members!NoRuling, Admins!Members!NoRuling, Members!Requests,
         Admins!Members!Requests, Members!isAdmin, Admins!Members!isAdmin,
         Members!OnScreen, Admins!Members!OnScreen, Members!HasData,
         Admins!Members!HasData
<1>5. Members!RejectStep <=> Admins!Members!RejectStep
  BY DEF Members!RejectStep, Admins!Members!RejectStep
<1>6. Admins!Members!ConstantsOK
  BY AreaAssumption
     DEF Members!ConstantsOK, Admins!Members!ConstantsOK, Members!IsFiniteSet,
         Admins!Members!IsFiniteSet
<1>7. QED
  BY <1>1, <1>2, <1>3, <1>4, <1>5, <1>6

\* A behaviour of the area is one of Membership, and no other behaviour enters it.
LEMMA MembersFollowed ==
  Spec => /\ area = "members" => [](area = "members") /\ Admins!Members!Spec
          /\ ~(area = "members") => []~(area = "members")
<1>1. Init /\ area = "members" => Admins!Members!Init
  BY SameMembers DEF Init
<1>2. area = "members" /\ [Next]_vars =>
        (area = "members")' /\ [Admins!Members!Next]_(Admins!Members!memberVars)
  BY SameMembers
     DEF Next, vars, past2, past6, past8, past9, past10, past11, past12, past13, past14,
         past15, past20, Admins!Members!memberVars
<1>3. ~(area = "members") /\ [Next]_vars => ~(area = "members")'
  BY DEF Next, vars
<1>4. QED
  BY <1>1, <1>2, <1>3, PTL DEF Spec, Admins!Members!Spec

\* The memberships, the open pages and the ruling keep their types.
THEOREM MembersTypeCorrect == Spec => [](area = "members" => Members!TypeOK)
<1>1. Admins!Members!Spec => []Admins!Members!TypeOK
  BY SameMembers, Admins!MembersTyped
<1>2. (area = "members" => Members!TypeOK) <=> (area = "members" => Admins!Members!TypeOK)
  BY SameMembers
<1>3. QED
  BY <1>1, <1>2, MembersFollowed, PTL

\* A request to join meets one decision, of somebody who may decide, and only a rejected
\* person or one that asked twice at once is locked out; the founder may decide unless
\* the list shows too few rows or is old.  For any number of people and pages.
THEOREM DecisionsHoldAlways == Spec => []DecisionsHold
<1>1. Admins!Members!Spec => []Admins!Members!DecisionsHold
  BY SameMembers, Admins!DecisionsOnce
<1>2. DecisionsHold <=> (area = "members" => Admins!Members!DecisionsHold)
  BY SameMembers DEF DecisionsHold
<1>3. QED
  BY <1>1, <1>2, MembersFollowed, PTL

\* Rejecting a request on the members page never disables a member, unless it was
\* decided on elsewhere or the list was old: being read, read before the last decision
\* of the page, or not answered.
THEOREM RejectionsDisableNobody == Spec => RejectNeverDisables
<1>1. Admins!Members!Spec => [][Admins!Members!RejectStep]_(Admins!Members!memberVars)
  BY SameMembers, Admins!RejectionsDisableNobody
<1>2. area = "members" /\ [Next]_vars /\ [Admins!Members!RejectStep]_(Admins!Members!memberVars) =>
        [area = "members" => Members!RejectStep]_vars
  BY SameMembers
     DEF Next, vars, past2, past6, past8, past9, past10, past11, past12, past13, past14,
         past15, past20, Admins!Members!memberVars
<1>3. ~(area = "members") => [area = "members" => Members!RejectStep]_vars
  OBVIOUS
<1>4. QED
  BY <1>1, <1>2, <1>3, MembersFollowed, PTL DEF Spec, RejectNeverDisables

---------------------------------------------------------------------------
(* InviteLink *)

\* What the console and the proofs call Invite are the same.
LEMMA SameInvite ==
  /\ Invite!Init <=> Admins!Invite!Init
  /\ Invite!Next <=> Admins!Invite!Next
  /\ Invite!TypeOK <=> Admins!Invite!TypeOK
  /\ Invite!InvitationHolds <=> Admins!Invite!InvitationHolds
  /\ Admins!Invite!ConstantsOK
<1>1. Invite!Init <=> Admins!Invite!Init
  BY DEF Invite!Init, Admins!Invite!Init, Invite!NoEntry, Admins!Invite!NoEntry,
         Invite!CodeNames, Admins!Invite!CodeNames, Invite!NoWay, Admins!Invite!NoWay,
         Invite!Callers, Admins!Invite!Callers, Invite!NoCall, Admins!Invite!NoCall,
         Invite!NoLink, Admins!Invite!NoLink
<1>2. Invite!Next <=> Admins!Invite!Next
  BY DEF Invite!Next, Admins!Invite!Next, Invite!Callers, Admins!Invite!Callers,
         Invite!LookUp, Admins!Invite!LookUp, Invite!Error, Admins!Invite!Error,
         Invite!server, Admins!Invite!server, Invite!client, Admins!Invite!client,
         Invite!StoreCode, Admins!Invite!StoreCode, Invite!WriteOrLose,
         Admins!Invite!WriteOrLose, Invite!StoreLookup, Admins!Invite!StoreLookup,
         Invite!DayPasses, Admins!Invite!DayPasses, Invite!Input, Admins!Invite!Input,
         Invite!NoEntry, Admins!Invite!NoEntry, Invite!CodeNames, Admins!Invite!CodeNames,
         Invite!NoWay, Admins!Invite!NoWay, Invite!OtherAnswered,
         Admins!Invite!OtherAnswered, Invite!NoCall, Admins!Invite!NoCall, Invite!marks,
         Admins!Invite!marks, Invite!OpenDialog, Admins!Invite!OpenDialog, Invite!Call,
         Admins!Invite!Call, Invite!CloseDialog, Admins!Invite!CloseDialog,
         Invite!ReceiveLink, Admins!Invite!ReceiveLink, Invite!LinkFails,
         Admins!Invite!LinkFails, Invite!Broken, Admins!Invite!Broken,
         Invite!LinkGoesStale, Admins!Invite!LinkGoesStale, Invite!Switched,
         Admins!Invite!Switched, Invite!NoLink, Admins!Invite!NoLink, Invite!SwitchFails,
         Admins!Invite!SwitchFails, Invite!HeaderRefetched, Admins!Invite!HeaderRefetched,
         Invite!OtherAsks, Admins!Invite!OtherAsks, Invite!SwitchTeam,
         Admins!Invite!SwitchTeam, Invite!SwitchElsewhere, Admins!Invite!SwitchElsewhere
<1>3. Invite!TypeOK <=> Admins!Invite!TypeOK
  BY DEF Invite!TypeOK, Admins!Invite!TypeOK, Invite!CodeNames, Admins!Invite!CodeNames,
         Invite!Spaces, Admins!Invite!Spaces, Invite!Callers, Admins!Invite!Callers
<1>4. Invite!InvitationHolds <=> Admins!Invite!InvitationHolds
  BY DEF Invite!InvitationHolds, Admins!Invite!InvitationHolds, Invite!LinkWorks,
         Admins!Invite!LinkWorks, Invite!Shown, Admins!Invite!Shown, Invite!NoCall,
         Admins!Invite!NoCall, Invite!Works, Admins!Invite!Works, Invite!BeingStored,
         Admins!Invite!BeingStored, Invite!Callers, Admins!Invite!Callers,
         Invite!LinkOfWorkspace, Admins!Invite!LinkOfWorkspace, Invite!OneLiveLink,
         Admins!Invite!OneLiveLink, Invite!Cardinality, Admins!Invite!Cardinality,
         Invite!CodeNames, Admins!Invite!CodeNames
<1>5. Admins!Invite!ConstantsOK
  BY AreaAssumption
     DEF Invite!ConstantsOK, Admins!Invite!ConstantsOK
<1>6. QED
  BY <1>1, <1>2, <1>3, <1>4, <1>5

\* A behaviour of the area is one of InviteLink, and no other behaviour enters it.
LEMMA InviteFollowed ==
  Spec => /\ area = "invite" => [](area = "invite") /\ Admins!Invite!Spec
          /\ ~(area = "invite") => []~(area = "invite")
<1>1. Init /\ area = "invite" => Admins!Invite!Init
  BY SameInvite DEF Init
<1>2. area = "invite" /\ [Next]_vars =>
        (area = "invite")' /\ [Admins!Invite!Next]_(Admins!Invite!inviteVars)
  BY SameInvite
     DEF Next, vars, past2, past6, past8, past9, past10, past11, past12, past13, past14,
         past15, past20, Admins!Invite!inviteVars, Admins!Invite!server,
         Admins!Invite!client, Admins!Invite!marks
<1>3. ~(area = "invite") /\ [Next]_vars => ~(area = "invite")'
  BY DEF Next, vars
<1>4. QED
  BY <1>1, <1>2, <1>3, PTL DEF Spec, Admins!Invite!Spec

\* The invitation, its link on screen and the calls keep their types.
THEOREM InviteTypeCorrect == Spec => [](area = "invite" => Invite!TypeOK)
<1>1. Admins!Invite!Spec => []Admins!Invite!TypeOK
  BY SameInvite, Admins!InviteTyped
<1>2. (area = "invite" => Invite!TypeOK) <=> (area = "invite" => Admins!Invite!TypeOK)
  BY SameInvite
<1>3. QED
  BY <1>1, <1>2, InviteFollowed, PTL

\* The link a workspace shows works and leads to that workspace, and a workspace has one
\* of them, each but for the cause the property names, whatever the number of calls,
\* days and failures.
THEOREM InvitationsHold == Spec => []InvitationHolds
<1>1. Admins!Invite!Spec => []Admins!Invite!InvitationHolds
  BY SameInvite, Admins!InvitationsHold
<1>2. InvitationHolds <=> (area = "invite" => Admins!Invite!InvitationHolds)
  BY SameInvite DEF InvitationHolds
<1>3. QED
  BY <1>1, <1>2, InviteFollowed, PTL

---------------------------------------------------------------------------
(* TreePage *)

\* What the console and the proofs call Tree are the same.
LEMMA SameTree ==
  /\ Tree!Init <=> Admins!Tree!Init
  /\ Tree!Next <=> Admins!Tree!Next
  /\ Tree!TypeOK <=> Admins!Tree!TypeOK
  /\ Tree!SelectionAlive <=> Admins!Tree!SelectionAlive
  /\ Tree!ToldStep <=> Admins!Tree!ToldStep
  /\ Admins!Tree!ConstantsOK
<1>1. Tree!Init <=> Admins!Tree!Init
  BY DEF Tree!Init, Admins!Tree!Init, Tree!Pages, Admins!Tree!Pages, Tree!RolesPage,
         Admins!Tree!RolesPage, Tree!MenusPage, Admins!Tree!MenusPage, Tree!PermsPage,
         Admins!Tree!PermsPage, Tree!DictsPage, Admins!Tree!DictsPage, Tree!Forests,
         Admins!Tree!Forests, Tree!Born, Admins!Tree!Born, Tree!Answered,
         Admins!Tree!Answered, Tree!TreeRows, Admins!Tree!TreeRows, Tree!BranchRows,
         Admins!Tree!BranchRows, Tree!ChildrenOf, Admins!Tree!ChildrenOf, Tree!NoAnswer,
         Admins!Tree!NoAnswer, Tree!NoRows, Admins!Tree!NoRows, Tree!NoConfirm,
         Admins!Tree!NoConfirm, Tree!NoRemoval, Admins!Tree!NoRemoval, Tree!NoAdding,
         Admins!Tree!NoAdding
<1>2. Tree!Next <=> Admins!Tree!Next
  BY DEF Tree!Next, Admins!Tree!Next, Tree!ServeTree, Admins!Tree!ServeTree,
         Tree!Answered, Admins!Tree!Answered, Tree!TreeRows, Admins!Tree!TreeRows,
         Tree!BranchRows, Admins!Tree!BranchRows, Tree!ChildrenOf, Admins!Tree!ChildrenOf,
         Tree!ReceiveTree, Admins!Tree!ReceiveTree, Tree!NoAnswer, Admins!Tree!NoAnswer,
         Tree!NoRows, Admins!Tree!NoRows, Tree!FailTree, Admins!Tree!FailTree, Tree!Input,
         Admins!Tree!Input, Tree!SetFilter, Admins!Tree!SetFilter, Tree!Asked,
         Admins!Tree!Asked, Tree!Select, Admins!Tree!Select, Tree!Idle, Admins!Tree!Idle,
         Tree!Removing, Admins!Tree!Removing, Tree!AddChild, Admins!Tree!AddChild,
         Tree!ServeChild, Admins!Tree!ServeChild, Tree!Create, Admins!Tree!Create,
         Tree!Ask, Admins!Tree!Ask, Tree!IsBranch, Admins!Tree!IsBranch,
         Tree!OtherRemoves, Admins!Tree!OtherRemoves, Tree!Branch, Admins!Tree!Branch,
         Tree!Closed, Admins!Tree!Closed, Tree!OtherAdds, Admins!Tree!OtherAdds,
         Tree!AnswerChild, Admins!Tree!AnswerChild, Tree!AskAgain, Admins!Tree!AskAgain,
         Tree!SettleChild, Admins!Tree!SettleChild, Tree!NoAdding, Admins!Tree!NoAdding,
         Tree!FailChild, Admins!Tree!FailChild, Tree!Cancel, Admins!Tree!Cancel,
         Tree!NoConfirm, Admins!Tree!NoConfirm, Tree!Confirm, Admins!Tree!Confirm,
         Tree!NoRemoval, Admins!Tree!NoRemoval, Tree!Cascades, Admins!Tree!Cascades,
         Tree!ServeRemoval, Admins!Tree!ServeRemoval, Tree!Refused, Admins!Tree!Refused,
         Tree!Taken, Admins!Tree!Taken, Tree!AnswerRemoval, Admins!Tree!AnswerRemoval,
         Tree!Detail, Admins!Tree!Detail, Tree!SettleRemoval, Admins!Tree!SettleRemoval,
         Tree!Reselected, Admins!Tree!Reselected, Tree!FailRemoval,
         Admins!Tree!FailRemoval
<1>3. Tree!TypeOK <=> Admins!Tree!TypeOK
  BY DEF Tree!TypeOK, Admins!Tree!TypeOK, Tree!Pages, Admins!Tree!Pages, Tree!RolesPage,
         Admins!Tree!RolesPage, Tree!MenusPage, Admins!Tree!MenusPage, Tree!PermsPage,
         Admins!Tree!PermsPage, Tree!DictsPage, Admins!Tree!DictsPage, Tree!RowSets,
         Admins!Tree!RowSets, Tree!NodeOrNone, Admins!Tree!NodeOrNone, Tree!Sayings,
         Admins!Tree!Sayings
<1>4. Tree!SelectionAlive <=> Admins!Tree!SelectionAlive
  BY DEF Tree!SelectionAlive, Admins!Tree!SelectionAlive, Tree!Idle, Admins!Tree!Idle,
         Tree!Removing, Admins!Tree!Removing
<1>5. Tree!ToldStep <=> Admins!Tree!ToldStep
  BY DEF Tree!ToldStep, Admins!Tree!ToldStep, Tree!TakesBranch, Admins!Tree!TakesBranch,
         Tree!AskedAbout, Admins!Tree!AskedAbout
<1>6. Admins!Tree!ConstantsOK
  BY AreaAssumption
     DEF Tree!ConstantsOK, Admins!Tree!ConstantsOK
<1>7. QED
  BY <1>1, <1>2, <1>3, <1>4, <1>5, <1>6

\* A behaviour of the area is one of TreePage, and no other behaviour enters it.
LEMMA TreeFollowed ==
  Spec => /\ area = "tree" => [](area = "tree") /\ Admins!Tree!Spec
          /\ ~(area = "tree") => []~(area = "tree")
<1>1. Init /\ area = "tree" => Admins!Tree!Init
  BY SameTree DEF Init
<1>2. area = "tree" /\ [Next]_vars =>
        (area = "tree")' /\ [Admins!Tree!Next]_(Admins!Tree!treeVars)
  BY SameTree
     DEF Next, vars, past2, past6, past8, past9, past10, past11, past12, past13, past14,
         past15, past20, Admins!Tree!treeVars
<1>3. ~(area = "tree") /\ [Next]_vars => ~(area = "tree")'
  BY DEF Next, vars
<1>4. QED
  BY <1>1, <1>2, <1>3, PTL DEF Spec, Admins!Tree!Spec

\* The trees, the confirmation and the removals keep their types.
THEOREM TreeTypeCorrect == Spec => [](area = "tree" => Tree!TypeOK)
<1>1. Admins!Tree!Spec => []Admins!Tree!TypeOK
  BY SameTree, Admins!TreeTyped
<1>2. (area = "tree" => Tree!TypeOK) <=> (area = "tree" => Admins!Tree!TypeOK)
  BY SameTree
<1>3. QED
  BY <1>1, <1>2, TreeFollowed, PTL

\* Once everything is answered the row selected in a tree exists, but for the causes the
\* property names, whatever the tree, its searches and the removals (the pages of menus,
\* permissions and dictionaries).
THEOREM SelectedRowsExist == Spec => []SelectionAlive
<1>1. Admins!Tree!Spec => []Admins!Tree!SelectionAlive
  BY SameTree, Admins!SelectionExists
<1>2. SelectionAlive <=> (area = "tree" => Admins!Tree!SelectionAlive)
  BY SameTree DEF SelectionAlive
<1>3. QED
  BY <1>1, <1>2, TreeFollowed, PTL

\* A branch of a tree is only removed where the dialog asked about one, or the tree was
\* read again before it was confirmed.
THEOREM BranchesAreAskedAbout == Spec => ToldBeforeCascade
<1>1. Admins!Tree!Spec => [][Admins!Tree!ToldStep]_(Admins!Tree!treeVars)
  BY SameTree, Admins!BranchesAreAskedAbout
<1>2. area = "tree" /\ [Next]_vars /\ [Admins!Tree!ToldStep]_(Admins!Tree!treeVars) =>
        [area = "tree" => Tree!ToldStep]_vars
  BY SameTree
     DEF Next, vars, past2, past6, past8, past9, past10, past11, past12, past13, past14,
         past15, past20, Admins!Tree!treeVars
<1>3. ~(area = "tree") => [area = "tree" => Tree!ToldStep]_vars
  OBVIOUS
<1>4. QED
  BY <1>1, <1>2, <1>3, TreeFollowed, PTL DEF Spec, ToldBeforeCascade

---------------------------------------------------------------------------
(* AssignDialog *)

\* What the console and the proofs call Dialog are the same.
LEMMA SameDialog ==
  /\ Dialog!Init <=> Admins!Dialog!Init
  /\ Dialog!Next <=> Admins!Dialog!Next
  /\ Dialog!TypeOK <=> Admins!Dialog!TypeOK
  /\ Dialog!SavesAreMeant <=> Admins!Dialog!SavesAreMeant
  /\ Admins!Dialog!ConstantsOK
<1>1. Dialog!Init <=> Admins!Dialog!Init
  BY DEF Dialog!Init, Admins!Dialog!Init, Dialog!Forests, Admins!Dialog!Forests,
         Dialog!NoEntry, Admins!Dialog!NoEntry, Dialog!NoFetch, Admins!Dialog!NoFetch,
         Dialog!Closed, Admins!Dialog!Closed, Dialog!NoSave, Admins!Dialog!NoSave
<1>2. Dialog!Next <=> Admins!Dialog!Next
  BY DEF Dialog!Next, Admins!Dialog!Next, Dialog!Open, Admins!Dialog!Open, Dialog!Spend,
         Admins!Dialog!Spend, Dialog!Joined, Admins!Dialog!Joined, Dialog!Shown,
         Admins!Dialog!Shown, Dialog!Initial, Admins!Dialog!Initial, Dialog!Subtree,
         Admins!Dialog!Subtree, Dialog!Ancestry, Admins!Dialog!Ancestry, Dialog!Rising,
         Admins!Dialog!Rising, Dialog!Leaf, Admins!Dialog!Leaf, Dialog!Children,
         Admins!Dialog!Children, Dialog!rows, Admins!Dialog!rows, Dialog!ServeFetch,
         Admins!Dialog!ServeFetch, Dialog!ReceiveFetch, Admins!Dialog!ReceiveFetch,
         Dialog!NoFetch, Admins!Dialog!NoFetch, Dialog!Remounted, Admins!Dialog!Remounted,
         Dialog!FailFetch, Admins!Dialog!FailFetch, Dialog!OtherAssigns,
         Admins!Dialog!OtherAssigns, Dialog!Toggled, Admins!Dialog!Toggled,
         Dialog!Deselected, Admins!Dialog!Deselected, Dialog!Climbed,
         Admins!Dialog!Climbed, Dialog!Toggle, Admins!Dialog!Toggle, Dialog!Loading,
         Admins!Dialog!Loading, Dialog!HasData, Admins!Dialog!HasData, Dialog!ReceiveTree,
         Admins!Dialog!ReceiveTree, Dialog!FailTree, Admins!Dialog!FailTree, Dialog!Close,
         Admins!Dialog!Close, Dialog!Closed, Admins!Dialog!Closed, Dialog!Save,
         Admins!Dialog!Save, Dialog!ServeSave, Admins!Dialog!ServeSave, Dialog!NoSave,
         Admins!Dialog!NoSave, Dialog!SaveSucceeds, Admins!Dialog!SaveSucceeds,
         Dialog!Refetched, Admins!Dialog!Refetched, Dialog!SaveSettles,
         Admins!Dialog!SaveSettles, Dialog!SaveFails, Admins!Dialog!SaveFails
<1>3. Dialog!TypeOK <=> Admins!Dialog!TypeOK
  BY DEF Dialog!TypeOK, Admins!Dialog!TypeOK, Dialog!OwnerOrNone, Admins!Dialog!OwnerOrNone
<1>4. Dialog!SavesAreMeant <=> Admins!Dialog!SavesAreMeant
  BY DEF Dialog!SavesAreMeant, Admins!Dialog!SavesAreMeant, Dialog!DraftReconciled,
         Admins!Dialog!DraftReconciled, Dialog!Leaf, Admins!Dialog!Leaf, Dialog!Children,
         Admins!Dialog!Children, Dialog!UntouchedLeavesKept,
         Admins!Dialog!UntouchedLeavesKept, Dialog!SettledEntryCurrent,
         Admins!Dialog!SettledEntryCurrent, Dialog!HasData, Admins!Dialog!HasData,
         Dialog!BlindSaveNeedsFailure, Admins!Dialog!BlindSaveNeedsFailure
<1>5. Admins!Dialog!ConstantsOK
  BY AreaAssumption
     DEF Dialog!ConstantsOK, Admins!Dialog!ConstantsOK
<1>6. QED
  BY <1>1, <1>2, <1>3, <1>4, <1>5

\* A behaviour of the area is one of AssignDialog, and no other behaviour enters it.
LEMMA DialogFollowed ==
  Spec => /\ area = "dialog" => [](area = "dialog") /\ Admins!Dialog!Spec
          /\ ~(area = "dialog") => []~(area = "dialog")
<1>1. Init /\ area = "dialog" => Admins!Dialog!Init
  BY SameDialog DEF Init
<1>2. area = "dialog" /\ [Next]_vars =>
        (area = "dialog")' /\ [Admins!Dialog!Next]_(Admins!Dialog!vars)
  BY SameDialog
     DEF Next, vars, past2, past6, past8, past9, past10, past11, past12, past13, past14,
         past15, past20, Admins!Dialog!vars, Admins!Dialog!rows
<1>3. ~(area = "dialog") /\ [Next]_vars => ~(area = "dialog")'
  BY DEF Next, vars
<1>4. QED
  BY <1>1, <1>2, <1>3, PTL DEF Spec, Admins!Dialog!Spec

\* The assignments, their cached copies, the draft and the save keep their types.
THEOREM DialogTypeCorrect == Spec => [](area = "dialog" => Dialog!TypeOK)
<1>1. Admins!Dialog!Spec => []Admins!Dialog!TypeOK
  BY SameDialog, Admins!DialogTyped
<1>2. (area = "dialog" => Dialog!TypeOK) <=> (area = "dialog" => Admins!Dialog!TypeOK)
  BY SameDialog
<1>3. QED
  BY <1>1, <1>2, DialogFollowed, PTL

\* A save of the assignment dialogs sends what the administrator chose for this owner,
\* in any forest of menus or permissions: whole branches, untouched leaves as they were,
\* on top of what the server has, each but for the cause the property names.
THEOREM DialogsSaveWhatIsMeant == Spec => []SavesAreMeant
<1>1. Admins!Dialog!Spec => []Admins!Dialog!SavesAreMeant
  BY SameDialog, Admins!SavesAreChosen
<1>2. SavesAreMeant <=> (area = "dialog" => Admins!Dialog!SavesAreMeant)
  BY SameDialog DEF SavesAreMeant
<1>3. QED
  BY <1>1, <1>2, DialogFollowed, PTL

---------------------------------------------------------------------------
(* Navigation *)

\* What the console and the proofs call Bars are the same.
LEMMA SameBars ==
  /\ Bars!Init <=> Views!Bars!Init
  /\ Bars!Next <=> Views!Bars!Next
  /\ Bars!TypeOK <=> Views!Bars!TypeOK
  /\ Bars!BarShowsGrants <=> Views!Bars!BarShowsGrants
  /\ Views!Bars!ConstantsOK
<1>1. Bars!Init <=> Views!Bars!Init
  BY DEF Bars!Init, Views!Bars!Init, Bars!Sides, Views!Bars!Sides, Bars!Menus,
         Views!Bars!Menus, Bars!Root, Views!Bars!Root, Bars!Shapes, Views!Bars!Shapes,
         Bars!Roles, Views!Bars!Roles, Bars!NoLoad, Views!Bars!NoLoad, Bars!NoMenus,
         Views!Bars!NoMenus
<1>2. Bars!Next <=> Views!Bars!Next
  BY DEF Bars!Next, Views!Bars!Next, Bars!UpdateMenu, Views!Bars!UpdateMenu, Bars!Input,
         Views!Bars!Input, Bars!Menus, Views!Bars!Menus, Bars!Root, Views!Bars!Root,
         Bars!Changed, Views!Bars!Changed, Bars!Roles, Views!Bars!Roles, Bars!Filling,
         Views!Bars!Filling, Bars!MenuReaders, Views!Bars!MenuReaders, Bars!AssignMenus,
         Views!Bars!AssignMenus, Bars!ClearTrees, Views!Bars!ClearTrees, Bars!ClearFails,
         Views!Bars!ClearFails, Bars!Fault, Views!Bars!Fault, Bars!AskMenus,
         Views!Bars!AskMenus, Bars!NoMenus, Views!Bars!NoMenus, Bars!ReadTree,
         Views!Bars!ReadTree, Bars!Continue, Views!Bars!Continue, Bars!Joined,
         Views!Bars!Joined, Bars!ReadTreeFails, Views!Bars!ReadTreeFails, Bars!ReadRows,
         Views!Bars!ReadRows, Bars!ReadGrants, Views!Bars!ReadGrants, Bars!TreeOf,
         Views!Bars!TreeOf, Bars!Included, Views!Bars!Included, Bars!Above,
         Views!Bars!Above, Bars!Enabled, Views!Bars!Enabled, Bars!FillTree,
         Views!Bars!FillTree, Bars!FillFails, Views!Bars!FillFails, Bars!ReceiveMenus,
         Views!Bars!ReceiveMenus, Bars!FromFlat, Views!Bars!FromFlat, Bars!Rooted,
         Views!Bars!Rooted, Bars!NoLoad, Views!Bars!NoLoad, Bars!MenusFail,
         Views!Bars!MenusFail, Bars!NavAfterFailure, Views!Bars!NavAfterFailure,
         Bars!ReceiveHeader, Views!Bars!ReceiveHeader
<1>3. Bars!TypeOK <=> Views!Bars!TypeOK
  BY DEF Bars!TypeOK, Views!Bars!TypeOK, Bars!Sides, Views!Bars!Sides, Bars!Menus,
         Views!Bars!Menus, Bars!Root, Views!Bars!Root, Bars!Roles, Views!Bars!Roles
<1>4. Bars!BarShowsGrants <=> Views!Bars!BarShowsGrants
  BY DEF Bars!BarShowsGrants, Views!Bars!BarShowsGrants, Bars!CachedTreeCurrent,
         Views!Bars!CachedTreeCurrent, Bars!Roles, Views!Bars!Roles, Bars!TreeOf,
         Views!Bars!TreeOf, Bars!Included, Views!Bars!Included, Bars!Above,
         Views!Bars!Above, Bars!Menus, Views!Bars!Menus, Bars!Enabled, Views!Bars!Enabled,
         Bars!NothingOrphaned, Views!Bars!NothingOrphaned, Bars!Rooted, Views!Bars!Rooted,
         Bars!Root, Views!Bars!Root, Bars!NavShowsGrants, Views!Bars!NavShowsGrants,
         Bars!ConsoleLinked, Views!Bars!ConsoleLinked, Bars!AdminNavBar,
         Views!Bars!AdminNavBar, Bars!Below, Views!Bars!Below, Bars!Merged,
         Views!Bars!Merged, Bars!BuiltIn, Views!Bars!BuiltIn, Bars!Storage,
         Views!Bars!Storage, Bars!Stats, Views!Bars!Stats, Bars!Depth, Views!Bars!Depth,
         Bars!Cardinality, Views!Bars!Cardinality, Bars!PathTo, Views!Bars!PathTo,
         Bars!PagesLinked, Views!Bars!PagesLinked, Bars!NavMain, Views!Bars!NavMain,
         Bars!ItemsBelow, Views!Bars!ItemsBelow, Bars!collectNavigableItems,
         Views!Bars!collectNavigableItems, Bars!Navigable, Views!Bars!Navigable,
         Bars!Kind, Views!Bars!Kind, Bars!OpenPages, Views!Bars!OpenPages, Bars!PagesOver,
         Views!Bars!PagesOver
<1>5. Views!Bars!ConstantsOK
  BY AreaAssumption
     DEF Bars!ConstantsOK, Views!Bars!ConstantsOK, Bars!Menus, Views!Bars!Menus
<1>6. QED
  BY <1>1, <1>2, <1>3, <1>4, <1>5

\* A behaviour of the area is one of Navigation, and no other behaviour enters it.
LEMMA BarsFollowed ==
  Spec => /\ area = "bars" => [](area = "bars") /\ Views!Bars!Spec
          /\ ~(area = "bars") => []~(area = "bars")
<1>1. Init /\ area = "bars" => Views!Bars!Init
  BY SameBars DEF Init
<1>2. area = "bars" /\ [Next]_vars =>
        (area = "bars")' /\ [Views!Bars!Next]_(Views!Bars!navVars)
  BY SameBars
     DEF Next, vars, past2, past6, past8, past9, past10, past11, past12, past13, past14,
         past15, past20, Views!Bars!navVars
<1>3. ~(area = "bars") /\ [Next]_vars => ~(area = "bars")'
  BY DEF Next, vars
<1>4. QED
  BY <1>1, <1>2, <1>3, PTL DEF Spec, Views!Bars!Spec

\* The side, the menus, the cached trees, the request and what the browser has of them
\* keep their types.
THEOREM BarsTypeCorrect == Spec => [](area = "bars" => Bars!TypeOK)
<1>1. Views!Bars!Spec => []Views!Bars!TypeOK
  BY SameBars, Views!BarsTyped
<1>2. (area = "bars" => Bars!TypeOK) <=> (area = "bars" => Views!Bars!TypeOK)
  BY SameBars
<1>3. QED
  BY <1>1, <1>2, BarsFollowed, PTL

\* The bars link what the roles of the user were granted: a cached tree is current, no
\* branch of the joined answer is broken, a read after the last change shows every grant
\* and no other, the workspace's bar links its pages by kind and visibility and the
\* console's two levels of it by their place alone, each but for the cause the property
\* names, whatever the changes, reads and failures.
THEOREM BarsShowGrantsAlways == Spec => []BarShowsGrants
<1>1. Views!Bars!Spec => []Views!Bars!BarShowsGrants
  BY SameBars, Views!BarsShowGrants
<1>2. BarShowsGrants <=> (area = "bars" => Views!Bars!BarShowsGrants)
  BY SameBars DEF BarShowsGrants
<1>3. QED
  BY <1>1, <1>2, BarsFollowed, PTL

---------------------------------------------------------------------------
(* Every area *)

\* Whatever the area of a behaviour, its variables keep their types.
THEOREM ConsoleTypeCorrect == Spec => []TypeOK
<1>1. Spec => [](area \in Areas)
  <2>1. Init => area \in Areas
    BY DEF Init
  <2>2. area \in Areas /\ [Next]_vars => (area \in Areas)'
    BY DEF Next, vars
  <2>3. QED
    BY <2>1, <2>2, PTL DEF Spec
<1>2. Spec => [](area = "sheet" => TypeOK)
  <2>1. area = "sheet" => (Sheet!TypeOK <=> TypeOK)
    BY DEF TypeOK
  <2>2. QED
    BY <2>1, SheetTypeCorrect, PTL
<1>3. Spec => [](area = "entity" => TypeOK)
  <2>1. area = "entity" => (Entity!TypeOK <=> TypeOK)
    BY DEF TypeOK
  <2>2. QED
    BY <2>1, EntityTypeCorrect, PTL
<1>4. Spec => [](area = "rule" => TypeOK)
  <2>1. area = "rule" => (Rule!TypeOK <=> TypeOK)
    BY DEF TypeOK
  <2>2. QED
    BY <2>1, RuleTypeCorrect, PTL
<1>5. Spec => [](area = "messages" => TypeOK)
  <2>1. area = "messages" => (Messages!TypeOK <=> TypeOK)
    BY DEF TypeOK
  <2>2. QED
    BY <2>1, MessagesTypeCorrect, PTL
<1>6. Spec => [](area = "profile" => TypeOK)
  <2>1. area = "profile" => (Profile!TypeOK <=> TypeOK)
    BY DEF TypeOK
  <2>2. QED
    BY <2>1, ProfileTypeCorrect, PTL
<1>7. Spec => [](area = "signin" => TypeOK)
  <2>1. area = "signin" => (Signin!TypeOK <=> TypeOK)
    BY DEF TypeOK
  <2>2. QED
    BY <2>1, SigninTypeCorrect, PTL
<1>8. Spec => [](area = "code" => TypeOK)
  <2>1. area = "code" => (Code!TypeOK <=> TypeOK)
    BY DEF TypeOK
  <2>2. QED
    BY <2>1, CodeTypeCorrect, PTL
<1>9. Spec => [](area = "list" => TypeOK)
  <2>1. area = "list" => (List!TypeOK <=> TypeOK)
    BY DEF TypeOK
  <2>2. QED
    BY <2>1, ListTypeCorrect, PTL
<1>10. Spec => [](area = "objects" => TypeOK)
  <2>1. area = "objects" => (Objects!TypeOK <=> TypeOK)
    BY DEF TypeOK
  <2>2. QED
    BY <2>1, ObjectsTypeCorrect, PTL
<1>11. Spec => [](area = "tenants" => TypeOK)
  <2>1. area = "tenants" => (Directory!TypeOK <=> TypeOK)
    BY DEF TypeOK
  <2>2. QED
    BY <2>1, DirectoryTypeCorrect, PTL
<1>12. Spec => [](area = "codes" => TypeOK)
  <2>1. area = "codes" => (Codes!TypeOK <=> TypeOK)
    BY DEF TypeOK
  <2>2. QED
    BY <2>1, CodesTypeCorrect, PTL
<1>13. Spec => [](area = "notices" => TypeOK)
  <2>1. area = "notices" => (Notices!TypeOK <=> TypeOK)
    BY DEF TypeOK
  <2>2. QED
    BY <2>1, NoticesTypeCorrect, PTL
<1>14. Spec => [](area = "rights" => TypeOK)
  <2>1. area = "rights" => (Rights!TypeOK <=> TypeOK)
    BY DEF TypeOK
  <2>2. QED
    BY <2>1, RightsTypeCorrect, PTL
<1>15. Spec => [](area = "members" => TypeOK)
  <2>1. area = "members" => (Members!TypeOK <=> TypeOK)
    BY DEF TypeOK
  <2>2. QED
    BY <2>1, MembersTypeCorrect, PTL
<1>16. Spec => [](area = "invite" => TypeOK)
  <2>1. area = "invite" => (Invite!TypeOK <=> TypeOK)
    BY DEF TypeOK
  <2>2. QED
    BY <2>1, InviteTypeCorrect, PTL
<1>17. Spec => [](area = "tree" => TypeOK)
  <2>1. area = "tree" => (Tree!TypeOK <=> TypeOK)
    BY DEF TypeOK
  <2>2. QED
    BY <2>1, TreeTypeCorrect, PTL
<1>18. Spec => [](area = "dialog" => TypeOK)
  <2>1. area = "dialog" => (Dialog!TypeOK <=> TypeOK)
    BY DEF TypeOK
  <2>2. QED
    BY <2>1, DialogTypeCorrect, PTL
<1>19. Spec => [](area = "bars" => TypeOK)
  <2>1. area = "bars" => (Bars!TypeOK <=> TypeOK)
    BY DEF TypeOK
  <2>2. QED
    BY <2>1, BarsTypeCorrect, PTL
<1>20. area \in Areas <=>
          \/ area = "sheet"
          \/ area = "entity"
          \/ area = "rule"
          \/ area = "messages"
          \/ area = "profile"
          \/ area = "signin"
          \/ area = "code"
          \/ area = "list"
          \/ area = "objects"
          \/ area = "tenants"
          \/ area = "codes"
          \/ area = "notices"
          \/ area = "rights"
          \/ area = "members"
          \/ area = "invite"
          \/ area = "tree"
          \/ area = "dialog"
          \/ area = "bars"
  BY DEF Areas
<1>21. QED
  BY <1>1, <1>2, <1>3, <1>4, <1>5, <1>6, <1>7, <1>8, <1>9, <1>10, <1>11, <1>12, <1>13,
     <1>14, <1>15, <1>16, <1>17, <1>18, <1>19, <1>20, PTL

=============================================================================
