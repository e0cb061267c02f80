------------------------------ MODULE ProfileForm ------------------------------
(***************************************************************************)
(* The account settings dialog of the header, and what it is filled with:  *)
(* the header context, which the server keeps in Redis, and the profile,   *)
(* which it reads from Postgres.  Both are query results of the browser.   *)
(***************************************************************************)
EXTENDS Integers

CONSTANTS
  Fields,      \* fields of the form
  Avatar,      \* the field that is uploaded, not typed
  Values,      \* what a field can hold
  Calls,       \* saves under way at the same time
  None,        \* nothing: an empty field, no answer
  MaxInputs,   \* bound on what users, other administrators and the clock do
  MaxErrors    \* bound on failed calls

ConstantsOK ==
  /\ Avatar \in Fields
  /\ None \notin Values
  /\ MaxInputs \in Nat
  /\ MaxErrors \in Nat

VARIABLES
  account,   \* the fields in Postgres
  author,    \* history: who wrote each field last
  copy,      \* the header context in Redis
  fills,     \* contexts read for abandoned requests, still to be copied to Redis
  header,    \* the header query: its data and its fetch
  profile,   \* the profile query: its data and its fetch
  settings,  \* the dialog
  updates,   \* the saves
  outrun,    \* history: Redis may have got a context older than a save
  spending   \* spent bounds

profileVars ==
  <<account, author, copy, fills, header, profile, settings, updates, outrun, spending>>

Texts == Values \cup {None}
Accounts == [Fields -> Texts]

Idle == [st |-> "idle", data |-> None]
Sent == [st |-> "sent", data |-> None]
Closed == [open |-> FALSE, base |-> None, draft |-> None, uploading |-> FALSE, excused |-> FALSE]
NoUpdate == [st |-> "none", base |-> None, draft |-> None, mine |-> FALSE, excused |-> FALSE,
             waits |-> {}]

Init ==
  /\ account \in Accounts
  /\ author = [f \in Fields |-> None]
  /\ copy = account
  /\ fills = {}
  /\ header = [data |-> account, fetch |-> Idle]
  /\ profile = [data |-> None, fetch |-> Idle, behind |-> FALSE]
  /\ settings = Closed
  /\ updates = [c \in Calls |-> NoUpdate]
  /\ outrun = FALSE
  /\ spending = [inputs |-> 0, errors |-> 0]

Input == spending.inputs < MaxInputs /\ spending' = [spending EXCEPT !.inputs = @ + 1]

\* A failure counts against both bounds.
Error ==
  /\ spending.inputs < MaxInputs /\ spending.errors < MaxErrors
  /\ spending' = [inputs |-> spending.inputs + 1, errors |-> spending.errors + 1]

Fetching(query) == query.fetch.st # "idle"
UnderWay(c) == updates[c].st # "none"

---------------------------------------------------------------------------
(* The dialog *)

\* The profile, or what the header knows of it.
ShownProfile(p, h) == IF p.data # None THEN p.data ELSE h.data

FormOf(data, excused) ==
  [open |-> TRUE, base |-> data, draft |-> data, uploading |-> FALSE, excused |-> excused]

\* A form over data that an own save may have overtaken.
Excused(p) == (p.data # None /\ p.behind) \/ \E c \in Calls : UnderWay(c)

\* Queries whose fetch is over.
Ended(p, h) ==
  {q \in {"header", "profile"} : IF q = "header" THEN ~Fetching(h) ELSE ~Fetching(p)}

\* The form is keyed by the profile it shows: another one is another form, and
\* the edits, the upload and the pending state of this one are gone.
Shows(p, h) ==
  LET data == ShownProfile(p, h)
      kept == ~settings.open \/ data = settings.base
  IN
  /\ settings' = IF kept THEN settings ELSE FormOf(data, Excused(p))
  /\ updates' = [c \in Calls |->
       [updates[c] EXCEPT !.mine = @ /\ kept, !.waits = @ \ Ended(p, h)]]

\* Opening reads the profile unless there is one (refetchOnMount is off).
OpenSettings ==
  /\ Input
  /\ ~settings.open
  /\ settings' = FormOf(ShownProfile(profile, header), Excused(profile))
  /\ profile' = IF profile.data = None /\ ~Fetching(profile)
                THEN [profile EXCEPT !.fetch = Sent] ELSE profile
  /\ UNCHANGED <<account, author, copy, fills, header, updates, outrun>>

Disowned == [c \in Calls |-> [updates[c] EXCEPT !.mine = FALSE]]

\* Escape, the backdrop and the cross also close while a save is pending.
CloseSettings ==
  /\ settings.open
  /\ settings' = Closed
  /\ updates' = Disowned
  /\ UNCHANGED <<account, author, copy, fills, header, profile, outrun, spending>>

\* isBusy: of the saves, only one of this form counts.
isBusy == settings.uploading \/ \E c \in Calls : UnderWay(c) /\ updates[c].mine
isDirty == settings.draft # settings.base

Type(f, v) ==
  /\ Input
  /\ settings.open /\ ~isBusy
  /\ f # Avatar /\ v # settings.draft[f]
  /\ settings' = [settings EXCEPT !.draft[f] = v]
  /\ UNCHANGED <<account, author, copy, fills, header, profile, updates, outrun>>

handleCropConfirm ==
  /\ Input
  /\ settings.open /\ ~isBusy
  /\ settings' = [settings EXCEPT !.uploading = TRUE]
  /\ UNCHANGED <<account, author, copy, fills, header, profile, updates, outrun>>

\* The upload sets the field, or fails and leaves it.
UploadEnds(v) ==
  /\ settings.uploading
  /\ v \in Values \cup {settings.draft[Avatar]}
  /\ settings' = [settings EXCEPT !.uploading = FALSE, !.draft[Avatar] = v]
  /\ UNCHANGED <<account, author, copy, fills, header, profile, updates, outrun, spending>>

\* Every field is sent, edited or not.  Another form's save may be overtaken.
Save(c) ==
  /\ settings.open /\ isDirty /\ ~isBusy
  /\ ~UnderWay(c)
  /\ updates' = [d \in Calls |->
       IF d = c THEN [st |-> "sent", base |-> settings.base, draft |-> settings.draft,
                      mine |-> TRUE, excused |-> settings.excused, waits |-> {}]
                ELSE [updates[d] EXCEPT !.excused = @ \/ UnderWay(d)]]
  /\ UNCHANGED <<account, author, copy, fills, header, profile, settings, outrun, spending>>

---------------------------------------------------------------------------
(* The server *)

\* A missing or null field is left as it is: a field is never cleared.
Updated(draft) == [f \in Fields |-> IF draft[f] # None THEN draft[f] ELSE account[f]]

Written(fields, who) ==
  /\ account' = fields
  /\ author' = [f \in Fields |-> IF fields[f] # account[f] THEN who ELSE author[f]]

\* update_profile commits, and then deletes the copy in Redis; with nothing to
\* write it does neither.
Commits(c) ==
  /\ updates[c].st = "sent"
  /\ Written(Updated(updates[c].draft), "own")
  /\ outrun' = (outrun \/ fills # {} \/ header.fetch.st = "read")
  /\ updates' = [updates EXCEPT ![c].st =
       IF \E f \in Fields : updates[c].draft[f] # None THEN "committed" ELSE "served"]
  /\ UNCHANGED <<copy, fills, header, profile, settings, spending>>

\* Mutant of Invalidates: the copy stays.
InvalidatesNothing(c) ==
  /\ updates[c].st = "committed"
  /\ updates' = [updates EXCEPT ![c].st = "served"]
  /\ UNCHANGED <<account, author, copy, fills, header, profile, settings, outrun, spending>>

Invalidates(c) ==
  /\ updates[c].st = "committed"
  /\ copy' = None
  /\ updates' = [updates EXCEPT ![c].st = "served"]
  /\ UNCHANGED <<account, author, fills, header, profile, settings, outrun, spending>>

\* Users may be edited by an administrator, which deletes no copy.
OtherEdits(f, v) ==
  /\ Input
  /\ v # account[f]
  /\ Written([account EXCEPT ![f] = v], "other")
  /\ UNCHANGED <<copy, fills, header, profile, settings, updates, outrun>>

\* The copy expires after two minutes.
Expires ==
  /\ Input
  /\ copy # None
  /\ copy' = None
  /\ UNCHANGED <<account, author, fills, header, profile, settings, updates, outrun>>

\* get_header_context: the copy if there is one ...
HeaderHit ==
  /\ header.fetch.st = "sent"
  /\ copy # None
  /\ header' = [header EXCEPT !.fetch = [st |-> "served", data |-> copy]]
  /\ UNCHANGED <<account, author, copy, fills, profile, settings, updates, outrun, spending>>

\* ... or what Postgres has,
HeaderMiss ==
  /\ header.fetch.st = "sent"
  /\ copy = None
  /\ header' = [header EXCEPT !.fetch = [st |-> "read", data |-> account]]
  /\ UNCHANGED <<account, author, copy, fills, profile, settings, updates, outrun, spending>>

\* which is copied to Redis before it is returned.
HeaderFill ==
  /\ header.fetch.st = "read"
  /\ copy' = header.fetch.data
  /\ header' = [header EXCEPT !.fetch.st = "served"]
  /\ UNCHANGED <<account, author, fills, profile, settings, updates, outrun, spending>>

AbandonedFill(data) ==
  /\ data \in fills
  /\ fills' = fills \ {data}
  /\ copy' = data
  /\ UNCHANGED <<account, author, header, profile, settings, updates, outrun, spending>>

\* get_profile reads Postgres.
ProfileServed ==
  /\ profile.fetch.st = "sent"
  /\ profile' = [profile EXCEPT !.fetch = [st |-> "served", data |-> account]]
  /\ UNCHANGED <<account, author, copy, fills, header, settings, updates, outrun, spending>>

---------------------------------------------------------------------------
(* The queries *)

\* The header context is read again when the window gets the focus.
HeaderRefetch ==
  /\ Input
  /\ ~Fetching(header)
  /\ header' = [header EXCEPT !.fetch = Sent]
  /\ UNCHANGED <<account, author, copy, fills, profile, settings, updates, outrun>>

HeaderReceived ==
  LET h == [data |-> header.fetch.data, fetch |-> Idle] IN
  /\ header.fetch.st = "served"
  /\ header' = h
  /\ Shows(profile, h)
  /\ UNCHANGED <<account, author, copy, fills, profile, outrun, spending>>

ProfileReceived ==
  LET p == [data |-> profile.fetch.data, fetch |-> Idle, behind |-> profile.behind] IN
  /\ profile.fetch.st = "served"
  /\ profile' = p
  /\ Shows(p, header)
  /\ UNCHANGED <<account, author, copy, fills, header, outrun, spending>>

FetchFails ==
  /\ Error
  /\ \/ /\ Fetching(header)
        /\ header' = [header EXCEPT !.fetch = Idle]
        /\ fills' = IF header.fetch.st = "read" THEN fills \cup {header.fetch.data} ELSE fills
        /\ Shows(profile, [header EXCEPT !.fetch = Idle])
        /\ UNCHANGED profile
     \/ /\ Fetching(profile)
        /\ profile' = [profile EXCEPT !.fetch = Idle]
        /\ Shows([profile EXCEPT !.fetch = Idle], header)
        /\ UNCHANGED <<header, fills>>
  /\ UNCHANGED <<account, author, copy, outrun>>

\* A profile nobody shows or fetches is dropped after five minutes.
Collect ==
  /\ Input
  /\ ~settings.open /\ ~Fetching(profile) /\ profile.data # None
  /\ profile' = [profile EXCEPT !.data = None, !.behind = FALSE]
  /\ UNCHANGED <<account, author, copy, fills, header, settings, updates, outrun>>

\* Without data yet, its first fetch is joined.
Joined == profile.data = None /\ Fetching(profile)

\* An open dialog reads the profile again; with the dialog closed it is only
\* marked, which no later opening heeds.
ProfileAfterSave ==
  CASE ~settings.open -> [profile EXCEPT !.behind = profile.data # None \/ Fetching(profile)]
    [] settings.open /\ Joined -> [profile EXCEPT !.behind = profile.fetch.st = "served"]
    [] settings.open /\ ~Joined -> [profile EXCEPT !.fetch = Sent, !.behind = FALSE]

\* onSuccess waits for the header and the profile to be read again.  A fetch that
\* is given up for another one keeps nobody waiting.
SaveSucceeds(c) ==
  LET given == IF Joined THEN {"header"} ELSE {"header", "profile"} IN
  /\ updates[c].st = "served"
  /\ header' = [header EXCEPT !.fetch = Sent]
  /\ fills' = IF header.fetch.st = "read" THEN fills \cup {header.fetch.data} ELSE fills
  /\ profile' = ProfileAfterSave
  /\ updates' = [d \in Calls |->
       IF d = c THEN [updates[c] EXCEPT !.st = "settling",
                        !.waits = IF settings.open THEN {"header", "profile"} ELSE {"header"}]
                ELSE [updates[d] EXCEPT !.waits = @ \ (IF settings.open THEN given ELSE {"header"})]]
  /\ UNCHANGED <<account, author, copy, settings, outrun, spending>>

\* Then the dialog is closed, whichever form it shows by now.
SaveSettles(c) ==
  /\ updates[c].st = "settling"
  /\ updates[c].waits = {}
  /\ updates' = [Disowned EXCEPT ![c] = NoUpdate]
  /\ settings' = Closed
  /\ UNCHANGED <<account, author, copy, fills, header, profile, outrun, spending>>

\* A refused save, a failed deletion of the copy, or a lost answer.
SaveFails(c) ==
  /\ Error
  /\ updates[c].st \in {"sent", "committed", "served"}
  /\ updates' = [updates EXCEPT ![c] = NoUpdate]
  /\ UNCHANGED <<account, author, copy, fills, header, profile, settings, outrun>>

---------------------------------------------------------------------------
Next ==
  \/ OpenSettings \/ CloseSettings \/ handleCropConfirm \/ \E v \in Texts : UploadEnds(v)
  \/ \E f \in Fields : \E v \in Texts : Type(f, v)
  \/ \E f \in Fields : \E v \in Values : OtherEdits(f, v)
  \/ \E c \in Calls :
       Save(c) \/ Commits(c) \/ Invalidates(c) \/ SaveSucceeds(c) \/ SaveSettles(c) \/ SaveFails(c)
  \/ \E data \in Accounts : AbandonedFill(data)
  \/ Expires \/ HeaderHit \/ HeaderMiss \/ HeaderFill \/ HeaderRefetch \/ HeaderReceived
  \/ ProfileServed \/ ProfileReceived \/ FetchFails \/ Collect

Spec == Init /\ [][Next]_profileVars

---------------------------------------------------------------------------
AccountOrNone == Accounts \cup {None}
FetchStates(states) == [st : states, data : AccountOrNone]

(* Types of the account, its copies, the dialog and the saves.              *)
TypeOK ==
  /\ account \in Accounts
  /\ author \in [Fields -> {None, "own", "other"}]
  /\ copy \in AccountOrNone
  /\ fills \subseteq Accounts
  /\ header \in [data : Accounts, fetch : FetchStates({"idle", "sent", "read", "served"})]
  /\ profile \in [data : AccountOrNone, fetch : FetchStates({"idle", "sent", "served"}),
                   behind : BOOLEAN]
  /\ settings \in [open : BOOLEAN, base : AccountOrNone, draft : AccountOrNone,
                    uploading : BOOLEAN, excused : BOOLEAN]
  /\ updates \in [Calls -> [st : {"none", "sent", "committed", "served", "settling"},
                             base : AccountOrNone, draft : AccountOrNone, mine : BOOLEAN,
                             excused : BOOLEAN, waits : SUBSET {"header", "profile"}]]

Quiet == ~Fetching(header) /\ fills = {} /\ \A c \in Calls : ~UnderWay(c)

(* With nothing under way the header shows what the user saved last, unless *)
(* a call failed, or a context read before a save was copied to Redis after *)
(* the save had deleted the copy there.                                     *)
HeaderShowsOwnSaves ==
  Quiet /\ ~outrun /\ spending.errors = 0 =>
    \A f \in Fields : author[f] = "own" => header.data[f] = account[f]

(* A save never undoes an earlier save of the same user in a field the user *)
(* left alone, unless a call failed, the header had an overtaken context,   *)
(* the form was filled while a save was under way or with a profile that    *)
(* was not read again after one, or two saves were under way at once.       *)
OwnSavesKept ==
  \A c \in Calls :
    updates[c].st = "sent" /\ ~updates[c].excused /\ ~outrun /\ spending.errors = 0 =>
      \A f \in Fields :
        /\ author[f] = "own"
        /\ updates[c].draft[f] = updates[c].base[f]
        /\ updates[c].draft[f] # None
        => updates[c].draft[f] = account[f]

(* What a user saved stays saved and is what the header shows, across the   *)
(* copy in Redis and the two in the browser.                                *)
OwnProfileKept ==
  /\ HeaderShowsOwnSaves
  /\ OwnSavesKept
=============================================================================
