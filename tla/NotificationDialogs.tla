------------------------ MODULE NotificationDialogs ------------------------
(* The dialogs of the notifications page: send a message, create or update a  *)
(* template, create or update a rule.  The page opens and closes them by a    *)
(* property; each keeps its form in a state of its own, which it resets only  *)
(* where the dialog itself asks to open or close: on Escape, outside, Cancel. *)
EXTENDS Integers

CONSTANTS
  None,        \* nothing
  Texts,       \* what a row or a message says
  MaxInputs,   \* bound on clicks and texts of this administrator and of others
  MaxErrors    \* bound on failed calls

ConstantsOK == None \notin Texts /\ "blank" \notin Texts /\ MaxInputs \in Nat /\ MaxErrors \in Nat

VARIABLES
  saved,     \* the row of each kind on the server
  listed,    \* the row in the list of the page
  dialogs,   \* the controller's state of each dialog: open, and the row it is for
  typed,     \* the values of each form
  fresh,     \* history: nothing was typed since the dialog opened
  pending,   \* the save or the sending under way of each dialog
  closedBy,  \* history: how each dialog closed last
  budget     \* spent bounds

notificationVars == <<saved, listed, dialogs, typed, fresh, pending, closedBy, budget>>

RowKinds == {"template", "rule"}
Kinds == {"send"} \union RowKinds

\* "blank" is the default of a form; the schema accepts every other text.
Forms == Texts \union {"blank"}

DEFAULT_DIALOG == [open |-> FALSE, item |-> None]
Shut == [k \in Kinds |-> DEFAULT_DIALOG]
NoCall == [st |-> "none", item |-> None, text |-> None]

Init ==
  /\ saved \in [RowKinds -> Texts \union {None}]
  /\ listed = [k \in RowKinds |-> None]
  /\ dialogs = Shut
  /\ typed = [k \in Kinds |-> "blank"]
  /\ fresh = [k \in Kinds |-> TRUE]
  /\ pending = [k \in Kinds |-> NoCall]
  /\ closedBy = [k \in Kinds |-> "none"]
  /\ budget = [inputs |-> 0, errors |-> 0]

isBusy(k) == pending[k].st # "none"
Spend == budget.inputs < MaxInputs /\ budget' = [budget EXCEPT !.inputs = @ + 1]

---------------------------------------------------------------------------
\* The page

\* An open dialog covers the page.
PageReachable == \A k \in Kinds : ~dialogs[k].open

\* The property opens the dialog: its form is not told.
OpenFor(k, row) ==
  /\ dialogs' = [dialogs EXCEPT ![k] = [open |-> TRUE, item |-> row]]
  /\ fresh' = [fresh EXCEPT ![k] = TRUE]

OpenSend ==
  /\ PageReachable /\ Spend
  /\ OpenFor("send", None)
  /\ UNCHANGED <<saved, listed, typed, pending, closedBy>>

OpenCreate(k) ==
  /\ PageReachable /\ Spend
  /\ OpenFor(k, None)
  /\ UNCHANGED <<saved, listed, typed, pending, closedBy>>

OpenEdit(k) ==
  /\ PageReachable /\ Spend
  /\ listed[k] # None
  /\ OpenFor(k, listed[k])
  /\ UNCHANGED <<saved, listed, typed, pending, closedBy>>

\* The queries of the page, first or again.
Load(k) ==
  /\ listed[k] # saved[k]
  /\ listed' = [listed EXCEPT ![k] = saved[k]]
  /\ UNCHANGED <<saved, dialogs, typed, fresh, pending, closedBy, budget>>

\* Another administrator saves the row.
Elsewhere(k) ==
  /\ Spend
  /\ \E text \in Texts \ {saved[k]} : saved' = [saved EXCEPT ![k] = text]
  /\ UNCHANGED <<listed, dialogs, typed, fresh, pending, closedBy>>

---------------------------------------------------------------------------
\* The form

Write(k, text) ==
  /\ dialogs[k].open /\ ~isBusy(k) /\ Spend
  /\ typed' = [typed EXCEPT ![k] = text] /\ typed' # typed
  /\ fresh' = [fresh EXCEPT ![k] = FALSE]
  /\ UNCHANGED <<saved, listed, dialogs, pending, closedBy>>

Type(k) == \E text \in Forms : Write(k, text)

\* applyTemplateToSendForm: a template fills the message.
ApplyTemplate == listed["template"] # None /\ Write("send", listed["template"])

\* The dialog asks to close; while busy it stays.
Closable(k) == dialogs[k].open /\ ~isBusy(k)

\* Mutant of Cancelled: the form of the message is kept too.
CancelledKept(k) == typed

\* handleOpenChange(false): only the message is forgotten.
Cancelled(k) == IF k = "send" THEN [typed EXCEPT ![k] = "blank"] ELSE typed

Cancel(k) ==
  /\ Closable(k)
  /\ dialogs' = [dialogs EXCEPT ![k] = DEFAULT_DIALOG]
  /\ typed' = Cancelled(k)
  /\ closedBy' = [closedBy EXCEPT ![k] = "cancel"]
  /\ UNCHANGED <<saved, listed, fresh, pending, budget>>

\* A rule needs a template: the rule's dialog makes way for the template's.
NewTemplate ==
  /\ dialogs["rule"].open /\ listed["template"] = None
  /\ dialogs' = [dialogs EXCEPT !["rule"] = DEFAULT_DIALOG,
                                !["template"] = [open |-> TRUE, item |-> None]]
  /\ fresh' = [fresh EXCEPT !["template"] = TRUE]
  /\ closedBy' = [closedBy EXCEPT !["rule"] = "jump"]
  /\ UNCHANGED <<saved, listed, typed, pending, budget>>

---------------------------------------------------------------------------
\* The calls

Submittable(k) ==
  /\ dialogs[k].open /\ ~isBusy(k)
  /\ typed[k] # "blank"
  /\ k = "rule" => listed["template"] # None

Submit(k) ==
  /\ Submittable(k)
  /\ pending' = [pending EXCEPT
       ![k] = [st |-> "sent", item |-> dialogs[k].item, text |-> typed[k]]]
  /\ UNCHANGED <<saved, listed, dialogs, typed, fresh, closedBy, budget>>

\* What the server does of a call: an update replaces the row, a further row is
\* not followed.
Applied(k) ==
  IF k \in RowKinds /\ (pending[k].item # None \/ saved[k] = None)
  THEN [saved EXCEPT ![k] = pending[k].text] ELSE saved

\* onSuccess closes the dialog by its property and waits for the list.
Succeed(k) ==
  /\ pending[k].st = "sent"
  /\ saved' = Applied(k)
  /\ dialogs' = [dialogs EXCEPT ![k] = DEFAULT_DIALOG]
  /\ closedBy' = [closedBy EXCEPT ![k] = "success"]
  /\ pending' = [pending EXCEPT ![k].st = "settling"]
  /\ UNCHANGED <<listed, typed, fresh, budget>>

\* The answer is an error or is lost, after the server's work or before.
Fail(k) ==
  /\ pending[k].st = "sent" /\ budget.errors < MaxErrors
  /\ saved' \in {saved, Applied(k)}
  /\ pending' = [pending EXCEPT ![k] = NoCall]
  /\ budget' = [budget EXCEPT !.errors = @ + 1]
  /\ UNCHANGED <<listed, dialogs, typed, fresh, closedBy>>

\* The list was read again: the dialog is no longer busy.
Settle(k) ==
  /\ pending[k].st = "settling"
  /\ listed' = IF k \in RowKinds THEN [listed EXCEPT ![k] = saved[k]] ELSE listed
  /\ pending' = [pending EXCEPT ![k] = NoCall]
  /\ UNCHANGED <<saved, dialogs, typed, fresh, closedBy, budget>>

Next ==
  \/ OpenSend \/ ApplyTemplate \/ NewTemplate
  \/ \E k \in RowKinds : OpenCreate(k) \/ OpenEdit(k) \/ Load(k) \/ Elsewhere(k)
  \/ \E k \in Kinds :
       Type(k) \/ Cancel(k) \/ Submit(k) \/ Succeed(k) \/ Fail(k) \/ Settle(k)

Spec == Init /\ [][Next]_notificationVars

---------------------------------------------------------------------------
\* Properties

\* Types of the rows, the dialogs and the calls.
TypeOK ==
  /\ saved \in [RowKinds -> Texts \union {None}]
  /\ listed \in [RowKinds -> Texts \union {None}]
  /\ dialogs \in [Kinds -> [open : BOOLEAN, item : Texts \union {None}]]
  /\ typed \in [Kinds -> Forms]
  /\ fresh \in [Kinds -> BOOLEAN]
  /\ pending \in [Kinds -> [st : {"none", "sent", "settling"}, item : Texts \union {None},
                            text : Texts \union {None}]]
  /\ closedBy \in [Kinds -> {"none", "cancel", "success", "jump"}]
  /\ budget \in [inputs : 0 .. MaxInputs, errors : 0 .. MaxErrors]

\* The dialog of a sent call is open on the row the call is for: its success
\* closes no other dialog, and its failure leaves the values to try again.
CallHasDialog ==
  \A k \in Kinds :
    pending[k].st = "sent" =>
      dialogs[k].open /\ dialogs[k].item = pending[k].item /\ typed[k] = pending[k].text

\* A message that was cancelled is forgotten: the dialog only opens with an old
\* message if that message was sent.
OldMessageWasSent ==
  dialogs["send"].open /\ fresh["send"] /\ typed["send"] # "blank" =>
    closedBy["send"] = "success"

\* What was typed is neither lost while its call is under way nor offered again
\* once it was cancelled.
TextsKept ==
  /\ CallHasDialog
  /\ OldMessageWasSent

\* What each dialog promises by its title: an update opens on the values of its
\* row, a creation on an empty form.
DialogShowsItem ==
  \A k \in Kinds :
    dialogs[k].open /\ fresh[k] =>
      typed[k] = IF dialogs[k].item = None THEN "blank" ELSE dialogs[k].item
=============================================================================
