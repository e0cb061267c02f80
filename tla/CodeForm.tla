------------------------------- MODULE CodeForm -------------------------------
(* The two forms that need a code from the visitor's phone or mailbox: the     *)
(* recovery of a password, a dialog over the sign-in page, and the sign-up     *)
(* page.  Asking for the code takes a slider captcha; page and server each     *)
(* refuse to send another one for a minute, the server without saying so.      *)
EXTENDS Integers

CONSTANTS
  None,        \* nothing there
  Contacts,    \* phone numbers or addresses, as the server writes them
  Odd,         \* one of them as it may be typed too: with spaces or, at sign-up, capitals
  OddOf,       \* the contact that stands for
  Cooldown,    \* the minute both sides wait, in ticks
  MaxInputs    \* bound on what the visitor does

ConstantsOK ==
  /\ OddOf \in Contacts /\ Cooldown \in Nat \ {0} /\ MaxInputs \in Nat
  /\ "" \notin Contacts /\ Odd \notin Contacts

VARIABLES
  purpose,    \* "recovery" or "signup"
  asks,       \* the server asks for a captcha, and
  aware,      \* the page knows whether it does
  registered, \* contacts with an account
  remembered, \* spelling |-> the verification the server remembers for it, 0 if none
  live,       \* contact |-> the code that is good for it, 0 if none
  cooling,    \* contact |-> ticks in which the server sends it nothing
  shows,      \* the dialog is open, the page is there
  contact, code, \* what is typed; a code is known by its number
  puzzle,     \* "none", "idle", "checking" or "passed"
  proving,    \* verifications in flight
  sending,    \* requests for a code in flight
  newest,     \* the one whose state disables the form
  submit,     \* the reset or sign-up in flight
  resend,     \* ticks until the button may be pressed again
  told,       \* the contact the last "code sent" was about
  gone,       \* history: contacts whose last code was used or has expired
  spoilt,     \* history: verifications used, replaced or expired
  excused,    \* history: contacts the page does not know the last request of
  puzzled,    \* history: a captcha was refused for no reason
  vain,       \* history: "code sent", and nothing was, for no reason
  count       \* inputs and verifications so far, the number of the next call or code

codeVars == <<purpose, asks, aware, registered, remembered, live, cooling, shows, contact, code,
              puzzle, proving, sending, newest, submit, resend, told, gone, spoilt, excused,
              puzzled, vain, count>>
\* What most steps leave alone: the server, and the histories.
server == <<purpose, asks, registered, remembered, live, cooling>>
histories == <<gone, spoilt, excused, puzzled, vain>>

Spellings == Contacts \union {Odd}
Norm(text) == IF text = Odd THEN OddOf ELSE text

Init ==
  /\ purpose \in {"recovery", "signup"} /\ asks \in BOOLEAN /\ aware = FALSE
  /\ registered \in SUBSET Contacts /\ remembered = [s \in Spellings |-> 0]
  /\ live = [c \in Contacts |-> 0] /\ cooling = [c \in Contacts |-> 0]
  /\ shows = TRUE /\ contact = "" /\ code = 0 /\ puzzle = "none" /\ proving = {} /\ sending = {}
  /\ newest = 0 /\ submit = None /\ resend = 0 /\ told = None
  /\ gone = {} /\ spoilt = {} /\ excused = {} /\ puzzled = FALSE /\ vain = FALSE /\ count = 0

---------------------------------------------------------------------------
(* The form *)

isBusy == (\E s \in sending : s.id = newest) \/ submit # None

Input == count < MaxInputs /\ count' = count + 1

TypeContact ==
  /\ shows /\ ~isBusy /\ Input /\ contact' \in (Spellings \union {""}) \ {contact}
  /\ UNCHANGED <<server, histories, aware, shows, code, puzzle, proving, sending, newest, submit,
                 resend, told>>

\* Any code there is: the visitor may have several accounts, and old messages.
TypeCode ==
  /\ shows /\ ~isBusy /\ Input /\ code' \in {live[c] : c \in Contacts} \ {code}
  /\ UNCHANGED <<server, histories, aware, shows, contact, puzzle, proving, sending, newest, submit,
                 resend, told>>

LoadConfig ==
  /\ ~aware /\ aware' = TRUE
  /\ UNCHANGED <<server, histories, shows, contact, code, puzzle, proving, sending, newest, submit,
                 resend, told, count>>

captchaSliderEnabled == asks \/ ~aware

\* A verification whose slider goes away keeps the form of its last rendering.
Unmounted == {[v EXCEPT !.seen = IF v.seen = None THEN contact ELSE v.seen] : v \in proving}

\* The request names the contact as the server writes it; "proved" is the spelling verified.
Request(text, proof, proved) ==
  /\ sending' = sending \union
       {[id |-> count', contact |-> Norm(text), proof |-> proof, proved |-> proved]}
  /\ newest' = count'

AskButton == shows /\ ~isBusy /\ resend = 0 /\ contact # ""

AskWithSlider ==
  /\ AskButton /\ captchaSliderEnabled /\ puzzle = "none" /\ Input /\ puzzle' = "idle"
  /\ UNCHANGED <<server, histories, aware, shows, contact, code, proving, sending, newest, submit,
                 resend, told>>

AskDirectly ==
  /\ AskButton /\ ~captchaSliderEnabled /\ Input /\ Request(contact, 0, contact)
  /\ UNCHANGED <<server, histories, aware, shows, contact, code, puzzle, proving, submit, resend,
                 told>>

\* The puzzle fits: the server is asked to remember it for the contact as it is typed.
Slide ==
  /\ shows /\ puzzle = "idle" /\ Input /\ puzzle' = "checking"
  /\ proving' = proving \union {[id |-> count', proved |-> contact, seen |-> None]}
  /\ UNCHANGED <<server, histories, aware, shows, contact, code, sending, newest, submit, resend,
                 told>>

\* The width of the window changes: a passed slider starts over.
Resize ==
  /\ shows /\ puzzle \in {"checking", "passed"} /\ Input /\ puzzle' = "idle"
  /\ UNCHANGED <<server, histories, aware, shows, contact, code, proving, sending, newest, submit,
                 resend, told>>

\* handleVerifySuccess asks for the contact typed now, or when the slider was last there.
Verified ==
  \E v \in proving :
    /\ v.proved # "" /\ Input /\ proving' = proving \ {v}
    /\ remembered' = [remembered EXCEPT ![v.proved] = v.id]
    /\ spoilt' = spoilt \union ({remembered[v.proved]} \ {0})
    /\ puzzle' = IF puzzle = "checking" THEN "passed" ELSE puzzle
    /\ Request(IF v.seen = None THEN contact ELSE v.seen, v.id, v.proved)
    /\ UNCHANGED <<purpose, asks, registered, live, cooling, gone, excused, puzzled, vain, aware,
                   shows, contact, code, submit, resend, told>>

VerifyFails ==
  \E v \in proving :
    /\ puzzle' = "none" /\ proving' = Unmounted \ {v, [v EXCEPT !.seen = contact]}
    /\ UNCHANGED <<server, histories, aware, shows, contact, code, sending, newest, submit, resend,
                   told, count>>

---------------------------------------------------------------------------
(* send_password_reset_code, send_signup_code *)

Proved(s) == asks => s.contact \in Contacts /\ s.proof # 0 /\ remembered[s.contact] = s.proof

\* The proof is used up whatever follows.
UseProof(s) ==
  IF asks /\ Proved(s)
  THEN /\ remembered' = [remembered EXCEPT ![s.contact] = 0]
       /\ spoilt' = spoilt \union {s.proof}
  ELSE UNCHANGED <<remembered, spoilt>>

Reachable(c) == purpose = "signup" \/ c \in registered

\* A new code replaces the one before; the server is quiet about a contact it does not know.
Mail(s) ==
  /\ cooling[s.contact] = 0
  /\ IF Reachable(s.contact)
     THEN live' = [live EXCEPT ![s.contact] = s.id] /\ gone' = gone \ {s.contact}
     ELSE UNCHANGED <<live, gone>>
  /\ cooling' = [cooling EXCEPT ![s.contact] = Cooldown]

KeepQuiet(s) == cooling[s.contact] # 0 /\ UNCHANGED <<live, gone, cooling>>

\* Mutant of ResendSeconds: the page counts down half the server's minute.
ResendSecondsHalf == Cooldown \div 2
ResendSeconds == Cooldown

\* The page hears "ok": the slider goes away, the countdown starts, the visitor is told.
Sent ==
  \E s \in sending :
    /\ s.contact # "" /\ Proved(s) /\ UseProof(s)
    /\ Mail(s) \/ KeepQuiet(s)
    /\ vain' = (vain \/ (cooling[s.contact] # 0 /\ resend = 0 /\ s.contact \notin excused))
    /\ sending' = sending \ {s} /\ puzzle' = "none" /\ proving' = Unmounted
    /\ resend' = ResendSeconds /\ told' = s.contact
    /\ excused' = IF cooling[s.contact] = 0 THEN excused \ {s.contact} ELSE excused
    /\ UNCHANGED <<purpose, asks, registered, puzzled, aware, shows, contact, code, newest, submit,
                   count>>

\* The message cannot be sent: no cooldown, so that it can be asked for again.
SendBreaks(s) == UNCHANGED <<live, gone, cooling>>

\* Refused for the captcha, broken on its way, or the answer or the request is lost.
NotSent ==
  \E s \in sending :
    /\ puzzled' = (puzzled \/ (~Proved(s) /\ s.proof # 0 /\ s.proof \notin spoilt
                               /\ s.proved = s.contact))
    /\ \/ s.contact # "" /\ Proved(s) /\ UseProof(s) /\ SendBreaks(s) /\ UNCHANGED excused
       \/ /\ s.contact # "" /\ Proved(s) /\ UseProof(s) /\ Mail(s)
          /\ excused' = excused \union {s.contact}
       \/ UNCHANGED <<remembered, spoilt, live, gone, cooling, excused>>
    /\ sending' = sending \ {s} /\ puzzle' = "none" /\ proving' = Unmounted
    /\ UNCHANGED <<purpose, asks, registered, vain, aware, shows, contact, code, newest, submit,
                   resend, told, count>>

---------------------------------------------------------------------------
(* reset_password, account_signup, invite_signup *)

Submit ==
  /\ shows /\ ~isBusy /\ contact # "" /\ code # 0 /\ Input
  /\ submit' = [contact |-> Norm(contact), code |-> code]
  /\ UNCHANGED <<server, histories, aware, shows, contact, code, puzzle, proving, sending, newest,
                 resend, told>>

\* Recovery is of an account, sign-up makes one.
Admitted == submit.contact \in registered <=> purpose = "recovery"

CodeIsGood == live[submit.contact] = submit.code

SpendCode ==
  /\ live' = [live EXCEPT ![submit.contact] = 0] /\ gone' = gone \union {submit.contact}

Succeed ==
  /\ submit # None /\ Admitted /\ CodeIsGood /\ SpendCode
  /\ registered' = registered \union {submit.contact}
  /\ submit' = None /\ shows' = FALSE /\ puzzle' = "none" /\ proving' = Unmounted
  /\ IF purpose = "recovery" THEN contact' = "" /\ code' = 0 ELSE UNCHANGED <<contact, code>>
  /\ UNCHANGED <<purpose, asks, remembered, cooling, spoilt, excused, puzzled, vain, aware, sending,
                 newest, resend, told, count>>

\* Refused; refused with the code spent, the name of the organization being taken; answer lost.
Fail ==
  /\ submit # None
  /\ \/ /\ Admitted /\ CodeIsGood /\ SpendCode
        /\ registered' \in {registered, registered \union {submit.contact}}
     \/ UNCHANGED <<live, gone, registered>>
  /\ submit' = None
  /\ IF purpose = "signup" THEN puzzle' = "none" /\ proving' = Unmounted
     ELSE UNCHANGED <<puzzle, proving>>
  /\ UNCHANGED <<purpose, asks, remembered, cooling, spoilt, excused, puzzled, vain, aware, shows,
                 contact, code, sending, newest, resend, told, count>>

---------------------------------------------------------------------------
(* The dialog, the page and the time *)

\* Escape closes the dialog even while it waits; what was typed stays.
CloseDialog ==
  /\ purpose = "recovery" /\ shows /\ Input
  /\ shows' = FALSE /\ puzzle' = "none" /\ proving' = Unmounted
  /\ UNCHANGED <<server, histories, aware, contact, code, sending, newest, submit, resend, told>>

OpenDialog ==
  /\ purpose = "recovery" /\ ~shows /\ Input /\ shows' = TRUE
  /\ UNCHANGED <<server, histories, aware, contact, code, puzzle, proving, sending, newest, submit,
                 resend, told>>

\* The page is loaded anew, with nothing in flight; it knows of no earlier request.
Reload ==
  /\ sending = {} /\ proving = {} /\ submit = None /\ Input
  /\ shows' = TRUE /\ contact' = "" /\ code' = 0 /\ puzzle' = "none" /\ resend' = 0 /\ told' = None
  /\ aware' = FALSE /\ excused' = Contacts
  /\ UNCHANGED <<server, gone, spoilt, puzzled, vain, sending, proving, newest, submit>>

Less(n) == IF n = 0 THEN 0 ELSE n - 1

Tick ==
  /\ resend # 0 \/ \E c \in Contacts : cooling[c] # 0
  /\ resend' = Less(resend) /\ cooling' = [c \in Contacts |-> Less(cooling[c])]
  /\ UNCHANGED <<purpose, asks, registered, remembered, live, histories, aware, shows, contact, code,
                 puzzle, proving, sending, newest, submit, told, count>>

\* A code lasts longer than the cooldown.
CodeExpires ==
  \E c \in Contacts :
    /\ live[c] # 0 /\ cooling[c] = 0
    /\ live' = [live EXCEPT ![c] = 0] /\ gone' = gone \union {c}
    /\ UNCHANGED <<purpose, asks, registered, remembered, cooling, spoilt, excused, puzzled, vain,
                   aware, shows, contact, code, puzzle, proving, sending, newest, submit, resend,
                   told, count>>

ProofExpires ==
  \E s \in Spellings :
    /\ remembered[s] # 0
    /\ remembered' = [remembered EXCEPT ![s] = 0] /\ spoilt' = spoilt \union {remembered[s]}
    /\ UNCHANGED <<purpose, asks, registered, live, cooling, gone, excused, puzzled, vain, aware,
                   shows, contact, code, puzzle, proving, sending, newest, submit, resend, told,
                   count>>

Next ==
  \/ TypeContact \/ TypeCode \/ LoadConfig \/ AskWithSlider \/ AskDirectly \/ Slide \/ Resize
  \/ Verified \/ VerifyFails \/ Sent \/ NotSent \/ Submit \/ Succeed \/ Fail \/ CloseDialog \/ OpenDialog
  \/ Reload \/ Tick \/ CodeExpires \/ ProofExpires

Spec == Init /\ [][Next]_codeVars

---------------------------------------------------------------------------
Ids == 0 .. MaxInputs

\* Types.
TypeOK ==
  /\ purpose \in {"recovery", "signup"} /\ asks \in BOOLEAN /\ aware \in BOOLEAN
  /\ registered \subseteq Contacts /\ remembered \in [Spellings -> Ids]
  /\ live \in [Contacts -> Ids] /\ cooling \in [Contacts -> 0 .. Cooldown]
  /\ shows \in BOOLEAN /\ contact \in Spellings \union {""} /\ code \in Ids
  /\ puzzle \in {"none", "idle", "checking", "passed"} /\ \A v \in proving : v.id \in Ids
  /\ \A s \in sending : s.id \in Ids /\ s.contact \in Contacts \union {""}
  /\ newest \in Ids /\ (submit = None \/ submit.code \in Ids) /\ resend \in 0 .. Cooldown
  /\ (told = None \/ told \in Contacts) /\ gone \subseteq Contacts /\ spoilt \subseteq Ids
  /\ excused \subseteq Contacts /\ puzzled \in BOOLEAN /\ vain \in BOOLEAN /\ count \in Ids

\* Whoever was told that a code was sent has one that is good, unless it was used or has expired
\* since, or nobody is known there: a message that failed leaves the next request to be answered.
ToldCodeLives == told # None /\ Reachable(told) => live[told] # 0 \/ told \in gone

\* Unless it lost track of an earlier request, the page that counts nothing down never says "code
\* sent" in vain: its button is enabled no sooner than the server answers again.
ToldIsMailed == ~vain

\* A captcha passed for the contact as the server writes it is refused only after it was used,
\* replaced or expired.
CaptchaRefusalHasCause == ~puzzled

\* "Code sent" is true: one was sent, it is good, and the captcha that was passed
\* for it is taken.
CodeIsAsTold ==
  /\ ToldCodeLives
  /\ ToldIsMailed
  /\ CaptchaRefusalHasCause
=============================================================================
