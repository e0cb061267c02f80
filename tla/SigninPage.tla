------------------------------ MODULE SigninPage ------------------------------
(* The sign-in page: the slider captcha proves one account to the server, a   *)
(* query lists the organizations of the account typed, the dialog picks one   *)
(* and a second call signs in with the credentials of the query.  The form,   *)
(* the slider, the queries and the dialog change one by one; the properties   *)
(* say what keeps them together.                                              *)
EXTENDS Integers

CONSTANTS
  None,          \* nothing there
  Memberships,   \* a set of positive integers, in the order the server lists them
  OwnerOf,       \* membership |-> account; a password is right for its own account
  MaxInputs      \* bound on what the visitor does

Accounts == {OwnerOf[m] : m \in Memberships}

\* What the dialog is filled from: the call that listed, and what may be selected.
Offers == [account : Accounts, password : Accounts, code : 0 .. MaxInputs,
           proved : Accounts \union {""}, selectable : SUBSET Memberships]

ConstantsOK ==
  /\ Memberships \subseteq Nat \ {0} /\ OwnerOf \in [Memberships -> Accounts]
  /\ "" \notin Accounts /\ None \notin Offers /\ MaxInputs \in Nat

VARIABLES
  demanded,   \* the server asks for a captcha, and
  loaded,     \* the page knows whether it does
  active,     \* memberships that may sign in now
  proofs,     \* account |-> the verification the server remembers, 0 if none
  credentials,\* what the form shows
  slider,     \* "none", "idle", "checking" or "passed"
  checks,     \* verifications in flight
  queries,    \* tenant queries in flight
  latest,     \* the query whose state disables the form
  offered,    \* what the dialog was last filled from
  open,       \* the dialog is open
  picked,     \* the membership last clicked in it
  signin,     \* the sign-in in flight
  session,    \* the membership and account whose tokens are stored
  confirmed,  \* history: what the dialog showed at the last Confirm
  lapsed,     \* history: verifications used, replaced or expired
  baffled,    \* history: a captcha was refused for no reason
  rejected,   \* history: a sign-in proved to be no robot's, of an active member, was refused
  crossed,    \* history: a query met another one, or came from a slider that is gone
  steps       \* inputs and verifications so far, the number of the next call

signinVars == <<demanded, loaded, active, proofs, credentials, slider, checks, queries, latest,
                offered, open, picked, signin, session, confirmed, lapsed, baffled, rejected,
                crossed, steps>>

EmptyForm == [account |-> "", password |-> ""]

Init ==
  /\ demanded \in BOOLEAN /\ loaded = FALSE /\ active \in SUBSET Memberships
  /\ proofs = [a \in Accounts |-> 0]
  /\ credentials = EmptyForm /\ slider = "none" /\ checks = {} /\ queries = {} /\ latest = 0
  /\ offered = None /\ open = FALSE /\ picked = 0 /\ signin = None /\ session = None
  /\ confirmed = None /\ lapsed = {} /\ baffled = FALSE /\ rejected = FALSE /\ crossed = FALSE
  /\ steps = 0

---------------------------------------------------------------------------
(* The page *)

isLoading == (\E q \in queries : q.id = latest) \/ signin # None

Input == steps < MaxInputs /\ steps' = steps + 1

\* A password manager, or the visitor, fills the form; an empty password is a short one.
Fill ==
  /\ ~isLoading /\ ~open /\ Input
  /\ \E a \in Accounts \union {""}, p \in Accounts \union {""} :
       credentials' = [account |-> a, password |-> p]
  /\ credentials' # credentials
  /\ UNCHANGED <<demanded, loaded, active, proofs, slider, checks, queries, latest, offered, open,
                 picked, signin, session, confirmed, lapsed, baffled, rejected, crossed>>

Valid == credentials.account # "" /\ credentials.password # ""

\* useCaptchaSliderConfig: enabled until the answer says otherwise.
captchaSliderEnabled == demanded \/ ~loaded

LoadConfig ==
  /\ ~loaded /\ loaded' = TRUE
  /\ UNCHANGED <<demanded, active, proofs, credentials, slider, checks, queries, latest, offered,
                 open, picked, signin, session, confirmed, lapsed, baffled, rejected, crossed, steps>>

\* A verification whose slider goes away keeps the form of its last rendering.
Unmounted(form) == {[c EXCEPT !.seen = IF c.seen = None THEN form ELSE c.seen] : c \in checks}

\* submitSigninByCaptchaCode: "proved" is the account the slider was passed for.
Query(form, code, proved) ==
  /\ queries' = queries \union
       {[id |-> steps', account |-> form.account, password |-> form.password,
         code |-> code, proved |-> proved]}
  /\ latest' = steps' /\ crossed' = (crossed \/ queries # {} \/ form # credentials)

SubmitWithSlider ==
  /\ ~isLoading /\ ~open /\ Valid /\ captchaSliderEnabled /\ Input
  /\ slider' = IF slider = "none" THEN "idle" ELSE slider
  /\ UNCHANGED <<demanded, loaded, active, proofs, credentials, checks, queries, latest, offered,
                 open, picked, signin, session, confirmed, lapsed, baffled, rejected, crossed>>

SubmitDirectly ==
  /\ ~isLoading /\ ~open /\ Valid /\ ~captchaSliderEnabled /\ Input
  /\ Query(credentials, 0, credentials.account)
  /\ slider' = "none" /\ checks' = Unmounted(credentials)
  /\ UNCHANGED <<demanded, loaded, active, proofs, credentials, offered, open, picked, signin,
                 session, confirmed, lapsed, baffled, rejected>>

\* The puzzle fits: the server is asked to remember it for the account.
Slide ==
  /\ slider = "idle" /\ ~open /\ Input
  /\ slider' = "checking"
  /\ checks' = checks \union {[id |-> steps', account |-> credentials.account, seen |-> None]}
  /\ UNCHANGED <<demanded, loaded, active, proofs, credentials, queries, latest, offered, open,
                 picked, signin, session, confirmed, lapsed, baffled, rejected, crossed>>

Misfit ==
  /\ slider = "idle" /\ ~open /\ Input /\ slider' = "none" /\ checks' = Unmounted(credentials)
  /\ UNCHANGED <<demanded, loaded, active, proofs, credentials, queries, latest, offered, open,
                 picked, signin, session, confirmed, lapsed, baffled, rejected, crossed>>

\* The width of the window changes: a passed slider starts over.
Resize ==
  /\ slider \in {"checking", "passed"} /\ Input /\ slider' = "idle"
  /\ UNCHANGED <<demanded, loaded, active, proofs, credentials, checks, queries, latest, offered,
                 open, picked, signin, session, confirmed, lapsed, baffled, rejected, crossed>>

\* handleVerifySuccess sends the form as it is now, whatever was verified.
Verified ==
  \E c \in checks :
    /\ c.account # "" /\ Input
    /\ checks' = checks \ {c}
    /\ proofs' = [proofs EXCEPT ![c.account] = c.id]
    /\ lapsed' = lapsed \union ({proofs[c.account]} \ {0})
    /\ slider' = IF slider = "checking" THEN "passed" ELSE slider
    /\ Query(IF c.seen = None THEN credentials ELSE c.seen, c.id, c.account)
    /\ UNCHANGED <<demanded, loaded, active, credentials, offered, open, picked, signin, session,
                   confirmed, baffled, rejected>>

VerifyFails ==
  \E c \in checks :
    /\ slider' = "none"
    /\ checks' = Unmounted(credentials) \ {c, [c EXCEPT !.seen = credentials]}
    /\ UNCHANGED <<demanded, loaded, active, proofs, credentials, queries, latest, offered, open,
                   picked, signin, session, confirmed, lapsed, baffled, rejected, crossed, steps>>

---------------------------------------------------------------------------
(* The queries, the dialog and the sign-in *)

OptionsOf(account) == {m \in Memberships : OwnerOf[m] = account}

RightPassword(call) == call.account \in Accounts /\ call.password = call.account

\* validate_slider_captcha
Proved(call) ==
  demanded => call.account \in Accounts /\ call.code # 0 /\ proofs[call.account] = call.code

\* query_signin_tenants leaves the proof for the sign-in.
ProofsAfterQuery(call) == proofs

Baffling(call) ==
  ~Proved(call) /\ call.proved = call.account /\ call.code # 0 /\ call.code \notin lapsed

\* Organizations to choose from: the dialog takes them with the credentials of the query.
Listed ==
  \E q \in queries :
    /\ Proved(q) /\ RightPassword(q) /\ OptionsOf(q.account) # {}
    /\ queries' = queries \ {q} /\ proofs' = ProofsAfterQuery(q)
    /\ offered' = [account |-> q.account, password |-> q.password, code |-> q.code,
                   proved |-> q.proved, selectable |-> OptionsOf(q.account) \intersect active]
    /\ slider' = "none" /\ checks' = Unmounted(credentials) /\ open' = TRUE
    /\ UNCHANGED <<demanded, loaded, active, credentials, latest, picked, signin, session,
                   confirmed, lapsed, baffled, rejected, crossed, steps>>

\* Refused, lost, or no organization at all.
NotListed ==
  \E q \in queries :
    /\ queries' = queries \ {q} /\ slider' = "none" /\ checks' = Unmounted(credentials)
    /\ baffled' = (baffled \/ Baffling(q))
    /\ \/ Proved(q) /\ proofs' = ProofsAfterQuery(q)
       \/ proofs' = proofs
    /\ UNCHANGED <<demanded, loaded, active, credentials, latest, offered, open, picked, signin,
                   session, confirmed, lapsed, rejected, crossed, steps>>

\* The one clicked if it is still listed, else the first that can be selected, else the first.
Selected ==
  LET options == OptionsOf(offered.account)
      first(S) == CHOOSE m \in S : \A n \in S : m <= n
  IN IF picked \in options THEN picked
     ELSE first(IF offered.selectable # {} THEN offered.selectable ELSE options)

Pick ==
  /\ open /\ signin = None /\ Input
  /\ picked' \in offered.selectable \ {Selected}
  /\ UNCHANGED <<demanded, loaded, active, proofs, credentials, slider, checks, queries, latest,
                 offered, open, signin, session, confirmed, lapsed, baffled, rejected, crossed>>

\* Cancel, Escape: not even a sign-in under way keeps the dialog open.
Cancel ==
  /\ open /\ Input /\ open' = FALSE
  /\ UNCHANGED <<demanded, loaded, active, proofs, credentials, slider, checks, queries, latest,
                 offered, picked, signin, session, confirmed, lapsed, baffled, rejected, crossed>>

\* Mutant of SigninPayload: the credentials of the form, not those of the query.
SigninPayloadOfForm ==
  [account |-> credentials.account, password |-> credentials.password, code |-> offered.code,
   proved |-> offered.proved, membership |-> Selected]
SigninPayload ==
  [account |-> offered.account, password |-> offered.password, code |-> offered.code,
   proved |-> offered.proved, membership |-> Selected]

Confirm ==
  /\ open /\ signin = None /\ Selected \in offered.selectable /\ Input
  /\ signin' = SigninPayload
  /\ confirmed' = [account |-> offered.account, membership |-> Selected]
  /\ UNCHANGED <<demanded, loaded, active, proofs, credentials, slider, checks, queries, latest,
                 offered, open, picked, session, lapsed, baffled, rejected, crossed>>

\* account_signin uses the proof up before anything else is checked.
UseProof(call) ==
  IF demanded /\ Proved(call)
  THEN proofs' = [proofs EXCEPT ![call.account] = 0] /\ lapsed' = lapsed \union {call.code}
  ELSE UNCHANGED <<proofs, lapsed>>

\* select_active_membership
MaySignIn(call) ==
  /\ Proved(call) /\ RightPassword(call)
  /\ call.membership \in OptionsOf(call.account) \intersect active

SignedIn ==
  /\ signin # None /\ MaySignIn(signin) /\ UseProof(signin)
  /\ signin' = None
  /\ session' = [account |-> OwnerOf[signin.membership], membership |-> signin.membership]
  /\ UNCHANGED <<demanded, loaded, active, credentials, slider, checks, queries, latest, offered,
                 open, picked, confirmed, baffled, rejected, crossed, steps>>

\* Refused, or the answer or the request is lost.
NotSignedIn ==
  /\ signin # None /\ signin' = None
  /\ baffled' = (baffled \/ Baffling(signin))
  /\ rejected' =
       (rejected \/ (Proved(signin) /\ ~MaySignIn(signin) /\ confirmed.membership \in active))
  /\ UseProof(signin) \/ UNCHANGED <<proofs, lapsed>>
  /\ slider' = "none" /\ checks' = Unmounted(credentials) /\ open' = FALSE
  /\ UNCHANGED <<demanded, loaded, active, credentials, queries, latest, offered, picked, session,
                 confirmed, crossed, steps>>

ProofExpires ==
  \E a \in Accounts :
    /\ proofs[a] # 0
    /\ proofs' = [proofs EXCEPT ![a] = 0] /\ lapsed' = lapsed \union {proofs[a]}
    /\ UNCHANGED <<demanded, loaded, active, credentials, slider, checks, queries, latest, offered,
                   open, picked, signin, session, confirmed, baffled, rejected, crossed, steps>>

\* An administrator suspends a member or lets one in.
MembersChange ==
  /\ Input /\ active' \in {active \ {m} : m \in active} \union {active \union {m} : m \in Memberships}
  /\ active' # active
  /\ UNCHANGED <<demanded, loaded, proofs, credentials, slider, checks, queries, latest, offered,
                 open, picked, signin, session, confirmed, lapsed, baffled, rejected, crossed>>

\* Once the tokens are stored the page is left.
Next ==
  /\ session = None
  /\ \/ Fill \/ LoadConfig \/ SubmitWithSlider \/ SubmitDirectly \/ Slide \/ Misfit \/ Resize
     \/ Verified \/ VerifyFails \/ Listed \/ NotListed \/ Pick \/ Cancel \/ Confirm
     \/ SignedIn \/ NotSignedIn \/ ProofExpires \/ MembersChange

Spec == Init /\ [][Next]_signinVars

---------------------------------------------------------------------------
Forms == [account : Accounts \union {""}, password : Accounts \union {""}]

\* Types.
TypeOK ==
  /\ demanded \in BOOLEAN /\ loaded \in BOOLEAN /\ active \subseteq Memberships
  /\ proofs \in [Accounts -> 0 .. MaxInputs] /\ credentials \in Forms
  /\ slider \in {"none", "idle", "checking", "passed"}
  /\ \A c \in checks : c.id \in 1 .. MaxInputs /\ (c.seen = None \/ c.seen \in Forms)
  /\ \A q \in queries : q.id \in 1 .. MaxInputs /\ q.code \in 0 .. MaxInputs
  /\ latest \in 0 .. MaxInputs /\ open \in BOOLEAN /\ picked \in Memberships \union {0}
  /\ (open \/ signin # None) => offered # None
  /\ lapsed \subseteq 1 .. MaxInputs
  /\ baffled \in BOOLEAN /\ rejected \in BOOLEAN /\ crossed \in BOOLEAN
  /\ steps \in 0 .. MaxInputs

\* A sign-in is for the organization the visitor confirmed in the dialog, with the credentials
\* that listed it, whatever became of the form: it is refused only for its captcha or because the
\* membership has been suspended, and the tokens stored are those of the organization confirmed.
SigninIsConfirmed == ~rejected /\ (session # None => session = confirmed)

\* The dialog offers the organizations of the account the form shows, unless a query met another
\* one, or came from a slider that was gone: only then the form is enabled while one may answer.
DialogIsOfForm == open /\ ~crossed => offered.account = credentials.account

\* A captcha passed for the account sent is refused only after it was used, replaced or expired:
\* the query must leave it for the sign-in.
CaptchaRefusalHasCause == ~baffled

\* The organizations offered are those of the account on screen, the tokens those
\* of the choice confirmed, and the captcha passed once serves both calls.
SigninFollowsVisitor ==
  /\ SigninIsConfirmed
  /\ DialogIsOfForm
  /\ CaptchaRefusalHasCause
=============================================================================
