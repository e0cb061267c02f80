----------------------------- MODULE EntityForm -----------------------------
(***************************************************************************)
(* The forms of the seven kinds of rows of the console: what each form      *)
(* accepts, which fields it sends, and what the server makes of them.  The  *)
(* form, the request and the table each have rules of their own, written    *)
(* apart; the properties say where they agree.  A value is a token: "old"   *)
(* is what the row has, "new" another one, "long" as many characters as the *)
(* form allows and "over" one more, "wide" as many as it allows of three    *)
(* bytes each, "odd" a text that is no date, number, address or JSON,       *)
(* "taken" another row's.  "settings" stands for sort, status and switches. *)
(***************************************************************************)
EXTENDS Integers

CONSTANTS
  None,        \* no row
  MaxInputs    \* bound on inputs

ConstantsOK == MaxInputs \in Nat

VARIABLES
  kind, mode,  \* what the sheet edits, and how
  row,         \* the row on the server
  form,        \* the values of the form
  touched,     \* history: fields typed since the sheet opened
  before,      \* history: the row when it opened
  edits,       \* inputs so far
  outcome      \* what the last Save did to these values

entityVars == <<kind, mode, row, form, touched, before, edits, outcome>>

---------------------------------------------------------------------------
(* What can be put into each field *)

Plain == {"", "new", "long", "over", "wide"}
Switch == {"old", "new"}

RoleInputs ==
  [name |-> Plain, code |-> Plain \union {"taken"}, description |-> Plain, settings |-> Switch]

PermInputs ==
  [parent |-> {"", "new"}, name |-> Plain, code |-> Plain \union {"taken"}, resource |-> Plain,
   action |-> Plain, method |-> {"", "new"}, description |-> Plain, settings |-> Switch]

MenuInputs ==
  [name |-> Plain, code |-> Plain \union {"taken"}, description |-> Plain, path |-> Plain,
   component |-> Plain, redirect |-> Plain, icon |-> Plain, settings |-> Switch]

\* The type is locked in an update.
DictInputs ==
  [label |-> Plain, dict_type |-> IF mode = "update" THEN {} ELSE Plain,
   dict_key |-> Plain \union {"taken"}, dict_value |-> Plain, description |-> Plain,
   ext |-> {"", "new", "odd"}, settings |-> Switch]

\* The picker gives a date without a time; the logo is uploaded, never removed.
TenantInputs ==
  [name |-> Plain, slug |-> Plain \union {"taken"}, description |-> Plain, plan_code |-> Plain,
   owner_user_id |-> {"", "new", "odd"}, logo_url |-> {"new"}, expired_at |-> {"", "odd"},
   settings |-> Switch]

\* The name of an account is locked in an update.
UserInputs ==
  [username |-> IF mode = "update" THEN {} ELSE Plain \union {"taken"}, password |-> {"", "new"},
   nickname |-> Plain, email |-> {"", "new", "odd", "taken"}, phone |-> Plain \union {"taken"},
   avatar_url |-> {"new"}, bio |-> Plain, settings |-> Switch]

\* Nothing bounds the name, which may also be all "spaces": in the other forms
\* spaces are cut off.  The secret is only asked at creation, the status later.
ClientInputs ==
  [name |-> {"", "new", "long", "spaces"}, description |-> {"", "new"},
   client_secret |-> IF mode = "create" THEN {"", "new"} ELSE {},
   redirect_uris |-> {"", "new"}, allowed_scopes |-> {"", "new"},
   settings |-> IF mode = "create" THEN {} ELSE Switch]

Inputs ==
  CASE kind = "role" -> RoleInputs [] kind = "perm" -> PermInputs [] kind = "menu" -> MenuInputs
    [] kind = "dict" -> DictInputs [] kind = "tenant" -> TenantInputs
    [] kind = "user" -> UserInputs [] kind = "client" -> ClientInputs

Fields == DOMAIN Inputs

Kinds == {"role", "perm", "menu", "dict", "tenant", "user", "client"}

---------------------------------------------------------------------------
(* The schemas *)

Blank(v, fields) == {f \in fields : v[f] = ""}
TooLong(v, fields) == {f \in fields : v[f] = "over"}

RoleErrors(v) == Blank(v, {"name", "code"}) \union TooLong(v, {"name", "code", "description"})

PermErrors(v) ==
  Blank(v, {"name", "code"})
  \union TooLong(v, {"name", "code", "resource", "action", "description"})

MenuErrors(v) ==
  Blank(v, {"name", "code"})
  \union TooLong(v, {"name", "code", "description", "path", "component", "redirect", "icon"})

DictErrors(v) ==
  Blank(v, {"label", "dict_type", "dict_key", "dict_value"})
  \union TooLong(v, {"label", "dict_type", "dict_key", "dict_value", "description"})
  \union {f \in {"ext"} : v.ext = "odd"}

TenantErrors(v) ==
  Blank(v, {"name", "slug"}) \union TooLong(v, {"name", "slug", "description", "plan_code"})

UserErrors(v) ==
  Blank(v, {"username"}) \union TooLong(v, {"username", "nickname", "phone", "bio"})
  \union {f \in {"email"} : v.email = "odd"}
  \union {f \in {"password"} : mode # "update" /\ v.password = ""}

ClientErrors(v) ==
  Blank(v, {"name"})
  \union IF mode = "create" THEN Blank(v, {"client_secret", "redirect_uris", "allowed_scopes"})
         ELSE {}

Errors(v) ==
  CASE kind = "role" -> RoleErrors(v) [] kind = "perm" -> PermErrors(v)
    [] kind = "menu" -> MenuErrors(v) [] kind = "dict" -> DictErrors(v)
    [] kind = "tenant" -> TenantErrors(v) [] kind = "user" -> UserErrors(v)
    [] kind = "client" -> ClientErrors(v)

---------------------------------------------------------------------------
(* The requests: a field that is not in the domain is absent or null, which *)
(* the server reads alike.                                                  *)

Without(v, fields) == [f \in DOMAIN v \ fields |-> v[f]]
BlankLeftOut(v, fields) == Without(v, Blank(v, fields))

RoleParam(v) == BlankLeftOut(v, {"description"})

\* Mutant of PermParam: no parent is no answer.
PermParamParentKept(v) ==
  BlankLeftOut(v, {"parent", "resource", "action", "method", "description"})

\* No parent is the root.
PermParam(v) == BlankLeftOut(v, {"resource", "action", "method", "description"})

MenuParam(v) == BlankLeftOut(v, {"description", "path", "component", "redirect", "icon"})

\* An empty extension is an empty object.
DictParam(v) ==
  LET sent == [v EXCEPT !.ext = IF @ = "" THEN "{}" ELSE @]
  IN BlankLeftOut(Without(sent, IF mode = "update" THEN {"dict_type"} ELSE {}), {"description"})

TenantParam(v) ==
  BlankLeftOut(v, {"description", "plan_code", "owner_user_id", "logo_url", "expired_at"})

\* normalizeOptionalUpdateValue sends null for what was cleared.
UserParam(v) ==
  BlankLeftOut(Without(v, IF mode = "update" THEN {"username"} ELSE {}),
               {"email", "phone", "password", "nickname", "avatar_url", "bio"})

ClientParam(v) ==
  LET sent == [v EXCEPT !.name = IF @ = "spaces" THEN "" ELSE @]
  IN IF mode = "create" THEN BlankLeftOut(Without(sent, {"settings"}), {"description"})
     ELSE BlankLeftOut(Without(sent, {"client_secret"}), {"name", "description"})

Param(v) ==
  CASE kind = "role" -> RoleParam(v) [] kind = "perm" -> PermParam(v)
    [] kind = "menu" -> MenuParam(v) [] kind = "dict" -> DictParam(v)
    [] kind = "tenant" -> TenantParam(v) [] kind = "user" -> UserParam(v)
    [] kind = "client" -> ClientParam(v)

---------------------------------------------------------------------------
(* The server *)

Is(p, f, tokens) == f \in DOMAIN p /\ p[f] \in tokens

\* The unique indexes; a copy has the code of its source until it is changed.
Taken(p) ==
  \/ \E f \in {"code", "dict_key", "slug", "username", "email", "phone"} : Is(p, f, {"taken"})
  \/ mode = "copy" /\ Is(p, "code", {"old"})

\* VARCHAR(100) where the form allows 255 characters.
ResourceFits(p) == ~Is(p, "resource", {"long", "wide"})

\* chrono reads a date with a time, serde_helpers a number.
TenantReads(p) == ~Is(p, "expired_at", {"odd"}) /\ ~Is(p, "owner_user_id", {"odd"})

\* An update counts the bytes of what the form counted in characters.
BytesFit(p) == mode = "update" => \A f \in {"nickname", "phone", "bio"} : ~Is(p, f, {"wide"})

\* The name has a length and a column that the form does not know of.
ClientNameFits(p) == ~Is(p, "name", {"", "long"})

Accepted(p) ==
  /\ ~Taken(p)
  /\ kind = "perm" => ResourceFits(p)
  /\ kind = "dict" => ~Is(p, "ext", {"odd"})
  /\ kind = "tenant" => TenantReads(p)
  /\ kind = "user" => BytesFit(p)
  /\ kind = "client" => ClientNameFits(p)

\* apply_update: if let Some(value).
Updated(p) == [f \in Fields |-> IF f \in DOMAIN p THEN p[f] ELSE row[f]]

\* The rest of a new row is null or has its default.
Created(p) ==
  [f \in Fields |-> IF f \in DOMAIN p THEN p[f] ELSE IF f = "settings" THEN "old" ELSE ""]

---------------------------------------------------------------------------
(* The sheet *)

\* getDefault...FormValues(null, parent)
EmptyForm ==
  [f \in Fields |-> IF f = "settings" THEN "old" ELSE IF f = "ext" THEN "{}" ELSE ""]

\* A password and a secret are never read back.
Secrets == {"password", "client_secret"}

\* getDefault...FormValues(row, parent)
FormOf(r) == [f \in Fields |-> IF f \in Secrets THEN "" ELSE r[f]]

Optional ==
  {"parent", "description", "resource", "action", "method", "path", "component", "redirect",
   "icon", "plan_code", "owner_user_id", "logo_url", "expired_at", "nickname", "email", "phone",
   "avatar_url", "bio"}

\* Complete rows and rows with nothing but what is required.
RowsAtFirst == {[f \in Fields |-> "old"],
                [f \in Fields |-> IF f \in Optional THEN "" ELSE "old"]}

Required ==
  {"name", "code", "label", "dict_type", "dict_key", "dict_value", "slug", "username", "password",
   "client_secret", "redirect_uris", "allowed_scopes"}

\* Below a parent a permission starts with it, and a dictionary with its type;
\* or what is required was typed already.
FormsAtFirst ==
  {EmptyForm}
  \union {[EmptyForm EXCEPT ![f] = "old"] : f \in Fields \intersect {"parent", "dict_type"}}
  \union {[f \in Fields |-> IF f \in Required THEN "new" ELSE EmptyForm[f]]}

Init ==
  /\ kind \in Kinds
  /\ mode \in {"create", "update"} \union IF kind \in {"perm", "menu"} THEN {"copy"} ELSE {}
  /\ row \in IF mode = "create" THEN {None} ELSE RowsAtFirst
  /\ form \in IF mode = "create" THEN FormsAtFirst ELSE {FormOf(row)}
  /\ touched = {}
  /\ before = row
  /\ edits = 0
  /\ outcome = "none"

\* A keystroke in the name of a tenant writes its slug too, in an update as well.
Typed(f, value) ==
  IF kind = "tenant" /\ f = "name" THEN [form EXCEPT !.name = value, !.slug = "auto"]
  ELSE [form EXCEPT ![f] = value]

Type(f) ==
  /\ outcome # "saved" /\ edits < MaxInputs
  /\ \E value \in Inputs[f] : form' = Typed(f, value)
  /\ touched' = touched \union {f}
  /\ edits' = edits + 1
  /\ outcome' = "none"
  /\ UNCHANGED <<kind, mode, row, before>>

Save ==
  /\ outcome # "saved"
  /\ IF Errors(form) # {} THEN outcome' = "invalid" /\ UNCHANGED row
     ELSE IF ~Accepted(Param(form)) THEN outcome' = "refused" /\ UNCHANGED row
     ELSE /\ outcome' = "saved"
          /\ row' = IF mode = "update" THEN Updated(Param(form)) ELSE Created(Param(form))
  /\ UNCHANGED <<kind, mode, form, touched, before, edits>>

\* The sheet closes after a save, or by Cancel, and is opened on the row.
Reopen ==
  /\ row # None
  /\ mode = "copy" => outcome = "saved"
  /\ mode' = "update"
  /\ form' = FormOf(row)
  /\ touched' = {} /\ before' = row /\ outcome' = "none"
  /\ UNCHANGED <<kind, row, edits>>

Next == (\E f \in Fields : Type(f)) \/ Save \/ Reopen

Spec == Init /\ [][Next]_entityVars

---------------------------------------------------------------------------
(* Properties *)

Tokens == {"", "old", "new", "long", "over", "wide", "odd", "taken", "auto", "spaces", "{}"}

\* Types of the row, the form and the answer.
TypeOK ==
  /\ kind \in Kinds /\ mode \in {"create", "update", "copy"}
  /\ row = None \/ row \in [Fields -> Tokens]
  /\ before = None \/ before \in [Fields -> Tokens]
  /\ form \in [Fields -> Tokens]
  /\ touched \subseteq Fields
  /\ edits \in 0 .. MaxInputs
  /\ outcome \in {"none", "invalid", "refused", "saved"}

\* Fields that cannot be cleared: a blank is sent as nothing or as null, and the
\* server keeps what it has.
Uncleared == Optional \ {"parent"}

\* What a successful save showed is what is stored, but for a cleared field
\* that keeps its old value and a client's name of spaces.
SavedIsShown ==
  outcome = "saved" =>
    \A f \in Fields \ Secrets :
      \/ row[f] = form[f]
      \/ f \in Uncleared /\ form[f] = "" /\ mode = "update" /\ row[f] = before[f]
      \/ f = "ext" /\ form[f] = "" /\ row[f] = "{}"
      \/ kind = "client" /\ f = "name" /\ form[f] = "spaces" /\ mode = "update"

\* An update changes no field that was not typed, but for the slug of a tenant
\* whose name was.
UntouchedKept ==
  outcome = "saved" /\ mode = "update" =>
    \A f \in Fields \ touched :
      row[f] = before[f] \/ (kind = "tenant" /\ f = "slug" /\ "name" \in touched)

\* What a form accepts the server accepts, but for another row's code and the
\* few rules that only the server knows.
RefusalHasCause ==
  outcome = "refused" =>
    \/ Taken(form)
    \/ kind = "perm" /\ form.resource \in {"long", "wide"}
    \/ kind = "tenant" /\ (form.expired_at = "odd" \/ form.owner_user_id = "odd")
    \/ kind = "user" /\ mode = "update" /\ "wide" \in {form.nickname, form.phone, form.bio}
    \/ kind = "client" /\ form.name \in {"long", "spaces"}

\* A save stores what the sheet showed, changes nothing that was not typed, and
\* is refused only for a cause the sheet cannot know.
SheetSavesItsFields ==
  /\ SavedIsShown
  /\ UntouchedKept
  /\ RefusalHasCause
=============================================================================
