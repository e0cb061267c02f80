---------------------------- MODULE OAuthTokens ----------------------------
(***************************************************************************)
(* The OAuth2 server: authorization codes in Redis, oauth_tokens and       *)
(* oauth_clients rows in Postgres, and concurrent authorize, exchange_code,*)
(* refresh_token and revoke_token calls.  Every Redis or database call is  *)
(* one step.  A grant is named by its authorization code: the code, the    *)
(* token pair it is exchanged for, and the pairs that one is refreshed     *)
(* into, one after the other.                                              *)
(***************************************************************************)
EXTENDS Integers

CONSTANTS
  Clients,     \* oauth_clients rows
  Codes,       \* authorization codes, each generated once
  Tokens,      \* ids of oauth_tokens rows
  Calls,       \* requests served at the same time
  MaxErrors,   \* bound on failed Redis or database calls
  None         \* nothing

RowType ==
  [client : Clients, grant : Codes, parent : Tokens \cup {None}, revoked : BOOLEAN,
   expired : BOOLEAN]

ASSUME NoneAssumption ==
  None \notin Clients \cup Codes \cup Tokens \cup Calls /\ None \notin RowType
ASSUME BoundAssumption == MaxErrors \in Nat

VARIABLES
  client,   \* oauth_clients.status and deleted_at
  code,     \* Redis: the client each stored code was issued to
  issued,   \* codes generated so far
  token,    \* oauth_tokens rows
  call,     \* the progress of each request
  errors,   \* spent bound
  raced,    \* history: two calls held the same code or token of a grant
  dead      \* history: tokens revoked while no call held them

history == <<raced, dead>>
store == <<client, code, issued, token>>
vars == <<store, call, errors, history>>

Idle == [pc |-> "idle", code |-> None, old |-> None, client |-> None, byAccess |-> FALSE]

Exchanging == {"del_code", "code_client", "mint_code"}
Refreshing == {"old_client", "revoke_old", "mint_refresh"}

Exists(t) == token[t] # None
Live(t) == Exists(t) /\ ~token[t].revoked

---------------------------------------------------------------------------
Init ==
  /\ client = [c \in Clients |-> "active"]
  /\ code = [k \in Codes |-> None]
  /\ issued = {}
  /\ token = [t \in Tokens |-> None]
  /\ call = [p \in Calls |-> Idle]
  /\ errors = 0
  /\ raced = [k \in Codes |-> FALSE]
  /\ dead = {}

At(p, pc) == call[p].pc = pc
Goto(p, pc) == call' = [call EXCEPT ![p].pc = pc]
Finish(p) == call' = [call EXCEPT ![p] = Idle]

\* Calls that have read code k, or token t, and may still mint from it.
HoldCode(k) == {p \in Calls : call[p].pc \in Exchanging /\ call[p].code = k}
HoldToken(t) == {p \in Calls : call[p].pc \in Refreshing /\ call[p].old = t}

---------------------------------------------------------------------------
(* authorize *)

\* The client must exist and be enabled.
Authorize(p, c) ==
  /\ At(p, "idle")
  /\ client[c] = "active"
  /\ call' = [call EXCEPT ![p] = [Idle EXCEPT !.pc = "store_code", !.client = c]]
  /\ UNCHANGED <<store, errors, history>>

StoreCode(p) ==
  /\ At(p, "store_code")
  /\ \E k \in Codes \ issued :
       /\ code' = [code EXCEPT ![k] = call[p].client]
       /\ issued' = issued \cup {k}
  /\ Finish(p)
  /\ UNCHANGED <<client, token, errors, history>>

---------------------------------------------------------------------------
(* exchange_code *)

\* Redis GET; an absent code ends the call.
GetCode(p, k) ==
  /\ At(p, "idle")
  /\ code[k] # None
  /\ call' = [call EXCEPT ![p] =
       [Idle EXCEPT !.pc = "del_code", !.code = k, !.client = code[k]]]
  /\ raced' = [raced EXCEPT ![k] = @ \/ HoldCode(k) # {}]
  /\ UNCHANGED <<store, errors, dead>>

\* Mutant of DelCode: the code is left in Redis.
DelCodeKept(p) ==
  /\ At(p, "del_code")
  /\ Goto(p, "code_client")
  /\ UNCHANGED <<store, errors, history>>

\* Redis DEL, whether or not another call deleted the key first.
DelCode(p) ==
  /\ At(p, "del_code")
  /\ code' = [code EXCEPT ![call[p].code] = None]
  /\ Goto(p, "code_client")
  /\ UNCHANGED <<client, issued, token, errors, history>>

\* The verifier, redirect_uri and secret match or not; the client's status is
\* not read again.
FindCodeClient(p) ==
  /\ At(p, "code_client")
  /\ \/ client[call[p].client] # "deleted" /\ Goto(p, "mint_code")
     \/ Finish(p)
  /\ UNCHANGED <<store, errors, history>>

Row(c, k, parent) ==
  [client |-> c, grant |-> k, parent |-> parent, revoked |-> FALSE, expired |-> FALSE]

MintFromCode(p) ==
  /\ At(p, "mint_code")
  /\ \E t \in Tokens :
       /\ ~Exists(t)
       /\ token' = [token EXCEPT ![t] = Row(call[p].client, call[p].code, None)]
  /\ Finish(p)
  /\ UNCHANGED <<client, code, issued, errors, history>>

---------------------------------------------------------------------------
(* refresh_token *)

\* Mutant of Refreshable: a revoked refresh token is accepted.
RefreshableRevoked(t) == Exists(t) /\ ~token[t].expired

Refreshable(t) == Live(t) /\ ~token[t].expired

FindOld(p, t) ==
  /\ At(p, "idle")
  /\ Refreshable(t)
  /\ call' = [call EXCEPT ![p] =
       [Idle EXCEPT !.pc = "old_client", !.old = t, !.code = token[t].grant,
                    !.client = token[t].client]]
  /\ raced' = [raced EXCEPT ![token[t].grant] = @ \/ HoldToken(t) # {}]
  /\ UNCHANGED <<store, errors, dead>>

FindOldClient(p) ==
  /\ At(p, "old_client")
  /\ \/ client[call[p].client] # "deleted" /\ Goto(p, "revoke_old")
     \/ Finish(p)
  /\ UNCHANGED <<store, errors, history>>

\* Mutant of RevokeOld: the update matches no row.
RevokeOldMissed(p) ==
  /\ At(p, "revoke_old")
  /\ Goto(p, "mint_refresh")
  /\ UNCHANGED <<store, errors, history>>

\* The number of rows the update changed is not looked at.
RevokeOld(p) ==
  /\ At(p, "revoke_old")
  /\ token' = [token EXCEPT ![call[p].old].revoked = TRUE]
  /\ Goto(p, "mint_refresh")
  /\ UNCHANGED <<client, code, issued, errors, history>>

MintFromRefresh(p) ==
  /\ At(p, "mint_refresh")
  /\ \E t \in Tokens :
       /\ ~Exists(t)
       /\ token' = [token EXCEPT ![t] = Row(call[p].client, call[p].code, call[p].old)]
  /\ Finish(p)
  /\ UNCHANGED <<client, code, issued, errors, history>>

---------------------------------------------------------------------------
(* revoke_token: both updates run and their errors are ignored. *)

Revoke(p, t, byAccess) ==
  /\ At(p, "idle")
  /\ Exists(t)
  /\ call' = [call EXCEPT ![p] =
       [Idle EXCEPT !.pc = "by_access", !.old = t, !.byAccess = byAccess]]
  /\ UNCHANGED <<store, errors, history>>

\* The row is revoked if the caller's string is the column the update names.
RevokeRow(p, hit) ==
  /\ token' = IF hit THEN [token EXCEPT ![call[p].old].revoked = TRUE] ELSE token
  /\ dead' = IF hit /\ HoldToken(call[p].old) = {} THEN dead \cup {call[p].old} ELSE dead

RevokeByAccess(p) ==
  /\ At(p, "by_access")
  /\ RevokeRow(p, call[p].byAccess)
  /\ Goto(p, "by_refresh")
  /\ UNCHANGED <<client, code, issued, errors, raced>>

RevokeByRefresh(p) ==
  /\ At(p, "by_refresh")
  /\ RevokeRow(p, ~call[p].byAccess)
  /\ Finish(p)
  /\ UNCHANGED <<client, code, issued, errors, raced>>

---------------------------------------------------------------------------
(* Failures, expiry, and the administration of clients. *)

\* A failed Redis or database call ends the request; revoke_token goes on.
CallFails(p) ==
  /\ errors < MaxErrors
  /\ errors' = errors + 1
  /\ ~At(p, "idle")
  /\ IF At(p, "by_access") THEN Goto(p, "by_refresh") ELSE Finish(p)
  /\ UNCHANGED <<store, history>>

\* The process stops: every request is gone, Redis and Postgres stay.
Crash ==
  /\ errors < MaxErrors
  /\ errors' = errors + 1
  /\ call' = [p \in Calls |-> Idle]
  /\ UNCHANGED <<store, history>>

CodeExpires(k) ==
  /\ code[k] # None
  /\ code' = [code EXCEPT ![k] = None]
  /\ UNCHANGED <<client, issued, token, call, errors, history>>

RefreshExpires(t) ==
  /\ Exists(t)
  /\ token' = [token EXCEPT ![t].expired = TRUE]
  /\ UNCHANGED <<client, code, issued, call, errors, history>>

\* update_client and delete_clients; a deleted row is not updated again.
SetClient(c, status) ==
  /\ client[c] # "deleted"
  /\ client' = [client EXCEPT ![c] = status]
  /\ UNCHANGED <<code, issued, token, call, errors, history>>

---------------------------------------------------------------------------
Next ==
  \/ \E p \in Calls :
       \/ \E c \in Clients : Authorize(p, c)
       \/ StoreCode(p)
       \/ \E k \in Codes : GetCode(p, k)
       \/ DelCode(p) \/ FindCodeClient(p) \/ MintFromCode(p)
       \/ \E t \in Tokens : FindOld(p, t)
       \/ FindOldClient(p) \/ RevokeOld(p) \/ MintFromRefresh(p)
       \/ \E t \in Tokens, byAccess \in BOOLEAN : Revoke(p, t, byAccess)
       \/ RevokeByAccess(p) \/ RevokeByRefresh(p)
       \/ CallFails(p)
  \/ Crash
  \/ \E k \in Codes : CodeExpires(k)
  \/ \E t \in Tokens : RefreshExpires(t)
  \/ \E c \in Clients, status \in {"active", "disabled", "deleted"} : SetClient(c, status)

Spec == Init /\ [][Next]_vars

---------------------------------------------------------------------------
CallType ==
  {Idle}
  \cup [pc : {"store_code"}, code : {None}, old : {None}, client : Clients, byAccess : BOOLEAN]
  \cup [pc : Exchanging, code : Codes, old : {None}, client : Clients, byAccess : BOOLEAN]
  \cup [pc : Refreshing, code : Codes, old : Tokens, client : Clients, byAccess : BOOLEAN]
  \cup [pc : {"by_access", "by_refresh"}, code : {None}, old : Tokens, client : {None},
        byAccess : BOOLEAN]

\* Types of the stores, the calls and the history; a call only names rows
\* that exist.
TypeOK ==
  /\ client \in [Clients -> {"active", "disabled", "deleted"}]
  /\ code \in [Codes -> Clients \cup {None}]
  /\ issued \subseteq Codes
  /\ token \in [Tokens -> RowType \cup {None}]
  /\ call \in [Calls -> CallType]
  /\ \A p \in Calls : call[p].old # None => Exists(call[p].old)
  /\ errors \in 0 .. MaxErrors
  /\ raced \in [Codes -> BOOLEAN]
  /\ dead \subseteq Tokens

\* What a grant can still be continued from: its code, while it is stored or
\* held by an exchange (written None), and its tokens that are live or held by
\* a refresh.
Stakes(k) ==
  {t \in Tokens : Exists(t) /\ token[t].grant = k /\ (Live(t) \/ HoldToken(t) # {})}
  \cup (IF code[k] # None \/ HoldCode(k) # {} THEN {None} ELSE {})

\* A grant is continued along one line: unless two calls held the same code or
\* token at once, at most one of its code and its tokens is usable, whatever
\* fails, expires or is revoked on the way (exchange_code, refresh_token).
OneLinePerGrant ==
  \A k \in Codes : ~raced[k] => \A x, y \in Stakes(k) : x = y

\* A refreshed token is revoked by the time its successor exists, also when
\* refreshes race or fail half way.
SuccessorMeansRevoked ==
  \A t \in Tokens :
    Exists(t) /\ token[t].parent # None => token[token[t].parent].revoked

\* Once a token is revoked and no refresh had already read it, nothing is ever
\* minted from it.
RevokedHasNoLateSuccessor ==
  [][\A t, u \in Tokens :
       t \in dead /\ ~Exists(u) /\ token'[u] # None => token'[u].parent # t]_vars

\* A code is single use: it becomes at most one token pair.
CodeSingleUse ==
  \A t, u \in Tokens :
    /\ Exists(t) /\ token[t].parent = None
    /\ Exists(u) /\ token[u].parent = None
    /\ token[t].grant = token[u].grant
    => t = u
=============================================================================
