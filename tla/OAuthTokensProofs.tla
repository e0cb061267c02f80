-------------------------- MODULE OAuthTokensProofs --------------------------
(* Theorems about OAuthTokens, for every value of its constants. *)
EXTENDS OAuthTokens, TLAPS

---------------------------------------------------------------------------
(* Types. *)

\* What a call's record holds at each of its steps.
LEMMA CallFacts ==
  ASSUME TypeOK, NEW p \in Calls
  PROVE  /\ call[p] \in CallType
         /\ At(p, "store_code") => call[p].client \in Clients
         /\ call[p].pc \in Exchanging =>
              /\ call[p].code \in Codes /\ call[p].old = None /\ call[p].client \in Clients
              /\ call[p].byAccess \in BOOLEAN
              /\ call[p] = [pc |-> call[p].pc, code |-> call[p].code, old |-> None,
                            client |-> call[p].client, byAccess |-> call[p].byAccess]
         /\ call[p].pc \in Refreshing =>
              /\ call[p].code \in Codes /\ call[p].old \in Tokens /\ call[p].client \in Clients
              /\ call[p].byAccess \in BOOLEAN /\ Exists(call[p].old)
              /\ call[p] = [pc |-> call[p].pc, code |-> call[p].code, old |-> call[p].old,
                            client |-> call[p].client, byAccess |-> call[p].byAccess]
         /\ call[p].pc \in {"by_access", "by_refresh"} =>
              /\ call[p].old \in Tokens /\ Exists(call[p].old) /\ call[p].byAccess \in BOOLEAN
              /\ call[p] = [pc |-> call[p].pc, code |-> None, old |-> call[p].old,
                            client |-> None, byAccess |-> call[p].byAccess]
<1>1. call[p] \in CallType /\ (call[p].old # None => Exists(call[p].old))
  BY DEF TypeOK
<1>2. QED
  BY <1>1, NoneAssumption DEF CallType, Idle, At, Exchanging, Refreshing

LEMMA RowFacts ==
  ASSUME TypeOK, NEW t \in Tokens, Exists(t)
  PROVE  token[t] \in RowType
  BY DEF TypeOK, Exists

\* A row that is revoked or expires keeps its type, and no row disappears.
LEMMA RowStep ==
  ASSUME TypeOK, NEW t \in Tokens, Exists(t),
         \/ token' = [token EXCEPT ![t].revoked = TRUE]
         \/ token' = [token EXCEPT ![t].expired = TRUE]
  PROVE  /\ token' \in [Tokens -> RowType \cup {None}]
         /\ \A u \in Tokens :
              /\ Exists(u)' <=> Exists(u)
              /\ Exists(u) => /\ token'[u].grant = token[u].grant
                              /\ token'[u].parent = token[u].parent
                              /\ token[u].revoked => token'[u].revoked
<1>1. token[t] \in RowType /\ token \in [Tokens -> RowType \cup {None}]
  BY RowFacts DEF TypeOK
<1>2. token'[t] \in RowType /\ token'[t] # None
      /\ token'[t].grant = token[t].grant /\ token'[t].parent = token[t].parent
      /\ (token[t].revoked => token'[t].revoked)
  <2>1. CASE token' = [token EXCEPT ![t].revoked = TRUE]
    BY <1>1, <2>1, NoneAssumption DEF RowType
  <2>2. CASE token' = [token EXCEPT ![t].expired = TRUE]
    BY <1>1, <2>2, NoneAssumption DEF RowType
  <2>3. QED
    BY <2>1, <2>2
<1>3. \A u \in Tokens : u # t => token'[u] = token[u]
  BY <1>1
<1>4. token' \in [Tokens -> RowType \cup {None}]
  BY <1>1, <1>2
<1>5. QED
  BY <1>2, <1>3, <1>4 DEF Exists

LEMMA IdleFacts ==
  Idle \in CallType /\ Idle.pc = "idle" /\ Idle.old = None /\ Idle.code = None
  BY DEF Idle, CallType

\* Replacing one call by a typed one, or all by Idle, keeps the calls typed as
\* long as no row disappears.
LEMMA CallTyped ==
  ASSUME TypeOK, NEW p \in Calls, NEW c \in CallType, c.old # None => c.old \in Tokens /\ Exists(c.old),
         call' = [call EXCEPT ![p] = c],
         \A u \in Tokens : Exists(u) => Exists(u)'
  PROVE  call' \in [Calls -> CallType] /\ (\A q \in Calls : call[q].old # None => Exists(call[q].old))'
<1>1. call' \in [Calls -> CallType]
  BY DEF TypeOK
<1>2. ASSUME NEW q \in Calls, call'[q].old # None PROVE token'[call'[q].old] # None
  <2>1. call'[q] \in {c, call[q]}
    BY DEF TypeOK
  <2>2. call'[q].old \in Tokens /\ Exists(call'[q].old)
    <3>1. CASE call'[q] = c
      BY <1>2, <3>1
    <3>2. CASE call'[q] = call[q]
      <4>1. call[q].old # None
        BY <1>2, <3>2
      <4>2. call[q].old \in Tokens
        <5>1. call[q] \in CallType
          BY CallFacts
        <5>2. QED
          BY <4>1, <5>1 DEF CallType, Idle
      <4>3. QED
        BY <3>2, <4>1, <4>2 DEF TypeOK
    <3>3. QED
      BY <2>1, <3>1, <3>2
  <2>3. QED
    BY <2>2 DEF Exists
<1>3. QED
  BY <1>1, <1>2 DEF Exists

LEMMA FinishTyped ==
  ASSUME TypeOK, NEW p \in Calls, Finish(p), \A u \in Tokens : Exists(u) => Exists(u)'
  PROVE  call' \in [Calls -> CallType] /\ (\A q \in Calls : call[q].old # None => Exists(call[q].old))'
  BY CallTyped, IdleFacts DEF Finish

\* A call that holds something moves to another step of the same kind.
LEMMA GotoTyped ==
  ASSUME TypeOK, NEW p \in Calls, NEW pc, Goto(p, pc), \A u \in Tokens : Exists(u) => Exists(u)',
         \/ call[p].pc \in Exchanging /\ pc \in Exchanging
         \/ call[p].pc \in Refreshing /\ pc \in Refreshing
         \/ call[p].pc = "by_access" /\ pc = "by_refresh"
  PROVE  call' \in [Calls -> CallType] /\ (\A q \in Calls : call[q].old # None => Exists(call[q].old))'
<1> DEFINE c == [call[p] EXCEPT !.pc = pc]
<1>1. call' = [call EXCEPT ![p] = c]
  BY DEF Goto
<1>2. CASE call[p].pc \in Exchanging /\ pc \in Exchanging
  <2>1. c = [pc |-> pc, code |-> call[p].code, old |-> None, client |-> call[p].client,
             byAccess |-> call[p].byAccess]
    <3>1. call[p] = [pc |-> call[p].pc, code |-> call[p].code, old |-> None,
                     client |-> call[p].client, byAccess |-> call[p].byAccess]
      BY <1>2, CallFacts
    <3>2. QED
      BY <3>1
  <2>2. c \in CallType /\ c.old = None
    <3>1. call[p].client \in Clients /\ call[p].code \in Codes /\ call[p].byAccess \in BOOLEAN
      BY <1>2, CallFacts
    <3>2. c \in [pc : Exchanging, code : Codes, old : {None}, client : Clients, byAccess : BOOLEAN]
      BY <1>2, <2>1, <3>1
    <3>3. QED
      BY <2>1, <3>2 DEF CallType
  <2>3. QED
    BY <1>1, <2>2, CallTyped
<1>3. CASE call[p].pc \in Refreshing /\ pc \in Refreshing
  <2>1. c = [pc |-> pc, code |-> call[p].code, old |-> call[p].old, client |-> call[p].client,
             byAccess |-> call[p].byAccess]
    <3>1. call[p] = [pc |-> call[p].pc, code |-> call[p].code, old |-> call[p].old,
                     client |-> call[p].client, byAccess |-> call[p].byAccess]
      BY <1>3, CallFacts
    <3>2. QED
      BY <3>1
  <2>2. c \in CallType /\ c.old \in Tokens /\ Exists(c.old)
    <3>1. call[p].client \in Clients /\ call[p].code \in Codes
          /\ call[p].old \in Tokens /\ Exists(call[p].old) /\ call[p].byAccess \in BOOLEAN
      BY <1>3, CallFacts
    <3>2. c \in [pc : Refreshing, code : Codes, old : Tokens, client : Clients, byAccess : BOOLEAN]
      BY <1>3, <2>1, <3>1
    <3>3. QED
      BY <2>1, <3>1, <3>2 DEF CallType
  <2>3. QED
    BY <1>1, <2>2, CallTyped
<1>4. CASE call[p].pc = "by_access" /\ pc = "by_refresh"
  <2>1. c = [pc |-> pc, code |-> None, old |-> call[p].old, client |-> None,
             byAccess |-> call[p].byAccess]
    <3>1. call[p] = [pc |-> call[p].pc, code |-> None, old |-> call[p].old,
                     client |-> None, byAccess |-> call[p].byAccess]
      BY <1>4, CallFacts
    <3>2. QED
      BY <3>1
  <2>2. c \in CallType /\ c.old \in Tokens /\ Exists(c.old)
    <3>1. call[p].old \in Tokens /\ Exists(call[p].old) /\ call[p].byAccess \in BOOLEAN
      BY <1>4, CallFacts
    <3>2. c \in [pc : {"by_access", "by_refresh"}, code : {None}, old : Tokens, client : {None},
             byAccess : BOOLEAN]
      BY <1>4, <2>1, <3>1
    <3>3. QED
      BY <2>1, <3>1, <3>2 DEF CallType
  <2>3. QED
    BY <1>1, <2>2, CallTyped
<1>5. QED
  BY <1>2, <1>3, <1>4

\* A new row has the right type.
LEMMA MintTyped ==
  ASSUME TypeOK, NEW t \in Tokens, ~Exists(t), NEW c \in Clients, NEW k \in Codes,
         NEW parent \in Tokens \cup {None}, token' = [token EXCEPT ![t] = Row(c, k, parent)]
  PROVE  /\ token' \in [Tokens -> RowType \cup {None}]
         /\ token'[t] = Row(c, k, parent) /\ Row(c, k, parent) # None
         /\ \A u \in Tokens : u # t => token'[u] = token[u]
         /\ \A u \in Tokens : Exists(u)' <=> Exists(u) \/ u = t
<1>1. Row(c, k, parent) \in RowType
  BY DEF Row, RowType
<1>2. QED
  BY <1>1, NoneAssumption DEF TypeOK, Exists

LEMMA RevokeRowFacts ==
  ASSUME TypeOK, NEW p \in Calls, NEW hit \in BOOLEAN, RevokeRow(p, hit),
         call[p].pc \in {"by_access", "by_refresh"}
  PROVE  /\ token' \in [Tokens -> RowType \cup {None}]
         /\ \A u \in Tokens :
              /\ Exists(u)' <=> Exists(u)
              /\ Exists(u) => /\ token'[u].grant = token[u].grant
                              /\ token'[u].parent = token[u].parent
                              /\ token[u].revoked => token'[u].revoked
         /\ dead' \subseteq Tokens
         /\ dead' \subseteq dead \/
              (dead' = dead \cup {call[p].old} /\ token'[call[p].old].revoked
               /\ HoldToken(call[p].old) = {})
<1>1. call[p].old \in Tokens /\ Exists(call[p].old)
  BY CallFacts
<1>2. CASE hit
  <2>1. token' = [token EXCEPT ![call[p].old].revoked = TRUE]
    BY <1>2 DEF RevokeRow
  <2>2. token'[call[p].old].revoked
    BY <1>1, <2>1, RowFacts DEF TypeOK, RowType
  <2>3. QED
    BY <1>1, <1>2, <2>1, <2>2, RowStep DEF RevokeRow, TypeOK
<1>3. CASE ~hit
  BY <1>3 DEF RevokeRow, TypeOK, Exists
<1>4. QED
  BY <1>2, <1>3

LEMMA RevokeOldFacts ==
  ASSUME TypeOK, NEW p \in Calls, RevokeOld(p)
  PROVE  /\ token' \in [Tokens -> RowType \cup {None}]
         /\ \A u \in Tokens :
              /\ Exists(u)' <=> Exists(u)
              /\ Exists(u) => /\ token'[u].grant = token[u].grant
                              /\ token'[u].parent = token[u].parent
                              /\ token[u].revoked => token'[u].revoked
         /\ token'[call[p].old].revoked
<1>1. call[p].old \in Tokens /\ Exists(call[p].old)
  BY CallFacts DEF RevokeOld, At, Refreshing
<1>2. token'[call[p].old].revoked
  BY <1>1, RowFacts DEF RevokeOld, TypeOK, RowType
<1>3. QED
  BY <1>1, <1>2, RowStep DEF RevokeOld

LEMMA InitTyped == Init => TypeOK
  BY IdleFacts, NoneAssumption, BoundAssumption DEF Init, TypeOK

LEMMA NextTyped ==
  ASSUME TypeOK, Next
  PROVE  TypeOK'
<1> USE DEF history, store
<1>0. /\ client \in [Clients -> {"active", "disabled", "deleted"}]
      /\ code \in [Codes -> Clients \cup {None}] /\ issued \subseteq Codes
      /\ token \in [Tokens -> RowType \cup {None}]
      /\ errors \in 0 .. MaxErrors /\ raced \in [Codes -> BOOLEAN] /\ dead \subseteq Tokens
  BY DEF TypeOK
<1> DEFINE CallsTyped == call \in [Calls -> CallType] /\ \A q \in Calls : call[q].old # None => Exists(call[q].old)
<1>1. ASSUME NEW p \in Calls, NEW c \in Clients, Authorize(p, c)
      PROVE  TypeOK'
  <2> DEFINE r == [Idle EXCEPT !.pc = "store_code", !.client = c]
  <2>1. r \in [pc : {"store_code"}, code : {None}, old : {None}, client : Clients, byAccess : BOOLEAN]
    BY DEF Idle
  <2> HIDE DEF r
  <2>2. r \in CallType /\ r.old = None
    BY <2>1 DEF CallType
  <2>3. call' = [call EXCEPT ![p] = r] /\ \A u \in Tokens : Exists(u) => Exists(u)'
    BY <1>1 DEF Authorize, Exists, r
  <2>4. CallsTyped'
    BY <2>2, <2>3, CallTyped
  <2>5. QED
    BY <1>0, <1>1, <2>4 DEF Authorize, TypeOK
<1>2. ASSUME NEW p \in Calls, StoreCode(p)
      PROVE  TypeOK'
  <2>1. CallsTyped'
    BY <1>2, FinishTyped DEF StoreCode, Exists
  <2>2. call[p].client \in Clients
    BY <1>2, CallFacts DEF StoreCode
  <2>3. QED
    BY <1>0, <1>2, <2>1, <2>2 DEF StoreCode, TypeOK
<1>3. ASSUME NEW p \in Calls, NEW k \in Codes, GetCode(p, k)
      PROVE  TypeOK'
  <2> DEFINE r == [Idle EXCEPT !.pc = "del_code", !.code = k, !.client = code[k]]
  <2>1. code[k] \in Clients
    BY <1>0, <1>3 DEF GetCode
  <2>2. r \in [pc : Exchanging, code : Codes, old : {None}, client : Clients, byAccess : BOOLEAN]
    BY <2>1 DEF Idle, Exchanging
  <2> HIDE DEF r
  <2>3. r \in CallType /\ r.old = None
    BY <2>2 DEF CallType
  <2>4. call' = [call EXCEPT ![p] = r] /\ \A u \in Tokens : Exists(u) => Exists(u)'
    BY <1>3 DEF GetCode, Exists, r
  <2>5. CallsTyped'
    BY <2>3, <2>4, CallTyped
  <2>6. raced' \in [Codes -> BOOLEAN]
    BY <1>0, <1>3 DEF GetCode
  <2>7. QED
    BY <1>0, <1>3, <2>5, <2>6 DEF GetCode, TypeOK
<1>4. ASSUME NEW p \in Calls, DelCode(p)
      PROVE  TypeOK'
  <2>1. CallsTyped'
    BY <1>4, GotoTyped DEF DelCode, Exists, At, Exchanging
  <2>2. QED
    BY <1>0, <1>4, <2>1 DEF DelCode, TypeOK
<1>5. ASSUME NEW p \in Calls, FindCodeClient(p)
      PROVE  TypeOK'
  <2>1. CallsTyped'
    BY <1>5, GotoTyped, FinishTyped DEF FindCodeClient, Exists, At, Exchanging
  <2>2. QED
    BY <1>0, <1>5, <2>1 DEF FindCodeClient, TypeOK
<1>6. ASSUME NEW p \in Calls, MintFromCode(p)
      PROVE  TypeOK'
  <2>1. call[p].client \in Clients /\ call[p].code \in Codes
    BY <1>6, CallFacts DEF MintFromCode, At, Exchanging
  <2>2. token' \in [Tokens -> RowType \cup {None}] /\ \A u \in Tokens : Exists(u) => Exists(u)'
    BY <1>6, <2>1, MintTyped DEF MintFromCode
  <2>3. CallsTyped'
    BY <1>6, <2>2, FinishTyped DEF MintFromCode
  <2>4. QED
    BY <1>0, <1>6, <2>2, <2>3 DEF MintFromCode, TypeOK
<1>7. ASSUME NEW p \in Calls, NEW t \in Tokens, FindOld(p, t)
      PROVE  TypeOK'
  <2> DEFINE r == [Idle EXCEPT !.pc = "old_client", !.old = t, !.code = token[t].grant,
                               !.client = token[t].client]
  <2>1. Exists(t) /\ token[t].grant \in Codes /\ token[t].client \in Clients
    BY <1>7, RowFacts DEF FindOld, Refreshable, Live, RowType
  <2>2. /\ r \in [pc : Refreshing, code : Codes, old : Tokens, client : Clients, byAccess : BOOLEAN]
        /\ r.old = t
    BY <2>1 DEF Idle, Refreshing
  <2> HIDE DEF r
  <2>3. r \in CallType
    BY <2>2 DEF CallType
  <2>4. call' = [call EXCEPT ![p] = r] /\ \A u \in Tokens : Exists(u) => Exists(u)'
    BY <1>7 DEF FindOld, Exists, r
  <2>5. CallsTyped'
    BY <2>1, <2>2, <2>3, <2>4, CallTyped
  <2>6. raced' \in [Codes -> BOOLEAN]
    BY <1>0, <1>7 DEF FindOld
  <2>7. QED
    BY <1>0, <1>7, <2>5, <2>6 DEF FindOld, TypeOK
<1>8. ASSUME NEW p \in Calls, FindOldClient(p)
      PROVE  TypeOK'
  <2>1. CallsTyped'
    BY <1>8, GotoTyped, FinishTyped DEF FindOldClient, Exists, At, Refreshing
  <2>2. QED
    BY <1>0, <1>8, <2>1 DEF FindOldClient, TypeOK
<1>9. ASSUME NEW p \in Calls, RevokeOld(p)
      PROVE  TypeOK'
  <2>1. token' \in [Tokens -> RowType \cup {None}] /\ \A u \in Tokens : Exists(u) => Exists(u)'
    BY <1>9, RevokeOldFacts
  <2>2. CallsTyped'
    BY <1>9, <2>1, GotoTyped DEF RevokeOld, At, Refreshing
  <2>3. QED
    BY <1>0, <1>9, <2>1, <2>2 DEF RevokeOld, TypeOK
<1>10. ASSUME NEW p \in Calls, MintFromRefresh(p)
       PROVE  TypeOK'
  <2>1. call[p].client \in Clients /\ call[p].code \in Codes /\ call[p].old \in Tokens
    BY <1>10, CallFacts DEF MintFromRefresh, At, Refreshing
  <2>2. token' \in [Tokens -> RowType \cup {None}] /\ \A u \in Tokens : Exists(u) => Exists(u)'
    <3>1. PICK t \in Tokens :
            ~Exists(t) /\ token' = [token EXCEPT ![t] = Row(call[p].client, call[p].code, call[p].old)]
      BY <1>10 DEF MintFromRefresh
    <3>2. call[p].old \in Tokens \cup {None}
      BY <2>1
    <3>3. QED
      BY <2>1, <3>1, <3>2, MintTyped
  <2>3. CallsTyped'
    BY <1>10, <2>2, FinishTyped DEF MintFromRefresh
  <2>4. QED
    BY <1>0, <1>10, <2>2, <2>3 DEF MintFromRefresh, TypeOK
<1>11. ASSUME NEW p \in Calls, NEW t \in Tokens, NEW byAccess \in BOOLEAN, Revoke(p, t, byAccess)
       PROVE  TypeOK'
  <2> DEFINE r == [Idle EXCEPT !.pc = "by_access", !.old = t, !.byAccess = byAccess]
  <2>1. /\ r \in [pc : {"by_access", "by_refresh"}, code : {None}, old : Tokens, client : {None},
                  byAccess : BOOLEAN]
        /\ r.old = t
    BY DEF Idle
  <2> HIDE DEF r
  <2>2. r \in CallType
    BY <2>1 DEF CallType
  <2>3. call' = [call EXCEPT ![p] = r] /\ Exists(t) /\ \A u \in Tokens : Exists(u) => Exists(u)'
    BY <1>11 DEF Revoke, Exists, r
  <2>4. CallsTyped'
    BY <2>1, <2>2, <2>3, CallTyped
  <2>5. QED
    BY <1>0, <1>11, <2>4 DEF Revoke, TypeOK
<1>12. ASSUME NEW p \in Calls, RevokeByAccess(p)
       PROVE  TypeOK'
  <2>1. call[p].pc = "by_access" /\ call[p].byAccess \in BOOLEAN
    BY <1>12, CallFacts DEF RevokeByAccess, At
  <2>2. token' \in [Tokens -> RowType \cup {None}] /\ dead' \subseteq Tokens
        /\ \A u \in Tokens : Exists(u) => Exists(u)'
    BY <1>12, <2>1, RevokeRowFacts DEF RevokeByAccess
  <2>3. CallsTyped'
    BY <1>12, <2>1, <2>2, GotoTyped DEF RevokeByAccess
  <2>4. QED
    BY <1>0, <1>12, <2>2, <2>3 DEF RevokeByAccess, TypeOK
<1>13. ASSUME NEW p \in Calls, RevokeByRefresh(p)
       PROVE  TypeOK'
  <2>1. call[p].pc = "by_refresh" /\ (~call[p].byAccess) \in BOOLEAN
    BY <1>13, CallFacts DEF RevokeByRefresh, At
  <2>2. token' \in [Tokens -> RowType \cup {None}] /\ dead' \subseteq Tokens
        /\ \A u \in Tokens : Exists(u) => Exists(u)'
    BY <1>13, <2>1, RevokeRowFacts DEF RevokeByRefresh
  <2>3. CallsTyped'
    BY <1>13, <2>1, <2>2, FinishTyped DEF RevokeByRefresh
  <2>4. QED
    BY <1>0, <1>13, <2>2, <2>3 DEF RevokeByRefresh, TypeOK
<1>14. ASSUME NEW p \in Calls, CallFails(p)
       PROVE  TypeOK'
  <2>1. CallsTyped'
    BY <1>14, GotoTyped, FinishTyped DEF CallFails, Exists, At
  <2>2. errors' \in 0 .. MaxErrors
    BY <1>0, <1>14, BoundAssumption DEF CallFails
  <2>3. QED
    BY <1>0, <1>14, <2>1, <2>2 DEF CallFails, TypeOK
<1>15. ASSUME Crash
       PROVE  TypeOK'
  <2>1. CallsTyped'
    BY <1>15, IdleFacts DEF Crash
  <2>2. errors' \in 0 .. MaxErrors
    BY <1>0, <1>15, BoundAssumption DEF Crash
  <2>3. QED
    BY <1>0, <1>15, <2>1, <2>2 DEF Crash, TypeOK
<1>16. ASSUME NEW k \in Codes, CodeExpires(k)
       PROVE  TypeOK'
  BY <1>0, <1>16 DEF CodeExpires, TypeOK, Exists
<1>17. ASSUME NEW t \in Tokens, RefreshExpires(t)
       PROVE  TypeOK'
  <2>1. token' \in [Tokens -> RowType \cup {None}] /\ \A u \in Tokens : Exists(u) => Exists(u)'
    BY <1>17, RowStep DEF RefreshExpires
  <2>2. call' = call /\ \A q \in Calls : call[q].old # None => call[q].old \in Tokens
    <3>1. call \in [Calls -> CallType] /\ call' = call
      BY <1>17 DEF RefreshExpires, TypeOK
    <3>2. \A r \in CallType : r.old \in Tokens \cup {None}
      BY DEF CallType, Idle
    <3>3. QED
      BY <3>1, <3>2
  <2>3. CallsTyped'
    BY <2>1, <2>2 DEF TypeOK
  <2>4. QED
    BY <1>0, <1>17, <2>1, <2>3 DEF RefreshExpires, TypeOK
<1>18. ASSUME NEW c \in Clients, NEW status \in {"active", "disabled", "deleted"}, SetClient(c, status)
       PROVE  TypeOK'
  BY <1>0, <1>18 DEF SetClient, TypeOK, Exists
<1>19. QED
  BY <1>1, <1>2, <1>3, <1>4, <1>5, <1>6, <1>7, <1>8, <1>9, <1>10, <1>11, <1>12, <1>13, <1>14,
     <1>15, <1>16, <1>17, <1>18 DEF Next

\* Stores, calls and history keep their types.
THEOREM TypeCorrect == Spec => []TypeOK
<1>1. TypeOK /\ UNCHANGED vars => TypeOK'
  BY DEF vars, store, history, TypeOK, Exists
<1>2. QED
  BY InitTyped, NextTyped, <1>1, PTL DEF Spec
---------------------------------------------------------------------------
(* One line per grant.  A call that reads a code or a token holds it until   *)
(* it mints from it or ends; without a second holder it is the only place    *)
(* the grant can be continued from.                                          *)

\* Codes in Redis, held codes and tokens belong to codes that were issued.
Grants ==
  /\ \A k \in Codes : code[k] # None => k \in issued
  /\ \A p \in Calls : call[p].pc \in Exchanging => call[p].code \in issued
  /\ \A t \in Tokens : Exists(t) => token[t].grant \in issued

\* A refresh continues the grant of the token it read, and mints only after
\* revoking it; parents stay.
Links ==
  /\ \A t \in Tokens : Exists(t) /\ token[t].parent # None => Exists(token[t].parent)
  /\ \A p \in Calls : call[p].pc \in Refreshing => call[p].code = token[call[p].old].grant
  /\ \A p \in Calls : call[p].pc = "mint_refresh" => token[call[p].old].revoked

\* A dead token is revoked and held by nobody.
DeadStays == \A t \in dead : Exists(t) /\ token[t].revoked /\ HoldToken(t) = {}

\* Without a race the code and each token of a grant have one holder, and the
\* code is gone once its holder has deleted it.
OneHolder ==
  \A k \in Codes : ~raced[k] =>
    /\ \A p, q \in HoldCode(k) : p = q
    /\ \A t \in Tokens : Exists(t) /\ token[t].grant = k => \A p, q \in HoldToken(t) : p = q
    /\ \A p \in HoldCode(k) : call[p].pc # "del_code" => code[k] = None

GrantInv ==
  TypeOK /\ Grants /\ Links /\ DeadStays /\ SuccessorMeansRevoked /\ OneHolder /\ OneLinePerGrant

LEMMA InitGrants == Init => GrantInv
<1> SUFFICES ASSUME Init PROVE GrantInv
  OBVIOUS
<1>1. \A p \in Calls : call[p].pc = "idle"
  BY IdleFacts DEF Init
<1>2. \A k \in Codes : HoldCode(k) = {}
  BY <1>1 DEF HoldCode, Exchanging
<1>3. \A t \in Tokens : ~Exists(t)
  BY DEF Init, Exists
<1>4. Grants /\ Links /\ DeadStays /\ SuccessorMeansRevoked
  BY <1>1, <1>3 DEF Init, Grants, Links, DeadStays, SuccessorMeansRevoked, Exchanging, Refreshing
<1>5. OneHolder
  BY <1>2, <1>3 DEF OneHolder
<1>6. OneLinePerGrant
  BY <1>2, <1>3 DEF Init, OneLinePerGrant, Stakes
<1>7. QED
  BY <1>4, <1>5, <1>6, InitTyped DEF GrantInv

\* Steps after which nobody holds more and nothing more is stored.
NothingGained ==
  /\ \A p \in Calls : call'[p].pc \in Exchanging =>
       /\ call[p].pc \in Exchanging /\ call'[p].code = call[p].code
       /\ call'[p].pc # "del_code" => call[p].pc # "del_code" \/ code'[call[p].code] = None
  /\ \A p \in Calls : call'[p].pc \in Refreshing =>
       /\ call[p].pc \in Refreshing /\ call'[p].code = call[p].code /\ call'[p].old = call[p].old
       /\ call'[p].pc = "mint_refresh" => call[p].pc = "mint_refresh" \/ token'[call[p].old].revoked
  /\ \A t \in Tokens :
       /\ Exists(t)' <=> Exists(t)
       /\ Exists(t) => /\ token'[t].grant = token[t].grant
                       /\ token'[t].parent = token[t].parent
                       /\ token[t].revoked => token'[t].revoked
  /\ \A k \in Codes : code'[k] \in {code[k], None}
  /\ \A t \in dead' : t \in dead \/ (Exists(t) /\ token'[t].revoked /\ HoldToken(t) = {})
  /\ UNCHANGED <<issued, raced>>

LEMMA LessIsSafe ==
  ASSUME GrantInv, TypeOK', NothingGained
  PROVE  GrantInv'
<1>1. /\ \A k \in Codes : HoldCode(k)' \subseteq HoldCode(k)
      /\ \A t \in Tokens : HoldToken(t)' \subseteq HoldToken(t)
  BY DEF NothingGained, HoldCode, HoldToken
<1>2. /\ \A p \in Calls : call[p].pc \in Refreshing => call[p].old \in Tokens /\ Exists(call[p].old)
      /\ \A p \in Calls : call[p].pc \in Exchanging => call[p].code \in Codes
      /\ dead \subseteq Tokens /\ dead' \subseteq Tokens
  BY CallFacts DEF GrantInv, TypeOK
<1>3. Grants'
  BY <1>2 DEF GrantInv, Grants, NothingGained
<1>4. Links'
  <2>1. \A t \in Tokens : Exists(t)' /\ token'[t].parent # None => Exists(token[t].parent)'
    <3> TAKE t \in Tokens
    <3> HAVE Exists(t)' /\ token'[t].parent # None
    <3>1. Exists(t) /\ token'[t].parent = token[t].parent
      BY DEF NothingGained
    <3>2. token[t].parent \in Tokens /\ Exists(token[t].parent)
      BY <3>1, RowFacts DEF GrantInv, Links, RowType
    <3>3. QED
      BY <3>1, <3>2 DEF NothingGained, Exists
  <2>2. \A p \in Calls : call'[p].pc \in Refreshing => call'[p].code = token'[call'[p].old].grant
    BY <1>2 DEF GrantInv, Links, NothingGained
  <2>3. \A p \in Calls : call'[p].pc = "mint_refresh" => token'[call'[p].old].revoked
    <3> TAKE p \in Calls
    <3> HAVE call'[p].pc = "mint_refresh"
    <3>1. /\ call[p].pc \in Refreshing /\ call'[p].old = call[p].old
          /\ call[p].pc = "mint_refresh" \/ token'[call[p].old].revoked
      BY DEF NothingGained, Refreshing
    <3>2. QED
      BY <1>2, <3>1 DEF GrantInv, Links, NothingGained
  <2>4. QED
    BY <2>1, <2>2, <2>3 DEF Links
<1>5. DeadStays'
  BY <1>1, <1>2 DEF GrantInv, DeadStays, NothingGained
<1>6. SuccessorMeansRevoked'
  <2> SUFFICES ASSUME NEW t \in Tokens, Exists(t)', token'[t].parent # None
               PROVE  token'[token'[t].parent].revoked
    BY DEF SuccessorMeansRevoked
  <2>1. Exists(t) /\ token'[t].parent = token[t].parent
    BY DEF NothingGained
  <2>2. token[t].parent \in Tokens /\ Exists(token[t].parent) /\ token[token[t].parent].revoked
    BY <2>1, RowFacts DEF GrantInv, Links, RowType, SuccessorMeansRevoked
  <2>3. QED
    BY <2>1, <2>2 DEF NothingGained
<1>7. OneHolder'
  <2> SUFFICES ASSUME NEW k \in Codes, ~raced[k]
               PROVE  /\ \A p, q \in HoldCode(k)' : p = q
                      /\ \A t \in Tokens : Exists(t)' /\ token'[t].grant = k =>
                           \A p, q \in HoldToken(t)' : p = q
                      /\ \A p \in HoldCode(k)' : call'[p].pc # "del_code" => code'[k] = None
    BY DEF OneHolder, NothingGained
  <2>1. /\ \A p, q \in HoldCode(k) : p = q
        /\ \A t \in Tokens : Exists(t) /\ token[t].grant = k => \A p, q \in HoldToken(t) : p = q
        /\ \A p \in HoldCode(k) : call[p].pc # "del_code" => code[k] = None
    BY DEF GrantInv, OneHolder
  <2>2. \A t \in Tokens : Exists(t)' /\ token'[t].grant = k => Exists(t) /\ token[t].grant = k
    BY DEF NothingGained
  <2>3. \A p \in HoldCode(k)' : call'[p].pc # "del_code" => code'[k] = None
    <3> TAKE p \in HoldCode(k)'
    <3> HAVE call'[p].pc # "del_code"
    <3>1. p \in HoldCode(k) /\ p \in Calls /\ call[p].code = k /\ call'[p].pc \in Exchanging
      BY <1>1 DEF HoldCode
    <3>2. call[p].pc # "del_code" \/ code'[k] = None
      BY <3>1 DEF NothingGained
    <3>3. QED
      BY <2>1, <3>1, <3>2 DEF NothingGained
  <2>4. QED
    BY <1>1, <2>1, <2>2, <2>3
<1>8. OneLinePerGrant'
  <2>1. ASSUME NEW k \in Codes PROVE Stakes(k)' \subseteq Stakes(k)
    <3>1. \A t \in Tokens : Live(t)' => Live(t)
      <4> TAKE t \in Tokens
      <4> HAVE Live(t)'
      <4>1. Exists(t) /\ (token[t].revoked => token'[t].revoked) /\ ~token'[t].revoked
        BY DEF Live, NothingGained
      <4>2. QED
        BY <4>1 DEF Live
    <3>2. code'[k] # None \/ HoldCode(k)' # {} => code[k] # None \/ HoldCode(k) # {}
      BY <1>1 DEF NothingGained
    <3>3. \A t \in Tokens : Exists(t)' /\ token'[t].grant = k => Exists(t) /\ token[t].grant = k
      BY DEF NothingGained
    <3>4. QED
      BY <1>1, <3>1, <3>2, <3>3 DEF Stakes
  <2>2. QED
    BY <2>1 DEF GrantInv, OneLinePerGrant, NothingGained
<1>9. QED
  BY <1>3, <1>4, <1>5, <1>6, <1>7, <1>8 DEF GrantInv

\* Steps of a call that holds nothing afterwards, or moves on with what it held.
LEMMA OneCallGainsNothing ==
  ASSUME TypeOK, NEW p \in Calls, NEW c, call' = [call EXCEPT ![p] = c],
         UNCHANGED <<token, issued, raced, dead>>, \A k \in Codes : code'[k] \in {code[k], None},
         \/ c.pc \notin Exchanging \cup Refreshing
         \/ /\ call[p].pc \in Exchanging /\ c.pc \in Exchanging \ {"del_code"}
            /\ c.code = call[p].code
            /\ call[p].pc # "del_code" \/ code'[call[p].code] = None
         \/ /\ call[p].pc \in Refreshing /\ c.pc \in Refreshing \ {"mint_refresh"}
            /\ c.code = call[p].code /\ c.old = call[p].old
  PROVE  NothingGained
<1>1. call'[p] = c /\ \A q \in Calls : q # p => call'[q] = call[q]
  BY DEF TypeOK
<1>2. \A t \in Tokens : Exists(t)' <=> Exists(t)
  BY DEF Exists
<1>3. Exchanging \cap Refreshing = {}
  BY DEF Exchanging, Refreshing
<1>4. \A q \in Calls : call'[q].pc \in Exchanging =>
        /\ call[q].pc \in Exchanging /\ call'[q].code = call[q].code
        /\ call'[q].pc # "del_code" => call[q].pc # "del_code" \/ code'[call[q].code] = None
  BY <1>1, <1>3
<1>5. \A q \in Calls : call'[q].pc \in Refreshing =>
        /\ call[q].pc \in Refreshing /\ call'[q].code = call[q].code /\ call'[q].old = call[q].old
        /\ call'[q].pc = "mint_refresh" => call[q].pc = "mint_refresh" \/ token'[call[q].old].revoked
  BY <1>1, <1>3
<1>6. QED
  BY <1>2, <1>4, <1>5 DEF NothingGained

LEMMA FinishGainsNothing ==
  ASSUME TypeOK, NEW p \in Calls, Finish(p), UNCHANGED <<code, token, issued, raced, dead>>
  PROVE  NothingGained
<1>1. Idle.pc \notin Exchanging \cup Refreshing
  BY IdleFacts DEF Exchanging, Refreshing
<1>2. QED
  BY <1>1, OneCallGainsNothing DEF Finish

\* The fields of a call that moves on.
LEMMA GotoFacts ==
  ASSUME TypeOK, NEW p \in Calls, NEW pc, Goto(p, pc),
         call[p].pc \in Exchanging \cup Refreshing \cup {"by_access"}
  PROVE  /\ call'[p].pc = pc /\ call'[p].code = call[p].code /\ call'[p].old = call[p].old
         /\ \A q \in Calls : q # p => call'[q] = call[q]
         /\ call' = [call EXCEPT ![p] = call'[p]]
<1>1. /\ call'[p] = [call[p] EXCEPT !.pc = pc] /\ \A q \in Calls : q # p => call'[q] = call[q]
      /\ call' = [call EXCEPT ![p] = call'[p]]
  BY DEF Goto, TypeOK
<1>2. CASE call[p].pc \in Exchanging
  <2>1. call[p] = [pc |-> call[p].pc, code |-> call[p].code, old |-> None,
                   client |-> call[p].client, byAccess |-> call[p].byAccess]
    BY <1>2, CallFacts
  <2>2. QED
    BY <1>1, <2>1
<1>3. CASE call[p].pc \in Refreshing
  <2>1. call[p] = [pc |-> call[p].pc, code |-> call[p].code, old |-> call[p].old,
                   client |-> call[p].client, byAccess |-> call[p].byAccess]
    BY <1>3, CallFacts
  <2>2. QED
    BY <1>1, <2>1
<1>4. CASE call[p].pc = "by_access"
  <2>1. call[p] = [pc |-> call[p].pc, code |-> None, old |-> call[p].old,
                   client |-> None, byAccess |-> call[p].byAccess]
    BY <1>4, CallFacts
  <2>2. QED
    BY <1>1, <2>1
<1>5. QED
  BY <1>2, <1>3, <1>4

\* revoke_token only takes away.
LEMMA RevokeRowGainsNothing ==
  ASSUME TypeOK, NEW p \in Calls, NEW hit \in BOOLEAN, RevokeRow(p, hit),
         call[p].pc \in {"by_access", "by_refresh"}, Finish(p) \/ Goto(p, "by_refresh"),
         call[p].pc = "by_access" \/ Finish(p), UNCHANGED <<code, issued, raced>>
  PROVE  NothingGained
<1>1. /\ call'[p].pc \notin Exchanging \cup Refreshing
      /\ \A q \in Calls : q # p => call'[q] = call[q]
  <2>1. CASE Finish(p)
    BY <2>1, IdleFacts DEF Finish, TypeOK, Exchanging, Refreshing
  <2>2. CASE call[p].pc = "by_access" /\ Goto(p, "by_refresh")
    BY <2>2, GotoFacts DEF Exchanging, Refreshing
  <2>3. QED
    BY <2>1, <2>2
<1>2. /\ \A u \in Tokens :
           /\ Exists(u)' <=> Exists(u)
           /\ Exists(u) => /\ token'[u].grant = token[u].grant
                           /\ token'[u].parent = token[u].parent
                           /\ token[u].revoked => token'[u].revoked
      /\ dead' \subseteq dead \/
           (dead' = dead \cup {call[p].old} /\ token'[call[p].old].revoked
            /\ HoldToken(call[p].old) = {})
  BY RevokeRowFacts
<1>3. Exists(call[p].old)
  BY CallFacts
<1>4. \A t \in dead' : t \in dead \/ (Exists(t) /\ token'[t].revoked /\ HoldToken(t) = {})
  BY <1>2, <1>3
<1>5. \A q \in Calls : call'[q].pc \in Exchanging \cup Refreshing => call'[q] = call[q]
  BY <1>1
<1>6. QED
  BY <1>2, <1>4, <1>5 DEF NothingGained

\* The code goes to its only holder.
LEMMA GetCodeSafe ==
  ASSUME GrantInv, TypeOK', NEW p \in Calls, NEW k \in Codes, GetCode(p, k)
  PROVE  GrantInv'
<1> DEFINE r == [Idle EXCEPT !.pc = "del_code", !.code = k, !.client = code[k]]
<1>1. r.pc = "del_code" /\ r.code = k
  BY DEF Idle
<1> HIDE DEF r
<1>2. /\ call'[p] = r /\ \A q \in Calls : q # p => call'[q] = call[q]
      /\ UNCHANGED <<client, code, issued, token, dead>>
      /\ code[k] # None /\ call[p].pc = "idle"
  BY DEF GetCode, At, GrantInv, TypeOK, store, r
<1>3. \A t \in Tokens : (Exists(t)' <=> Exists(t)) /\ (Live(t)' <=> Live(t))
  BY <1>2 DEF Live, Exists
<1>4. /\ \A t \in Tokens : HoldToken(t)' = HoldToken(t)
      /\ HoldCode(k)' = HoldCode(k) \cup {p}
      /\ \A j \in Codes : j # k => HoldCode(j)' = HoldCode(j)
  BY <1>1, <1>2 DEF HoldToken, HoldCode, Exchanging, Refreshing
<1>5. /\ \A j \in Codes : raced[j] => raced'[j]
      /\ ~raced'[k] => HoldCode(k) = {}
  BY DEF GetCode, GrantInv, TypeOK
<1>6. Grants' /\ Links' /\ SuccessorMeansRevoked'
  <2>1. Exchanging \cap Refreshing = {} /\ "mint_refresh" \notin Exchanging
        /\ "mint_refresh" \in Refreshing /\ "del_code" \in Exchanging /\ "old_client" \in Refreshing
    BY DEF Exchanging, Refreshing
  <2>2. Grants'
    BY <1>1, <1>2, <1>3, <2>1 DEF GrantInv, Grants
  <2>3. Links'
    BY <1>1, <1>2, <2>1 DEF GrantInv, Links, Exists
  <2>4. SuccessorMeansRevoked'
    BY <1>2 DEF GrantInv, SuccessorMeansRevoked, Exists
  <2>5. QED
    BY <2>2, <2>3, <2>4
<1>7. DeadStays'
  BY <1>2, <1>3, <1>4 DEF GrantInv, DeadStays, TypeOK
<1>8. OneHolder'
  <2> SUFFICES ASSUME NEW j \in Codes, ~raced'[j]
               PROVE  /\ \A x, y \in HoldCode(j)' : x = y
                      /\ \A t \in Tokens : Exists(t)' /\ token'[t].grant = j =>
                           \A x, y \in HoldToken(t)' : x = y
                      /\ \A x \in HoldCode(j)' : call'[x].pc # "del_code" => code'[j] = None
    BY DEF OneHolder
  <2>1. /\ \A x, y \in HoldCode(j) : x = y
        /\ \A t \in Tokens : Exists(t) /\ token[t].grant = j => \A x, y \in HoldToken(t) : x = y
        /\ \A x \in HoldCode(j) : call[x].pc # "del_code" => code[j] = None
    BY <1>5 DEF GrantInv, OneHolder
  <2>2. \A t \in Tokens : Exists(t)' /\ token'[t].grant = j => \A x, y \in HoldToken(t)' : x = y
    BY <1>2, <1>3, <1>4, <2>1
  <2>3. CASE j = k
    <3>1. HoldCode(j)' = {p}
      BY <1>4, <1>5, <2>3
    <3>2. QED
      BY <1>1, <1>2, <2>2, <3>1
  <2>4. CASE j # k
    <3>1. HoldCode(j)' = HoldCode(j) /\ p \notin HoldCode(j) /\ HoldCode(j) \subseteq Calls
      BY <1>2, <1>4, <2>4 DEF HoldCode, Exchanging
    <3>2. QED
      BY <1>2, <2>1, <2>2, <3>1
  <2>5. QED
    BY <2>3, <2>4
<1>9. OneLinePerGrant'
  <2>1. ASSUME NEW j \in Codes PROVE Stakes(j)' \subseteq Stakes(j)
    BY <1>2, <1>3, <1>4 DEF Stakes
  <2>2. QED
    BY <1>5, <2>1 DEF GrantInv, OneLinePerGrant
<1>10. QED
  BY <1>6, <1>7, <1>8, <1>9 DEF GrantInv

\* A live token goes to its only holder.
LEMMA FindOldSafe ==
  ASSUME GrantInv, TypeOK', NEW p \in Calls, NEW t \in Tokens, FindOld(p, t)
  PROVE  GrantInv'
<1> DEFINE g == token[t].grant
<1> DEFINE r == [Idle EXCEPT !.pc = "old_client", !.old = t, !.code = token[t].grant,
                             !.client = token[t].client]
<1>1. r.pc = "old_client" /\ r.old = t /\ r.code = g
  BY DEF Idle
<1> HIDE DEF r
<1>2. /\ call'[p] = r /\ \A q \in Calls : q # p => call'[q] = call[q]
      /\ UNCHANGED <<client, code, issued, token, dead>>
      /\ Live(t) /\ Exists(t) /\ ~token[t].revoked /\ call[p].pc = "idle"
  BY DEF FindOld, Refreshable, Live, At, GrantInv, TypeOK, store, r
<1>3. \A u \in Tokens : (Exists(u)' <=> Exists(u)) /\ (Live(u)' <=> Live(u))
  BY <1>2 DEF Live, Exists
<1>4. /\ \A j \in Codes : HoldCode(j)' = HoldCode(j)
      /\ HoldToken(t)' = HoldToken(t) \cup {p}
      /\ \A u \in Tokens : u # t => HoldToken(u)' = HoldToken(u)
  BY <1>1, <1>2 DEF HoldToken, HoldCode, Exchanging, Refreshing
<1>5. /\ g \in Codes
      /\ \A j \in Codes : raced[j] => raced'[j]
      /\ ~raced'[g] => HoldToken(t) = {}
  BY <1>2, RowFacts DEF FindOld, GrantInv, TypeOK, RowType
<1>6. Grants' /\ Links' /\ SuccessorMeansRevoked'
  <2>1. Exchanging \cap Refreshing = {} /\ "mint_refresh" \notin Exchanging
        /\ "mint_refresh" \in Refreshing /\ "del_code" \in Exchanging /\ "old_client" \in Refreshing
    BY DEF Exchanging, Refreshing
  <2>2. Grants'
    BY <1>1, <1>2, <1>3, <2>1 DEF GrantInv, Grants
  <2>3. Links'
    BY <1>1, <1>2, <2>1 DEF GrantInv, Links, Exists
  <2>4. SuccessorMeansRevoked'
    BY <1>2 DEF GrantInv, SuccessorMeansRevoked, Exists
  <2>5. QED
    BY <2>2, <2>3, <2>4
<1>7. DeadStays'
  BY <1>2, <1>3, <1>4 DEF GrantInv, DeadStays, TypeOK
<1>8. OneHolder'
  <2> SUFFICES ASSUME NEW j \in Codes, ~raced'[j]
               PROVE  /\ \A x, y \in HoldCode(j)' : x = y
                      /\ \A u \in Tokens : Exists(u)' /\ token'[u].grant = j =>
                           \A x, y \in HoldToken(u)' : x = y
                      /\ \A x \in HoldCode(j)' : call'[x].pc # "del_code" => code'[j] = None
    BY DEF OneHolder
  <2>1. /\ \A x, y \in HoldCode(j) : x = y
        /\ \A u \in Tokens : Exists(u) /\ token[u].grant = j => \A x, y \in HoldToken(u) : x = y
        /\ \A x \in HoldCode(j) : call[x].pc # "del_code" => code[j] = None
    BY <1>5 DEF GrantInv, OneHolder
  <2>2. p \notin HoldCode(j) /\ HoldCode(j) \subseteq Calls
    BY <1>2 DEF HoldCode, Exchanging
  <2>3. ASSUME NEW u \in Tokens, Exists(u)', token'[u].grant = j, NEW x \in HoldToken(u)',
               NEW y \in HoldToken(u)'
        PROVE  x = y
    <3>1. CASE u = t
      BY <1>2, <1>4, <1>5, <2>3, <3>1
    <3>2. CASE u # t
      BY <1>2, <1>3, <1>4, <2>1, <2>3, <3>2
    <3>3. QED
      BY <3>1, <3>2
  <2>4. QED
    BY <1>2, <1>4, <2>1, <2>2, <2>3
<1>9. OneLinePerGrant'
  <2>1. ASSUME NEW j \in Codes PROVE Stakes(j)' \subseteq Stakes(j)
    BY <1>2, <1>3, <1>4 DEF Stakes
  <2>2. QED
    BY <1>5, <2>1 DEF GrantInv, OneLinePerGrant
<1>10. QED
  BY <1>6, <1>7, <1>8, <1>9 DEF GrantInv

\* A new code starts a new grant.
LEMMA StoreCodeSafe ==
  ASSUME GrantInv, TypeOK', NEW p \in Calls, StoreCode(p)
  PROVE  GrantInv'
<1>1. PICK k \in Codes \ issued :
        code' = [code EXCEPT ![k] = call[p].client] /\ issued' = issued \cup {k}
  BY DEF StoreCode
<1>2. /\ call'[p] = Idle /\ \A q \in Calls : q # p => call'[q] = call[q]
      /\ UNCHANGED <<token, raced, dead>> /\ call[p].pc = "store_code" /\ Idle.pc = "idle"
  BY IdleFacts DEF StoreCode, Finish, At, GrantInv, TypeOK, history
<1>3. \A j \in Codes : j # k => code'[j] = code[j]
  BY <1>1 DEF GrantInv, TypeOK
<1>4. \A t \in Tokens : (Exists(t)' <=> Exists(t)) /\ (Live(t)' <=> Live(t))
  BY <1>2 DEF Live, Exists
<1>5. /\ \A t \in Tokens : HoldToken(t)' = HoldToken(t)
      /\ \A j \in Codes : HoldCode(j)' = HoldCode(j) /\ p \notin HoldCode(j)
  BY <1>2 DEF HoldToken, HoldCode, Exchanging, Refreshing
<1>6. HoldCode(k) = {} /\ \A t \in Tokens : Exists(t) => token[t].grant # k
  BY <1>1 DEF GrantInv, Grants, HoldCode
<1>7. Idle.pc \notin Exchanging \cup Refreshing /\ Idle.pc # "mint_refresh"
  BY <1>2 DEF Exchanging, Refreshing
<1>8. Grants'
  BY <1>1, <1>2, <1>3, <1>4, <1>7 DEF GrantInv, Grants
<1>9. Links'
  BY <1>2, <1>7 DEF GrantInv, Links, Exists
<1>10. SuccessorMeansRevoked'
  BY <1>2 DEF GrantInv, SuccessorMeansRevoked, Exists
<1>11. DeadStays'
  BY <1>2, <1>4, <1>5 DEF GrantInv, DeadStays, TypeOK
<1>12. OneHolder'
  <2> SUFFICES ASSUME NEW j \in Codes, ~raced[j]
               PROVE  /\ \A x, y \in HoldCode(j)' : x = y
                      /\ \A t \in Tokens : Exists(t)' /\ token'[t].grant = j =>
                           \A x, y \in HoldToken(t)' : x = y
                      /\ \A x \in HoldCode(j)' : call'[x].pc # "del_code" => code'[j] = None
    BY <1>2 DEF OneHolder
  <2>1. /\ \A x, y \in HoldCode(j) : x = y
        /\ \A t \in Tokens : Exists(t) /\ token[t].grant = j => \A x, y \in HoldToken(t) : x = y
        /\ \A x \in HoldCode(j) : call[x].pc # "del_code" => code[j] = None
    BY DEF GrantInv, OneHolder
  <2>2. \A x \in HoldCode(j)' : call'[x].pc # "del_code" => code'[j] = None
    <3> TAKE x \in HoldCode(j)'
    <3>1. x \in HoldCode(j) /\ x # p /\ x \in Calls /\ j # k
      BY <1>5, <1>6 DEF HoldCode
    <3>2. QED
      BY <1>2, <1>3, <2>1, <3>1
  <2>3. QED
    BY <1>2, <1>4, <1>5, <2>1, <2>2
<1>13. OneLinePerGrant'
  <2>1. ASSUME NEW j \in Codes, j # k PROVE Stakes(j)' \subseteq Stakes(j)
    BY <1>2, <1>3, <1>4, <1>5, <2>1 DEF Stakes
  <2>2. Stakes(k)' \subseteq {None}
    BY <1>2, <1>4, <1>6 DEF Stakes
  <2>3. QED
    BY <1>2, <2>1, <2>2 DEF GrantInv, OneLinePerGrant
<1>14. QED
  BY <1>8, <1>9, <1>10, <1>11, <1>12, <1>13 DEF GrantInv

\* A minted pair takes the place of the code or token its call held.
LEMMA MintSafe ==
  ASSUME GrantInv, TypeOK', NEW p \in Calls, MintFromCode(p) \/ MintFromRefresh(p)
  PROVE  GrantInv'
<1> DEFINE g == call[p].code
<1> DEFINE old == IF At(p, "mint_code") THEN None ELSE call[p].old
<1>1. /\ call'[p] = Idle /\ \A q \in Calls : q # p => call'[q] = call[q]
      /\ UNCHANGED <<code, issued, raced, dead>> /\ Idle.pc = "idle"
      /\ call[p].pc \in {"mint_code", "mint_refresh"}
  BY IdleFacts DEF MintFromCode, MintFromRefresh, Finish, At, GrantInv, TypeOK, history
<1>2. /\ g \in Codes /\ call[p].client \in Clients
      /\ old = None \/ (old \in Tokens /\ old = call[p].old /\ Exists(old)
                        /\ call[p].pc = "mint_refresh")
      /\ old = None => call[p].pc = "mint_code"
  <2>1. CASE call[p].pc = "mint_code"
    BY <2>1, CallFacts DEF GrantInv, At, Exchanging
  <2>2. CASE call[p].pc = "mint_refresh"
    <3>1. call[p].pc \in Refreshing
      BY <2>2 DEF Refreshing
    <3>2. g \in Codes /\ call[p].client \in Clients /\ call[p].old \in Tokens /\ Exists(call[p].old)
      BY <3>1, CallFacts DEF GrantInv
    <3>3. old = call[p].old
      BY <2>2 DEF At
    <3>4. QED
      BY <2>2, <3>2, <3>3, NoneAssumption
  <2>3. QED
    BY <1>1, <2>1, <2>2
<1>3. PICK t \in Tokens : ~Exists(t) /\ token' = [token EXCEPT ![t] = Row(call[p].client, g, old)]
  BY <1>1 DEF MintFromCode, MintFromRefresh, At
<1>4. /\ token'[t] = Row(call[p].client, g, old)
      /\ \A u \in Tokens : u # t => token'[u] = token[u]
      /\ \A u \in Tokens : Exists(u)' <=> Exists(u) \/ u = t
  BY <1>2, <1>3, MintTyped DEF GrantInv
<1>5. token'[t].grant = g /\ token'[t].parent = old
  BY <1>4 DEF Row
<1>6. old # None => token[old].grant = g /\ token[old].revoked /\ old # t
  BY <1>2, <1>3 DEF GrantInv, Links, Refreshing
<1>7. /\ g \in issued
      /\ p \in HoldCode(g) \/ (old # None /\ p \in HoldToken(old))
  <2>1. CASE call[p].pc = "mint_code"
    BY <2>1 DEF GrantInv, Grants, HoldCode, Exchanging
  <2>2. CASE call[p].pc = "mint_refresh"
    <3>1. old # None
      BY <1>2, <2>2
    <3>2. QED
      BY <1>2, <1>6, <2>2, <3>1 DEF GrantInv, Grants, HoldToken, Refreshing
  <2>3. QED
    BY <1>1, <2>1, <2>2
<1>8. Idle.pc \notin Exchanging \cup Refreshing /\ Idle.pc # "mint_refresh"
  BY <1>1 DEF Exchanging, Refreshing
<1>9. /\ \A j \in Codes : HoldCode(j)' = HoldCode(j) \ {p}
      /\ \A u \in Tokens : HoldToken(u)' = HoldToken(u) \ {p}
      /\ HoldToken(t) = {}
  <2>1. HoldToken(t) = {}
    BY <1>3, CallFacts DEF HoldToken, GrantInv
  <2>2. QED
    BY <1>1, <1>8, <2>1 DEF HoldCode, HoldToken
<1>10. Grants'
  BY <1>1, <1>4, <1>5, <1>7, <1>8 DEF GrantInv, Grants
<1>11. \A u \in Tokens : Exists(u) /\ token[u].parent # None =>
         token[u].parent \in Tokens /\ token[u].parent # t /\ Exists(token[u].parent)
         /\ token[token[u].parent].revoked
  BY <1>3, RowFacts DEF GrantInv, Links, SuccessorMeansRevoked, RowType
<1>12. Links'
  <2>1. \A u \in Tokens : Exists(u)' /\ token'[u].parent # None => Exists(token[u].parent)'
    <3> TAKE u \in Tokens
    <3> HAVE Exists(u)' /\ token'[u].parent # None
    <3>1. CASE u = t
      <4>1. token'[u].parent = old /\ token'[old] = token[old] /\ token[old] # None
        BY <1>2, <1>4, <1>5, <1>6, <3>1 DEF Exists
      <4>2. QED
        BY <4>1 DEF Exists
    <3>2. CASE u # t
      <4>1. token'[u] = token[u] /\ Exists(u)
        BY <1>4, <3>2
      <4>2. token'[u].parent \in Tokens /\ token'[u].parent # t /\ token[token'[u].parent] # None
        BY <1>11, <4>1 DEF Exists
      <4>3. QED
        BY <1>4, <4>2 DEF Exists
    <3>3. QED
      BY <3>1, <3>2
  <2>2. \A q \in Calls : call'[q].pc \in Refreshing =>
          call[q].old \in Tokens /\ Exists(call[q].old) /\ call'[q] = call[q] /\ call[q].old # t
    BY <1>1, <1>3, <1>8, CallFacts DEF GrantInv
  <2>3. \A q \in Calls : call'[q].pc \in Refreshing => call'[q].code = token'[call'[q].old].grant
    BY <1>4, <2>2 DEF GrantInv, Links
  <2>4. \A q \in Calls : call'[q].pc = "mint_refresh" => token'[call'[q].old].revoked
    BY <1>4, <2>2 DEF GrantInv, Links, Refreshing
  <2>5. QED
    BY <2>1, <2>3, <2>4 DEF Links
<1>13. SuccessorMeansRevoked'
  <2> SUFFICES ASSUME NEW u \in Tokens, Exists(u)', token'[u].parent # None
               PROVE  token'[token'[u].parent].revoked
    BY DEF SuccessorMeansRevoked
  <2>1. CASE u = t
    BY <1>2, <1>4, <1>5, <1>6, <2>1
  <2>2. CASE u # t
    BY <1>4, <1>11, <2>2
  <2>3. QED
    BY <2>1, <2>2
<1>14. DeadStays'
  <2>1. \A u \in dead : u \in Tokens /\ Exists(u) /\ token[u].revoked /\ HoldToken(u) = {}
    BY DEF GrantInv, DeadStays, TypeOK
  <2>2. QED
    BY <1>1, <1>3, <1>4, <1>9, <2>1 DEF DeadStays
<1>15. OneHolder'
  <2> SUFFICES ASSUME NEW j \in Codes, ~raced[j]
               PROVE  /\ \A x, y \in HoldCode(j)' : x = y
                      /\ \A u \in Tokens : Exists(u)' /\ token'[u].grant = j =>
                           \A x, y \in HoldToken(u)' : x = y
                      /\ \A x \in HoldCode(j)' : call'[x].pc # "del_code" => code'[j] = None
    BY <1>1 DEF OneHolder
  <2>1. /\ \A x, y \in HoldCode(j) : x = y
        /\ \A u \in Tokens : Exists(u) /\ token[u].grant = j => \A x, y \in HoldToken(u) : x = y
        /\ \A x \in HoldCode(j) : call[x].pc # "del_code" => code[j] = None
    BY DEF GrantInv, OneHolder
  <2>2. \A u \in Tokens : Exists(u)' /\ token'[u].grant = j => \A x, y \in HoldToken(u)' : x = y
    BY <1>4, <1>9, <2>1
  <2>3. \A x \in HoldCode(j) \ {p} : x \in Calls /\ call'[x] = call[x]
    BY <1>1 DEF HoldCode
  <2>4. QED
    BY <1>1, <1>9, <2>1, <2>2, <2>3
<1>16. OneLinePerGrant'
  <2> SUFFICES ASSUME NEW j \in Codes, ~raced[j] PROVE \A x, y \in Stakes(j)' : x = y
    BY <1>1 DEF OneLinePerGrant
  <2>1. \A x, y \in Stakes(j) : x = y
    BY DEF GrantInv, OneLinePerGrant
  <2>2. Stakes(j)' \subseteq Stakes(j) \cup {t}
    BY <1>1, <1>4, <1>9 DEF Stakes, Live
  <2>3. CASE j # g
    <3>1. t \notin Stakes(j)'
      BY <1>5, <2>3, NoneAssumption DEF Stakes
    <3>2. QED
      BY <2>1, <2>2, <3>1
  <2>4. CASE j = g /\ old = None
    <3>1. call[p].pc = "mint_code" /\ HoldCode(g) = {p} /\ code[g] = None
      BY <1>2, <1>7, <2>4 DEF GrantInv, OneHolder
    <3>2. None \in Stakes(j)
      BY <2>4, <3>1 DEF Stakes
    <3>3. None \notin Stakes(j)'
      BY <1>1, <1>9, <2>4, <3>1, NoneAssumption DEF Stakes
    <3>4. QED
      BY <2>1, <2>2, <2>4, <3>2, <3>3
  <2>5. CASE j = g /\ old # None
    <3>1. old \in Tokens /\ Exists(old) /\ token[old].grant = g /\ token[old].revoked /\ old # t
          /\ HoldToken(old) = {p}
      BY <1>2, <1>6, <1>7, <2>5 DEF GrantInv, OneHolder, HoldCode, Exchanging
    <3>2. old \in Stakes(j)
      BY <2>5, <3>1 DEF Stakes
    <3>3. \A u : u = old => u \notin Stakes(j)'
      <4> TAKE u
      <4> HAVE u = old
      <4>1. u \in Tokens /\ u # None /\ token'[u] = token[u] /\ token[u].revoked /\ HoldToken(u)' = {}
        BY <1>4, <1>9, <3>1, NoneAssumption
      <4>2. QED
        BY <4>1 DEF Stakes, Live
    <3>4. QED
      BY <2>1, <2>2, <3>2, <3>3
  <2>6. QED
    BY <2>3, <2>4, <2>5
<1>17. QED
  BY <1>10, <1>12, <1>13, <1>14, <1>15, <1>16 DEF GrantInv

\* Every other step gains nothing.
Gains ==
  \E p \in Calls : \/ StoreCode(p) \/ MintFromCode(p) \/ MintFromRefresh(p)
                   \/ \E k \in Codes : GetCode(p, k)
                   \/ \E t \in Tokens : FindOld(p, t)

LEMMA NextGains ==
  ASSUME TypeOK, Next
  PROVE  Gains \/ NothingGained
<1> USE DEF history, store
<1>0. TypeOK
  OBVIOUS
<1>1. SUFFICES ASSUME ~Gains PROVE NothingGained
  OBVIOUS
<1>2. ASSUME NEW p \in Calls, NEW c \in Clients, Authorize(p, c)
      PROVE  NothingGained
  <2> DEFINE r == [Idle EXCEPT !.pc = "store_code", !.client = c]
  <2>1. r.pc \notin Exchanging \cup Refreshing
    BY DEF Idle, Exchanging, Refreshing
  <2>2. QED
    BY <1>0, <1>2, <2>1, OneCallGainsNothing DEF Authorize
<1>3. ASSUME NEW p \in Calls, NEW t \in Tokens, NEW byAccess \in BOOLEAN, Revoke(p, t, byAccess)
      PROVE  NothingGained
  <2> DEFINE r == [Idle EXCEPT !.pc = "by_access", !.old = t, !.byAccess = byAccess]
  <2>1. r.pc \notin Exchanging \cup Refreshing
    BY DEF Idle, Exchanging, Refreshing
  <2>2. QED
    BY <1>0, <1>3, <2>1, OneCallGainsNothing DEF Revoke
<1>4. ASSUME NEW p \in Calls, DelCode(p)
      PROVE  NothingGained
  <2>1. call[p].pc \in Exchanging /\ Goto(p, "code_client")
    BY <1>4 DEF DelCode, At, Exchanging
  <2>2. call[p].code \in Codes
    BY <1>0, <2>1, CallFacts
  <2>3. code'[call[p].code] = None /\ \A k \in Codes : code'[k] \in {code[k], None}
    BY <1>0, <1>4, <2>2 DEF DelCode, TypeOK
  <2>4. /\ call'[p].pc = "code_client" /\ call'[p].code = call[p].code
        /\ call' = [call EXCEPT ![p] = call'[p]]
    BY <1>0, <2>1, GotoFacts
  <2>5. "code_client" \in Exchanging \ {"del_code"} /\ UNCHANGED <<token, issued, raced, dead>>
    BY <1>4 DEF DelCode, Exchanging
  <2>6. QED
    BY <1>0, <2>1, <2>3, <2>4, <2>5, OneCallGainsNothing
<1>5. ASSUME NEW p \in Calls, FindCodeClient(p)
      PROVE  NothingGained
  <2>1. CASE Finish(p)
    BY <1>0, <1>5, <2>1, FinishGainsNothing DEF FindCodeClient
  <2>2. CASE Goto(p, "mint_code")
    <3>1. call[p].pc = "code_client" /\ UNCHANGED <<code, token, issued, raced, dead>>
      BY <1>5 DEF FindCodeClient, At
    <3>2. call[p].pc \in Exchanging /\ "mint_code" \in Exchanging \ {"del_code"}
      BY <3>1 DEF Exchanging
    <3>3. /\ call'[p].pc = "mint_code" /\ call'[p].code = call[p].code
          /\ call' = [call EXCEPT ![p] = call'[p]]
      BY <1>0, <2>2, <3>2, GotoFacts
    <3>4. QED
      BY <1>0, <3>1, <3>2, <3>3, OneCallGainsNothing
  <2>3. QED
    BY <1>5, <2>1, <2>2 DEF FindCodeClient
<1>6. ASSUME NEW p \in Calls, FindOldClient(p)
      PROVE  NothingGained
  <2>1. CASE Finish(p)
    BY <1>0, <1>6, <2>1, FinishGainsNothing DEF FindOldClient
  <2>2. CASE Goto(p, "revoke_old")
    <3>1. call[p].pc = "old_client" /\ UNCHANGED <<code, token, issued, raced, dead>>
      BY <1>6 DEF FindOldClient, At
    <3>2. call[p].pc \in Refreshing /\ "revoke_old" \in Refreshing \ {"mint_refresh"}
      BY <3>1 DEF Refreshing
    <3>3. /\ call'[p].pc = "revoke_old" /\ call'[p].code = call[p].code /\ call'[p].old = call[p].old
          /\ call' = [call EXCEPT ![p] = call'[p]]
      BY <1>0, <2>2, <3>2, GotoFacts
    <3>4. QED
      BY <1>0, <3>1, <3>2, <3>3, OneCallGainsNothing
  <2>3. QED
    BY <1>6, <2>1, <2>2 DEF FindOldClient
<1>7. ASSUME NEW p \in Calls, RevokeOld(p)
      PROVE  NothingGained
  <2>1. /\ call[p].pc \in Refreshing /\ Goto(p, "mint_refresh") /\ "mint_refresh" \in Refreshing
        /\ Exchanging \cap Refreshing = {} /\ UNCHANGED <<code, issued, raced, dead>>
    BY <1>7 DEF RevokeOld, At, Refreshing, Exchanging
  <2>2. /\ call'[p].pc = "mint_refresh" /\ call'[p].code = call[p].code /\ call'[p].old = call[p].old
        /\ \A q \in Calls : q # p => call'[q] = call[q]
    BY <1>0, <2>1, GotoFacts
  <2>3. /\ token'[call[p].old].revoked
        /\ \A u \in Tokens :
             /\ Exists(u)' <=> Exists(u)
             /\ Exists(u) => /\ token'[u].grant = token[u].grant
                             /\ token'[u].parent = token[u].parent
                             /\ token[u].revoked => token'[u].revoked
    BY <1>0, <1>7, RevokeOldFacts
  <2>4. \A q \in Calls : call'[q].pc \in Exchanging => q # p /\ call'[q] = call[q]
    BY <2>1, <2>2
  <2>5. \A q \in Calls : call'[q].pc \in Refreshing =>
          /\ call[q].pc \in Refreshing /\ call'[q].code = call[q].code /\ call'[q].old = call[q].old
          /\ call'[q].pc = "mint_refresh" => call[q].pc = "mint_refresh" \/ token'[call[q].old].revoked
    BY <2>1, <2>2, <2>3
  <2>6. QED
    BY <2>1, <2>3, <2>4, <2>5 DEF NothingGained
<1>8. ASSUME NEW p \in Calls, RevokeByAccess(p)
      PROVE  NothingGained
  <2>1. call[p].pc = "by_access" /\ call[p].byAccess \in BOOLEAN
    BY <1>0, <1>8, CallFacts DEF RevokeByAccess, At
  <2>2. QED
    BY <1>0, <1>8, <2>1, RevokeRowGainsNothing DEF RevokeByAccess
<1>9. ASSUME NEW p \in Calls, RevokeByRefresh(p)
      PROVE  NothingGained
  <2>1. call[p].pc = "by_refresh" /\ (~call[p].byAccess) \in BOOLEAN
    BY <1>9 DEF RevokeByRefresh, At
  <2>2. QED
    BY <1>0, <1>9, <2>1, RevokeRowGainsNothing DEF RevokeByRefresh
<1>10. ASSUME NEW p \in Calls, CallFails(p)
       PROVE  NothingGained
  <2>1. UNCHANGED <<code, token, issued, raced, dead>>
    BY <1>10 DEF CallFails
  <2>2. CASE Finish(p)
    BY <1>0, <2>1, <2>2, FinishGainsNothing
  <2>3. CASE call[p].pc = "by_access" /\ Goto(p, "by_refresh")
    <3>1. call'[p].pc = "by_refresh" /\ call' = [call EXCEPT ![p] = call'[p]]
      BY <1>0, <2>3, GotoFacts
    <3>2. "by_refresh" \notin Exchanging \cup Refreshing
      BY DEF Exchanging, Refreshing
    <3>3. QED
      BY <1>0, <2>1, <3>1, <3>2, OneCallGainsNothing
  <2>4. QED
    BY <1>10, <2>2, <2>3 DEF CallFails, At
<1>11. ASSUME Crash
       PROVE  NothingGained
  <2>1. \A p \in Calls : call'[p].pc \notin Exchanging \cup Refreshing
    BY <1>11, IdleFacts DEF Crash, Exchanging, Refreshing
  <2>2. QED
    BY <1>11, <2>1 DEF Crash, NothingGained, Exists
<1>12. ASSUME NEW k \in Codes, CodeExpires(k)
       PROVE  NothingGained
  <2>1. UNCHANGED <<call, token, issued, raced, dead>> /\ \A j \in Codes : code'[j] \in {code[j], None}
    BY <1>0, <1>12 DEF CodeExpires, TypeOK
  <2>2. QED
    BY <2>1 DEF NothingGained, Exists
<1>13. ASSUME NEW t \in Tokens, RefreshExpires(t)
       PROVE  NothingGained
  <2>1. UNCHANGED <<call, code, issued, raced, dead>>
    BY <1>13 DEF RefreshExpires
  <2>2. \A u \in Tokens :
          /\ Exists(u)' <=> Exists(u)
          /\ Exists(u) => /\ token'[u].grant = token[u].grant
                          /\ token'[u].parent = token[u].parent
                          /\ token[u].revoked => token'[u].revoked
    BY <1>0, <1>13, RowStep DEF RefreshExpires
  <2>3. QED
    BY <2>1, <2>2 DEF NothingGained
<1>14. ASSUME NEW c \in Clients, NEW status, SetClient(c, status)
       PROVE  NothingGained
  BY <1>14 DEF SetClient, NothingGained, Exists
<1>15. QED
  BY <1>1, <1>2, <1>3, <1>4, <1>5, <1>6, <1>7, <1>8, <1>9, <1>10, <1>11, <1>12, <1>13, <1>14
     DEF Next, Gains

LEMMA NextGrants ==
  ASSUME GrantInv, Next
  PROVE  GrantInv'
<1>1. TypeOK /\ TypeOK'
  BY NextTyped DEF GrantInv
<1>2. CASE NothingGained
  BY <1>1, <1>2, LessIsSafe
<1>3. CASE Gains
  BY <1>1, <1>3, StoreCodeSafe, MintSafe, GetCodeSafe, FindOldSafe DEF Gains
<1>4. QED
  BY <1>1, <1>2, <1>3, NextGains

LEMMA GrantsStutter == GrantInv /\ UNCHANGED vars => GrantInv'
<1> SUFFICES ASSUME GrantInv, UNCHANGED vars PROVE GrantInv'
  OBVIOUS
<1>1. TypeOK'
  BY DEF vars, store, history, GrantInv, TypeOK, Exists
<1>2. NothingGained
  BY DEF vars, store, history, NothingGained, Exists
<1>3. QED
  BY <1>1, <1>2, LessIsSafe

\* A grant is continued along one line, unless two calls held the same code or token.
THEOREM GrantsHaveOneLine == Spec => []OneLinePerGrant
<1>1. GrantInv => OneLinePerGrant
  BY DEF GrantInv
<1>2. QED
  BY InitGrants, NextGrants, GrantsStutter, <1>1, PTL DEF Spec

\* A refreshed token is revoked by the time its successor exists.
THEOREM RefreshRevokesFirst == Spec => []SuccessorMeansRevoked
<1>1. GrantInv => SuccessorMeansRevoked
  BY DEF GrantInv
<1>2. QED
  BY InitGrants, NextGrants, GrantsStutter, <1>1, PTL DEF Spec

\* Nothing is minted from a token that was revoked while no refresh held it.
THEOREM RevokedStaysDead == Spec => RevokedHasNoLateSuccessor
<1> DEFINE A == \A t, u \in Tokens :
                  t \in dead /\ ~Exists(u) /\ token'[u] # None => token'[u].parent # t
<1>1. ASSUME GrantInv, Next PROVE A
  <2> SUFFICES ASSUME NEW t \in Tokens, NEW u \in Tokens, t \in dead, ~Exists(u), token'[u] # None
               PROVE  token'[u].parent # t
    OBVIOUS
  <2>1. CASE NothingGained
    BY <2>1 DEF NothingGained, Exists
  <2>2. CASE \E p \in Calls : MintFromCode(p) \/ MintFromRefresh(p)
    <3>1. PICK p \in Calls : MintFromCode(p) \/ MintFromRefresh(p)
      BY <2>2
    <3>2. CASE MintFromCode(p)
      <4>1. PICK x \in Tokens : token' = [token EXCEPT ![x] = Row(call[p].client, call[p].code, None)]
        BY <3>2 DEF MintFromCode
      <4>2. token'[u] = Row(call[p].client, call[p].code, None)
        BY <1>1, <4>1 DEF GrantInv, TypeOK, Exists
      <4>3. QED
        BY <4>2, NoneAssumption DEF Row
    <3>3. CASE MintFromRefresh(p)
      <4>1. PICK x \in Tokens :
              token' = [token EXCEPT ![x] = Row(call[p].client, call[p].code, call[p].old)]
        BY <3>3 DEF MintFromRefresh
      <4>2. token'[u] = Row(call[p].client, call[p].code, call[p].old)
        BY <1>1, <4>1 DEF GrantInv, TypeOK, Exists
      <4>3. p \in HoldToken(call[p].old)
        BY <3>3 DEF MintFromRefresh, At, HoldToken, Refreshing
      <4>4. call[p].old # t
        BY <1>1, <4>3 DEF GrantInv, DeadStays
      <4>5. QED
        BY <4>2, <4>4 DEF Row
    <3>4. QED
      BY <3>1, <3>2, <3>3
  <2>3. CASE token' = token
    BY <2>3 DEF Exists
  <2>4. Gains => (\E p \in Calls : MintFromCode(p) \/ MintFromRefresh(p)) \/ token' = token
    BY DEF Gains, StoreCode, GetCode, FindOld, store
  <2>5. QED
    BY <1>1, <2>1, <2>2, <2>3, <2>4, NextGains DEF GrantInv
<1>2. GrantInv /\ UNCHANGED vars => A
  BY DEF vars, store, Exists
<1>3. GrantInv /\ [Next]_vars => [A]_vars
  BY <1>1, <1>2
<1>4. QED
  BY InitGrants, NextGrants, GrantsStutter, <1>3, PTL DEF Spec, RevokedHasNoLateSuccessor
=============================================================================
