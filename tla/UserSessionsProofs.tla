-------------------------- MODULE UserSessionsProofs --------------------------
(***************************************************************************)
(* Proofs about UserSessions, for any number of accounts, callers and      *)
(* tokens: what a call in flight may still rely on (SessionInv), and the   *)
(* properties of the sessions that follow from it.                         *)
(***************************************************************************)
EXTENDS UserSessions, TLAPS

(* The rows that the statements write are rows. *)
LEMMA RowsTyped ==
  /\ NoToken \in Rows
  /\ \A u \in Users \cup {NoUser}, f \in 0..MaxTokens : Row(u, f) \in Rows
  /\ \A r \in Rows : Revoked(r) \in Rows
  /\ \A r \in Rows : [r EXCEPT !.expired = TRUE] \in Rows /\ [r EXCEPT !.old = TRUE] \in Rows
  /\ \A r \in Rows : r.user \in Users \cup {NoUser} /\ r.family \in 0..MaxTokens
<1>1. NoToken \in Rows
  BY SessionsAssumption DEF NoToken, Rows
<1>2. \A u \in Users \cup {NoUser}, f \in 0..MaxTokens : Row(u, f) \in Rows
  BY DEF Row, Rows
<1>3. \A r \in Rows : Revoked(r) \in Rows
  BY DEF Revoked, Rows
<1>4. \A r \in Rows : [r EXCEPT !.expired = TRUE] \in Rows /\ [r EXCEPT !.old = TRUE] \in Rows
  BY DEF Rows
<1>5. \A r \in Rows : r.user \in Users \cup {NoUser} /\ r.family \in 0..MaxTokens
  BY DEF Rows
<1> QED
  BY <1>1, <1>2, <1>3, <1>4, <1>5

(* The states of a call that the actions lead to are states of a call. *)
LEMMA CallsTyped ==
  /\ NoCall \in CallStates
  /\ \A pc \in PCs, u \in Users \cup {NoUser}, f \in 0..MaxTokens, t \in 0..MaxTokens :
       Holding(pc, u, f, t) \in CallStates
  /\ \A s \in CallStates, pc \in PCs : [s EXCEPT !.pc = pc] \in CallStates
  /\ \A s \in CallStates :
       s.user \in Users \cup {NoUser} /\ s.family \in 0..MaxTokens /\ s.token \in 0..MaxTokens
<1>1. NoCall \in CallStates
  BY SessionsAssumption DEF NoCall, Holding, CallStates, PCs
<1>2. \A pc \in PCs, u \in Users \cup {NoUser}, f \in 0..MaxTokens, t \in 0..MaxTokens :
        Holding(pc, u, f, t) \in CallStates
  BY DEF Holding, CallStates
<1>3. \A s \in CallStates, pc \in PCs : [s EXCEPT !.pc = pc] \in CallStates
  BY DEF CallStates
<1>4. \A s \in CallStates :
        s.user \in Users \cup {NoUser} /\ s.family \in 0..MaxTokens /\ s.token \in 0..MaxTokens
  BY DEF CallStates
<1> QED
  BY <1>1, <1>2, <1>3, <1>4

(* Every variable keeps its type in every step. *)
LEMMA TypeStep == TypeOK /\ [Next]_vars => TypeOK'
<1> SUFFICES ASSUME TypeOK, [Next]_vars PROVE TypeOK'
  OBVIOUS
<1> USE DEF TypeOK, At, Done, history
<1>a. /\ PCs = {"idle", "registering", "loggingIn", "checking", "rotating", "issuing", "ending"}
      /\ MaxTokens \in Nat /\ Tokens = 1..MaxTokens /\ Tokens \subseteq 0..MaxTokens
      /\ 0 \in 0..MaxTokens
  BY SessionsAssumption DEF PCs, Tokens
<1>b. \A c \in Callers :
        /\ call[c] \in CallStates
        /\ call[c].user \in Users \cup {NoUser}
        /\ call[c].family \in 0..MaxTokens
        /\ call[c].token \in 0..MaxTokens
  BY CallsTyped
<1>c. \A t \in Tokens :
        /\ token[t] \in Rows
        /\ token[t].user \in Users \cup {NoUser}
        /\ token[t].family \in 0..MaxTokens
  BY RowsTyped
<1>1. ASSUME NEW c \in Callers, NEW u \in Users, RegisterReads(c, u) \/ LoginReads(c, u)
      PROVE  TypeOK'
  <2>1. /\ Holding("registering", u, 0, 0) \in CallStates
        /\ Holding("loggingIn", u, 0, 0) \in CallStates
    <3>1. u \in Users \cup {NoUser} /\ "registering" \in PCs /\ "loggingIn" \in PCs
      BY <1>a
    <3> QED
      BY <3>1, <1>a, CallsTyped
  <2>2. call' \in [Callers -> CallStates]
    BY <1>1, <2>1 DEF RegisterReads, LoginReads
  <2> QED
    BY <1>1, <2>2 DEF RegisterReads, LoginReads
<1>2. ASSUME NEW c \in Callers, NEW t \in Tokens, RefreshReads(c, t)
      PROVE  TypeOK'
  <2>1. \A pc \in PCs : Holding(pc, token[t].user, token[t].family, t) \in CallStates
    BY <1>a, <1>c, CallsTyped
  <2>2. contended' \subseteq 0..MaxTokens
    BY <1>2, <1>c DEF RefreshReads
  <2>3. \E pc \in PCs :
          call' = [call EXCEPT ![c] = Holding(pc, token[t].user, token[t].family, t)]
    BY <1>2, <1>a DEF RefreshReads
  <2>4. call' \in [Callers -> CallStates]
    BY <2>1, <2>3
  <2> QED
    BY <1>2, <2>2, <2>4 DEF RefreshReads
<1>3. ASSUME NEW c \in Callers, NEW t \in Tokens, LogoutReads(c, t)
      PROVE  TypeOK'
  <2>1. Holding("ending", token[t].user, token[t].family, t) \in CallStates
    BY <1>a, <1>c, CallsTyped
  <2> QED
    BY <1>3, <2>1 DEF LogoutReads
<1>4. ASSUME NEW c \in Callers, RegisterInserts(c)
      PROVE  TypeOK'
  BY <1>4, CallsTyped DEF RegisterInserts
<1>5. ASSUME NEW c \in Callers, LoginSaves(c)
      PROVE  TypeOK'
  <2>1. [call[c] EXCEPT !.pc = "issuing"] \in CallStates
    BY <1>a, <1>b, CallsTyped
  <2>2. call' \in [Callers -> CallStates]
    BY <1>5, <2>1 DEF LoginSaves, Goto
  <2> QED
    BY <1>5, <2>2 DEF LoginSaves
<1>6. ASSUME NEW c \in Callers, IssueToken(c)
      PROVE  TypeOK'
  <2>0. issued + 1 \in Tokens /\ issued + 1 \in 0..MaxTokens /\ issued' = issued + 1
    BY <1>6, <1>a DEF IssueToken
  <2>1. FamilyOf(c) \in 0..MaxTokens
    BY <2>0, <1>b DEF FamilyOf
  <2>2. Row(call[c].user, FamilyOf(c)) \in Rows
    BY <2>1, <1>b, RowsTyped
  <2>3. token' \in [Tokens -> Rows]
    BY <1>6, <2>2 DEF IssueToken
  <2>4. rotated' \subseteq Tokens
    <3>1. {call[c].token} \ {0} \subseteq Tokens
      BY <1>a, <1>b
    <3> QED
      BY <1>6, <3>1 DEF IssueToken
  <2>5. call' \in [Callers -> CallStates]
    BY <1>6, CallsTyped DEF IssueToken
  <2> QED
    BY <1>6, <2>0, <2>3, <2>4, <2>5 DEF IssueToken
<1>7. ASSUME NEW c \in Callers, RefreshChecksUser(c)
      PROVE  TypeOK'
  <2>1. /\ [call[c] EXCEPT !.pc = "rotating"] \in CallStates
        /\ [call[c] EXCEPT !.pc = "ending"] \in CallStates
    BY <1>a, <1>b, CallsTyped
  <2>2. call' \in [Callers -> CallStates]
    BY <1>7, <2>1 DEF RefreshChecksUser, Goto
  <2> QED
    BY <1>7, <2>2 DEF RefreshChecksUser
<1>8. ASSUME NEW c \in Callers, RefreshRevokes(c)
      PROVE  TypeOK'
  <2>1. [call[c] EXCEPT !.pc = "issuing"] \in CallStates
    BY <1>a, <1>b, CallsTyped
  <2>2. call' \in [Callers -> CallStates]
    BY <1>8, <2>1 DEF RefreshRevokes, Goto
  <2>3. token' \in [Tokens -> Rows]
    BY <1>8, RowsTyped DEF RefreshRevokes
  <2> QED
    BY <1>8, <2>2, <2>3 DEF RefreshRevokes
<1>9. ASSUME NEW c \in Callers, EndSession(c)
      PROVE  TypeOK'
  <2>1. token' \in [Tokens -> Rows]
    BY <1>9, RowsTyped DEF EndSession, FamilyRevoked
  <2>2. ended' \subseteq 0..MaxTokens
    BY <1>9, <1>b DEF EndSession
  <2>3. call' \in [Callers -> CallStates]
    BY <1>9, CallsTyped DEF EndSession
  <2> QED
    BY <1>9, <2>1, <2>2, <2>3 DEF EndSession
<1>10. ASSUME NEW c \in Callers, CallFails(c)
       PROVE  TypeOK'
  BY <1>10, CallsTyped DEF CallFails
<1>11. ASSUME NEW u \in Users, Suspend(u)
       PROVE  TypeOK'
  BY <1>11 DEF Suspend
<1>12. ASSUME NEW t \in Tokens, Expire(t) \/ GrowOld(t)
       PROVE  TypeOK'
  <2>1. /\ [token[t] EXCEPT !.expired = TRUE] \in Rows
        /\ [token[t] EXCEPT !.old = TRUE] \in Rows
    BY <1>c, RowsTyped
  <2>2. token' \in [Tokens -> Rows]
    BY <1>12, <2>1 DEF Expire, GrowOld
  <2> QED
    BY <1>12, <2>2 DEF Expire, GrowOld
<1>13. CASE PurgeExpired
  <2>1. token' \in [Tokens -> Rows]
    BY <1>13, <1>c, RowsTyped DEF PurgeExpired
  <2> QED
    BY <1>13, <2>1 DEF PurgeExpired
<1>14. CASE UNCHANGED vars
  BY <1>14 DEF vars
<1> QED
  BY <1>1, <1>2, <1>3, <1>4, <1>5, <1>6, <1>7, <1>8, <1>9, <1>10, <1>11, <1>12, <1>13, <1>14
     DEF Next

(* What a refresh does with the row it finds, apart from the clock. *)
RefreshReadsFacts(c, t) ==
  /\ At(c, "idle") /\ Found(t)
  /\ UNCHANGED <<status, token, issued, rotated, ended, closed>>
  /\ \/ /\ token[t].state = "live"
        /\ call' = [call EXCEPT ![c] = Holding("checking", token[t].user, token[t].family, t)]
        /\ contended' = IF \E j \in Callers : Refreshes(j, token[t].family)
                        THEN contended \cup {token[t].family} ELSE contended
     \/ /\ token[t].state = "revoked"
        /\ call' = [call EXCEPT ![c] = Holding("ending", token[t].user, token[t].family, t)]
        /\ contended' = contended

LEMMA RefreshReadsEffect ==
  ASSUME NEW c \in Callers, NEW t \in Tokens, RefreshReads(c, t)
  PROVE  RefreshReadsFacts(c, t)
<1>1. At(c, "idle") /\ Found(t)
  BY DEF RefreshReads
<1>2. UNCHANGED <<status, token, issued, rotated, ended, closed>>
  BY DEF RefreshReads
<1>3. CASE token[t].state = "live"
  BY <1>1, <1>2, <1>3 DEF RefreshReads, RefreshReadsFacts
<1>4. CASE token[t].state # "live"
  BY <1>1, <1>2, <1>4 DEF RefreshReads, RefreshReadsFacts
<1> QED
  BY <1>3, <1>4

(* revokeByFamilyId leaves no live token of the family, and the rest as it was. *)
FamilyGone(f) ==
  \A t \in Tokens :
    /\ token'[t].family = token[t].family
    /\ token'[t].user = token[t].user
    /\ token[t].state # "live" => token'[t] = token[t]
    /\ token'[t].state = "absent" <=> token[t].state = "absent"
    /\ token'[t].state = "live" <=> token[t].state = "live" /\ token[t].family # f

LEMMA EndSessionEffect ==
  ASSUME TypeOK, NEW c \in Callers, EndSession(c)
  PROVE  FamilyGone(call[c].family)
<1> SUFFICES ASSUME NEW t \in Tokens
    PROVE  /\ token'[t].family = token[t].family
           /\ token'[t].user = token[t].user
           /\ token[t].state # "live" => token'[t] = token[t]
           /\ token'[t].state = "absent" <=> token[t].state = "absent"
           /\ token'[t].state = "live" <=>
                token[t].state = "live" /\ token[t].family # call[c].family
  BY DEF FamilyGone
<1>1. token[t] \in Rows
  BY DEF TypeOK
<1>2. token'[t] = IF token[t].family = call[c].family /\ token[t].state = "live"
                  THEN Revoked(token[t]) ELSE token[t]
  BY DEF EndSession, FamilyRevoked
<1> QED
  BY <1>1, <1>2 DEF Revoked, Rows

(* A statement that changes one row keeps its family and its user. *)
LEMMA RowChanges ==
  /\ \A r \in Rows : Revoked(r).family = r.family /\ Revoked(r).user = r.user
  /\ \A r \in Rows : Revoked(r).state = "revoked"
  /\ \A r \in Rows :
       LET s == [r EXCEPT !.expired = TRUE]
       IN  s.family = r.family /\ s.user = r.user /\ s.state = r.state
  /\ \A r \in Rows :
       LET s == [r EXCEPT !.old = TRUE]
       IN  s.family = r.family /\ s.user = r.user /\ s.state = r.state
<1>1. \A r \in Rows : Revoked(r).family = r.family /\ Revoked(r).user = r.user
  BY DEF Rows, Revoked
<1>2. \A r \in Rows : Revoked(r).state = "revoked"
  BY DEF Rows, Revoked
<1>3. \A r \in Rows :
        LET s == [r EXCEPT !.expired = TRUE]
        IN  s.family = r.family /\ s.user = r.user /\ s.state = r.state
  BY DEF Rows
<1>4. \A r \in Rows :
        LET s == [r EXCEPT !.old = TRUE]
        IN  s.family = r.family /\ s.user = r.user /\ s.state = r.state
  BY DEF Rows
<1> QED
  BY <1>1, <1>2, <1>3, <1>4

(* Numbers are given out in order and families are named by tokens. *)
LEMMA IdsStep ==
  TypeOK /\ IdsInOrder /\ [Next]_vars => IdsInOrder'
<1> SUFFICES ASSUME TypeOK, IdsInOrder, [Next]_vars PROVE IdsInOrder'
  OBVIOUS
<1> USE DEF IdsInOrder, Found, TypeOK, Tokens, At, Done, history
<1>a. TypeOK'
  BY TypeStep
<1>b. NoToken.state = "absent" /\ NoCall.pc = "idle" /\ NoCall.token = 0 /\ NoCall.family = 0
  BY DEF NoToken, NoCall, Holding
<1>c. /\ MaxTokens \in Nat /\ issued \in Nat
      /\ \A d \in Callers : call[d].family \in Nat /\ call[d].token \in Nat
  BY SessionsAssumption, CallsTyped
<1>d. \A r \in Tokens : token[r] \in Rows /\ token[r].family \in Nat
  BY RowsTyped
<1>1. ASSUME NEW c \in Callers, NEW u \in Users, RegisterReads(c, u)
      PROVE  IdsInOrder'
  BY <1>1, <1>a, <1>b, <1>c, SessionsAssumption DEF RegisterReads, Holding
<1>2. ASSUME NEW c \in Callers, NEW u \in Users, LoginReads(c, u)
      PROVE  IdsInOrder'
  BY <1>2, <1>a, <1>b, <1>c, SessionsAssumption DEF LoginReads, Holding
<1>3. ASSUME NEW c \in Callers, NEW t \in Tokens, RefreshReads(c, t)
      PROVE  IdsInOrder'
  <2>1. RefreshReadsFacts(c, t)
    BY <1>3, RefreshReadsEffect
  <2>2. UNCHANGED <<status, token, issued, rotated, ended, closed>> /\ Found(t) /\ At(c, "idle")
    BY <2>1 DEF RefreshReadsFacts
  <2>3. CASE token[t].state = "live"
    <3>1. call' = [call EXCEPT ![c] = Holding("checking", token[t].user, token[t].family, t)]
      BY <2>1, <2>3 DEF RefreshReadsFacts
    <3>2. contended' = IF \E j \in Callers : Refreshes(j, token[t].family)
                       THEN contended \cup {token[t].family} ELSE contended
      BY <2>1, <2>3 DEF RefreshReadsFacts
    <3> QED
      BY <1>a, <1>b, <1>c, <2>2, <2>3, <3>1, <3>2, <1>d, SessionsAssumption DEF Holding
  <2>4. CASE token[t].state = "revoked"
    <3>1. call' = [call EXCEPT ![c] = Holding("ending", token[t].user, token[t].family, t)]
      BY <2>1, <2>4 DEF RefreshReadsFacts
    <3>2. contended' = contended
      BY <2>1, <2>4 DEF RefreshReadsFacts
    <3> QED
      BY <1>a, <1>b, <1>c, <2>2, <2>4, <3>1, <3>2, <1>d, SessionsAssumption DEF Holding
  <2> QED
    BY <2>1, <2>3, <2>4 DEF RefreshReadsFacts
<1>4. ASSUME NEW c \in Callers, NEW t \in Tokens, LogoutReads(c, t)
      PROVE  IdsInOrder'
  <2>1. call' = [call EXCEPT ![c] = Holding("ending", token[t].user, token[t].family, t)]
    BY <1>4 DEF LogoutReads
  <2>2. UNCHANGED <<status, token, issued, history>> /\ Found(t)
    BY <1>4 DEF LogoutReads
  <2>3. /\ token[t].family \in 1..issued /\ token[t].user \in Users
        /\ t \in 1..issued
    BY <1>b, <1>c, <2>2, SessionsAssumption
  <2>4. \A d \in Callers : d # c => call'[d] = call[d]
    BY <2>1
  <2>5. /\ call'[c].pc = "ending" /\ call'[c].user = token[t].user
        /\ call'[c].family = token[t].family /\ call'[c].token = t
    BY <2>1 DEF Holding
  <2>6. \A d \in Callers :
          /\ call'[d].token <= issued /\ call'[d].family <= issued
          /\ call'[d].pc # "idle" => call'[d].user \in Users
          /\ call'[d].pc \in {"checking", "rotating"} => call'[d].token > 0
          /\ call'[d].pc = "loggingIn" => call'[d].token = 0
          /\ call'[d].token = 0 <=> call'[d].family = 0
    BY <1>c, <2>3, <2>4, <2>5
  <2> QED
    BY <2>2, <2>6
<1>5. ASSUME NEW c \in Callers, RegisterInserts(c)
      PROVE  IdsInOrder'
  BY <1>5, <1>a, <1>b, <1>c, SessionsAssumption DEF RegisterInserts, NoCall, Holding
<1>6. ASSUME NEW c \in Callers, LoginSaves(c)
      PROVE  IdsInOrder'
  BY <1>6, <1>a, <1>b, <1>c, SessionsAssumption DEF LoginSaves, Goto
<1>7. ASSUME NEW c \in Callers, IssueToken(c)
      PROVE  IdsInOrder'
  <2>1. issued' = issued + 1 /\ issued' \in Tokens
    BY <1>7, SessionsAssumption DEF IssueToken
  <2>2. FamilyOf(c) \in 1..issued' /\ call[c].user \in Users
    BY <1>7, <1>b, <1>c, <2>1, SessionsAssumption DEF FamilyOf, IssueToken
  <2>3. \A t \in Tokens : token'[t] = IF t = issued' THEN Row(call[c].user, FamilyOf(c))
                                      ELSE token[t]
    BY <1>7, <1>b, <1>c, <2>1 DEF IssueToken
  <2>4. /\ Row(call[c].user, FamilyOf(c)).family = FamilyOf(c)
        /\ Row(call[c].user, FamilyOf(c)).user = call[c].user
    BY DEF Row
  <2>5. \A t \in Tokens : t > issued' => token'[t] = NoToken
    BY <2>1, <2>3
  <2>6. \A t \in Tokens : token'[t].state # "absent" =>
          token'[t].family \in 1..issued' /\ token'[t].user \in Users
    BY <2>1, <2>2, <2>3, <2>4
  <2>7. rotated' \subseteq 1..issued' /\ ended' \subseteq 0..issued' /\ contended' \subseteq 0..issued'
    <3>1. /\ rotated' = rotated \cup ({call[c].token} \ {0})
          /\ ended' = ended /\ contended' = contended
      BY <1>7 DEF IssueToken
    <3>2. /\ 1..issued \subseteq 1..issued' /\ 0..issued \subseteq 0..issued'
          /\ call[c].token = 0 \/ call[c].token \in 1..issued
      BY <1>c, <2>1
    <3> QED
      BY <3>1, <3>2
  <2>8. \A d \in Callers : call'[d] = IF d = c THEN NoCall ELSE call[d]
    BY <1>7 DEF IssueToken
  <2>9. /\ NoCall.token = 0 /\ NoCall.family = 0 /\ NoCall.pc = "idle"
        /\ \A d \in Callers : call[d].token <= issued' /\ call[d].family <= issued'
    BY <1>b, <1>c, <2>1
  <2> QED
    BY <2>1, <2>5, <2>6, <2>7, <2>8, <2>9
<1>8. ASSUME NEW c \in Callers, RefreshChecksUser(c)
      PROVE  IdsInOrder'
  BY <1>8, <1>a, <1>b, <1>c, SessionsAssumption DEF RefreshChecksUser, Goto
<1>9. ASSUME NEW c \in Callers, RefreshRevokes(c)
      PROVE  IdsInOrder'
  <2> DEFINE x == call[c].token
  <2>1. x \in Tokens /\ token[x] \in Rows /\ token[x].state # "absent" /\ x <= issued
    BY <1>9, <1>b, <1>c, <1>d DEF RefreshRevokes
  <2>2. \A t \in Tokens : t # x => token'[t] = token[t]
    BY <1>9 DEF RefreshRevokes
  <2>3. token'[x].family = token[x].family /\ token'[x].user = token[x].user
    BY <1>9, <2>1, RowChanges DEF RefreshRevokes
  <2>4. /\ \A t \in Tokens : t > issued => token'[t] = NoToken
        /\ \A t \in Tokens : token'[t].state # "absent" =>
             token'[t].family \in 1..issued /\ token'[t].user \in Users
    BY <2>1, <2>2, <2>3
  <2> QED
    BY <1>9, <1>a, <1>b, <1>c, <2>4 DEF RefreshRevokes, Goto
<1>10. ASSUME NEW c \in Callers, EndSession(c)
      PROVE  IdsInOrder'
  <2>1. FamilyGone(call[c].family)
    BY <1>10, EndSessionEffect
  <2>2. /\ \A t \in Tokens : t > issued => token'[t] = NoToken
        /\ \A t \in Tokens : token'[t].state # "absent" =>
             token'[t].family \in 1..issued /\ token'[t].user \in Users
    BY <1>b, <2>1 DEF FamilyGone
  <2>3. ended' \subseteq 0..issued
    <3>1. ended' \subseteq ended \cup {call[c].family}
      BY <1>10 DEF EndSession
    <3>2. call[c].family \in 0..issued
      BY <1>c
    <3> QED
      BY <3>1, <3>2
  <2> QED
    BY <1>10, <1>a, <1>b, <1>c, <2>2, <2>3, SessionsAssumption DEF EndSession, NoCall, Holding
<1>11. ASSUME NEW c \in Callers, CallFails(c)
      PROVE  IdsInOrder'
  BY <1>11, <1>a, <1>b, <1>c, SessionsAssumption DEF CallFails, NoCall, Holding
<1>12. ASSUME NEW u \in Users, Suspend(u)
      PROVE  IdsInOrder'
  BY <1>12, <1>a, <1>b, <1>c, SessionsAssumption DEF Suspend
<1>13. ASSUME NEW t \in Tokens, Expire(t)
      PROVE  IdsInOrder'
  <2> DEFINE x == t
  <2>1. x \in Tokens /\ token[x] \in Rows /\ token[x].state # "absent" /\ x <= issued
    BY <1>13, <1>b, <1>c, <1>d, SMTT(30) DEF Expire
  <2>2. \A r \in Tokens : r # x => token'[r] = token[r]
    BY <1>13 DEF Expire
  <2>3. token'[x].family = token[x].family /\ token'[x].user = token[x].user
    BY <1>13, <2>1, RowChanges DEF Expire
  <2>4. /\ \A r \in Tokens : r > issued => token'[r] = NoToken
        /\ \A r \in Tokens : token'[r].state # "absent" =>
             token'[r].family \in 1..issued /\ token'[r].user \in Users
    BY <2>1, <2>2, <2>3
  <2> QED
    BY <1>13, <1>a, <1>b, <1>c, <2>4 DEF Expire
<1>14. ASSUME NEW t \in Tokens, GrowOld(t)
      PROVE  IdsInOrder'
  <2> DEFINE x == t
  <2>1. x \in Tokens /\ token[x] \in Rows /\ token[x].state # "absent" /\ x <= issued
    BY <1>14, <1>b, <1>c, <1>d, SMTT(30) DEF GrowOld
  <2>2. \A r \in Tokens : r # x => token'[r] = token[r]
    BY <1>14 DEF GrowOld
  <2>3. token'[x].family = token[x].family /\ token'[x].user = token[x].user
    BY <1>14, <2>1, RowChanges DEF GrowOld
  <2>4. /\ \A r \in Tokens : r > issued => token'[r] = NoToken
        /\ \A r \in Tokens : token'[r].state # "absent" =>
             token'[r].family \in 1..issued /\ token'[r].user \in Users
    BY <2>1, <2>2, <2>3
  <2> QED
    BY <1>14, <1>a, <1>b, <1>c, <2>4 DEF GrowOld
<1>15. CASE PurgeExpired
  <2>1. \A t \in Tokens : token'[t] \in {token[t], NoToken}
    BY <1>15 DEF PurgeExpired
  <2>2. NoToken.state = "absent"
    BY DEF NoToken
  <2>3. /\ \A t \in Tokens : t > issued => token'[t] = NoToken
        /\ \A t \in Tokens : token'[t].state # "absent" =>
             token'[t].family \in 1..issued /\ token'[t].user \in Users
    BY <2>1, <2>2
  <2> QED
    BY <1>15, <2>3 DEF PurgeExpired
<1>16. CASE UNCHANGED vars
  BY <1>16, <1>a, <1>b, <1>c, SessionsAssumption DEF vars
<1> QED
  BY <1>1, <1>2, <1>3, <1>4, <1>5, <1>6, <1>7, <1>8, <1>9, <1>10, <1>11, <1>12, <1>13, <1>14, <1>15, <1>16 DEF Next

(* A token is revoked before its successor exists. *)
LEMMA RevokedFirstStep ==
  TypeOK /\ IdsInOrder /\ RevokedFirst /\ [Next]_vars => RevokedFirst'
<1> SUFFICES ASSUME TypeOK, IdsInOrder, RevokedFirst, [Next]_vars PROVE RevokedFirst'
  OBVIOUS
<1> USE DEF RevokedFirst, RotatedNotLive, IdsInOrder, TypeOK, CallStates, Rows, Tokens, At, Done, history
<1>a. TypeOK'
  BY TypeStep
<1>1. ASSUME NEW c \in Callers, NEW u \in Users, RegisterReads(c, u)
      PROVE  RevokedFirst'
  BY <1>1, <1>a, SessionsAssumption DEF RegisterReads, Holding
<1>2. ASSUME NEW c \in Callers, NEW u \in Users, LoginReads(c, u)
      PROVE  RevokedFirst'
  BY <1>2, <1>a, SessionsAssumption DEF LoginReads, Holding
<1>3. ASSUME NEW c \in Callers, NEW t \in Tokens, RefreshReads(c, t)
      PROVE  RevokedFirst'
  <2>1. RefreshReadsFacts(c, t)
    BY <1>3, RefreshReadsEffect
  <2>2. UNCHANGED <<status, token, issued, rotated, ended, closed>> /\ Found(t) /\ At(c, "idle")
    BY <2>1 DEF RefreshReadsFacts
  <2>3. CASE token[t].state = "live"
    <3>1. call' = [call EXCEPT ![c] = Holding("checking", token[t].user, token[t].family, t)]
      BY <2>1, <2>3 DEF RefreshReadsFacts
    <3>2. contended' = IF \E j \in Callers : Refreshes(j, token[t].family)
                       THEN contended \cup {token[t].family} ELSE contended
      BY <2>1, <2>3 DEF RefreshReadsFacts
    <3> QED
      BY <1>a, <2>2, <2>3, <3>1, <3>2, SessionsAssumption DEF Holding
  <2>4. CASE token[t].state = "revoked"
    <3>1. call' = [call EXCEPT ![c] = Holding("ending", token[t].user, token[t].family, t)]
      BY <2>1, <2>4 DEF RefreshReadsFacts
    <3>2. contended' = contended
      BY <2>1, <2>4 DEF RefreshReadsFacts
    <3> QED
      BY <1>a, <2>2, <2>4, <3>1, <3>2, SessionsAssumption DEF Holding
  <2> QED
    BY <2>1, <2>3, <2>4 DEF RefreshReadsFacts
<1>4. ASSUME NEW c \in Callers, NEW t \in Tokens, LogoutReads(c, t)
      PROVE  RevokedFirst'
  BY <1>4, <1>a, SessionsAssumption DEF LogoutReads, Holding
<1>5. ASSUME NEW c \in Callers, RegisterInserts(c)
      PROVE  RevokedFirst'
  BY <1>5, <1>a, SessionsAssumption DEF RegisterInserts, NoCall, Holding
<1>6. ASSUME NEW c \in Callers, LoginSaves(c)
      PROVE  RevokedFirst'
  BY <1>6, <1>a, SessionsAssumption DEF LoginSaves, Goto
<1>7. ASSUME NEW c \in Callers, IssueToken(c)
      PROVE  RevokedFirst'
  BY <1>7, <1>a, SessionsAssumption DEF IssueToken, Row, FamilyOf, NoCall, Holding
<1>8. ASSUME NEW c \in Callers, RefreshChecksUser(c)
      PROVE  RevokedFirst'
  BY <1>8, <1>a, SessionsAssumption DEF RefreshChecksUser, Goto
<1>9. ASSUME NEW c \in Callers, RefreshRevokes(c)
      PROVE  RevokedFirst'
  BY <1>9, <1>a, SessionsAssumption DEF RefreshRevokes, Revoked, Goto
<1>10. ASSUME NEW c \in Callers, EndSession(c)
      PROVE  RevokedFirst'
  <2>1. FamilyGone(call[c].family)
    BY <1>10, EndSessionEffect
  <2> QED
    BY <1>10, <1>a, <2>1, SessionsAssumption DEF FamilyGone, EndSession, NoCall, Holding
<1>11. ASSUME NEW c \in Callers, CallFails(c)
      PROVE  RevokedFirst'
  BY <1>11, <1>a, SessionsAssumption DEF CallFails, NoCall, Holding
<1>12. ASSUME NEW u \in Users, Suspend(u)
      PROVE  RevokedFirst'
  BY <1>12, <1>a, SessionsAssumption DEF Suspend
<1>13. ASSUME NEW t \in Tokens, Expire(t)
      PROVE  RevokedFirst'
  BY <1>13, <1>a, SessionsAssumption DEF Expire
<1>14. ASSUME NEW t \in Tokens, GrowOld(t)
      PROVE  RevokedFirst'
  BY <1>14, <1>a, SessionsAssumption DEF GrowOld
<1>15. CASE PurgeExpired
  BY <1>15, <1>a, SessionsAssumption DEF PurgeExpired, Purgeable, NoToken
<1>16. CASE UNCHANGED vars
  BY <1>16, <1>a, SessionsAssumption DEF vars
<1> QED
  BY <1>1, <1>2, <1>3, <1>4, <1>5, <1>6, <1>7, <1>8, <1>9, <1>10, <1>11, <1>12, <1>13, <1>14, <1>15, <1>16 DEF Next

(* A session refreshed by one call at a time has one live token. *)
LEMMA RefreshedAloneStep ==
  TypeOK /\ IdsInOrder /\ RefreshedAlone /\ [Next]_vars => RefreshedAlone'
<1> SUFFICES ASSUME TypeOK, IdsInOrder, RefreshedAlone, [Next]_vars PROVE RefreshedAlone'
  OBVIOUS
<1> USE DEF RefreshedAlone, Live, Refreshes, IdsInOrder, TypeOK, CallStates, Rows, Tokens, At, Done, history
<1>a. TypeOK'
  BY TypeStep
<1>1. ASSUME NEW c \in Callers, NEW u \in Users, RegisterReads(c, u)
      PROVE  RefreshedAlone'
  BY <1>1, <1>a, SessionsAssumption DEF RegisterReads, Holding
<1>2. ASSUME NEW c \in Callers, NEW u \in Users, LoginReads(c, u)
      PROVE  RefreshedAlone'
  BY <1>2, <1>a, SessionsAssumption DEF LoginReads, Holding
<1>3. ASSUME NEW c \in Callers, NEW t \in Tokens, RefreshReads(c, t)
      PROVE  RefreshedAlone'
  <2>1. RefreshReadsFacts(c, t)
    BY <1>3, RefreshReadsEffect
  <2>2. UNCHANGED <<status, token, issued, rotated, ended, closed>> /\ Found(t) /\ At(c, "idle")
    BY <2>1 DEF RefreshReadsFacts
  <2>3. CASE token[t].state = "live"
    <3>1. call' = [call EXCEPT ![c] = Holding("checking", token[t].user, token[t].family, t)]
      BY <2>1, <2>3 DEF RefreshReadsFacts
    <3>2. contended' = IF \E j \in Callers : Refreshes(j, token[t].family)
                       THEN contended \cup {token[t].family} ELSE contended
      BY <2>1, <2>3 DEF RefreshReadsFacts
    <3> QED
      BY <1>a, <2>2, <2>3, <3>1, <3>2, SessionsAssumption, SMTT(30) DEF Holding
  <2>4. CASE token[t].state = "revoked"
    <3>1. call' = [call EXCEPT ![c] = Holding("ending", token[t].user, token[t].family, t)]
      BY <2>1, <2>4 DEF RefreshReadsFacts
    <3>2. contended' = contended
      BY <2>1, <2>4 DEF RefreshReadsFacts
    <3> QED
      BY <1>a, <2>2, <2>4, <3>1, <3>2, SessionsAssumption, SMTT(30) DEF Holding
  <2> QED
    BY <2>1, <2>3, <2>4 DEF RefreshReadsFacts
<1>4. ASSUME NEW c \in Callers, NEW t \in Tokens, LogoutReads(c, t)
      PROVE  RefreshedAlone'
  BY <1>4, <1>a, SessionsAssumption DEF LogoutReads, Holding
<1>5. ASSUME NEW c \in Callers, RegisterInserts(c)
      PROVE  RefreshedAlone'
  BY <1>5, <1>a, SessionsAssumption DEF RegisterInserts, NoCall, Holding
<1>6. ASSUME NEW c \in Callers, LoginSaves(c)
      PROVE  RefreshedAlone'
  BY <1>6, <1>a, SessionsAssumption DEF LoginSaves, Goto
<1>7. ASSUME NEW c \in Callers, IssueToken(c)
      PROVE  RefreshedAlone'
  <2>1. /\ issued \in Nat /\ issued + 1 \in Tokens
        /\ \A d \in Callers : call'[d] = IF d = c THEN NoCall ELSE call[d]
        /\ contended' = contended
    <3>1. issued \in 0..MaxTokens /\ issued < MaxTokens /\ MaxTokens \in Nat
      BY <1>7, SessionsAssumption DEF IssueToken
    <3>2. issued \in Nat /\ issued + 1 \in Tokens
      BY <3>1
    <3> QED
      BY <1>7, <3>2 DEF IssueToken
  <2>2. \A t \in Tokens : token'[t] = IF t = issued + 1 THEN Row(call[c].user, FamilyOf(c))
                                      ELSE token[t]
    BY <1>7, <2>1 DEF IssueToken
  <2>3. /\ Row(call[c].user, FamilyOf(c)).family = FamilyOf(c)
        /\ NoCall.pc = "idle"
    BY DEF Row, NoCall, Holding
  <2> SUFFICES ASSUME NEW f \in Tokens, f \notin contended
               PROVE  /\ \A s, t \in Live(f)' : s = t
                      /\ \A d \in Callers : Refreshes(d, f)' => Live(f)' \subseteq
                           IF At(d, "issuing")' THEN {} ELSE {call'[d].token}
                      /\ \A d, e \in Callers : Refreshes(d, f)' /\ Refreshes(e, f)' => d = e
    BY <2>1
  <2>4. \A d \in Callers : Refreshes(d, f)' => d # c /\ Refreshes(d, f) /\ call'[d] = call[d]
    BY <2>1, <2>3
  <2>5. CASE FamilyOf(c) # f
    <3>1. Live(f)' \subseteq Live(f)
      BY <2>2, <2>3, <2>5, SMTT(30)
    <3> QED
      BY <2>4, <3>1
  <2>6. CASE FamilyOf(c) = f
    <3>1. Live(f) = {}
      <4>1. CASE call[c].token = 0
        BY <2>1, <2>6, <4>1 DEF FamilyOf, Found
      <4>2. CASE call[c].token # 0
        BY <1>7, <2>6, <4>2 DEF FamilyOf, IssueToken
      <4> QED
        BY <4>1, <4>2
    <3>2. Live(f)' \subseteq {issued + 1}
      BY <2>2, <3>1
    <3>3. \A d \in Callers : ~Refreshes(d, f)'
      <4>1. CASE call[c].token = 0
        BY <2>1, <2>4, <2>6, <4>1 DEF FamilyOf
      <4>2. CASE call[c].token # 0
        BY <1>7, <2>4, <2>6, <4>2 DEF FamilyOf, IssueToken
      <4> QED
        BY <4>1, <4>2
    <3> QED
      BY <3>2, <3>3
  <2> QED
    BY <2>5, <2>6
<1>8. ASSUME NEW c \in Callers, RefreshChecksUser(c)
      PROVE  RefreshedAlone'
  BY <1>8, <1>a, SessionsAssumption, SMTT(30) DEF RefreshChecksUser, Goto
<1>9. ASSUME NEW c \in Callers, RefreshRevokes(c)
      PROVE  RefreshedAlone'
  BY <1>9, <1>a, SessionsAssumption, SMTT(30) DEF RefreshRevokes, Revoked, Goto
<1>10. ASSUME NEW c \in Callers, EndSession(c)
      PROVE  RefreshedAlone'
  <2>1. FamilyGone(call[c].family)
    BY <1>10, EndSessionEffect
  <2> QED
    BY <1>10, <1>a, <2>1, SessionsAssumption DEF FamilyGone, EndSession, NoCall, Holding
<1>11. ASSUME NEW c \in Callers, CallFails(c)
      PROVE  RefreshedAlone'
  BY <1>11, <1>a, SessionsAssumption DEF CallFails, NoCall, Holding
<1>12. ASSUME NEW u \in Users, Suspend(u)
      PROVE  RefreshedAlone'
  BY <1>12, <1>a, SessionsAssumption DEF Suspend
<1>13. ASSUME NEW t \in Tokens, Expire(t)
      PROVE  RefreshedAlone'
  BY <1>13, <1>a, SessionsAssumption DEF Expire
<1>14. ASSUME NEW t \in Tokens, GrowOld(t)
      PROVE  RefreshedAlone'
  BY <1>14, <1>a, SessionsAssumption DEF GrowOld
<1>15. CASE PurgeExpired
  BY <1>15, <1>a, SessionsAssumption DEF PurgeExpired, Purgeable, NoToken
<1>16. CASE UNCHANGED vars
  BY <1>16, <1>a, SessionsAssumption DEF vars
<1> QED
  BY <1>1, <1>2, <1>3, <1>4, <1>5, <1>6, <1>7, <1>8, <1>9, <1>10, <1>11, <1>12, <1>13, <1>14, <1>15, <1>16 DEF Next

(* A session ended alone stays ended. *)
LEMMA EndedAloneStep ==
  TypeOK /\ IdsInOrder /\ EndedAlone /\ [Next]_vars => EndedAlone'
<1> SUFFICES ASSUME TypeOK, IdsInOrder, EndedAlone, [Next]_vars PROVE EndedAlone'
  OBVIOUS
<1> USE DEF EndedAlone, Live, Refreshes, IdsInOrder, TypeOK, CallStates, Rows, Tokens, At, Done, history
<1>a. TypeOK'
  BY TypeStep
<1>1. ASSUME NEW c \in Callers, NEW u \in Users, RegisterReads(c, u)
      PROVE  EndedAlone'
  BY <1>1, <1>a, SessionsAssumption DEF RegisterReads, Holding
<1>2. ASSUME NEW c \in Callers, NEW u \in Users, LoginReads(c, u)
      PROVE  EndedAlone'
  BY <1>2, <1>a, SessionsAssumption DEF LoginReads, Holding
<1>3. ASSUME NEW c \in Callers, NEW t \in Tokens, RefreshReads(c, t)
      PROVE  EndedAlone'
  <2>1. RefreshReadsFacts(c, t)
    BY <1>3, RefreshReadsEffect
  <2>2. UNCHANGED <<status, token, issued, rotated, ended, closed>> /\ Found(t) /\ At(c, "idle")
    BY <2>1 DEF RefreshReadsFacts
  <2>3. CASE token[t].state = "live"
    <3>1. call' = [call EXCEPT ![c] = Holding("checking", token[t].user, token[t].family, t)]
      BY <2>1, <2>3 DEF RefreshReadsFacts
    <3>2. contended' = IF \E j \in Callers : Refreshes(j, token[t].family)
                       THEN contended \cup {token[t].family} ELSE contended
      BY <2>1, <2>3 DEF RefreshReadsFacts
    <3> QED
      BY <1>a, <2>2, <2>3, <3>1, <3>2, SessionsAssumption, SMTT(60) DEF Holding
  <2>4. CASE token[t].state = "revoked"
    <3>1. call' = [call EXCEPT ![c] = Holding("ending", token[t].user, token[t].family, t)]
      BY <2>1, <2>4 DEF RefreshReadsFacts
    <3>2. contended' = contended
      BY <2>1, <2>4 DEF RefreshReadsFacts
    <3> QED
      BY <1>a, <2>2, <2>4, <3>1, <3>2, SessionsAssumption, SMTT(30) DEF Holding
  <2> QED
    BY <2>1, <2>3, <2>4 DEF RefreshReadsFacts
<1>4. ASSUME NEW c \in Callers, NEW t \in Tokens, LogoutReads(c, t)
      PROVE  EndedAlone'
  BY <1>4, <1>a, SessionsAssumption DEF LogoutReads, Holding
<1>5. ASSUME NEW c \in Callers, RegisterInserts(c)
      PROVE  EndedAlone'
  BY <1>5, <1>a, SessionsAssumption DEF RegisterInserts, NoCall, Holding
<1>6. ASSUME NEW c \in Callers, LoginSaves(c)
      PROVE  EndedAlone'
  BY <1>6, <1>a, SessionsAssumption DEF LoginSaves, Goto
<1>7. ASSUME NEW c \in Callers, IssueToken(c)
      PROVE  EndedAlone'
  BY <1>7, <1>a, SessionsAssumption DEF IssueToken, Row, FamilyOf, NoCall, Holding
<1>8. ASSUME NEW c \in Callers, RefreshChecksUser(c)
      PROVE  EndedAlone'
  BY <1>8, <1>a, SessionsAssumption DEF RefreshChecksUser, Goto
<1>9. ASSUME NEW c \in Callers, RefreshRevokes(c)
      PROVE  EndedAlone'
  BY <1>9, <1>a, SessionsAssumption DEF RefreshRevokes, Revoked, Goto
<1>10. ASSUME NEW c \in Callers, EndSession(c)
      PROVE  EndedAlone'
  <2>1. FamilyGone(call[c].family)
    BY <1>10, EndSessionEffect
  <2> QED
    BY <1>10, <1>a, <2>1, SessionsAssumption, SMTT(30) DEF FamilyGone, EndSession, NoCall, Holding
<1>11. ASSUME NEW c \in Callers, CallFails(c)
      PROVE  EndedAlone'
  BY <1>11, <1>a, SessionsAssumption DEF CallFails, NoCall, Holding
<1>12. ASSUME NEW u \in Users, Suspend(u)
      PROVE  EndedAlone'
  BY <1>12, <1>a, SessionsAssumption DEF Suspend
<1>13. ASSUME NEW t \in Tokens, Expire(t)
      PROVE  EndedAlone'
  BY <1>13, <1>a, SessionsAssumption DEF Expire
<1>14. ASSUME NEW t \in Tokens, GrowOld(t)
      PROVE  EndedAlone'
  BY <1>14, <1>a, SessionsAssumption DEF GrowOld
<1>15. CASE PurgeExpired
  BY <1>15, <1>a, SessionsAssumption DEF PurgeExpired, Purgeable, NoToken
<1>16. CASE UNCHANGED vars
  BY <1>16, <1>a, SessionsAssumption DEF vars
<1> QED
  BY <1>1, <1>2, <1>3, <1>4, <1>5, <1>6, <1>7, <1>8, <1>9, <1>10, <1>11, <1>12, <1>13, <1>14, <1>15, <1>16 DEF Next

(* A user suspended alone stays suspended. *)
LEMMA ClosedAloneStep ==
  TypeOK /\ IdsInOrder /\ ClosedAlone /\ [Next]_vars => ClosedAlone'
<1> SUFFICES ASSUME TypeOK, IdsInOrder, ClosedAlone, [Next]_vars PROVE ClosedAlone'
  OBVIOUS
<1> USE DEF ClosedAlone, Vouched, Active, IdsInOrder, TypeOK, CallStates, Rows, Tokens, At, Done, history
<1>a. TypeOK'
  BY TypeStep
<1>1. ASSUME NEW c \in Callers, NEW u \in Users, RegisterReads(c, u)
      PROVE  ClosedAlone'
  BY <1>1, <1>a, SessionsAssumption DEF RegisterReads, Holding
<1>2. ASSUME NEW c \in Callers, NEW u \in Users, LoginReads(c, u)
      PROVE  ClosedAlone'
  BY <1>2, <1>a, SessionsAssumption DEF LoginReads, Holding
<1>3. ASSUME NEW c \in Callers, NEW t \in Tokens, RefreshReads(c, t)
      PROVE  ClosedAlone'
  <2>1. RefreshReadsFacts(c, t)
    BY <1>3, RefreshReadsEffect
  <2>2. UNCHANGED <<status, token, issued, rotated, ended, closed>> /\ Found(t) /\ At(c, "idle")
    BY <2>1 DEF RefreshReadsFacts
  <2>3. CASE token[t].state = "live"
    <3>1. call' = [call EXCEPT ![c] = Holding("checking", token[t].user, token[t].family, t)]
      BY <2>1, <2>3 DEF RefreshReadsFacts
    <3>2. contended' = IF \E j \in Callers : Refreshes(j, token[t].family)
                       THEN contended \cup {token[t].family} ELSE contended
      BY <2>1, <2>3 DEF RefreshReadsFacts
    <3> QED
      BY <1>a, <2>2, <2>3, <3>1, <3>2, SessionsAssumption, SMTT(30) DEF Holding
  <2>4. CASE token[t].state = "revoked"
    <3>1. call' = [call EXCEPT ![c] = Holding("ending", token[t].user, token[t].family, t)]
      BY <2>1, <2>4 DEF RefreshReadsFacts
    <3>2. contended' = contended
      BY <2>1, <2>4 DEF RefreshReadsFacts
    <3> QED
      BY <1>a, <2>2, <2>4, <3>1, <3>2, SessionsAssumption, SMTT(30) DEF Holding
  <2> QED
    BY <2>1, <2>3, <2>4 DEF RefreshReadsFacts
<1>4. ASSUME NEW c \in Callers, NEW t \in Tokens, LogoutReads(c, t)
      PROVE  ClosedAlone'
  BY <1>4, <1>a, SessionsAssumption DEF LogoutReads, Holding
<1>5. ASSUME NEW c \in Callers, RegisterInserts(c)
      PROVE  ClosedAlone'
  BY <1>5, <1>a, SessionsAssumption DEF RegisterInserts, NoCall, Holding
<1>6. ASSUME NEW c \in Callers, LoginSaves(c)
      PROVE  ClosedAlone'
  BY <1>6, <1>a, SessionsAssumption DEF LoginSaves, Goto
<1>7. ASSUME NEW c \in Callers, IssueToken(c)
      PROVE  ClosedAlone'
  BY <1>7, <1>a, SessionsAssumption DEF IssueToken, Row, FamilyOf, NoCall, Holding
<1>8. ASSUME NEW c \in Callers, RefreshChecksUser(c)
      PROVE  ClosedAlone'
  BY <1>8, <1>a, SessionsAssumption DEF RefreshChecksUser, Goto
<1>9. ASSUME NEW c \in Callers, RefreshRevokes(c)
      PROVE  ClosedAlone'
  BY <1>9, <1>a, SessionsAssumption DEF RefreshRevokes, Revoked, Goto
<1>10. ASSUME NEW c \in Callers, EndSession(c)
      PROVE  ClosedAlone'
  <2>1. FamilyGone(call[c].family)
    BY <1>10, EndSessionEffect
  <2> QED
    BY <1>10, <1>a, <2>1, SessionsAssumption DEF FamilyGone, EndSession, NoCall, Holding
<1>11. ASSUME NEW c \in Callers, CallFails(c)
      PROVE  ClosedAlone'
  BY <1>11, <1>a, SessionsAssumption DEF CallFails, NoCall, Holding
<1>12. ASSUME NEW u \in Users, Suspend(u)
      PROVE  ClosedAlone'
  BY <1>12, <1>a, SessionsAssumption DEF Suspend
<1>13. ASSUME NEW t \in Tokens, Expire(t)
      PROVE  ClosedAlone'
  BY <1>13, <1>a, SessionsAssumption DEF Expire
<1>14. ASSUME NEW t \in Tokens, GrowOld(t)
      PROVE  ClosedAlone'
  BY <1>14, <1>a, SessionsAssumption DEF GrowOld
<1>15. CASE PurgeExpired
  BY <1>15, <1>a, SessionsAssumption DEF PurgeExpired, Purgeable, NoToken
<1>16. CASE UNCHANGED vars
  BY <1>16, <1>a, SessionsAssumption DEF vars
<1> QED
  BY <1>1, <1>2, <1>3, <1>4, <1>5, <1>6, <1>7, <1>8, <1>9, <1>10, <1>11, <1>12, <1>13, <1>14, <1>15, <1>16 DEF Next

(* The initial state satisfies all of it. *)
LEMMA SessionInit == Init => SessionInv
<1> SUFFICES ASSUME Init PROVE SessionInv
  OBVIOUS
<1>1. TypeOK
  BY RowsTyped, CallsTyped, SessionsAssumption DEF Init, TypeOK
<1>2. /\ \A t \in Tokens : token[t] = NoToken /\ token[t].state = "absent"
      /\ \A c \in Callers : call[c].pc = "idle" /\ call[c].token = 0 /\ call[c].family = 0
      /\ issued = 0 /\ rotated = {} /\ contended = {} /\ ended = {} /\ closed = {}
  BY DEF Init, NoToken, NoCall, Holding
<1>3. IdsInOrder
  BY <1>2 DEF IdsInOrder, Found
<1>4. RevokedFirst
  BY <1>2 DEF RevokedFirst, RotatedNotLive, At
<1>5. RefreshedAlone
  BY <1>2 DEF RefreshedAlone, Live, Refreshes
<1>6. EndedAlone /\ ClosedAlone
  BY <1>2 DEF EndedAlone, ClosedAlone
<1> QED
  BY <1>1, <1>3, <1>4, <1>5, <1>6 DEF SessionInv

(* In every state of every execution the invariant holds. *)
THEOREM SessionInvariant == Spec => []SessionInv
<1>1. SessionInv /\ [Next]_vars => SessionInv'
  BY TypeStep, IdsStep, RevokedFirstStep, RefreshedAloneStep, EndedAloneStep, ClosedAloneStep
     DEF SessionInv
<1> QED
  BY SessionInit, <1>1, PTL DEF Spec

(* Rotation: a token that has a successor is not live, whatever other calls, *)
(* failures and purges come in between.                                      *)
THEOREM RotationRevokes == Spec => []RotatedNotLive
<1>1. SessionInv => RotatedNotLive
  BY DEF SessionInv, RevokedFirst
<1> QED
  BY SessionInvariant, <1>1, PTL

(* A session has at most one live token unless two refreshes of it overlapped. *)
THEOREM SessionHasOneToken == Spec => []OneLivePerSession
<1>1. SessionInv => OneLivePerSession
  BY DEF SessionInv, RefreshedAlone, OneLivePerSession
<1> QED
  BY SessionInvariant, <1>1, PTL

(* A session ended while no refresh of it was in flight is ended for good. *)
THEOREM EndingIsFinal == Spec => []EndedSessionsStayEnded
<1>1. SessionInv => EndedSessionsStayEnded
  <2> SUFFICES ASSUME SessionInv, NEW f \in ended PROVE Live(f) = {}
    BY DEF EndedSessionsStayEnded
  <2>1. f \in 0..MaxTokens /\ MaxTokens \in Nat
    BY SessionsAssumption DEF SessionInv, TypeOK
  <2>2. CASE f > 0
    BY <2>2 DEF SessionInv, EndedAlone
  <2>3. CASE f = 0
    BY <2>3 DEF SessionInv, IdsInOrder, Found, Live
  <2> QED
    BY <2>1, <2>2, <2>3
<1> QED
  BY SessionInvariant, <1>1, PTL

(* A user suspended while no call had passed the check of the account stays *)
(* suspended and gets no further token.                                     *)
THEOREM SuspensionHolds == Spec => SuspendedStaysOut
<1> DEFINE Out == \A u \in closed :
                    /\ status'[u] = "suspended"
                    /\ \A t \in Tokens :
                         token'[t].state = "live" /\ token'[t].user = u => token[t].state = "live"
<1>1. SessionInv /\ SessionInv' /\ [Next]_vars => [Out]_vars
  <2> SUFFICES ASSUME SessionInv, SessionInv', [Next]_vars, NEW u \in closed
               PROVE  /\ status'[u] = "suspended"
                      /\ \A t \in Tokens :
                           token'[t].state = "live" /\ token'[t].user = u => token[t].state = "live"
    OBVIOUS
  <2>1. status'[u] = "suspended"
    <3>1. closed \subseteq closed'
      BY DEF Next, vars, history, RegisterReads, LoginReads, RefreshReads, LogoutReads,
             RegisterInserts, LoginSaves, IssueToken, RefreshChecksUser, RefreshRevokes,
             EndSession, CallFails, Suspend, Expire, GrowOld, PurgeExpired
    <3> QED
      BY <3>1 DEF SessionInv, ClosedAlone
  <2>2. ASSUME NEW t \in Tokens, token'[t].state = "live", token'[t].user = u
        PROVE  token[t].state = "live"
    <3>1. ASSUME NEW c \in Callers, IssueToken(c) PROVE token[t].state = "live"
      <4>1. token'[t] = token[t] \/ token'[t] = Row(call[c].user, FamilyOf(c))
        BY <3>1 DEF IssueToken, SessionInv, TypeOK
      <4>2. Row(call[c].user, FamilyOf(c)).user = call[c].user
        BY DEF Row
      <4>3. call[c].user # u
        BY <3>1 DEF IssueToken, At, Vouched, SessionInv, ClosedAlone
      <4> QED
        BY <2>2, <4>1, <4>2, <4>3
    <3>2. ASSUME NEW c \in Callers, RefreshRevokes(c) PROVE token[t].state = "live"
      <4>1. token'[t] = token[t] \/ token'[t] = Revoked(token[t])
        BY <3>2 DEF RefreshRevokes, SessionInv, TypeOK
      <4> QED
        BY <2>2, <4>1, RowChanges DEF SessionInv, TypeOK
    <3>3. ASSUME NEW c \in Callers, EndSession(c) PROVE token[t].state = "live"
      BY <2>2, <3>3, EndSessionEffect DEF SessionInv, FamilyGone
    <3>4. ASSUME NEW r \in Tokens, Expire(r) \/ GrowOld(r) PROVE token[t].state = "live"
      <4>1. token' \in {[token EXCEPT ![r] = [token[r] EXCEPT !.expired = TRUE]],
                        [token EXCEPT ![r] = [token[r] EXCEPT !.old = TRUE]]}
        BY <3>4 DEF Expire, GrowOld
      <4>2. token \in [Tokens -> Rows]
        BY DEF SessionInv, TypeOK
      <4>3. /\ [token[r] EXCEPT !.expired = TRUE].state = token[r].state
            /\ [token[r] EXCEPT !.old = TRUE].state = token[r].state
        BY <4>2, RowChanges
      <4> QED
        BY <2>2, <4>1, <4>2, <4>3
    <3>5. CASE PurgeExpired
      BY <2>2, <3>5 DEF PurgeExpired, NoToken
    <3>6. CASE token' = token
      BY <2>2, <3>6
    <3> QED
      BY <3>1, <3>2, <3>3, <3>4, <3>5, <3>6 DEF Next, vars, RegisterReads, LoginReads, RefreshReads,
         LogoutReads, RegisterInserts, LoginSaves, RefreshChecksUser, CallFails, Suspend
  <2> QED
    BY <2>1, <2>2
<1> QED
  BY SessionInvariant, <1>1, PTL DEF SuspendedStaysOut, Spec
==============================================================================
