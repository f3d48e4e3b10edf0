----------------------------- MODULE UserSessions -----------------------------
(***************************************************************************)
(* Identity: accounts and the refresh tokens that keep their sessions      *)
(* alive.  A login opens a family of tokens; a refresh revokes the token   *)
(* it is given and issues the next one of its family; a logout, a refresh  *)
(* with a revoked token, or one for an account that is not active, revokes *)
(* the whole family.                                                       *)
(*                                                                         *)
(* Interleaving: no use case runs in a transaction, so each statement is a *)
(* step, and a call may fail between any two of them.  Time is two flags   *)
(* of a row: its expiry has passed, it was revoked more than 7 days ago.   *)
(*                                                                         *)
(* Passwords, hashes, names, roles and access tokens (which are not        *)
(* stored) are left out, and so are calls refused before they write: an    *)
(* email already registered, wrong credentials, an unknown or an expired   *)
(* token.                                                                  *)
(***************************************************************************)
EXTENDS Naturals

CONSTANTS
  Users,        (* accounts, one for each email                              *)
  NoUser,       (* the user of a row that does not exist                     *)
  Callers,      (* requests in flight                                        *)
  MaxTokens     (* bound: refresh tokens ever issued                         *)

ASSUME SessionsAssumption ==
  /\ NoUser \notin Users
  /\ MaxTokens \in Nat

VARIABLES
  status,       (* identity.users: the status of each row                    *)
  token,        (* identity.refresh_tokens, by the order of their INSERTs    *)
  issued,       (* refresh tokens inserted so far                            *)
  call          (* each request: where it is and what it holds               *)

(* History, not read by any action of the code. *)
VARIABLES
  rotated,      (* tokens that a successor was issued for                    *)
  contended,    (* families refreshed by two calls at the same time          *)
  ended,        (* families revoked while no refresh of them was in flight   *)
  closed        (* users suspended while no call had passed their check      *)

history == <<rotated, contended, ended, closed>>
vars == <<status, token, issued, call, history>>

Tokens == 1..MaxTokens

NoToken == [state |-> "absent", user |-> NoUser, family |-> 0, expired |-> FALSE, old |-> FALSE]

Holding(pc, u, f, t) == [pc |-> pc, user |-> u, family |-> f, token |-> t]
NoCall == Holding("idle", NoUser, 0, 0)

At(c, pc) == call[c].pc = pc
Goto(c, pc) == call' = [call EXCEPT ![c] = [@ EXCEPT !.pc = pc]]
Done(c) == call' = [call EXCEPT ![c] = NoCall]

(* A refresh of the family that found its token live and is not over. *)
Refreshes(c, f) == call[c].pc \in {"checking", "rotating", "issuing"} /\ call[c].family = f

(* A call that already took the account for an active one. *)
Vouched(c, u) == call[c].pc \in {"loggingIn", "rotating", "issuing"} /\ call[c].user = u

------------------------------------------------------------------------------
(* Accounts. *)

(* isActive *)
Active_NotCurrent(u) == status[u] # "none"
Active(u) == status[u] = "active"

(* findByEmail finds nothing. *)
RegisterReads(c, u) ==
  /\ At(c, "idle")
  /\ status[u] = "none"
  /\ call' = [call EXCEPT ![c] = Holding("registering", u, 0, 0)]
  /\ UNCHANGED <<status, token, issued, history>>

(* save of a new user; the email is UNIQUE. *)
RegisterInserts(c) ==
  /\ At(c, "registering")
  /\ status[call[c].user] = "none"
  /\ status' = [status EXCEPT ![call[c].user] = "active"]
  /\ Done(c)
  /\ UNCHANGED <<token, issued, history>>

(* findByEmail, isSuspended, comparePassword, recordLogin *)
LoginReads(c, u) ==
  /\ At(c, "idle")
  /\ Active(u)
  /\ call' = [call EXCEPT ![c] = Holding("loggingIn", u, 0, 0)]
  /\ UNCHANGED <<status, token, issued, history>>

(* save of the entity in memory writes every column, its status too. *)
LoginSaves(c) ==
  /\ At(c, "loggingIn")
  /\ status' = [status EXCEPT ![call[c].user] = "active"]
  /\ Goto(c, "issuing")
  /\ UNCHANGED <<token, issued, history>>

(* An administrator suspends the account in the database. *)
Suspend(u) ==
  /\ status[u] = "active"
  /\ status' = [status EXCEPT ![u] = "suspended"]
  /\ closed' = IF \E c \in Callers : Vouched(c, u) THEN closed ELSE closed \cup {u}
  /\ UNCHANGED <<token, issued, call, rotated, contended, ended>>

------------------------------------------------------------------------------
(* Tokens. *)

(* uuidv4 for a login; the family of the old token for a rotation. *)
FamilyOf_PerUser(c) ==
  IF \E t \in Tokens : token[t].user = call[c].user
  THEN token[CHOOSE t \in Tokens : token[t].user = call[c].user].family
  ELSE issued + 1
FamilyOf(c) == IF call[c].token = 0 THEN issued + 1 ELSE call[c].family

Row(user, family) ==
  [state |-> "live", user |-> user, family |-> family, expired |-> FALSE, old |-> FALSE]

(* create: issueForLogin, or the last statement of a refresh. *)
IssueToken(c) ==
  /\ At(c, "issuing")
  /\ issued < MaxTokens
  /\ issued' = issued + 1
  /\ token' = [token EXCEPT ![issued + 1] = Row(call[c].user, FamilyOf(c))]
  /\ rotated' = rotated \cup ({call[c].token} \ {0})
  /\ Done(c)
  /\ UNCHANGED <<status, contended, ended, closed>>

Found(t) == token[t].state # "absent"

(* findByTokenHash; a live and unexpired token goes on to the user, a revoked *)
(* one to its family.                                                         *)
RefreshReads(c, t) ==
  /\ At(c, "idle")
  /\ Found(t)
  /\ LET f == token[t].family
     IN \/ /\ token[t].state = "live"
           /\ ~token[t].expired
           /\ call' = [call EXCEPT ![c] = Holding("checking", token[t].user, f, t)]
           /\ contended' = IF \E j \in Callers : Refreshes(j, f)
                           THEN contended \cup {f} ELSE contended
        \/ /\ token[t].state = "revoked"
           /\ call' = [call EXCEPT ![c] = Holding("ending", token[t].user, f, t)]
           /\ UNCHANGED contended
  /\ UNCHANGED <<status, token, issued, rotated, ended, closed>>

(* findById, !user || user.isSuspended() *)
RefreshChecksUser(c) ==
  /\ At(c, "checking")
  /\ Goto(c, IF Active(call[c].user) THEN "rotating" ELSE "ending")
  /\ UNCHANGED <<status, token, issued, history>>

(* The row that UPDATE ... SET is_revoked, revoked_at leaves. *)
Revoked_KeptLive(r) == [r EXCEPT !.old = FALSE]
Revoked(r) == [r EXCEPT !.state = "revoked", !.old = FALSE]

(* revokeByTokenHash, whatever is_revoked is by now. *)
RefreshRevokes(c) ==
  /\ At(c, "rotating")
  /\ Found(call[c].token)
  /\ token' = [token EXCEPT ![call[c].token] = Revoked(@)]
  /\ Goto(c, "issuing")
  /\ UNCHANGED <<status, issued, history>>

(* findByTokenHash finds a row, revoked or not. *)
LogoutReads(c, t) ==
  /\ At(c, "idle")
  /\ Found(t)
  /\ call' = [call EXCEPT ![c] = Holding("ending", token[t].user, token[t].family, t)]
  /\ UNCHANGED <<status, token, issued, history>>

(* revokeByFamilyId: ... WHERE family_id AND NOT is_revoked *)
FamilyRevoked_OneToken(c) ==
  [t \in Tokens |->
     IF t = call[c].token /\ token[t].state = "live" THEN Revoked(token[t]) ELSE token[t]]
FamilyRevoked(c) ==
  [t \in Tokens |->
     IF token[t].family = call[c].family /\ token[t].state = "live"
     THEN Revoked(token[t]) ELSE token[t]]

EndSession(c) ==
  /\ At(c, "ending")
  /\ token' = FamilyRevoked(c)
  /\ ended' = IF \E j \in Callers : Refreshes(j, call[c].family)
              THEN ended ELSE ended \cup {call[c].family}
  /\ Done(c)
  /\ UNCHANGED <<status, issued, rotated, contended, closed>>

(* A statement throws (the email was registered, the token purged, the         *)
(* connection lost) or the process dies: the rest of the call is gone.         *)
CallFails(c) ==
  /\ ~At(c, "idle")
  /\ Done(c)
  /\ UNCHANGED <<status, token, issued, history>>

------------------------------------------------------------------------------
(* Time, and the hourly job. *)

(* expiresAt < new Date() *)
Expire(t) ==
  /\ Found(t) /\ ~token[t].expired
  /\ token' = [token EXCEPT ![t] = [@ EXCEPT !.expired = TRUE]]
  /\ UNCHANGED <<status, issued, call, history>>

(* revokedAt < new Date(Date.now() - 7 days) *)
GrowOld(t) ==
  /\ token[t].state = "revoked" /\ ~token[t].old
  /\ token' = [token EXCEPT ![t] = [@ EXCEPT !.old = TRUE]]
  /\ UNCHANGED <<status, issued, call, history>>

Purgeable(r) == r.expired \/ (r.state = "revoked" /\ r.old)

(* purgeExpired: one DELETE. *)
PurgeExpired ==
  /\ \E t \in Tokens : Purgeable(token[t])
  /\ token' = [t \in Tokens |-> IF Purgeable(token[t]) THEN NoToken ELSE token[t]]
  /\ UNCHANGED <<status, issued, call, history>>

------------------------------------------------------------------------------
Init ==
  /\ status = [u \in Users |-> "none"]
  /\ token = [t \in Tokens |-> NoToken]
  /\ issued = 0
  /\ call = [c \in Callers |-> NoCall]
  /\ rotated = {} /\ contended = {} /\ ended = {} /\ closed = {}

Next ==
  \/ \E c \in Callers :
       \/ \E u \in Users : RegisterReads(c, u) \/ LoginReads(c, u)
       \/ \E t \in Tokens : RefreshReads(c, t) \/ LogoutReads(c, t)
       \/ RegisterInserts(c) \/ LoginSaves(c) \/ IssueToken(c)
       \/ RefreshChecksUser(c) \/ RefreshRevokes(c) \/ EndSession(c)
       \/ CallFails(c)
  \/ \E u \in Users : Suspend(u)
  \/ \E t \in Tokens : Expire(t) \/ GrowOld(t)
  \/ PurgeExpired

Spec == Init /\ [][Next]_vars

------------------------------------------------------------------------------
Rows ==
  [state : {"absent", "live", "revoked"}, user : Users \cup {NoUser},
   family : 0..MaxTokens, expired : BOOLEAN, old : BOOLEAN]

PCs == {"idle", "registering", "loggingIn", "checking", "rotating", "issuing", "ending"}

CallStates ==
  [pc : PCs, user : Users \cup {NoUser}, family : 0..MaxTokens, token : 0..MaxTokens]

(* Every variable has its type. *)
TypeOK ==
  /\ status \in [Users -> {"none", "active", "suspended"}]
  /\ token \in [Tokens -> Rows]
  /\ issued \in 0..MaxTokens
  /\ call \in [Callers -> CallStates]
  /\ rotated \subseteq Tokens
  /\ contended \subseteq 0..MaxTokens
  /\ ended \subseteq 0..MaxTokens
  /\ closed \subseteq Users

Live(f) == {t \in Tokens : token[t].state = "live" /\ token[t].family = f}

(* "Each refresh rotates the token (old revoked, new created in same        *)
(* family)": a token that has a successor is not live, whatever other calls, *)
(* failures and purges come in between.                                      *)
RotatedNotLive == \A t \in rotated : token[t].state # "live"

(* A session has at most one live token, unless two refreshes of it were in  *)
(* flight at the same time.                                                  *)
OneLivePerSession ==
  \A f \in Tokens \ contended : \A s, t \in Live(f) : s = t

(* "Session invalidated", "Please login again": a session revoked while no   *)
(* refresh of it was in flight never has a live token again.                 *)
EndedSessionsStayEnded == \A f \in ended : Live(f) = {}

(* A user suspended while no call had passed the check of the account stays  *)
(* suspended and gets no further token.                                      *)
SuspendedStaysOut ==
  [][\A u \in closed :
       /\ status'[u] = "suspended"
       /\ \A t \in Tokens :
            token'[t].state = "live" /\ token'[t].user = u => token[t].state = "live"]_vars

(***************************************************************************)
(* What makes these inductive: what a call in flight may still rely on.    *)
(***************************************************************************)
(* Rows come in the order of their numbers, and a family is named by its    *)
(* first token.                                                             *)
IdsInOrder ==
  /\ \A t \in Tokens : t > issued => token[t] = NoToken
  /\ \A t \in Tokens : Found(t) => token[t].family \in 1..issued /\ token[t].user \in Users
  /\ \A c \in Callers : call[c].token <= issued /\ call[c].family <= issued
  /\ \A c \in Callers : call[c].pc # "idle" => call[c].user \in Users
  /\ \A c \in Callers : call[c].pc \in {"checking", "rotating"} => call[c].token > 0
  /\ \A c \in Callers : call[c].pc = "loggingIn" => call[c].token = 0
  /\ \A c \in Callers : call[c].token = 0 <=> call[c].family = 0
  /\ rotated \subseteq 1..issued /\ ended \subseteq 0..issued /\ contended \subseteq 0..issued

(* The token to be replaced is revoked before its successor exists. *)
RevokedFirst ==
  /\ RotatedNotLive
  /\ \A c \in Callers : At(c, "issuing") /\ call[c].token > 0 =>
       token[call[c].token].state # "live"

(* A session that is refreshed by one call at a time: what is live of it is  *)
(* the token that call holds, and nothing once that token is revoked.        *)
RefreshedAlone ==
  \A f \in Tokens \ contended :
    /\ \A s, t \in Live(f) : s = t
    /\ \A c, d \in Callers : Refreshes(c, f) /\ Refreshes(d, f) => c = d
    /\ \A c \in Callers : Refreshes(c, f) =>
         Live(f) \subseteq IF At(c, "issuing") THEN {} ELSE {call[c].token}

EndedAlone ==
  \A f \in ended : f > 0 => Live(f) = {} /\ \A c \in Callers : ~Refreshes(c, f)

ClosedAlone ==
  \A u \in closed : status[u] = "suspended" /\ \A c \in Callers : ~Vouched(c, u)

SessionInv == TypeOK /\ IdsInOrder /\ RevokedFirst /\ RefreshedAlone /\ EndedAlone /\ ClosedAlone
==============================================================================
