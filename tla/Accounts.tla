------------------------------ MODULE Accounts ------------------------------
(***************************************************************************)
(* Registration, sessions, password change, password recovery and account  *)
(* deletion, as the HTTP handlers of internal/app/server run them over     *)
(* PostgreSQL (users, password_reset_tokens) and Redis (revoked sessions).  *)
(*                                                                         *)
(* Every request is a process that runs one handler.  A password and its   *)
(* hash, a session and a reset token are all named by the request that     *)
(* made them: hashes are salted and token identifiers random, so no two    *)
(* requests make the same one.  A revocation cutoff, an instant in the     *)
(* code, is the set of sessions issued up to that instant.  A statement of *)
(* PostgreSQL waits for the rows a transaction has locked; Redis may refuse *)
(* or lose the answer of any call.                                         *)
(***************************************************************************)
EXTENDS Naturals, FiniteSets

CONSTANTS Request, Account, Founder, NoOne


VARIABLES users,         \* the users table: NoOne, or the row of an account
          resetTokens,   \* rows of password_reset_tokens not expired yet
          sessions,      \* the sessions issued, by the request that got them
          revokedIDs,    \* sessions whose identifier is in the revoked set
          revokedBefore, \* per account, the sessions its cutoff covers
          call,          \* where each request's handler is
          everStored     \* per account, every password it ever had (history)

accountVars == <<users, resetTokens, sessions, revokedIDs, revokedBefore, call, everStored>>

Row(role, hash) == [role |-> role, hash |-> hash]

\* What the code guarantees of the constants: no row is NULL.
AccountConstants ==
  /\ Founder \in Request /\ Account # {}
  /\ \A role \in {"admin", "user"}, hash \in Request : Row(role, hash) # NoOne

NoCall == [op |-> "idle", step |-> "idle", acct |-> NoOne, seen |-> NoOne, token |-> NoOne, cut |-> {}]
BeginCall(r, op, step, a, seen, token) ==
  call' = [call EXCEPT ![r] = [op |-> op, step |-> step, acct |-> a, seen |-> seen,
                               token |-> token, cut |-> {}]]
At(r, op, step) == call[r].op = op /\ call[r].step = step
MoveTo(r, step) == call' = [call EXCEPT ![r].step = step]
StepOnly(r, step) ==
  MoveTo(r, step) /\ UNCHANGED <<users, resetTokens, sessions, revokedIDs, revokedBefore, everStored>>
Registered(a) == users[a] # NoOne

\* The rows an open password-reset transaction holds.
HoldsToken(q, k) == call[q].op = "reset" /\ call[q].token = k /\ call[q].step \in {"taken", "written", "cut"}
HoldsUser(q, a) == call[q].op = "reset" /\ call[q].acct = a /\ call[q].step \in {"written", "cut"}
TokenLocked(k) == \E q \in Request : HoldsToken(q, k)
UserLocked(a) == \E q \in Request : HoldsUser(q, a)
TokensOf(a) == {k \in resetTokens : call[k].acct = a}

AccountInit ==
  /\ \E founded \in BOOLEAN :
       /\ users = [a \in Account |-> IF founded /\ a = CHOOSE x \in Account : TRUE
                                     THEN Row("admin", Founder) ELSE NoOne]
       /\ sessions = IF founded THEN {Founder} ELSE {}
       /\ call = [r \in Request |-> IF founded /\ r = Founder
                    THEN [NoCall EXCEPT !.op = "register", !.step = "answered",
                                      !.acct = CHOOSE x \in Account : TRUE, !.seen = "admin"]
                    ELSE NoCall]
       /\ everStored = [a \in Account |-> IF founded /\ a = CHOOSE x \in Account : TRUE
                                          THEN {Founder} ELSE {}]
  /\ resetTokens = {} /\ revokedIDs = {}
  /\ revokedBefore = [a \in Account |-> {}]

-----------------------------------------------------------------------------
(* Registration.  createUserWithFirstAdminRole counts the users under a    *)
(* transaction-scoped advisory lock, then inserts the row.                 *)

RegistrationOpen == \A q \in Request : ~At(q, "register", "counted")
RoleForNewUser == IF \E a \in Account : Registered(a) THEN "user" ELSE "admin"

RegisterCount(r, a) ==
  /\ call[r] = NoCall
  /\ RegistrationOpen
  /\ BeginCall(r, "register", "counted", a, RoleForNewUser, NoOne)
  /\ UNCHANGED <<users, resetTokens, sessions, revokedIDs, revokedBefore, everStored>>

\* The insert commits with the personal workspace, and the session follows.
RegisterCommit(r) ==
  /\ At(r, "register", "counted")
  /\ ~Registered(call[r].acct)
  /\ users' = [users EXCEPT ![call[r].acct] = Row(call[r].seen, r)]
  /\ everStored' = [everStored EXCEPT ![call[r].acct] = @ \union {r}]
  /\ sessions' = sessions \union {r}
  /\ MoveTo(r, "answered")
  /\ UNCHANGED <<resetTokens, revokedIDs, revokedBefore>>

\* A policy that disables public registration, or an address already in use.
RegisterRefuse(r) == At(r, "register", "counted") /\ StepOnly(r, "refused")

-----------------------------------------------------------------------------
(* Sessions.                                                               *)

\* validateTokenRevocation; while the store does not answer, a signed token
\* is accepted (fail open).
SessionValid(t) == t \notin revokedIDs \union revokedBefore[call[t].acct]
ValidateJWT(t) == t \in sessions /\ \E answers \in BOOLEAN : answers => SessionValid(t)

\* loginUser reads the row and compares the password the client sent.
LoginRead(r, a) ==
  /\ call[r] = NoCall
  /\ Registered(a)
  /\ BeginCall(r, "login", "checked", a, users[a].hash, NoOne)
  /\ UNCHANGED <<users, resetTokens, sessions, revokedIDs, revokedBefore, everStored>>
\* GenerateJWT: issued whatever happened to the account since the row was read.
GenerateJWT(r) ==
  /\ At(r, "login", "checked") \/ At(r, "refresh", "revoked")
  /\ sessions' = sessions \union {r}
  /\ MoveTo(r, "answered")
  /\ UNCHANGED <<users, resetTokens, revokedIDs, revokedBefore, everStored>>

\* RotateJWT validates the session, revokes its identifier and issues another.
RefreshValidate(r, t) ==
  /\ call[r] = NoCall
  /\ ValidateJWT(t)
  /\ BeginCall(r, "refresh", "validated", call[t].acct, NoOne, t)
  /\ UNCHANGED <<users, resetTokens, sessions, revokedIDs, revokedBefore, everStored>>
RevokeJWTClaims(r) ==
  /\ At(r, "refresh", "validated")
  /\ revokedIDs' = revokedIDs \union {call[r].token}
  /\ MoveTo(r, "revoked")
  /\ UNCHANGED <<users, resetTokens, sessions, revokedBefore, everStored>>
RefreshFails(r) == At(r, "refresh", "validated") /\ StepOnly(r, "refused")

\* logoutUser checks the signature only, and revokes the identifier.
Logout(r, t) ==
  /\ call[r] = NoCall /\ t \in sessions
  /\ revokedIDs' = revokedIDs \union {t}
  /\ BeginCall(r, "logout", "answered", call[t].acct, NoOne, t)
  /\ UNCHANGED <<users, resetTokens, sessions, revokedBefore, everStored>>

-----------------------------------------------------------------------------
(* RevokeAllUserJWTs, called by a password change, a reset and a deletion:  *)
(* the instant is taken, and a SET stores it, whatever cutoff is there.     *)

TakeInstant(r) ==
  /\ \/ At(r, "change", "stored") \/ At(r, "reset", "written") \/ At(r, "delete", "checked")
  /\ call' = [call EXCEPT ![r].step = "cut",
                          ![r].cut = {s \in sessions : call[s].acct = call[r].acct}]
  /\ UNCHANGED <<users, resetTokens, sessions, revokedIDs, revokedBefore, everStored>>
StoreCutoff(r) == revokedBefore' = [revokedBefore EXCEPT ![call[r].acct] = call[r].cut]
\* A failed SET may or may not have been executed.
CutoffFails(r) == StoreCutoff(r) \/ UNCHANGED revokedBefore

-----------------------------------------------------------------------------
(* changePassword and changePasswordWithSessionRevocation.                 *)

\* The row is read; the old password is compared with that hash.
ChangeRead(r, t) ==
  /\ call[r] = NoCall /\ ValidateJWT(t)
  /\ Registered(call[t].acct)
  /\ BeginCall(r, "change", "checked", call[t].acct, users[call[t].acct].hash, t)
  /\ UNCHANGED <<users, resetTokens, sessions, revokedIDs, revokedBefore, everStored>>
\* ChangePassword: an unconditional UPDATE, which touches no row of a deleted account.
ChangeStore(r) ==
  LET a == call[r].acct IN
  /\ At(r, "change", "checked") /\ ~UserLocked(a)
  /\ IF Registered(a)
     THEN /\ users' = [users EXCEPT ![a].hash = r]
          /\ everStored' = [everStored EXCEPT ![a] = @ \union {r}]
     ELSE UNCHANGED <<users, everStored>>
  /\ MoveTo(r, "stored")
  /\ UNCHANGED <<resetTokens, sessions, revokedIDs, revokedBefore>>
ChangeRevoked(r) ==
  /\ At(r, "change", "cut")
  /\ StoreCutoff(r)
  /\ MoveTo(r, "answered")
  /\ UNCHANGED <<users, resetTokens, sessions, revokedIDs, everStored>>
ChangeRevokeFails(r) ==
  /\ At(r, "change", "cut")
  /\ CutoffFails(r)
  /\ MoveTo(r, "rollback")
  /\ UNCHANGED <<users, resetTokens, sessions, revokedIDs, everStored>>
\* ChangePasswordIfCurrent: only the hash this request stored is replaced.
RollbackMatchesAny(r) == TRUE
RollbackMatches(r) == users[call[r].acct].hash = r
ChangeRollback(r) ==
  LET a == call[r].acct IN
  /\ At(r, "change", "rollback") /\ ~UserLocked(a)
  /\ IF Registered(a) /\ RollbackMatches(r)
     THEN users' = [users EXCEPT ![a].hash = call[r].seen]
     ELSE UNCHANGED users
  /\ MoveTo(r, "refused")
  /\ UNCHANGED <<resetTokens, sessions, revokedIDs, revokedBefore, everStored>>
\* The rollback itself fails: answered as such, the new password stays.
RollbackFails(r) == At(r, "change", "rollback") /\ StepOnly(r, "stuck")

-----------------------------------------------------------------------------
(* Password recovery.                                                      *)

\* CreatePasswordResetToken deletes the account's tokens it sees and inserts one.
ForgotRead(r, a) ==
  /\ call[r] = NoCall /\ Registered(a)
  /\ \A k \in TokensOf(a) : ~TokenLocked(k)
  /\ call' = [call EXCEPT ![r] = [NoCall EXCEPT !.op = "forgot", !.step = "seen", !.acct = a,
                                              !.cut = TokensOf(a)]]
  /\ UNCHANGED <<users, resetTokens, sessions, revokedIDs, revokedBefore, everStored>>
ForgotStore(r) ==
  /\ At(r, "forgot", "seen")
  /\ \A k \in call[r].cut : ~TokenLocked(k)
  /\ resetTokens' = (resetTokens \ call[r].cut) \union {r}
  /\ MoveTo(r, "stored")
  /\ UNCHANGED <<users, sessions, revokedIDs, revokedBefore, everStored>>
\* EnqueueEmailOutbox succeeds, or every token of the account is deleted.
ForgotMailed(r) == At(r, "forgot", "stored") /\ StepOnly(r, "answered")
ForgotMailFails(r) ==
  /\ At(r, "forgot", "stored")
  /\ \A k \in TokensOf(call[r].acct) : ~TokenLocked(k)
  /\ resetTokens' = resetTokens \ TokensOf(call[r].acct)
  /\ MoveTo(r, "refused")
  /\ UNCHANGED <<users, sessions, revokedIDs, revokedBefore, everStored>>
\* A token expires, and is then refused; maintenance deletes its row.
ExpireToken(k) ==
  /\ k \in resetTokens /\ ~TokenLocked(k)
  /\ resetTokens' = resetTokens \ {k}
  /\ UNCHANGED <<users, sessions, revokedIDs, revokedBefore, call, everStored>>

\* resetPasswordWithToken: one transaction, whose row locks the others wait on.
ResetRead(r, k) ==
  /\ call[r] = NoCall /\ k \in resetTokens
  /\ BeginCall(r, "reset", "read", call[k].acct, NoOne, k)
  /\ UNCHANGED <<users, resetTokens, sessions, revokedIDs, revokedBefore, everStored>>
\* DELETE ... WHERE id = ? AND token_hash = ?: no row affected refuses the token.
TokenTaken(k) == k \in resetTokens
ResetTake(r) ==
  /\ At(r, "reset", "read") /\ ~TokenLocked(call[r].token)
  /\ StepOnly(r, IF TokenTaken(call[r].token) THEN "taken" ELSE "refused")
ResetWrite(r) ==
  /\ At(r, "reset", "taken") /\ ~UserLocked(call[r].acct)
  /\ StepOnly(r, IF Registered(call[r].acct) THEN "written" ELSE "refused")
\* The statement fails, as it does when two resets of an account wait for each
\* other's rows: the transaction is rolled back.
ResetWriteFails(r) == At(r, "reset", "taken") /\ StepOnly(r, "refused")
\* The cutoff is stored from inside the transaction, which deletes the account's
\* tokens, the ones that nobody else has locked, and commits.
ResetRevoked(r) ==
  /\ At(r, "reset", "cut")
  /\ \A k \in TokensOf(call[r].acct), q \in Request \ {r} : ~HoldsToken(q, k)
  /\ StoreCutoff(r)
  /\ users' = [users EXCEPT ![call[r].acct].hash = r]
  /\ everStored' = [everStored EXCEPT ![call[r].acct] = @ \union {r}]
  /\ resetTokens' = resetTokens \ TokensOf(call[r].acct)
  /\ MoveTo(r, "answered")
  /\ UNCHANGED <<sessions, revokedIDs>>
\* The revocation or the commit fails: the transaction is rolled back.
ResetRevokeFails(r) ==
  /\ At(r, "reset", "cut")
  /\ CutoffFails(r)
  /\ MoveTo(r, "refused")
  /\ UNCHANGED <<users, resetTokens, sessions, revokedIDs, everStored>>

-----------------------------------------------------------------------------
(* deleteAccount.                                                          *)

DeleteRead(r, t) ==
  /\ call[r] = NoCall /\ ValidateJWT(t)
  /\ Registered(call[t].acct)
  /\ BeginCall(r, "delete", "checked", call[t].acct, users[call[t].acct].hash, t)
  /\ UNCHANGED <<users, resetTokens, sessions, revokedIDs, revokedBefore, everStored>>
DeleteRevoked(r) ==
  /\ At(r, "delete", "cut")
  /\ StoreCutoff(r)
  /\ MoveTo(r, "revoked")
  /\ UNCHANGED <<users, resetTokens, sessions, revokedIDs, everStored>>
DeleteRevokeFails(r) ==
  /\ At(r, "delete", "cut")
  /\ CutoffFails(r)
  /\ MoveTo(r, "refused")
  /\ UNCHANGED <<users, resetTokens, sessions, revokedIDs, everStored>>
DeleteCommit(r) ==
  LET a == call[r].acct IN
  /\ At(r, "delete", "revoked") /\ ~UserLocked(a)
  /\ \A k \in TokensOf(a) : ~TokenLocked(k)
  /\ users' = [users EXCEPT ![a] = NoOne]
  /\ resetTokens' = resetTokens \ TokensOf(a)
  /\ MoveTo(r, "answered")
  /\ UNCHANGED <<sessions, revokedIDs, revokedBefore, everStored>>

-----------------------------------------------------------------------------
AccountNext ==
  \/ \E r \in Request : 
       \/ \E a \in Account : RegisterCount(r, a) \/ LoginRead(r, a) \/ ForgotRead(r, a)
       \/ \E t \in sessions : RefreshValidate(r, t) \/ Logout(r, t) \/ ChangeRead(r, t) \/ DeleteRead(r, t)
       \/ \E k \in resetTokens : ResetRead(r, k)
       \/ RegisterCommit(r) \/ RegisterRefuse(r) \/ GenerateJWT(r)
       \/ RevokeJWTClaims(r) \/ RefreshFails(r) \/ TakeInstant(r)
       \/ ChangeStore(r) \/ ChangeRevoked(r) \/ ChangeRevokeFails(r)
       \/ ChangeRollback(r) \/ RollbackFails(r)
       \/ ForgotStore(r) \/ ForgotMailed(r) \/ ForgotMailFails(r)
       \/ ResetTake(r) \/ ResetWrite(r) \/ ResetWriteFails(r)
       \/ ResetRevoked(r) \/ ResetRevokeFails(r)
       \/ DeleteRevoked(r) \/ DeleteRevokeFails(r) \/ DeleteCommit(r)
  \/ \E k \in resetTokens : ExpireToken(k)

AccountSpec == AccountInit /\ [][AccountNext]_accountVars

-----------------------------------------------------------------------------
\* The tables name requests and accounts only, and every handler is at a step of its own.
AccountTypeOK ==
  /\ users \in [Account -> {NoOne} \union [role : {"admin", "user"}, hash : Request]]
  /\ resetTokens \subseteq {r \in Request : call[r].op = "forgot"}
  /\ sessions \subseteq {r \in Request : call[r].op \in {"register", "login", "refresh"}}
  /\ revokedIDs \subseteq sessions
  /\ \A a \in Account : revokedBefore[a] \subseteq sessions /\ everStored[a] \subseteq Request
  /\ \A r \in Request : call[r].step \in {"idle", "counted", "checked", "validated", "revoked", "stored", "cut",
       "rollback", "seen", "read", "taken", "written", "answered", "refused", "stuck"}

\* A reset token changes the password once: of the transactions that read the
\* same token before any of them committed, one commits (the row count of the
\* DELETE in resetPasswordWithToken decides, after the wait for its row lock).
ResetTokenSpentOnce ==
  \A k \in Request :
    Cardinality({r \in Request : call[r].op = "reset" /\ call[r].token = k /\ call[r].step = "answered"}) =< 1

\* A stored password gives way to an earlier one in one way only: the request
\* that stored it could not revoke the sessions, and takes it back for the one
\* that it had read (ChangePasswordIfCurrent compares the stored hash with the
\* request's own).  A rollback never takes another request's password away.  What
\* it brings back can be older than a change that was answered after that read
\* and that the failed request then replaced (changePasswordWithSessionRevocation
\* stores without comparing).
OnlyFailedChangesUndone ==
  \A a \in Account :
    (Registered(a) /\ users'[a] # NoOne /\ users'[a].hash # users[a].hash
       /\ users'[a].hash \in everStored[a])
    => /\ call[users[a].hash].step = "rollback"
       /\ users'[a].hash = call[users[a].hash].seen

\* Together: a reset token changes a password once, and a rollback undoes the
\* change of its own request only (database_user_handler.go).
PasswordChangesExact ==
  [](ResetTokenSpentOnce) /\ [][OnlyFailedChangesUndone]_accountVars
=============================================================================
