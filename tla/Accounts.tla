------------------------------- MODULE Accounts -------------------------------
(***************************************************************************)
(* One account, its refresh tokens (sessions), password reset tokens and   *)
(* email verification token: AuthService (internal/service/auth.go), the   *)
(* admin part of UserService, and the users, refresh_tokens,               *)
(* password_reset_tokens and email_verification_tokens tables.             *)
(*                                                                         *)
(* A token is the row its hash finds: hashing and the JWT access tokens,   *)
(* which no table stores, are left out.  A password is named by the reset  *)
(* token that set it.  An account that is deleted stays deleted, and a new *)
(* registration of its address is another account.                         *)
(***************************************************************************)
EXTENDS Requests

CONSTANTS
    Tokens,   \* refresh tokens, numbered as issued: the bound on how many ever are
    Resets,   \* reset tokens: the bound on how many are ever issued
    Roles     \* roles an account may have; the first one is "student"

ASSUME AccountsAssumption ==
    /\ IsFiniteSet(Tokens) /\ Tokens \subseteq Nat
    /\ Nothing \notin Tokens \cup Resets
    /\ "student" \in Roles

VARIABLES
    account,   \* the users row
    sessions,  \* the refresh_tokens rows
    resets,    \* the password_reset_tokens rows
    verify     \* the email_verification_tokens row made at registration

accountTables == <<account, sessions, resets, verify>>
accountVars == <<requests, accountTables>>

TokenState == {"unused", "live", "spent", "expired"}

User == [row : {"none", "live", "deleted"}, active : BOOLEAN, role : Roles,
         password : Resets \cup {Nothing}, verified : BOOLEAN]

\* from: the token this one was issued for in a rotation; password: the one
\* that opened the session the token continues.  No column stores these two.
Session == [state : TokenState, from : Tokens \cup {Nothing},
            password : Resets \cup {Nothing}]

NoSession == [state |-> "unused", from |-> Nothing, password |-> Nothing]

AccountsInit ==
    /\ RequestsInit
    /\ account = [row |-> "none", active |-> TRUE, role |-> "student",
                  password |-> Nothing, verified |-> FALSE]
    /\ sessions = [t \in Tokens |-> NoSession]
    /\ resets = [r \in Resets |-> "unused"]
    /\ verify = "unused"

\* The row as GetByEmail and GetByID find it, and as Login and Refresh want it.
Found   == account.row = "live"
Enabled == Found /\ account.active

\* The session a request is about to open.
Opening(t, p) == [from |-> t, password |-> p]

-------------------------------------------------------------------------------
(* Register                                                                *)

\* users.Create: the unique index on the address refuses a second row.
CreateUser(w) ==
    /\ Idle(w)
    /\ account.row = "none"
    /\ account' = [account EXCEPT !.row = "live"]
    /\ Hold(w, "register.verify", Opening(Nothing, Nothing))
    /\ UNCHANGED <<sessions, resets, verify>>

\* createEmailVerificationToken
CreateVerification(w) ==
    /\ At(w, "register.verify")
    /\ verify' = "live"
    /\ Goto(w, "issue")
    /\ UNCHANGED <<account, sessions, resets>>

\* issueSession, where Register, Login and Refresh end: refresh.Create.
IssueSession(w) ==
    /\ At(w, "issue")
    /\ \E t \in Tokens :
        /\ sessions[t] = NoSession
        /\ \A s \in Tokens : s < t => sessions[s] # NoSession
        /\ sessions' = [sessions EXCEPT
                ![t] = [state |-> "live", from |-> loc[w].from,
                        password |-> loc[w].password]]
    /\ Finish(w)
    /\ UNCHANGED <<account, resets, verify>>

-------------------------------------------------------------------------------
(* Login, Refresh, Logout                                                  *)

\* GetByEmail and the comparison with the password_hash it returned.
BeginLogin(w) ==
    /\ Idle(w)
    /\ Enabled
    /\ Hold(w, "issue", Opening(Nothing, account.password))
    /\ UNCHANGED accountTables

\* refresh.GetByHash: neither revoked nor expired.
BeginRefresh(w, t) ==
    /\ Idle(w)
    /\ sessions[t].state = "live"
    /\ Hold(w, "refresh.user", Opening(t, sessions[t].password))
    /\ UNCHANGED accountTables

\* users.GetByID
ReadRefresher(w) ==
    /\ At(w, "refresh.user")
    /\ IF Enabled THEN Goto(w, "refresh.revoke") ELSE Finish(w)
    /\ UNCHANGED accountTables

\* As if the UPDATE matched no row.
RevokedNever(s) == s

\* sessions[t] after UPDATE ... SET revoked_at WHERE ... revoked_at IS NULL; an
\* expired session is as good as a revoked one.
Revoked(s) == IF s.state = "live" THEN [s EXCEPT !.state = "spent"] ELSE s

\* refresh.Revoke, whose error Refresh ignores.
RevokePresented(w) ==
    /\ At(w, "refresh.revoke")
    /\ \/ sessions' = [sessions EXCEPT ![loc[w].from] = Revoked(@)]
       \/ setting.failures /\ UNCHANGED sessions
    /\ Goto(w, "issue")
    /\ UNCHANGED <<account, resets, verify>>

Logout(w, t) ==
    /\ AtOnce(w)
    /\ sessions[t].state = "live"
    /\ sessions' = [sessions EXCEPT ![t] = Revoked(@)]
    /\ UNCHANGED <<account, resets, verify>>

-------------------------------------------------------------------------------
(* ForgotPassword, ResetPassword, VerifyEmail                              *)

\* GetByEmail does not ask whether the account is enabled.
BeginForgot(w) ==
    /\ Idle(w)
    /\ Found
    /\ Hold(w, "forgot.create", Opening(Nothing, Nothing))
    /\ UNCHANGED accountTables

\* resets.Create
CreateReset(w) ==
    /\ At(w, "forgot.create")
    /\ \E r \in Resets :
        /\ resets[r] = "unused"
        /\ resets' = [resets EXCEPT ![r] = "live"]
    /\ Finish(w)
    /\ UNCHANGED <<account, sessions, verify>>

\* resets.GetByHash
BeginReset(w, r) ==
    /\ Idle(w)
    /\ resets[r] = "live"
    /\ Hold(w, "reset.password", Opening(Nothing, r))
    /\ UNCHANGED accountTables

\* users.UpdatePasswordHash: WHERE deleted_at IS NULL
UpdatePasswordHash(w) ==
    /\ At(w, "reset.password")
    /\ IF Found
       THEN /\ account' = [account EXCEPT !.password = loc[w].password]
            /\ Goto(w, "reset.mark")
       ELSE Finish(w) /\ UNCHANGED account
    /\ UNCHANGED <<sessions, resets, verify>>

\* As if ResetPassword left the sessions alone.
MarkResetUsedOnly(w) ==
    /\ At(w, "reset.mark")
    /\ resets' = [resets EXCEPT ![loc[w].password] = "spent"]
    /\ Finish(w)
    /\ UNCHANGED <<account, sessions, verify>>

\* resets.MarkUsed: no row is affected when used_at is set already, which ends
\* the request with an error.
MarkResetUsed(w) ==
    /\ At(w, "reset.mark")
    /\ IF resets[loc[w].password] = "spent"
       THEN Finish(w) /\ UNCHANGED resets
       ELSE /\ resets' = [resets EXCEPT ![loc[w].password] = "spent"]
            /\ Goto(w, "reset.revoke")
    /\ UNCHANGED <<account, sessions, verify>>

\* refresh.RevokeAllForUser
RevokeAllForUser(w) ==
    /\ At(w, "reset.revoke")
    /\ sessions' = [t \in Tokens |-> Revoked(sessions[t])]
    /\ Finish(w)
    /\ UNCHANGED <<account, resets, verify>>

\* verifies.GetByHash
BeginVerify(w) ==
    /\ Idle(w)
    /\ verify = "live"
    /\ Hold(w, "verify.user", Opening(Nothing, Nothing))
    /\ UNCHANGED accountTables

MarkEmailVerified(w) ==
    /\ At(w, "verify.user")
    /\ IF Found
       THEN account' = [account EXCEPT !.verified = TRUE] /\ Goto(w, "verify.mark")
       ELSE Finish(w) /\ UNCHANGED account
    /\ UNCHANGED <<sessions, resets, verify>>

MarkVerificationUsed(w) ==
    /\ At(w, "verify.mark")
    /\ verify' = "spent"
    /\ Finish(w)
    /\ UNCHANGED <<account, sessions, resets>>

-------------------------------------------------------------------------------
(* Administration of users, and time                                       *)

\* As if an omitted is_active were true, its default.
BeginAdminUpdateDefaults(w, patch) ==
    /\ Idle(w)
    /\ Found
    /\ Hold(w, "admin.update",
            [active |-> IF "active" \in DOMAIN patch THEN patch.active ELSE TRUE,
             role   |-> IF "role" \in DOMAIN patch THEN patch.role ELSE account.role,
             asked  |-> DOMAIN patch])
    /\ UNCHANGED accountTables

\* AdminUpdate reads the row and writes all three columns: those the patch
\* omits as they were read.
BeginAdminUpdate(w, patch) ==
    /\ Idle(w)
    /\ Found
    /\ Hold(w, "admin.update",
            [active |-> IF "active" \in DOMAIN patch THEN patch.active ELSE account.active,
             role   |-> IF "role" \in DOMAIN patch THEN patch.role ELSE account.role,
             asked  |-> DOMAIN patch])
    /\ UNCHANGED accountTables

WriteAdminUpdate(w) ==
    /\ At(w, "admin.update")
    /\ account' = IF Found THEN [account EXCEPT !.active = loc[w].active,
                                                !.role = loc[w].role]
                  ELSE account
    /\ Finish(w)
    /\ UNCHANGED <<sessions, resets, verify>>

\* Patches an admin sends: one column each.
AdminPatches == [active : BOOLEAN] \cup [role : Roles]

\* SoftDelete also disables; sessions stay as they are.
DeleteUser(w) ==
    /\ AtOnce(w)
    /\ Found
    /\ account' = [account EXCEPT !.row = "deleted", !.active = FALSE]
    /\ UNCHANGED <<sessions, resets, verify>>

\* expires_at passes.
ExpireSession(t) ==
    /\ sessions[t].state = "live"
    /\ sessions' = [sessions EXCEPT ![t] = Revoked(@)]
    /\ UNCHANGED <<requests, account, resets, verify>>

ExpireReset(r) ==
    /\ resets[r] = "live"
    /\ resets' = [resets EXCEPT ![r] = "expired"]
    /\ UNCHANGED <<requests, account, sessions, verify>>

AbortAccounts(w) == Abort(w) /\ UNCHANGED accountTables

-------------------------------------------------------------------------------
AccountsStep(w) ==
    \/ CreateUser(w) \/ CreateVerification(w) \/ IssueSession(w)
    \/ BeginLogin(w) \/ ReadRefresher(w) \/ RevokePresented(w)
    \/ \E t \in Tokens : BeginRefresh(w, t) \/ Logout(w, t)
    \/ BeginForgot(w) \/ CreateReset(w)
    \/ \E r \in Resets : BeginReset(w, r)
    \/ UpdatePasswordHash(w) \/ MarkResetUsed(w) \/ RevokeAllForUser(w)
    \/ BeginVerify(w) \/ MarkEmailVerified(w) \/ MarkVerificationUsed(w)
    \/ \E patch \in AdminPatches : BeginAdminUpdate(w, patch)
    \/ WriteAdminUpdate(w) \/ DeleteUser(w)
    \/ AbortAccounts(w)

AccountsNext ==
    \/ \E w \in setting.workers : AccountsStep(w)
    \/ \E t \in Tokens : ExpireSession(t)
    \/ \E r \in Resets : ExpireReset(r)

AccountsSpec == AccountsInit /\ [][AccountsNext]_accountVars

-------------------------------------------------------------------------------
(* Properties                                                              *)

IssueLabels  == {"register.verify", "issue", "forgot.create",
                 "verify.user", "verify.mark"}
RotateLabels == {"refresh.user", "refresh.revoke"}
ResetLabels  == {"reset.password", "reset.mark", "reset.revoke"}

\* The rows have their columns' types, and a worker holds what its next
\* statement needs: a token to revoke, a reset token to mark.
AccountsTypeOK ==
    /\ account \in User
    /\ sessions \in [Tokens -> Session]
    /\ resets \in [Resets -> TokenState]
    /\ verify \in TokenState
    /\ \A w \in setting.workers :
        \/ pc[w] = "idle" /\ loc[w] = Nothing
        \/ /\ pc[w] \in IssueLabels
           /\ loc[w] \in [from : Tokens \cup {Nothing}, password : Resets \cup {Nothing}]
        \/ /\ pc[w] \in RotateLabels
           /\ loc[w] \in [from : Tokens, password : Resets \cup {Nothing}]
        \/ pc[w] \in ResetLabels /\ loc[w] \in [from : {Nothing}, password : Resets]
        \/ /\ pc[w] = "admin.update"
           /\ loc[w] \in [active : BOOLEAN, role : Roles, asked : SUBSET {"active", "role"}]

\* The tokens issued in exchange for t.
Successors(t) == {s \in Tokens : sessions[s].from = t}

\* Refresh (auth.go:146) tests revoked_at in one statement and sets it in
\* another, and does not look whether it was the one to set it: a token can be
\* exchanged more than once, but while Revoke does not fail never more often
\* than requests run at a time, however they interleave.
RotationBound ==
    Unfailing => \A t \in Tokens : Cardinality(Successors(t)) <= Cardinality(setting.workers)

\* A request at a time: no session is opened or continued for an account that
\* is disabled or deleted (auth.go:126, :154), and only an admin who asks for it
\* enables one (AdminUpdate in repository/postgres/user.go:257 writes is_active
\* with every patch).
DisabledStaysOut ==
    [][Alone /\ ~Enabled /\ account.row # "none" =>
        /\ \A t \in Tokens : sessions'[t].state = "live" => sessions[t].state = "live"
        /\ Enabled' => \E w \in setting.workers :
                            pc[w] = "admin.update" /\ "active" \in loc[w].asked]_accountVars

\* ResetPassword (auth.go:215) sets the password, marks the token and revokes the
\* sessions in three statements.  Unless a request fails, whatever interleaves,
\* the reset token that set the password cannot set it again once the requests
\* are over; and run one at a time, no live session was opened with another
\* password than the current one.
ResetsTakeEffect ==
    Unfailing /\ Quiet =>
        /\ account.password # Nothing => resets[account.password] = "spent"
        /\ Alone => \A t \in Tokens :
                sessions[t].state = "live" => sessions[t].password = account.password
===============================================================================
