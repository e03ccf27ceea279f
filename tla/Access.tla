--------------------------------- MODULE Access ---------------------------------
(***************************************************************************)
(* Who may do what: the access tokens of internal/auth/token.go, the       *)
(* middleware BearerAuth and RequirePermission, the table of               *)
(* internal/rbac, the users whose roles they copy (UserService) and the    *)
(* links of parents to students (ParentService).                           *)
(*                                                                         *)
(* A token says which role its user had when it was made, and no table     *)
(* stores it; a request is let in by the role of its token, while a link   *)
(* is made by the roles the rows have.  Refresh tokens are Accounts'.      *)
(***************************************************************************)
EXTENDS Requests

CONSTANTS
    People,
    FirstRole,   \* the role each of them registered with, or was given
    RolesGiven,  \* roles an admin gives
    AccessTTL,   \* how many hours an access token is good for
    LastHour,    \* bound: time stops there
    TokensBound  \* bound: access tokens at a time

RoleCodes == {"student", "teacher", "parent", "admin"}

ASSUME AccessAssumption ==
    /\ IsFiniteSet(People) /\ FirstRole \in [People -> RoleCodes]
    /\ RolesGiven \subseteq RoleCodes
    /\ AccessTTL \in Nat /\ LastHour \in Nat /\ TokensBound \in Nat

VARIABLES
    clock,
    people,  \* the users rows
    tokens,  \* the access tokens handed out that have not expired
    links,   \* the parent_student_links rows, by parent and student
    held,    \* the last hour in which a row had a role and let its user in; -1
             \* if it never did (not stored)
    had      \* the roles a row has ever had (not stored)

accessTables == <<clock, people, tokens, links>>
accessVars == <<requests, accessTables, held, had>>

Hours == 0..LastHour
Person == [role : RoleCodes, active : BOOLEAN, deleted : BOOLEAN]
Token == [user : People, role : RoleCodes, exp : Nat]

\* GetByID and GetByEmail, and what Login and Refresh want of the row
Exists(u)  == ~people[u].deleted
Admitted(u) == Exists(u) /\ people[u].active

HeldNow(old, t) ==
    [u \in People |-> [r \in RoleCodes |->
        IF ~people'[u].deleted /\ people'[u].active /\ people'[u].role = r
        THEN t ELSE old[u][r]]]

AccessInit ==
    /\ RequestsInit
    /\ clock = 0
    /\ people = [u \in People |->
            [role |-> FirstRole[u], active |-> TRUE, deleted |-> FALSE]]
    /\ tokens = {}
    /\ links = [pair \in People \X People |-> "none"]
    /\ held = [u \in People |-> [r \in RoleCodes |-> IF r = FirstRole[u] THEN 0 ELSE -1]]
    /\ had = [u \in People |-> {FirstRole[u]}]

-------------------------------------------------------------------------------
(* Permissions                                                             *)

\* rolePermissions
Everybody == {"profile:read", "profile:write", "roles:read", "courses:read",
              "orgs:create", "orgs:read"}
Permissions ==
    [student |-> Everybody,
     teacher |-> Everybody \cup {"courses:write"},
     parent  |-> Everybody,
     admin   |-> Everybody \cup {"courses:write", "courses:manage", "users:read",
                                 "users:manage"}]

\* BearerAuth and RequirePermission: what a request may do that carries t
MayUse(t, permission) == clock < t.exp /\ permission \in Permissions[t.role]

-------------------------------------------------------------------------------
(* Signing in                                                              *)

\* As if an account that is not active were let in.
SignInAnyone(w, u) ==
    /\ Idle(w)
    /\ Exists(u)
    /\ Hold(w, "token.issue", [user |-> u, role |-> people[u].role, at |-> clock])
    /\ UNCHANGED accessTables

\* Login and Refresh read the row.
SignIn(w, u) ==
    /\ Idle(w)
    /\ Admitted(u)
    /\ Hold(w, "token.issue", [user |-> u, role |-> people[u].role, at |-> clock])
    /\ UNCHANGED accessTables

\* IssueAccessToken
IssueToken(w) ==
    /\ At(w, "token.issue")
    /\ Cardinality(tokens) < TokensBound
    /\ tokens' = tokens \cup
            {[user |-> loc[w].user, role |-> loc[w].role, exp |-> clock + AccessTTL]}
    /\ Finish(w)
    /\ UNCHANGED <<clock, people, links>>

-------------------------------------------------------------------------------
(* Users                                                                   *)

\* AdminUpdate: what the patch omits is written as it was read.
BeginManage(w, t, u, role, active) ==
    /\ Idle(w)
    /\ MayUse(t, "users:manage")
    /\ Exists(u)
    /\ Hold(w, "user.update", [by |-> t.user, user |-> u, role |-> role, active |-> active])
    /\ UNCHANGED accessTables

WritePerson(w) ==
    /\ At(w, "user.update")
    /\ LET u == loc[w].user
       IN  people' = IF Exists(u)
                     THEN [people EXCEPT ![u].role = loc[w].role, ![u].active = loc[w].active]
                     ELSE people
    /\ Finish(w)
    /\ UNCHANGED <<clock, tokens, links>>

\* SoftDelete, by anybody but the user
RemovePerson(w, t, u) ==
    /\ AtOnce(w)
    /\ MayUse(t, "users:manage") /\ t.user # u
    /\ Exists(u)
    /\ people' = [people EXCEPT ![u].deleted = TRUE, ![u].active = FALSE]
    /\ UNCHANGED <<clock, tokens, links>>

\* The scripts that give a role to the user of an id, a deleted one as well: they
\* count as one of the requests.
ScriptRoles == {"admin", "teacher"}

Promote(w, u, role) ==
    /\ AtOnce(w)
    /\ people' = [people EXCEPT ![u].role = role]
    /\ UNCHANGED <<clock, tokens, links>>

\* UpdateProfile finds a user who is disabled as well.
BeginProfile(w, t) ==
    /\ Idle(w)
    /\ MayUse(t, "profile:write")
    /\ Exists(t.user)
    /\ Hold(w, "user.profile", [user |-> t.user])
    /\ UNCHANGED accessTables

\* The UPDATE names neither role nor is_active; what it names is not kept here.
WriteProfile(w) ==
    /\ At(w, "user.profile")
    /\ Finish(w)
    /\ UNCHANGED accessTables

-------------------------------------------------------------------------------
(* Parents and children                                                    *)

\* LinkChild reads the row of the parent
BeginLink(w, t, child) ==
    /\ Idle(w)
    /\ MayUse(t, "profile:read")
    /\ Exists(t.user) /\ people[t.user].role \in {"parent", "admin"}
    /\ Hold(w, "link.student", [parent |-> t.user, child |-> child])
    /\ UNCHANGED accessTables

\* and then that of the student, who may be the same user in another role.
ReadChild(w) ==
    /\ At(w, "link.student")
    /\ LET u == loc[w].child
       IN  IF Exists(u) /\ people[u].role = "student" /\ u # loc[w].parent
           THEN Goto(w, "link.create")
           ELSE Finish(w)
    /\ UNCHANGED accessTables

\* links.Create: INSERT ... ON CONFLICT DO UPDATE SET status = 'active'
CreateLink(w) ==
    /\ At(w, "link.create")
    /\ links' = [links EXCEPT ![<<loc[w].parent, loc[w].child>>] = "active"]
    /\ Finish(w)
    /\ UNCHANGED <<clock, people, tokens>>

\* links.Revoke: WHERE status = 'active'
UnlinkChild(w, t, child) ==
    /\ AtOnce(w)
    /\ MayUse(t, "profile:read")
    /\ links[<<t.user, child>>] = "active"
    /\ links' = [links EXCEPT ![<<t.user, child>>] = "revoked"]
    /\ UNCHANGED <<clock, people, tokens>>

-------------------------------------------------------------------------------
\* An hour passes; a token past its exp is refused from then on.
\* Bound: a request that signs a user in ends in the hour after the one in which
\* it read the row.
PassHour ==
    /\ clock < LastHour
    /\ \A w \in setting.workers : pc[w] = "token.issue" => loc[w].at = clock
    /\ clock' = clock + 1
    /\ tokens' = {t \in tokens : clock' < t.exp}
    /\ UNCHANGED <<requests, people, links>>

AbortAccess(w) == Abort(w) /\ UNCHANGED accessTables

SigningIn(w) == (\E u \in People : SignIn(w, u)) \/ IssueToken(w)

Managing(w) == \E t \in tokens, u \in People :
    \/ \E role \in RolesGiven \cup {people[u].role}, active \in BOOLEAN :
            BeginManage(w, t, u, role, active)
    \/ RemovePerson(w, t, u)

Promoting(w) ==
    \E u \in People, role \in ScriptRoles \cap RolesGiven : Promote(w, u, role)

OwnProfile(w) == \E t \in tokens : BeginProfile(w, t)

Linking(w) == \E t \in tokens, u \in People : BeginLink(w, t, u) \/ UnlinkChild(w, t, u)

AccessNext ==
    /\ \/ \E w \in setting.workers :
            \/ SigningIn(w) \/ Managing(w) \/ Promoting(w) \/ OwnProfile(w)
            \/ Linking(w)
            \/ WritePerson(w) \/ WriteProfile(w) \/ ReadChild(w) \/ CreateLink(w)
            \/ AbortAccess(w)
       \/ PassHour
    /\ held' = HeldNow(held, clock')
    /\ had' = [u \in People |-> had[u] \cup {people'[u].role}]

AccessSpec == AccessInit /\ [][AccessNext]_accessVars

-------------------------------------------------------------------------------
(* Properties                                                              *)

\* The rows have their columns' types, and a worker holds what its next
\* statement needs.
AccessTypeOK ==
    /\ clock \in Hours
    /\ people \in [People -> Person]
    /\ tokens \subseteq Token
    /\ links \in [People \X People -> {"none", "active", "revoked"}]
    /\ held \in [People -> [RoleCodes -> {-1} \cup Hours]]
    /\ had \in [People -> SUBSET RoleCodes]
    /\ \A w \in setting.workers :
        \/ pc[w] = "idle" /\ loc[w] = Nothing
        \/ pc[w] = "token.issue" /\ loc[w] \in [user : People, role : RoleCodes, at : Hours]
        \/ /\ pc[w] = "user.update"
           /\ loc[w] \in [by : People, user : People, role : RoleCodes, active : BOOLEAN]
        \/ pc[w] = "user.profile" /\ loc[w] \in [user : People]
        \/ /\ pc[w] \in {"link.student", "link.create"}
           /\ loc[w] \in [parent : People, child : People]

\* A token keeps the role its user had (token.go:47, rbac.go:25), whatever an admin
\* changes meanwhile: it lets a demoted, disabled or deleted user act in that role
\* for as long as tokens last, and longer only by the time the request took that
\* issued it while another took the role away.  The two rows a link is made from
\* are read one after the other (discovery.go:83, :91), between which roles change:
\* nobody is linked to themselves, and who is linked was once a parent or admin,
\* and once a student.
AccessEnds ==
    /\ \A t \in tokens :
        t.exp <= held[t.user][t.role] + AccessTTL + (IF Alone THEN 0 ELSE 1)
    /\ \A pair \in People \X People : links[pair] = "active" =>
        /\ pair[1] # pair[2]
        /\ had[pair[1]] \cap {"parent", "admin"} # {}
        /\ "student" \in had[pair[2]]
===============================================================================
