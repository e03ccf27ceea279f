----------------------------- MODULE Organizations -----------------------------
(***************************************************************************)
(* One organization, its members and its invites: OrganizationService      *)
(* (internal/service/organization.go) over the organizations,              *)
(* organization_members and organization_invites tables.                   *)
(*                                                                         *)
(* An invite's address is the user who has it: no request changes the      *)
(* address of an account.  Names and slugs decide nothing once the row is  *)
(* there; Update, which writes them only, and listings are left out.       *)
(***************************************************************************)
EXTENDS Requests

CONSTANTS
    Members,          \* users who may join
    PlatformAdmins,   \* those of them with the platform's admin role
    Deletable,        \* those of them whose account may be deleted
    OrgInvites,       \* invite ids: the bound on how many are ever created
    AdmissionsBound   \* an invite is presented only while it admitted fewer

ASSUME OrganizationsAssumption ==
    /\ IsFiniteSet(Members) /\ Nothing \notin Members
    /\ PlatformAdmins \subseteq Members /\ Deletable \subseteq Members
    /\ AdmissionsBound \in Nat

VARIABLES
    org,       \* the organizations row
    member,    \* org_role in each user's organization_members row
    invites,   \* the organization_invites rows
    admitted,  \* how many rows each invite has added; no column stores it
    gone       \* users whose account is soft-deleted

organizationTables == <<org, member, invites, admitted, gone>>
organizationVars == <<requests, organizationTables>>

OrgRole == {"owner", "admin", "member"}

OrgInvite == [state : {"unused", "created"}, to : Members \cup {Nothing},
              role : {"admin", "member"}, expired : BOOLEAN,
              accepted : BOOLEAN, revoked : BOOLEAN]

NoInvite == [state |-> "unused", to |-> Nothing, role |-> "member",
             expired |-> FALSE, accepted |-> FALSE, revoked |-> FALSE]

OrganizationsInit ==
    /\ RequestsInit
    /\ org = "none"
    /\ member = [u \in Members |-> "none"]
    /\ invites = [i \in OrgInvites |-> NoInvite]
    /\ admitted = [i \in OrgInvites |-> 0]
    /\ gone = {}

\* members.Get joins users: the row of a deleted account is not found.
RoleOf(u) == IF u \in gone THEN "none" ELSE member[u]

\* requireManage: it does not ask whether the organization was deleted.
Manages(u) == u \in PlatformAdmins \/ RoleOf(u) \in {"owner", "admin"}

\* members.CountOwners counts rows, whatever became of their users' accounts.
Owners == {u \in Members : member[u] = "owner"}

\* As if an accepted invite could be presented again.
ClosedByRevocation(i) == invites[i].revoked

Closed(i) == invites[i].accepted \/ invites[i].revoked

-------------------------------------------------------------------------------
(* The organization                                                        *)

\* orgs.Create: the unique index on the slug refuses a second live row.
CreateOrg(w, u) ==
    /\ Idle(w)
    /\ org = "none"
    /\ org' = "live"
    /\ Hold(w, "org.owner", [user |-> u])
    /\ UNCHANGED <<member, invites, admitted, gone>>

\* members.Add in Create
AddOwner(w) ==
    /\ At(w, "org.owner")
    /\ member' = IF member[loc[w].user] = "none"
                 THEN [member EXCEPT ![loc[w].user] = "owner"] ELSE member
    /\ Finish(w)
    /\ UNCHANGED <<org, invites, admitted, gone>>

BeginDeleteOrg(w, actor) ==
    /\ Idle(w)
    /\ org # "none"
    /\ actor \in PlatformAdmins \/ RoleOf(actor) = "owner"
    /\ Hold(w, "org.delete", [user |-> actor])
    /\ UNCHANGED organizationTables

SoftDeleteOrg(w) ==
    /\ At(w, "org.delete")
    /\ org' = "deleted"
    /\ Finish(w)
    /\ UNCHANGED <<member, invites, admitted, gone>>

-------------------------------------------------------------------------------
(* Its members                                                             *)

\* As if owners were not counted.
OwnersUncounted(target, label) == label

\* Where UpdateMemberRole and RemoveMember go once they have read the target:
\* only an owner who stops being one makes them count.
OwnersFirst(target, label) == IF RoleOf(target) = "owner" THEN "org.count" ELSE label

\* UpdateMemberRole: requireManage, then members.Get of the target
BeginUpdateRole(w, actor, target, role) ==
    /\ Idle(w)
    /\ Manages(actor) /\ RoleOf(target) # "none"
    /\ Hold(w, IF role = "owner" THEN "org.role" ELSE OwnersFirst(target, "org.role"),
            [target |-> target, to |-> role])
    /\ UNCHANGED organizationTables

\* RemoveMember, of anyone but oneself
BeginRemove(w, actor, target) ==
    /\ Idle(w)
    /\ Manages(actor) /\ actor # target /\ RoleOf(target) # "none"
    /\ Hold(w, OwnersFirst(target, "org.remove"), [target |-> target, to |-> "none"])
    /\ UNCHANGED organizationTables

\* members.CountOwners
CountOwners(w) ==
    /\ At(w, "org.count")
    /\ IF Cardinality(Owners) <= 1 THEN Finish(w)
       ELSE Goto(w, IF loc[w].to = "none" THEN "org.remove" ELSE "org.role")
    /\ UNCHANGED organizationTables

\* members.UpdateRole: of a row that is still there
UpdateRole(w) ==
    /\ At(w, "org.role")
    /\ member' = IF member[loc[w].target] = "none" THEN member
                 ELSE [member EXCEPT ![loc[w].target] = loc[w].to]
    /\ Finish(w)
    /\ UNCHANGED <<org, invites, admitted, gone>>

\* members.Remove
RemoveRow(w) ==
    /\ At(w, "org.remove")
    /\ member' = [member EXCEPT ![loc[w].target] = "none"]
    /\ Finish(w)
    /\ UNCHANGED <<org, invites, admitted, gone>>

-------------------------------------------------------------------------------
(* Its invites                                                             *)

BeginInvite(w, actor, u, role) ==
    /\ Idle(w)
    /\ org # "none" /\ Manages(actor)
    /\ Hold(w, "org.invite", [to |-> u, role |-> role])
    /\ UNCHANGED organizationTables

\* invites.Create
CreateInvite(w) ==
    /\ At(w, "org.invite")
    /\ \E i \in OrgInvites :
        /\ invites[i].state = "unused"
        /\ invites' = [invites EXCEPT ![i] =
                [NoInvite EXCEPT !.state = "created", !.to = loc[w].to,
                                 !.role = loc[w].role]]
    /\ Finish(w)
    /\ UNCHANGED <<org, member, admitted, gone>>

\* RevokeInvite: requireManage and invites.GetByID
BeginRevokeInvite(w, actor, i) ==
    /\ Idle(w)
    /\ Manages(actor) /\ invites[i].state = "created"
    /\ Hold(w, "org.revoke", [invite |-> i])
    /\ UNCHANGED organizationTables

\* invites.Revoke: WHERE accepted_at IS NULL AND revoked_at IS NULL
RevokeInvite(w) ==
    /\ At(w, "org.revoke")
    /\ invites' = IF Closed(loc[w].invite) THEN invites
                  ELSE [invites EXCEPT ![loc[w].invite].revoked = TRUE]
    /\ Finish(w)
    /\ UNCHANGED <<org, member, admitted, gone>>

\* AcceptInvite: invites.GetByHash, users.GetByID, orgs.GetByID
BeginAccept(w, i) ==
    /\ Idle(w)
    /\ invites[i].state = "created" /\ ~invites[i].expired /\ ~Closed(i)
    /\ admitted[i] < AdmissionsBound
    /\ invites[i].to \notin gone
    /\ org = "live"
    /\ Hold(w, "org.join", [invite |-> i])
    /\ UNCHANGED organizationTables

\* members.Add: a Conflict, of who is a member already, is no error here.
Join(w) ==
    /\ At(w, "org.join")
    /\ LET i == loc[w].invite
           u == invites[i].to
       IN IF member[u] = "none"
          THEN /\ member' = [member EXCEPT ![u] = invites[i].role]
               /\ admitted' = [admitted EXCEPT ![i] = @ + 1]
          ELSE UNCHANGED <<member, admitted>>
    /\ Goto(w, "org.accept")
    /\ UNCHANGED <<org, invites, gone>>

\* invites.MarkAccepted: WHERE accepted_at IS NULL AND revoked_at IS NULL
MarkAccepted(w) ==
    /\ At(w, "org.accept")
    /\ invites' = IF Closed(loc[w].invite) THEN invites
                  ELSE [invites EXCEPT ![loc[w].invite].accepted = TRUE]
    /\ Finish(w)
    /\ UNCHANGED <<org, member, admitted, gone>>

\* expires_at passes.
ExpireInvite(i) ==
    /\ invites[i].state = "created" /\ ~invites[i].expired
    /\ invites' = [invites EXCEPT ![i].expired = TRUE]
    /\ UNCHANGED <<requests, org, member, admitted, gone>>

\* UserService.SoftDelete, seen from here
DeleteAccount(u) ==
    /\ u \notin gone
    /\ gone' = gone \cup {u}
    /\ UNCHANGED <<requests, org, member, invites, admitted>>

AbortOrganizations(w) == Abort(w) /\ UNCHANGED organizationTables

-------------------------------------------------------------------------------
OrganizationsStep(w) ==
    \/ AddOwner(w) \/ SoftDeleteOrg(w)
    \/ CountOwners(w) \/ UpdateRole(w) \/ RemoveRow(w)
    \/ CreateInvite(w) \/ RevokeInvite(w) \/ Join(w) \/ MarkAccepted(w)
    \/ \E i \in OrgInvites : BeginAccept(w, i)
    \/ \E actor \in Members :
        \/ CreateOrg(w, actor) \/ BeginDeleteOrg(w, actor)
        \/ \E i \in OrgInvites : BeginRevokeInvite(w, actor, i)
        \/ \E u \in Members :
            \/ BeginRemove(w, actor, u)
            \/ \E role \in OrgRole : BeginUpdateRole(w, actor, u, role)
            \/ \E role \in {"admin", "member"} : BeginInvite(w, actor, u, role)
    \/ AbortOrganizations(w)

OrganizationsNext ==
    \/ \E w \in setting.workers : OrganizationsStep(w)
    \/ \E i \in OrgInvites : ExpireInvite(i)
    \/ \E u \in Deletable : DeleteAccount(u)

OrganizationsSpec == OrganizationsInit /\ [][OrganizationsNext]_organizationVars

-------------------------------------------------------------------------------
(* Properties                                                              *)

\* The rows have their columns' types, and a worker holds the user, the member
\* or the invite its next statement is about.
OrganizationsTypeOK ==
    /\ org \in {"none", "live", "deleted"}
    /\ member \in [Members -> OrgRole \cup {"none"}]
    /\ invites \in [OrgInvites -> OrgInvite]
    /\ admitted \in [OrgInvites -> Nat]
    /\ gone \subseteq Members
    /\ \A w \in setting.workers :
        \/ pc[w] = "idle" /\ loc[w] = Nothing
        \/ pc[w] \in {"org.owner", "org.delete"} /\ loc[w] \in [user : Members]
        \/ /\ pc[w] \in {"org.count", "org.role", "org.remove"}
           /\ loc[w] \in [target : Members, to : OrgRole \cup {"none"}]
        \/ /\ pc[w] = "org.invite"
           /\ loc[w] \in [to : Members, role : {"admin", "member"}]
        \/ /\ pc[w] \in {"org.revoke", "org.join", "org.accept"}
           /\ loc[w] \in [invite : OrgInvites]

\* "cannot demote the last owner", "cannot remove the last owner"
\* (organization.go:163, :190): one request at a time, even if requests die, an
\* organization that has an owner keeps one.  Two at a time each count two.
LastOwnerStays ==
    [][Alone /\ Owners # {} => Owners' # {}]_organizationVars

\* AcceptInvite tests the invite, adds the member and marks the invite in three
\* statements (organization.go:259, :281, :288), and a revocation or another
\* acceptance may come in between.  Whatever interleaves or fails, an invite never
\* ends both accepted and revoked; unless requests fail, it adds its user, who may
\* have been removed meanwhile, no more often than requests run at a time; and
\* run one at a time, nobody ever joined by an invite that is revoked.
InvitesHonoured ==
    \A i \in OrgInvites :
        /\ ~(invites[i].accepted /\ invites[i].revoked)
        /\ Unfailing => admitted[i] <= Cardinality(setting.workers)
        /\ Calm /\ invites[i].revoked => admitted[i] = 0
===============================================================================
