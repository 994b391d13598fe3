----------------------------- MODULE Workspaces -----------------------------
(***************************************************************************)
(* The memberships and invitations of one workspace                        *)
(* (internal/database/database_workspace_handler.go,                       *)
(* workspace_invitations.go, delete_user_account.go and their handlers).   *)
(*                                                                         *)
(* A request reads the caller's and the member's roles (the handler), then *)
(* opens a transaction that reads what it must check, then writes and      *)
(* commits.  The transactions run at READ COMMITTED and lock none of the   *)
(* rows they count, so another request may commit between the steps.       *)
(* Operators and viewers are treated alike by every check here: "viewer"   *)
(* stands for both.  Billing access, which the checks treat as they treat  *)
(* the administrator role, is left out.                                    *)
(***************************************************************************)
EXTENDS Naturals, FiniteSets

CONSTANTS User, Job, NoUser

\* There are finitely many users.
WorkspaceConstants == IsFiniteSet(User)

VARIABLES wsExists, personal,  \* the workspace row and its personal flag
          role,       \* workspace_memberships: a role per user, or "none"
          invitation, \* workspace_invitations: per invitee, "none", "expired" or a role
          accounts,   \* the users that still have an account
          job,        \* per request: where its handler is
          overtaken   \* requests past their check when another one committed (history)

workspaceVars == <<wsExists, personal, role, invitation, accounts, job, overtaken>>

InviteRoles == {"viewer", "admin"}
MemberRoles == InviteRoles \union {"owner"}
NoJob == [op |-> "none", by |-> NoUser, on |-> NoUser, to |-> "none", step |-> "none"]

Owners == {u \in User : role[u] = "owner"}
Members == {u \in User : role[u] # "none"}
AtStep(j, op, step) == job[j].op = op /\ job[j].step = step
CanAdminister(u) == role[u] \in {"admin", "owner"}
IsOwner(u) == role[u] = "owner"

\* What the end of request j, and of its transaction, means to the others.
EndJob(j) == job' = [job EXCEPT ![j] = NoJob]
Overtake == overtaken' = overtaken \union {k \in Job : job[k].step = "checked"}
Commit(j) ==
  /\ EndJob(j)
  /\ overtaken' = (overtaken \union {k \in Job : job[k].step = "checked"}) \ {j}
Abort(j) == EndJob(j) /\ overtaken' = overtaken \ {j}
         /\ UNCHANGED <<wsExists, personal, role, invitation, accounts>>
PassCheck(j) == job' = [job EXCEPT ![j].step = "checked"]
         /\ UNCHANGED <<wsExists, personal, role, invitation, accounts, overtaken>>
StartJob(j, op, u, v, to) ==
  /\ job[j] = NoJob
  /\ job' = [job EXCEPT ![j] = [op |-> op, by |-> u, on |-> v, to |-> to, step |-> "authorized"]]
  /\ UNCHANGED <<wsExists, personal, role, invitation, accounts, overtaken>>

WorkspaceInit ==
  /\ wsExists = FALSE /\ personal = FALSE
  /\ role = [u \in User |-> "none"]
  /\ invitation = [u \in User |-> "none"]
  /\ accounts = User
  /\ job = [j \in Job |-> NoJob]
  /\ overtaken = {}

\* CreateWorkspace, or CreatePersonalWorkspaceForUser as part of a registration.
CreateWorkspace(u) ==
  /\ ~wsExists /\ u \in accounts
  /\ wsExists' = TRUE
  /\ personal' \in BOOLEAN
  /\ personal' => \A j \in Job : job[j].by # u
  /\ role' = [role EXCEPT ![u] = "owner"]
  /\ Overtake
  /\ UNCHANGED <<invitation, accounts, job>>

-----------------------------------------------------------------------------
(* Changing and removing a member.                                         *)

\* updateWorkspaceMember: only an owner manages owners and administrators.
MayManage(u, v) == CanAdminister(u) /\ (~IsOwner(u) => role[v] = "viewer")
UpdateAuthorize(j, u, v, to) ==
  /\ role[v] # "none" /\ MayManage(u, v)
  /\ ~IsOwner(u) => to = "viewer"
  /\ StartJob(j, "update", u, v, to)

\* The owners the check counts: a demotion or a removal needs a second one.
KeepsAnOwnerAlways(v) == TRUE
KeepsAnOwner(v) == role[v] = "owner" => Cardinality(Owners) > 1
UpdateCheck(j) ==
  LET v == job[j].on IN
  /\ AtStep(j, "update", "authorized")
  /\ IF role[v] # "none" /\ (job[j].to # "owner" => KeepsAnOwner(v))
     THEN PassCheck(j) ELSE Abort(j)
UpdateCommit(j) ==
  LET v == job[j].on IN
  /\ AtStep(j, "update", "checked")
  /\ role' = IF role[v] = "none" THEN role ELSE [role EXCEPT ![v] = job[j].to]
  /\ Commit(j)
  /\ UNCHANGED <<wsExists, personal, invitation, accounts>>

RemoveAuthorize(j, u, v) == role[v] # "none" /\ MayManage(u, v) /\ StartJob(j, "remove", u, v, "none")
RemoveCheck(j) ==
  LET v == job[j].on IN
  /\ AtStep(j, "remove", "authorized")
  /\ IF wsExists /\ role[v] # "none" /\ ~(personal /\ role[v] = "owner") /\ KeepsAnOwner(v)
     THEN PassCheck(j) ELSE Abort(j)
RemoveCommit(j) ==
  /\ AtStep(j, "remove", "checked")
  /\ role' = [role EXCEPT ![job[j].on] = "none"]
  /\ Commit(j)
  /\ UNCHANGED <<wsExists, personal, invitation, accounts>>

-----------------------------------------------------------------------------
(* Deleting an account.                                                    *)

\* validateUserAccountDeletion: no workspace would lose its only owner, unless
\* it is a personal one with no other member.
DeletionBlocked(u) ==
  /\ wsExists /\ role[u] = "owner" /\ Owners = {u}
  /\ ~personal \/ Members # {u}
DeleteAuthorize(j, u) == u \in accounts /\ ~DeletionBlocked(u) /\ StartJob(j, "delete", u, u, "none")
\* The transaction repeats the check.
DeleteCheck(j) ==
  /\ AtStep(j, "delete", "authorized")
  /\ IF DeletionBlocked(job[j].by) THEN Abort(j) ELSE PassCheck(j)
\* The membership, the invitations and the account go, and a workspace that was
\* personal and solitary goes with its resources (deletablePersonalWorkspaceIDs).
DeleteAccountCommit(j) ==
  LET u == job[j].by IN
  /\ AtStep(j, "delete", "checked")
  /\ LET solitary == wsExists /\ personal /\ role[u] = "owner" /\ Members = {u} IN
     /\ wsExists' = (wsExists /\ ~solitary)
     /\ personal' = (personal /\ ~solitary)
     /\ invitation' = [v \in User |-> IF solitary \/ v = u THEN "none" ELSE invitation[v]]
  /\ role' = [role EXCEPT ![u] = "none"]
  /\ accounts' = accounts \ {u}
  /\ Commit(j)

-----------------------------------------------------------------------------
(* Invitations.                                                            *)

\* authorizeWorkspaceInvitationMutation
MayInvite(u, to) == CanAdminister(u) /\ (to = "admin" => IsOwner(u))
CreateInvitation(u, v, to) ==
  /\ MayInvite(u, to) /\ v \in accounts /\ role[v] = "none"
  /\ invitation[v] \in {"none", "expired"}
  /\ invitation' = [invitation EXCEPT ![v] = to]
  /\ UNCHANGED <<wsExists, personal, role, accounts, job, overtaken>>

\* updateWorkspaceInvitation and revokeWorkspaceInvitation authorize against the
\* invitation they read, and write or delete it in a later statement.
InviteAuthorize(j, u, v, to) ==
  /\ invitation[v] \in InviteRoles
  /\ MayInvite(u, invitation[v]) /\ (to # "none" => MayInvite(u, to) /\ to # invitation[v])
  /\ StartJob(j, "invite", u, v, to)
InviteCommit(j) ==
  LET v == job[j].on IN
  /\ AtStep(j, "invite", "authorized")
  /\ IF invitation[v] \in InviteRoles
     THEN /\ invitation' = [invitation EXCEPT ![v] = job[j].to]
          /\ Commit(j)
          /\ UNCHANGED <<wsExists, personal, role, accounts>>
     ELSE Abort(j)

\* AcceptWorkspaceInvitation: the membership, the shared workspace, the invitation.
AcceptInvitation(v) ==
  /\ invitation[v] \in InviteRoles /\ v \in accounts /\ role[v] = "none"
  /\ role' = [role EXCEPT ![v] = invitation[v]]
  /\ personal' = FALSE
  /\ invitation' = [invitation EXCEPT ![v] = "none"]
  /\ Overtake
  /\ UNCHANGED <<wsExists, accounts, job>>
DeclineInvitation(v) ==
  /\ invitation[v] \in InviteRoles
  /\ invitation' = [invitation EXCEPT ![v] = "none"]
  /\ UNCHANGED <<wsExists, personal, role, accounts, job, overtaken>>
InvitationExpires(v) ==
  /\ invitation[v] \in InviteRoles
  /\ invitation' = [invitation EXCEPT ![v] = "expired"]
  /\ UNCHANGED <<wsExists, personal, role, accounts, job, overtaken>>
DeleteExpiredInvitation(v) ==
  /\ invitation[v] = "expired"
  /\ invitation' = [invitation EXCEPT ![v] = "none"]
  /\ UNCHANGED <<wsExists, personal, role, accounts, job, overtaken>>

WorkspaceNext ==
  \/ \E u \in User : CreateWorkspace(u) \/ AcceptInvitation(u) \/ DeclineInvitation(u)
       \/ InvitationExpires(u) \/ DeleteExpiredInvitation(u)
  \/ \E u, v \in User, to \in InviteRoles : CreateInvitation(u, v, to)
  \/ \E j \in Job, u, v \in User :
       \/ RemoveAuthorize(j, u, v)
       \/ \E to \in MemberRoles : UpdateAuthorize(j, u, v, to)
       \/ \E to \in InviteRoles \union {"none"} : InviteAuthorize(j, u, v, to)
  \/ \E j \in Job, u \in User : DeleteAuthorize(j, u)
  \/ \E j \in Job : UpdateCheck(j) \/ UpdateCommit(j) \/ RemoveCheck(j) \/ RemoveCommit(j)
       \/ DeleteCheck(j) \/ DeleteAccountCommit(j) \/ InviteCommit(j)

WorkspaceSpec == WorkspaceInit /\ [][WorkspaceNext]_workspaceVars

-----------------------------------------------------------------------------
WorkspaceTypeOK ==
  /\ wsExists \in BOOLEAN /\ personal \in BOOLEAN
  /\ role \in [User -> {"none"} \union MemberRoles]
  /\ invitation \in [User -> {"none", "expired"} \union InviteRoles]
  /\ accounts \subseteq User /\ overtaken \subseteq Job
  /\ \A j \in Job : job[j].step \in {"none", "authorized", "checked"}

\* What ErrWorkspaceLastOwner and the repeated check of the account deletion
\* say: "workspace must keep at least one owner".
WorkspaceKeepsOwner == wsExists => Owners # {}

\* A workspace that exists loses its last owner only to a request that another
\* one overtook between its check and its commit; requests that follow one
\* another never do it, whatever they demote, remove or delete.
LastOwnerLeavesOvertaken ==
  (wsExists' /\ Owners # {} /\ {u \in User : role'[u] = "owner"} = {})
  => \E j \in overtaken : job'[j] = NoJob
LastOwnerNeedsOverlap == [][LastOwnerLeavesOvertaken]_workspaceVars
=============================================================================
