----------------------------- MODULE MCMembers ------------------------------
(***************************************************************************)
(* Those who use a workspace: its members, their accounts, and the limiter *)
(* that their attempts to authenticate pass.  These parts share no state   *)
(* at the level at which they are modelled: a behaviour of this run is one *)
(* of the part that has the focus, the others rest in an initial state.    *)
(* The run checks the modules' own properties, which TenantProofs proves.  *)
(***************************************************************************)
EXTENDS Workspaces, Accounts, RateLimiter, TLC

CONSTANTS n1, n2, n3, m1, m2   \* identities that are alike

VARIABLE focus

ASSUME MembersAssumption == WorkspaceConstants /\ AccountConstants /\ LimiterConstants

membersVars == <<focus, workspaceVars, accountVars, limiterVars>>

MembersInit ==
    /\ focus \in {"workspaces", "accounts", "limiter"}
    /\ WorkspaceInit /\ AccountInit /\ LimiterInit
    /\ focus # "accounts" => sessions = {}

MembersNext ==
    \/ focus = "workspaces" /\ WorkspaceNext /\ UNCHANGED <<focus, accountVars, limiterVars>>
    \/ focus = "accounts" /\ AccountNext /\ UNCHANGED <<focus, workspaceVars, limiterVars>>
    \/ focus = "limiter" /\ LimiterNext /\ UNCHANGED <<focus, workspaceVars, accountVars>>

MembersSpec == MembersInit /\ [][MembersNext]_membersVars

\* The permutations of n1, n2 and n3; the transpositions swap m1 and m2 as well.
Identity == {n1, n2, n3}
Transposes(p) == Cardinality({n \in Identity : p[n] = n}) = 1
MCSymmetry ==
    {p @@ (IF Transposes(p) THEN m1 :> m2 @@ m2 :> m1 ELSE m1 :> m1 @@ m2 :> m2) :
        p \in Permutations(Identity)}
=============================================================================
