----------------------------- MODULE MCTenants ------------------------------
(***************************************************************************)
(* What a workspace has: routes, the limit on active ones, and the settings *)
(* they are checked with.  These parts share no state at the level at which *)
(* they are modelled, so their product would show nothing that each does   *)
(* not show by itself.  One run explores them all: a behaviour is one of   *)
(* the part that has the focus; the others rest in an initial state.  The  *)
(* run checks the modules' own properties, which RouteProofs proves.       *)
(***************************************************************************)
EXTENDS RouteLifecycle, RouteCapacity, CheckerPlans, TLC

CONSTANTS n1, n2, n3, m1, m2   \* identities that are alike

VARIABLE focus

ASSUME TenantsAssumption == CapacityConstants /\ PlansConstants

\* A route whose payloads carry nothing sealed, with one request.
Plain == INSTANCE RouteLifecycle WITH Sealed <- FALSE, MaxRequests <- 1

tenantsVars == <<focus, vars, capacityVars, planVars>>

\* Of a part that rests, one initial state is enough.
RoutesRest == Active = {} /\ snapshots = Known
CapacityRests == \A p \in Route : userProxies[p] = Unmanaged

TenantsInit ==
    /\ focus \in {"routes", "plain", "capacity", "plans"}
    /\ Init /\ CapacityInit /\ PlansInit
    /\ focus \notin {"routes", "plain"} => RoutesRest
    /\ focus # "capacity" => CapacityRests
    /\ ws.defaults = CHOOSE d \in Settings : TRUE   \* the settings are alike

TenantsNext ==
    \/ focus = "routes" /\ Next /\ UNCHANGED <<focus, capacityVars, planVars>>
    \/ focus = "plain" /\ Plain!Next /\ UNCHANGED <<focus, capacityVars, planVars>>
    \/ focus = "capacity" /\ CapacityNext /\ UNCHANGED <<focus, vars, planVars>>
    \/ focus = "plans" /\ PlansNext /\ UNCHANGED <<focus, vars, capacityVars>>

TenantsSpec == TenantsInit /\ [][TenantsNext]_tenantsVars

\* The permutations of n1, n2 and n3; the transpositions swap m1 and m2 as well.
Identity == {n1, n2, n3}
Transposes(p) == Cardinality({n \in Identity : p[n] = n}) = 1
MCSymmetry ==
    {p @@ (IF Transposes(p) THEN m1 :> m2 @@ m2 :> m1 ELSE m1 :> m1 @@ m2 :> m2) :
        p \in Permutations(Identity)}
=============================================================================
