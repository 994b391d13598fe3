--------------------------- MODULE RouteCapacity ---------------------------
(***************************************************************************)
(* The managed routes of one workspace and the capacity of its             *)
(* subscription: imports and activations that count the active routes      *)
(* under the subscription's row lock, clean-up passes that count without   *)
(* it, and the failure tracker, whose streaks pause or delete routes.  A   *)
(* step is one statement of a READ COMMITTED transaction; the write of a   *)
(* transaction, its read-model refreshes and its commit are one step.      *)
(* "inactive" stands for paused and archived, which differ in nothing that *)
(* is decided here.                                                        *)
(***************************************************************************)
EXTENDS Naturals, FiniteSets

CONSTANTS
    Route,               \* routes of the workspace
    Txn,                 \* requests, clean-up passes and tracker batches
    NoTxn,               \* not one of them
    ActivationLimit,     \* WorkspaceSubscription.ActivationLimit
    FailureThreshold,    \* auto_remove_failure_threshold
    Saturation,          \* failureStreakSaturation
    FailureActions       \* subset of {"pause", "delete"}: failure_action

\* What the code guarantees of the constants.
CapacityConstants ==
    /\ NoTxn \notin Txn /\ IsFiniteSet(Route)
    /\ ActivationLimit \in Nat
    /\ Saturation \in Nat /\ FailureThreshold \in 1..Saturation
    /\ FailureActions \subseteq {"pause", "delete"}

VARIABLES
    userProxies,   \* user_proxies: route -> state and consecutive_failures
    capacityLock,  \* the transaction that holds the subscription's row
    txn,           \* where each transaction stands
    revived        \* history: routes an import inserted although it had found them

capacityVars == <<userProxies, capacityLock, txn, revived>>

Unmanaged == [state |-> "none", fails |-> 0]
Managed(state) == [state |-> state, fails |-> 0]
Resting == [step |-> "idle", routes |-> {}, good |-> {}, found |-> {}, overflow |-> 0]

IsActive(p) == userProxies[p].state = "active"
Exists(p) == userProxies[p].state # "none"
ActiveRoutes == {p \in Route : IsActive(p)}
Available ==
    IF Cardinality(ActiveRoutes) < ActivationLimit
    THEN ActivationLimit - Cardinality(ActiveRoutes) ELSE 0

\* A reduced subscription may leave more active routes than it allows.
CapacityInit ==
    /\ userProxies \in [Route -> {Unmanaged, Managed("active"), Managed("inactive")}]
    /\ capacityLock = NoTxn
    /\ txn = [t \in Txn |-> Resting]
    /\ revived = {}

TxnAt(t, step) == txn[t].step = step
Moves(t, next) == txn' = [txn EXCEPT ![t] = next]
Ends(t) == Moves(t, Resting)
\* The end of a transaction releases what it locked.
Unlock(t) == capacityLock' = IF capacityLock = t THEN NoTxn ELSE capacityLock
Pauses(S) ==
    userProxies' = [p \in Route |->
        IF p \in S /\ IsActive(p) THEN [userProxies[p] EXCEPT !.state = "inactive"] ELSE userProxies[p]]

\* Fault: the capacity is read without waiting for the lock.
LockIgnored == TRUE

\* SELECT ... FOR UPDATE of the subscription.
LockFree == capacityLock = NoTxn

-----------------------------------------------------------------------------
(* insertAndAssociateProxies: plan under the lock, then insert.            *)

\* The lock and the lookup of management that exists already.  When all of it
\* does, nothing is counted.
PlanLookup(t, S) ==
    /\ TxnAt(t, "idle") /\ S # {} /\ LockFree
    /\ capacityLock' = t
    /\ LET found == {p \in S : Exists(p)} IN
       Moves(t, [Resting EXCEPT !.step = IF found = S THEN "insert" ELSE "count",
                                !.routes = S, !.found = found, !.good = {p \in S : IsActive(p)}])
    /\ UNCHANGED <<userProxies, revived>>

\* As many new routes become active as there is room for, in the order of the
\* import, which is left open; the rest is paused.
PlanCount(t) ==
    /\ TxnAt(t, "count")
    /\ LET new == txn[t].routes \ txn[t].found IN
       \E A \in SUBSET new :
          /\ IF Cardinality(new) <= Available THEN A = new ELSE Cardinality(A) = Available
          /\ Moves(t, [txn[t] EXCEPT !.step = "insert", !.good = @ \cup A])
    /\ UNCHANGED <<userProxies, capacityLock, revived>>

\* ON CONFLICT DO NOTHING: only rows that do not exist now are created, as they
\* were planned.  Credentials of the others are updated, their state is not.
CreateAssociations(t) ==
    /\ TxnAt(t, "insert")
    /\ userProxies' = [p \in Route |->
          IF p \notin txn[t].routes \/ Exists(p) THEN userProxies[p]
          ELSE Managed(IF p \in txn[t].good THEN "active" ELSE "inactive")]
    /\ revived' = revived \cup {p \in txn[t].found : ~Exists(p)}
    /\ Unlock(t) /\ Ends(t)

-----------------------------------------------------------------------------
(* SetManagedProxyState.                                                   *)

\* The row is read before anything is locked; an unchanged state is no work.
ReadManaged(t, p, active) ==
    /\ TxnAt(t, "idle") /\ Exists(p) /\ IsActive(p) # active
    /\ Moves(t, [Resting EXCEPT !.step = IF active THEN "activate" ELSE "deactivate",
                                !.routes = {p}])
    /\ UNCHANGED <<userProxies, capacityLock, revived>>

EnsureActivationAvailable(t) ==
    /\ TxnAt(t, "activate") /\ LockFree
    /\ IF Available > 0
       THEN capacityLock' = t /\ Moves(t, [txn[t] EXCEPT !.step = "activated"])
       ELSE Ends(t) /\ UNCHANGED capacityLock
    /\ UNCHANGED <<userProxies, revived>>

\* The update finds the row by its key only: whatever state it has by now.
WriteState(t) ==
    /\ txn[t].step \in {"activated", "deactivate"}
    /\ userProxies' = [p \in Route |->
          IF p \in txn[t].routes /\ Exists(p)
          THEN [userProxies[p] EXCEPT !.state = IF TxnAt(t, "activated") THEN "active" ELSE "inactive"]
          ELSE userProxies[p]]
    /\ Unlock(t) /\ Ends(t)
    /\ UNCHANGED revived

\* DeleteProxyRelation, one chunk.
DeleteManaged(S) ==
    /\ S # {} /\ \A p \in S : Exists(p)
    /\ userProxies' = [p \in Route |-> IF p \in S THEN Unmanaged ELSE userProxies[p]]
    /\ UNCHANGED <<capacityLock, txn, revived>>

-----------------------------------------------------------------------------
(* Clean-up passes.                                                        *)

\* pauseWorkspaceCapacityOverflow: count, select the most recently activated
\* ones (left open), pause those that are still active.
CountOverflow(t) ==
    /\ TxnAt(t, "idle") /\ Cardinality(ActiveRoutes) > ActivationLimit
    /\ Moves(t, [Resting EXCEPT !.step = "select",
                                !.overflow = Cardinality(ActiveRoutes) - ActivationLimit])
    /\ UNCHANGED <<userProxies, capacityLock, revived>>

SelectOverflow(t) ==
    /\ TxnAt(t, "select")
    /\ \E S \in SUBSET ActiveRoutes :
          /\ IF Cardinality(ActiveRoutes) <= txn[t].overflow
             THEN S = ActiveRoutes ELSE Cardinality(S) = txn[t].overflow
          /\ Moves(t, IF S = {} THEN Resting ELSE [Resting EXCEPT !.step = "pause", !.routes = S])
    /\ UNCHANGED <<userProxies, capacityLock, revived>>

\* CleanupAutoRemovalViolations: active routes that reached the threshold, in
\* workspaces whose failure action is not to delete.
SelectFailing(t) ==
    LET S == {p \in ActiveRoutes : userProxies[p].fails >= FailureThreshold} IN
    /\ TxnAt(t, "idle") /\ "pause" \in FailureActions /\ S # {}
    /\ Moves(t, [Resting EXCEPT !.step = "pause", !.routes = S])
    /\ UNCHANGED <<userProxies, capacityLock, revived>>

PauseSelected(t) ==
    /\ TxnAt(t, "pause")
    /\ Pauses(txn[t].routes)
    /\ Ends(t)
    /\ UNCHANGED <<capacityLock, revived>>

-----------------------------------------------------------------------------
(* failureTracker.processBatch: resets, increments, actions.               *)

StartFailureBatch(t, good, bad) ==
    /\ TxnAt(t, "idle") /\ good \cup bad # {} /\ good \cap bad = {}
    /\ Moves(t, [Resting EXCEPT !.step = "reset", !.good = good, !.routes = bad])
    /\ UNCHANGED <<userProxies, capacityLock, revived>>

ApplyFailureResets(t) ==
    /\ TxnAt(t, "reset")
    /\ userProxies' = [p \in Route |-> IF p \in txn[t].good THEN [userProxies[p] EXCEPT !.fails = 0] ELSE userProxies[p]]
    /\ Moves(t, [txn[t] EXCEPT !.step = "increment"])
    /\ UNCHANGED <<capacityLock, revived>>

\* Rows that the statement does not return, because they are saturated or gone.
Returned(t) == {p \in txn[t].routes : Exists(p) /\ userProxies[p].fails < Saturation}
FailureCount(t, p) == IF p \in Returned(t) THEN userProxies[p].fails + 1 ELSE Saturation

ApplyFailureIncrements(t) ==
    LET due == {p \in txn[t].routes : FailureCount(t, p) >= FailureThreshold} IN
    /\ TxnAt(t, "increment")
    /\ userProxies' = [p \in Route |-> IF p \in Returned(t) THEN [userProxies[p] EXCEPT !.fails = @ + 1] ELSE userProxies[p]]
    /\ Moves(t, IF due = {} THEN Resting ELSE [Resting EXCEPT !.step = "act", !.routes = due])
    /\ UNCHANGED <<capacityLock, revived>>

\* PauseManagedProxy or DeleteActiveManagedProxy, one route after the other.
ApplyFailureAction(t, p, action) ==
    /\ TxnAt(t, "act") /\ p \in txn[t].routes
    /\ \/ action = "pause" /\ Pauses({p})
       \/ /\ action = "delete"
          /\ userProxies' = [userProxies EXCEPT ![p] = IF IsActive(p) THEN Unmanaged ELSE @]
    /\ Moves(t, IF txn[t].routes = {p} THEN Resting ELSE [txn[t] EXCEPT !.routes = @ \ {p}])
    /\ UNCHANGED <<capacityLock, revived>>

\* An error: the transaction is rolled back, the batch or pass is given up.
TxnFails(t) ==
    /\ ~TxnAt(t, "idle")
    /\ Unlock(t) /\ Ends(t)
    /\ UNCHANGED <<userProxies, revived>>

-----------------------------------------------------------------------------
CapacityNext ==
    \/ \E t \in Txn :
          \/ \E S \in SUBSET Route : PlanLookup(t, S)
          \/ PlanCount(t) \/ CreateAssociations(t)
          \/ \E p \in Route, active \in BOOLEAN : ReadManaged(t, p, active)
          \/ EnsureActivationAvailable(t) \/ WriteState(t)
          \/ CountOverflow(t) \/ SelectOverflow(t) \/ SelectFailing(t) \/ PauseSelected(t)
          \/ \E good, bad \in SUBSET Route : StartFailureBatch(t, good, bad)
          \/ ApplyFailureResets(t) \/ ApplyFailureIncrements(t)
          \/ \E p \in Route, action \in FailureActions : ApplyFailureAction(t, p, action)
          \/ TxnFails(t)
    \/ \E S \in SUBSET Route : DeleteManaged(S)

CapacitySpec == CapacityInit /\ [][CapacityNext]_capacityVars

-----------------------------------------------------------------------------
CapacityTypeOK ==
    /\ userProxies \in [Route -> [state : {"none", "active", "inactive"}, fails : 0..Saturation]]
    /\ capacityLock \in Txn \cup {NoTxn}
    /\ txn \in [Txn -> [step : {"idle", "count", "insert", "activate", "activated", "deactivate",
                                "select", "pause", "reset", "increment", "act"},
                        routes : SUBSET Route, good : SUBSET Route, found : SUBSET Route,
                        overflow : 0..Cardinality(Route)]]
    /\ revived \subseteq Route

\* However imports, activations, deletions, clean-up passes and failure actions
\* interleave, activating or importing a route never takes the workspace past
\* its limit.  Routes that an import found and that were deleted before it
\* inserted are left out: it creates them again in the state they had.
ActivationFits ==
    \/ ActiveRoutes' \subseteq ActiveRoutes \cup revived'
    \/ Cardinality(ActiveRoutes' \ revived') <= ActivationLimit
ActivationsWithinLimit == [][ActivationFits]_capacityVars
=============================================================================
