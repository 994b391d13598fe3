----------------------------- MODULE RouteProofs -----------------------------
(***************************************************************************)
(* Theorems about a route's rows, its schedule and its checker plan.       *)
(*                                                                         *)
(* RouteCapacity, for every finite set of routes, every set of             *)
(* transactions and every limit: no import and no activation takes the     *)
(* workspace past its activation limit.                                    *)
(*                                                                         *)
(* RouteLifecycle, for every set of workspaces, workers and handlers: a    *)
(* completed or a removed check spares what was published since its claim, *)
(* and no failure action touches an association that is not active.        *)
(*                                                                         *)
(* CheckerPlans, for every set of instances, routes, settings and headers: *)
(* the projected overrides are those of the settings, and a snapshot of    *)
(* the current generation is what a full compilation would give.           *)
(***************************************************************************)
EXTENDS RouteCapacity, RouteLifecycle, CheckerPlans, FiniteSetTheorems, TLAPS

Row == [state : {"none", "active", "inactive"}, fails : 0..Saturation]

Progress ==
    [step : {"idle", "count", "insert", "activate", "activated", "deactivate",
             "select", "pause", "reset", "increment", "act"},
     routes : SUBSET Route, good : SUBSET Route, found : SUBSET Route,
     overflow : 0..Cardinality(Route)]

-----------------------------------------------------------------------------
(* The inductive invariant.                                                *)

Locking == {"count", "insert", "activated"}

\* Between its count and its write a transaction holds the subscription's row.
HoldersLocked == \A t \in Txn : txn[t].step \in Locking => capacityLock = t

\* What a transaction in state r is about to activate fits beside n active
\* routes.
Fits(r, n) ==
    /\ r.step = "count" => r.good \subseteq r.found
    /\ r.step = "insert" => \/ r.good \subseteq r.found
                            \/ n + Cardinality(r.good \ r.found) <= ActivationLimit
    /\ r.step \in {"activate", "activated"} => \E p \in Route : r.routes = {p}
    /\ r.step = "activated" => n < ActivationLimit

ActiveCount == Cardinality(ActiveRoutes)

PlansFit == \A t \in Txn : Fits(txn[t], ActiveCount)

CapacityInv == CapacityTypeOK /\ HoldersLocked /\ PlansFit

-----------------------------------------------------------------------------
(* Lemmas.                                                                 *)

\* Counting routes.
LEMMA RoutesCounted ==
    ASSUME CapacityConstants
    PROVE  /\ \A S \in SUBSET Route : IsFiniteSet(S) /\ Cardinality(S) \in Nat
           /\ \A S \in SUBSET Route : \A T \in SUBSET S : Cardinality(T) <= Cardinality(S)
           /\ \A S, T \in SUBSET Route : Cardinality(S \cup T) <= Cardinality(S) + Cardinality(T)
<1>1. ASSUME NEW S \in SUBSET Route PROVE IsFiniteSet(S) /\ Cardinality(S) \in Nat
  BY FS_Subset, FS_CardinalityType DEF CapacityConstants
<1>2. ASSUME NEW S \in SUBSET Route, NEW T \in SUBSET S PROVE Cardinality(T) <= Cardinality(S)
  BY <1>1, FS_Subset
<1>3. ASSUME NEW S \in SUBSET Route, NEW T \in SUBSET Route
      PROVE  Cardinality(S \cup T) <= Cardinality(S) + Cardinality(T)
  <2>1. /\ Cardinality(S \cup T) = Cardinality(S) + Cardinality(T) - Cardinality(S \cap T)
    BY <1>1, FS_Union
  <2>2. S \cap T \in SUBSET Route
    OBVIOUS
  <2>3. QED
    BY <1>1, <2>1, <2>2
<1>4. QED
  BY <1>1, <1>2, <1>3

\* A plan that fits still fits when routes stop being active.
LEMMA FitsShrinks ==
    ASSUME CapacityConstants, ActiveRoutes' \subseteq ActiveRoutes,
           NEW r \in Progress, Fits(r, ActiveCount)
    PROVE  Fits(r, ActiveCount')
<1>1. ActiveRoutes \in SUBSET Route /\ ActiveRoutes' \in SUBSET ActiveRoutes
  BY DEF ActiveRoutes
<1>2. ActiveCount' \in Nat /\ ActiveCount \in Nat /\ ActiveCount' <= ActiveCount
  BY <1>1, RoutesCounted DEF ActiveCount
<1>3. r.good \ r.found \in SUBSET Route
  BY DEF Progress
<1>4. Cardinality(r.good \ r.found) \in Nat /\ ActivationLimit \in Nat
  BY <1>3, RoutesCounted DEF CapacityConstants
<1>5. QED
  BY <1>2, <1>4 DEF Fits

\* What a step of one transaction leaves to show: its new state r fits and
\* holds the lock if it has to, and only the lock's holder adds active routes.
LEMMA OneTxn ==
    ASSUME CapacityConstants, CapacityInv, NEW t \in Txn, NEW r \in Progress,
           txn' = [txn EXCEPT ![t] = r], userProxies' \in [Route -> Row], revived' \subseteq Route,
           \/ capacityLock' = capacityLock
           \/ capacityLock = NoTxn /\ capacityLock' = t
           \/ capacityLock = t /\ capacityLock' = NoTxn,
           r.step \in Locking => capacityLock' = t,
           Fits(r, ActiveCount'),
           ActiveRoutes' \subseteq ActiveRoutes \/ capacityLock = t
    PROVE  CapacityInv'
<1>t. txn \in [Txn -> Progress] /\ capacityLock \in Txn \cup {NoTxn} /\ NoTxn \notin Txn
  BY DEF CapacityInv, CapacityTypeOK, Progress, CapacityConstants
<1>1. \A u \in Txn : txn'[u] = IF u = t THEN r ELSE txn[u]
  BY <1>t
<1>2. CapacityTypeOK'
  <2>1. txn' \in [Txn -> Progress] /\ capacityLock' \in Txn \cup {NoTxn}
    BY <1>t
  <2>2. QED
    BY <2>1 DEF CapacityTypeOK, Progress, Row
<1>3. HoldersLocked'
  <2>1. ASSUME NEW u \in Txn, txn'[u].step \in Locking PROVE capacityLock' = u
    <3>1. CASE u = t
      BY <1>1, <2>1, <3>1
    <3>2. CASE u # t
      <4>1. capacityLock = u
        BY <1>1, <2>1, <3>2 DEF CapacityInv, HoldersLocked
      <4>2. QED
        BY <1>t, <3>2, <4>1
    <3>3. QED
      BY <3>1, <3>2
  <2>2. QED
    BY <2>1 DEF HoldersLocked
<1>4. PlansFit'
  <2>1. ASSUME NEW u \in Txn PROVE Fits(txn'[u], ActiveCount')
    <3>1. CASE u = t
      BY <1>1, <3>1
    <3>2. CASE u # t
      <4>1. txn'[u] = txn[u] /\ txn[u] \in Progress /\ Fits(txn[u], ActiveCount)
        BY <1>1, <1>t, <3>2 DEF CapacityInv, PlansFit
      <4>2. CASE ActiveRoutes' \subseteq ActiveRoutes
        BY <4>1, <4>2, FitsShrinks
      <4>3. CASE capacityLock = t
        <5>1. txn[u].step \notin Locking
          BY <3>2, <4>3 DEF CapacityInv, HoldersLocked
        <5>2. Fits(txn[u], ActiveCount')
          BY <4>1, <5>1 DEF Fits, Locking
        <5>3. QED
          BY <4>1, <5>2
      <4>4. QED
        BY <4>2, <4>3
    <3>3. QED
      BY <3>1, <3>2
  <2>2. QED
    BY <2>1 DEF PlansFit
<1>5. QED
  BY <1>2, <1>3, <1>4 DEF CapacityInv

\* A step that moves only transaction t on, without the lock, to a state that
\* has nothing to activate.
LEMMA MovesOn ==
    ASSUME CapacityConstants, CapacityInv, NEW t \in Txn, NEW r \in Progress,
           txn' = [txn EXCEPT ![t] = r], userProxies' \in [Route -> Row],
           ActiveRoutes' \subseteq ActiveRoutes, revived' = revived,
           capacityLock' = capacityLock \/ (capacityLock = t /\ capacityLock' = NoTxn),
           r.step \notin Locking \cup {"activate"}
    PROVE  CapacityInv'
<1>1. Fits(r, ActiveCount')
  BY DEF Fits, Locking
<1>2. revived' \subseteq Route
  BY DEF CapacityInv, CapacityTypeOK
<1>3. QED
  BY <1>1, <1>2, OneTxn

\* States of a transaction that are built from Resting.
LEMMA RestingProgress ==
    ASSUME CapacityConstants
    PROVE  /\ Resting \in Progress /\ Resting.step = "idle" /\ Resting.good = {} /\ Resting.found = {}
           /\ 0 \in 0..Cardinality(Route)
<1>1. 0 \in 0..Cardinality(Route)
  <2>1. Route \in SUBSET Route
    OBVIOUS
  <2>2. Cardinality(Route) \in Nat
    BY <2>1, RoutesCounted
  <2>3. QED
    BY <2>2
<1>2. QED
  BY <1>1 DEF Resting, Progress

\* Changing the state of rows to anything but "active" activates nothing.
LEMMA ActiveShrinks ==
    ASSUME \A p \in Route : userProxies'[p].state = "active" => userProxies[p].state = "active"
    PROVE  ActiveRoutes' \subseteq ActiveRoutes
BY DEF ActiveRoutes, IsActive

LEMMA ActiveSame ==
    ASSUME userProxies' = userProxies
    PROVE  ActiveRoutes' = ActiveRoutes /\ ActiveCount' = ActiveCount
BY DEF ActiveRoutes, ActiveCount, IsActive

\* Pausing keeps the rows typed and activates nothing.
LEMMA PausesKeeps ==
    ASSUME userProxies \in [Route -> Row], NEW S, Pauses(S)
    PROVE  userProxies' \in [Route -> Row] /\ ActiveRoutes' \subseteq ActiveRoutes
<1>1. \A p \in Route : /\ userProxies'[p] \in Row
                       /\ userProxies'[p].state = "active" => userProxies[p].state = "active"
  BY DEF Pauses, Row, IsActive
<1>2. userProxies' \in [Route -> Row]
  BY <1>1 DEF Pauses
<1>3. QED
  BY <1>1, <1>2, ActiveShrinks

-----------------------------------------------------------------------------
(* Imports.                                                                *)

LEMMA PlanLookupKeeps ==
    ASSUME CapacityConstants, CapacityInv, NEW t \in Txn, NEW S \in SUBSET Route, PlanLookup(t, S)
    PROVE  CapacityInv'
<1> DEFINE found == {p \in S : Exists(p)}
           step == IF found = S THEN "insert" ELSE "count"
           good == {p \in S : IsActive(p)}
           r == [Resting EXCEPT !.step = step, !.routes = S, !.found = found, !.good = good]
<1>1. /\ capacityLock = NoTxn /\ capacityLock' = t /\ txn' = [txn EXCEPT ![t] = r]
      /\ userProxies' = userProxies /\ revived' = revived
  BY DEF PlanLookup, LockFree, Moves
<1>2. good \subseteq found /\ found \in SUBSET Route /\ good \in SUBSET Route
  BY DEF IsActive, Exists
<1>3. step \in {"insert", "count"}
  OBVIOUS
<1> HIDE DEF found, good, step
<1>4. r \in Progress /\ r.step = step /\ r.found = found /\ r.good = good
  BY <1>2, <1>3, RestingProgress DEF Progress
<1> HIDE DEF r
<1>5. Fits(r, ActiveCount')
  BY <1>2, <1>3, <1>4 DEF Fits
<1>6. userProxies \in [Route -> Row] /\ revived \subseteq Route
  BY DEF CapacityInv, CapacityTypeOK, Row
<1>7. QED
  BY <1>1, <1>4, <1>5, <1>6, ActiveSame, OneTxn

LEMMA PlanCountKeeps ==
    ASSUME CapacityConstants, CapacityInv, NEW t \in Txn, PlanCount(t)
    PROVE  CapacityInv'
<1> DEFINE new == txn[t].routes \ txn[t].found
<1>1. PICK A \in SUBSET new :
          /\ IF Cardinality(new) <= Available THEN A = new ELSE Cardinality(A) = Available
          /\ txn' = [txn EXCEPT ![t] = [txn[t] EXCEPT !.step = "insert", !.good = @ \cup A]]
  BY DEF PlanCount, Moves
<1> DEFINE r == [txn[t] EXCEPT !.step = "insert", !.good = @ \cup A]
<1>2. txn[t] \in Progress /\ txn[t].step = "count" /\ userProxies \in [Route -> Row] /\ revived \subseteq Route
  BY DEF CapacityInv, CapacityTypeOK, Progress, Row, PlanCount, TxnAt
<1>3. userProxies' = userProxies /\ revived' = revived /\ capacityLock' = capacityLock /\ capacityLock = t
  BY <1>2 DEF PlanCount, CapacityInv, HoldersLocked, Locking
<1>4. new \in SUBSET Route /\ A \in SUBSET Route
  BY <1>2 DEF Progress
<1>5. /\ r \in Progress /\ r.step = "insert" /\ r.good = txn[t].good \cup A /\ r.found = txn[t].found
  BY <1>2, <1>4 DEF Progress
<1>6. r.good \ r.found = A
  <2>1. txn[t].good \subseteq txn[t].found
    BY <1>2 DEF CapacityInv, PlansFit, Fits
  <2>2. QED
    BY <1>5, <2>1
<1>7. /\ Cardinality(A) \in Nat /\ Cardinality(new) \in Nat /\ ActiveCount \in Nat /\ ActivationLimit \in Nat
      /\ Cardinality(A) = 0 => A = {}
  <2>1. ActiveRoutes \in SUBSET Route
    BY DEF ActiveRoutes
  <2>2. IsFiniteSet(A)
    BY <1>4, RoutesCounted
  <2>3. Cardinality(A) = 0 => A = {}
    BY <2>2, FS_EmptySet
  <2>4. QED
    BY <1>4, <2>1, <2>3, RoutesCounted DEF ActiveCount, CapacityConstants
<1>8. Cardinality(A) <= Available
  <2>1. Available \in Nat
    BY <1>7 DEF Available, ActiveCount
  <2>2. CASE Cardinality(new) <= Available
    BY <1>1, <2>2
  <2>3. CASE ~(Cardinality(new) <= Available)
    <3>1. Cardinality(A) = Available
      BY <1>1, <2>3
    <3>2. QED
      BY <2>1, <3>1
  <2>4. QED
    BY <2>2, <2>3
<1>9. A = {} \/ ActiveCount + Cardinality(A) <= ActivationLimit
  <2>1. CASE ActiveCount < ActivationLimit
    BY <1>7, <1>8, <2>1 DEF Available, ActiveCount
  <2>2. CASE ~(ActiveCount < ActivationLimit)
    BY <1>7, <1>8, <2>2 DEF Available, ActiveCount
  <2>3. QED
    BY <2>1, <2>2
<1>10. txn' = [txn EXCEPT ![t] = r]
  BY <1>1
<1> HIDE DEF r, new
<1>11. ActiveCount' = ActiveCount /\ ActiveRoutes' \subseteq ActiveRoutes
  BY <1>3, ActiveSame
<1>12. Fits(r, ActiveCount')
  <2>1. A = {} => r.good \subseteq r.found
    BY <1>6
  <2>2. QED
    BY <1>5, <1>6, <1>9, <1>11, <2>1 DEF Fits
<1>13. QED
  BY <1>2, <1>3, <1>5, <1>10, <1>11, <1>12, OneTxn

\* Rows are created as planned, and only where there are none.
LEMMA CreateKeeps ==
    ASSUME CapacityConstants, CapacityInv, NEW t \in Txn, CreateAssociations(t)
    PROVE  CapacityInv' /\ ActivationFits
<1> DEFINE made == {p \in txn[t].routes : ~Exists(p) /\ p \in txn[t].good}
           planned == txn[t].good \ txn[t].found
<1>1. /\ txn[t].step = "insert" /\ txn' = [txn EXCEPT ![t] = Resting]
      /\ userProxies' = [p \in Route |->
            IF p \notin txn[t].routes \/ Exists(p) THEN userProxies[p]
            ELSE Managed(IF p \in txn[t].good THEN "active" ELSE "inactive")]
      /\ revived' = revived \cup {p \in txn[t].found : ~Exists(p)}
      /\ capacityLock' = IF capacityLock = t THEN NoTxn ELSE capacityLock
  BY DEF CreateAssociations, TxnAt, Ends, Moves, Unlock
<1>2. txn[t] \in Progress /\ userProxies \in [Route -> Row] /\ revived \subseteq Route
  BY DEF CapacityInv, CapacityTypeOK, Progress, Row
<1>3. capacityLock = t /\ capacityLock' = NoTxn
  BY <1>1 DEF CapacityInv, HoldersLocked, Locking
<1>4. Managed("active") \in Row /\ Managed("inactive") \in Row
      /\ Managed("active").state = "active" /\ Managed("inactive").state = "inactive"
  BY DEF Managed, Row, CapacityConstants
<1>5. \A p \in Route : /\ userProxies'[p] \in Row
                       /\ userProxies'[p].state = "active" => p \in ActiveRoutes \cup made
  <2>1. ASSUME NEW p \in Route
        PROVE  userProxies'[p] \in Row /\ (userProxies'[p].state = "active" => p \in ActiveRoutes \cup made)
    <3>1. CASE p \notin txn[t].routes \/ Exists(p)
      BY <1>1, <1>2, <3>1 DEF ActiveRoutes, IsActive
    <3>2. CASE p \in txn[t].routes /\ ~Exists(p) /\ p \in txn[t].good
      BY <1>1, <1>4, <3>2
    <3>3. CASE p \in txn[t].routes /\ ~Exists(p) /\ p \notin txn[t].good
      BY <1>1, <1>4, <3>3
    <3>4. QED
      BY <3>1, <3>2, <3>3
  <2>2. QED
    BY <2>1
<1>6. userProxies' \in [Route -> Row]
  BY <1>1, <1>5
<1>7. ActiveRoutes' \subseteq ActiveRoutes \cup made
  BY <1>5 DEF ActiveRoutes, IsActive
<1>8. CapacityInv'
  <2>1. Fits(Resting, ActiveCount') /\ Resting \in Progress /\ Resting.step \notin Locking
    BY RestingProgress DEF Fits, Locking
  <2>2. revived' \subseteq Route
    BY <1>1, <1>2 DEF Progress
  <2>3. QED
    BY <1>1, <1>3, <1>6, <2>1, <2>2, OneTxn
\* What becomes active was planned under the lock, or had been found before.
<1>9. ActivationFits
  <2>1. made \ revived' \subseteq planned
    BY <1>1
  <2>2. CASE planned = {}
    BY <1>7, <2>1, <2>2 DEF ActivationFits
  <2>3. CASE planned # {}
    <3>1. ActiveCount + Cardinality(planned) <= ActivationLimit
      BY <1>1, <2>3 DEF CapacityInv, PlansFit, Fits
    <3>2. ActiveRoutes' \ revived' \subseteq ActiveRoutes \cup planned
      BY <1>7, <2>1
    <3>3. ActiveRoutes \in SUBSET Route /\ planned \in SUBSET Route
      BY <1>2 DEF ActiveRoutes, Progress
    <3> HIDE DEF planned, made
    <3>4. Cardinality(ActiveRoutes \cup planned) <= ActiveCount + Cardinality(planned)
      BY <3>3, RoutesCounted DEF ActiveCount
    <3>5. /\ ActiveRoutes \cup planned \in SUBSET Route
          /\ ActiveRoutes' \ revived' \in SUBSET (ActiveRoutes \cup planned)
          /\ ActiveRoutes' \ revived' \in SUBSET Route
      BY <3>2, <3>3
    <3>6. Cardinality(ActiveRoutes' \ revived') <= Cardinality(ActiveRoutes \cup planned)
      BY <3>5, RoutesCounted
    <3>7. /\ Cardinality(ActiveRoutes' \ revived') \in Nat /\ Cardinality(planned) \in Nat
          /\ Cardinality(ActiveRoutes \cup planned) \in Nat /\ ActiveCount \in Nat
          /\ ActivationLimit \in Nat
      BY <3>3, <3>5, RoutesCounted DEF ActiveCount, CapacityConstants
    <3>8. QED
      BY <3>1, <3>4, <3>6, <3>7 DEF ActivationFits
  <2>4. QED
    BY <2>2, <2>3
<1>10. QED
  BY <1>8, <1>9

-----------------------------------------------------------------------------
(* Changes of state and deletions.                                         *)

LEMMA ReadManagedKeeps ==
    ASSUME CapacityConstants, CapacityInv, NEW t \in Txn, NEW p \in Route, NEW active \in BOOLEAN,
           ReadManaged(t, p, active)
    PROVE  CapacityInv'
<1> DEFINE step == IF active THEN "activate" ELSE "deactivate"
           r == [Resting EXCEPT !.step = step, !.routes = {p}]
<1>1. /\ capacityLock' = capacityLock /\ txn' = [txn EXCEPT ![t] = r]
      /\ userProxies' = userProxies /\ revived' = revived
  BY DEF ReadManaged, Moves
<1>2. step \in {"activate", "deactivate"}
  OBVIOUS
<1> HIDE DEF step
<1>3. r \in Progress /\ r.step = step /\ r.routes = {p}
  BY <1>2, RestingProgress DEF Progress
<1> HIDE DEF r
<1>4. Fits(r, ActiveCount') /\ r.step \notin Locking
  BY <1>2, <1>3 DEF Fits, Locking
<1>5. userProxies \in [Route -> Row] /\ revived \subseteq Route
  BY DEF CapacityInv, CapacityTypeOK, Row
<1>6. QED
  BY <1>1, <1>3, <1>4, <1>5, ActiveSame, OneTxn

LEMMA EnsureActivationKeeps ==
    ASSUME CapacityConstants, CapacityInv, NEW t \in Txn, EnsureActivationAvailable(t)
    PROVE  CapacityInv'
<1> DEFINE r == [txn[t] EXCEPT !.step = "activated"]
<1>1. /\ txn[t].step = "activate" /\ capacityLock = NoTxn
      /\ userProxies' = userProxies /\ revived' = revived
  BY DEF EnsureActivationAvailable, TxnAt, LockFree
<1>2. txn[t] \in Progress /\ userProxies \in [Route -> Row] /\ revived \subseteq Route
  BY DEF CapacityInv, CapacityTypeOK, Progress, Row
<1>3. ActiveCount' = ActiveCount /\ ActiveRoutes' \subseteq ActiveRoutes
  BY <1>1, ActiveSame
<1>4. CASE Available > 0
  <2>1. capacityLock' = t /\ txn' = [txn EXCEPT ![t] = r]
    BY <1>4 DEF EnsureActivationAvailable, Moves
  <2>2. ActiveCount < ActivationLimit
    BY <1>4 DEF Available, ActiveCount
  <2>3. \E p \in Route : txn[t].routes = {p}
    BY <1>1 DEF CapacityInv, PlansFit, Fits
  <2>4. r \in Progress /\ r.step = "activated" /\ r.routes = txn[t].routes
    BY <1>2 DEF Progress
  <2> HIDE DEF r
  <2>5. Fits(r, ActiveCount')
    BY <1>3, <2>2, <2>3, <2>4 DEF Fits
  <2>6. QED
    BY <1>1, <1>2, <1>3, <2>1, <2>4, <2>5, OneTxn
<1>5. CASE ~(Available > 0)
  <2>1. capacityLock' = capacityLock /\ txn' = [txn EXCEPT ![t] = Resting]
    BY <1>5 DEF EnsureActivationAvailable, Moves, Ends
  <2>2. Resting \in Progress /\ Resting.step \notin Locking \cup {"activate"}
    BY RestingProgress DEF Locking
  <2>3. QED
    BY <1>1, <1>2, <1>3, <2>1, <2>2, MovesOn
<1>6. QED
  BY <1>4, <1>5

\* The row that becomes active is the one route there was room for.
LEMMA WriteStateKeeps ==
    ASSUME CapacityConstants, CapacityInv, NEW t \in Txn, WriteState(t)
    PROVE  CapacityInv' /\ ActivationFits
<1> DEFINE to == IF txn[t].step = "activated" THEN "active" ELSE "inactive"
<1>1. /\ txn[t].step \in {"activated", "deactivate"} /\ txn' = [txn EXCEPT ![t] = Resting]
      /\ userProxies' = [p \in Route |-> IF p \in txn[t].routes /\ Exists(p)
                                         THEN [userProxies[p] EXCEPT !.state = to] ELSE userProxies[p]]
      /\ capacityLock' = IF capacityLock = t THEN NoTxn ELSE capacityLock
      /\ revived' = revived
  BY DEF WriteState, TxnAt, Ends, Moves, Unlock
<1>2. txn[t] \in Progress /\ userProxies \in [Route -> Row] /\ revived \subseteq Route
  BY DEF CapacityInv, CapacityTypeOK, Progress, Row
<1>3. to \in {"active", "inactive"} /\ (to = "active" => txn[t].step = "activated")
  OBVIOUS
<1> HIDE DEF to
<1>4. \A p \in Route : /\ userProxies'[p] \in Row
                       /\ userProxies'[p].state = "active" =>
                             \/ p \in ActiveRoutes
                             \/ txn[t].step = "activated" /\ p \in txn[t].routes
  BY <1>1, <1>2, <1>3 DEF ActiveRoutes, IsActive, Row
<1>5. userProxies' \in [Route -> Row]
  BY <1>1, <1>4
<1>6. Fits(Resting, ActiveCount') /\ Resting \in Progress /\ Resting.step \notin Locking
  BY RestingProgress DEF Fits, Locking
<1>7. CASE txn[t].step = "activated"
  <2>1. capacityLock = t /\ capacityLock' = NoTxn
    BY <1>1, <1>7 DEF CapacityInv, HoldersLocked, Locking
  <2>2. CapacityInv'
    BY <1>1, <1>2, <1>5, <1>6, <2>1, OneTxn
  <2>3. PICK p \in Route : txn[t].routes = {p}
    BY <1>7 DEF CapacityInv, PlansFit, Fits
  <2>4. ActiveCount < ActivationLimit
    BY <1>7 DEF CapacityInv, PlansFit, Fits
  <2>5. ActiveRoutes' \subseteq ActiveRoutes \cup {p}
    BY <1>4, <2>3 DEF ActiveRoutes, IsActive
  <2>6. ActiveRoutes \in SUBSET Route /\ {p} \in SUBSET Route
    BY DEF ActiveRoutes
  <2>7. /\ ActiveRoutes \cup {p} \in SUBSET Route
        /\ ActiveRoutes' \ revived' \in SUBSET (ActiveRoutes \cup {p})
        /\ ActiveRoutes' \ revived' \in SUBSET Route
    BY <2>5, <2>6
  <2>8. Cardinality(ActiveRoutes \cup {p}) <= ActiveCount + 1
    BY <2>6, RoutesCounted, FS_Singleton DEF ActiveCount
  <2>9. Cardinality(ActiveRoutes' \ revived') <= Cardinality(ActiveRoutes \cup {p})
    BY <2>7, RoutesCounted
  <2>10. /\ Cardinality(ActiveRoutes' \ revived') \in Nat /\ ActiveCount \in Nat
         /\ Cardinality(ActiveRoutes \cup {p}) \in Nat /\ ActivationLimit \in Nat
    BY <2>6, <2>7, RoutesCounted DEF ActiveCount, CapacityConstants
  <2>11. Cardinality(ActiveRoutes' \ revived') <= ActivationLimit
    BY <2>4, <2>8, <2>9, <2>10
  <2>12. QED
    BY <2>2, <2>11 DEF ActivationFits
<1>8. CASE txn[t].step # "activated"
  <2>1. ActiveRoutes' \subseteq ActiveRoutes
    BY <1>4, <1>8 DEF ActiveRoutes, IsActive
  <2>2. capacityLock' = capacityLock \/ (capacityLock = t /\ capacityLock' = NoTxn)
    BY <1>1
  <2>3. Resting.step \notin Locking \cup {"activate"}
    BY RestingProgress DEF Locking
  <2>4. CapacityInv'
    BY <1>1, <1>2, <1>5, <1>6, <2>1, <2>2, <2>3, MovesOn
  <2>5. QED
    BY <2>1, <2>4 DEF ActivationFits
<1>9. QED
  BY <1>7, <1>8

LEMMA DeleteManagedKeeps ==
    ASSUME CapacityConstants, CapacityInv, NEW S \in SUBSET Route, DeleteManaged(S)
    PROVE  CapacityInv' /\ ActiveRoutes' \subseteq ActiveRoutes
<1>1. /\ userProxies' = [p \in Route |-> IF p \in S THEN Unmanaged ELSE userProxies[p]]
      /\ capacityLock' = capacityLock /\ txn' = txn /\ revived' = revived
  BY DEF DeleteManaged
<1>2. txn \in [Txn -> Progress] /\ userProxies \in [Route -> Row]
  BY DEF CapacityInv, CapacityTypeOK, Progress, Row
<1>3. Unmanaged \in Row /\ Unmanaged.state = "none"
  BY DEF Unmanaged, Row, CapacityConstants
<1>4. userProxies' \in [Route -> Row]
  BY <1>1, <1>2, <1>3
<1>5. ActiveRoutes' \subseteq ActiveRoutes
  BY <1>1, <1>3 DEF ActiveRoutes, IsActive
<1>6. CapacityTypeOK' /\ HoldersLocked'
  BY <1>1, <1>4 DEF CapacityInv, CapacityTypeOK, HoldersLocked, Row
<1>7. PlansFit'
  <2>1. ASSUME NEW u \in Txn PROVE Fits(txn[u], ActiveCount')
    <3>1. txn[u] \in Progress /\ Fits(txn[u], ActiveCount)
      BY <1>2 DEF CapacityInv, PlansFit
    <3>2. QED
      BY <1>5, <3>1, FitsShrinks
  <2>2. QED
    BY <1>1, <2>1 DEF PlansFit
<1>8. QED
  BY <1>5, <1>6, <1>7 DEF CapacityInv

-----------------------------------------------------------------------------
(* Clean-up passes, the failure tracker and failures: nothing becomes      *)
(* active.                                                                 *)

\* What the steps of this section have in common.
Quiet == CapacityInv' /\ ActiveRoutes' \subseteq ActiveRoutes

\* A state of a transaction outside the lock, built from Resting.
LEMMA PassProgress ==
    ASSUME CapacityConstants, NEW s \in {"pause", "act"}, NEW S \in SUBSET Route
    PROVE  LET r == [Resting EXCEPT !.step = s, !.routes = S]
           IN  r \in Progress /\ r.step \notin Locking \cup {"activate"}
<1> DEFINE r == [Resting EXCEPT !.step = s, !.routes = S]
<1>1. r \in Progress /\ r.step = s
  BY RestingProgress DEF Progress
<1>2. s \notin Locking \cup {"activate"}
  BY DEF Locking
<1>3. QED
  BY <1>1, <1>2

LEMMA RestingMoves ==
    ASSUME CapacityConstants
    PROVE  Resting \in Progress /\ Resting.step \notin Locking \cup {"activate"}
BY RestingProgress DEF Locking

\* A step of transaction t that leaves the routes alone.
LEMMA OnlyMoves ==
    ASSUME CapacityConstants, CapacityInv, NEW t \in Txn, NEW r \in Progress,
           r.step \notin Locking \cup {"activate"}, txn' = [txn EXCEPT ![t] = r],
           UNCHANGED <<userProxies, capacityLock, revived>>
    PROVE  Quiet
<1>1. userProxies' \in [Route -> Row]
  BY DEF CapacityInv, CapacityTypeOK, Row
<1>2. ActiveRoutes' \subseteq ActiveRoutes
  BY ActiveSame
<1>3. CapacityInv'
  BY <1>1, <1>2, MovesOn
<1>4. QED
  BY <1>2, <1>3 DEF Quiet

LEMMA CountOverflowKeeps ==
    ASSUME CapacityConstants, CapacityInv, NEW t \in Txn, CountOverflow(t)
    PROVE  Quiet
<1> DEFINE over == Cardinality(ActiveRoutes) - ActivationLimit
           r == [Resting EXCEPT !.step = "select", !.overflow = over]
<1>1. over \in 0..Cardinality(Route)
  <2>1. /\ ActiveRoutes \in SUBSET Route /\ Route \in SUBSET Route
        /\ Cardinality(ActiveRoutes) > ActivationLimit /\ ActivationLimit \in Nat
    BY DEF ActiveRoutes, CountOverflow, CapacityConstants
  <2>2. /\ Cardinality(ActiveRoutes) <= Cardinality(Route)
        /\ Cardinality(ActiveRoutes) \in Nat /\ Cardinality(Route) \in Nat
    BY <2>1, RoutesCounted
  <2>3. QED
    BY <2>1, <2>2
<1>2. txn' = [txn EXCEPT ![t] = r] /\ UNCHANGED <<userProxies, capacityLock, revived>>
  BY DEF CountOverflow, Moves
<1> HIDE DEF over
<1>3. r \in Progress /\ r.step = "select"
  BY <1>1, RestingProgress DEF Progress
<1> HIDE DEF r
<1>4. QED
  BY <1>2, <1>3, OnlyMoves DEF Locking

LEMMA SelectOverflowKeeps ==
    ASSUME CapacityConstants, CapacityInv, NEW t \in Txn, SelectOverflow(t)
    PROVE  Quiet
<1>1. PICK S \in SUBSET ActiveRoutes :
          txn' = [txn EXCEPT ![t] = IF S = {} THEN Resting
                                    ELSE [Resting EXCEPT !.step = "pause", !.routes = S]]
  BY DEF SelectOverflow, Moves
<1> DEFINE q == [Resting EXCEPT !.step = "pause", !.routes = S]
           r == IF S = {} THEN Resting ELSE q
<1>2. S \in SUBSET Route
  BY DEF ActiveRoutes
<1>3. q \in Progress /\ q.step \notin Locking \cup {"activate"}
  BY <1>2, PassProgress
<1>4. txn' = [txn EXCEPT ![t] = r] /\ UNCHANGED <<userProxies, capacityLock, revived>>
  BY <1>1 DEF SelectOverflow
<1> HIDE DEF q
<1>5. r \in Progress /\ r.step \notin Locking \cup {"activate"}
  BY <1>3, RestingMoves
<1> HIDE DEF r
<1>6. QED
  BY <1>4, <1>5, OnlyMoves

LEMMA SelectFailingKeeps ==
    ASSUME CapacityConstants, CapacityInv, NEW t \in Txn, SelectFailing(t)
    PROVE  Quiet
<1> DEFINE S == {p \in ActiveRoutes : userProxies[p].fails >= FailureThreshold}
           r == [Resting EXCEPT !.step = "pause", !.routes = S]
<1>1. txn' = [txn EXCEPT ![t] = r] /\ UNCHANGED <<userProxies, capacityLock, revived>>
  BY DEF SelectFailing, Moves
<1>2. S \in SUBSET Route
  BY DEF ActiveRoutes
<1> HIDE DEF S
<1>3. r \in Progress /\ r.step \notin Locking \cup {"activate"}
  BY <1>2, PassProgress
<1> HIDE DEF r
<1>4. QED
  BY <1>1, <1>3, OnlyMoves

LEMMA PauseSelectedKeeps ==
    ASSUME CapacityConstants, CapacityInv, NEW t \in Txn, PauseSelected(t)
    PROVE  Quiet
<1>1. /\ txn' = [txn EXCEPT ![t] = Resting] /\ Pauses(txn[t].routes)
      /\ capacityLock' = capacityLock /\ revived' = revived
  BY DEF PauseSelected, Ends, Moves
<1>2. userProxies \in [Route -> Row]
  BY DEF CapacityInv, CapacityTypeOK, Row
<1>3. userProxies' \in [Route -> Row] /\ ActiveRoutes' \subseteq ActiveRoutes
  BY <1>1, <1>2, PausesKeeps
<1>4. CapacityInv'
  BY <1>1, <1>3, RestingMoves, MovesOn
<1>5. QED
  BY <1>3, <1>4 DEF Quiet

LEMMA StartFailureBatchKeeps ==
    ASSUME CapacityConstants, CapacityInv, NEW t \in Txn, NEW good \in SUBSET Route, NEW bad \in SUBSET Route,
           StartFailureBatch(t, good, bad)
    PROVE  Quiet
<1> DEFINE r == [Resting EXCEPT !.step = "reset", !.good = good, !.routes = bad]
<1>1. txn' = [txn EXCEPT ![t] = r] /\ UNCHANGED <<userProxies, capacityLock, revived>>
  BY DEF StartFailureBatch, Moves
<1>2. r \in Progress /\ r.step = "reset"
  BY RestingProgress DEF Progress
<1> HIDE DEF r
<1>3. QED
  BY <1>1, <1>2, OnlyMoves DEF Locking

LEMMA ApplyFailureResetsKeeps ==
    ASSUME CapacityConstants, CapacityInv, NEW t \in Txn, ApplyFailureResets(t)
    PROVE  Quiet
<1> DEFINE r == [txn[t] EXCEPT !.step = "increment"]
<1>1. /\ userProxies' = [p \in Route |-> IF p \in txn[t].good
                                         THEN [userProxies[p] EXCEPT !.fails = 0] ELSE userProxies[p]]
      /\ txn' = [txn EXCEPT ![t] = r] /\ capacityLock' = capacityLock /\ revived' = revived
  BY DEF ApplyFailureResets, Moves
<1>2. txn[t] \in Progress /\ userProxies \in [Route -> Row] /\ 0 \in 0..Saturation
  BY DEF CapacityInv, CapacityTypeOK, Progress, Row, CapacityConstants
<1>3. r \in Progress /\ r.step = "increment"
  BY <1>2 DEF Progress
<1> HIDE DEF r
<1>4. \A p \in Route : userProxies'[p] \in Row /\ userProxies'[p].state = userProxies[p].state
  BY <1>1, <1>2 DEF Row
<1>5. userProxies' \in [Route -> Row]
  BY <1>1, <1>4
<1>6. ActiveRoutes' \subseteq ActiveRoutes
  BY <1>4, ActiveShrinks
<1>7. r.step \notin Locking \cup {"activate"}
  BY <1>3 DEF Locking
<1>8. CapacityInv'
  BY <1>1, <1>3, <1>5, <1>6, <1>7, MovesOn
<1>9. QED
  BY <1>6, <1>8 DEF Quiet

\* The streak stops at its saturation.
LEMMA ApplyFailureIncrementsKeeps ==
    ASSUME CapacityConstants, CapacityInv, NEW t \in Txn, ApplyFailureIncrements(t)
    PROVE  Quiet
<1> DEFINE due == {p \in txn[t].routes : FailureCount(t, p) >= FailureThreshold}
           q == [Resting EXCEPT !.step = "act", !.routes = due]
           r == IF due = {} THEN Resting ELSE q
<1>1. /\ userProxies' = [p \in Route |-> IF p \in Returned(t)
                                         THEN [userProxies[p] EXCEPT !.fails = @ + 1] ELSE userProxies[p]]
      /\ txn' = [txn EXCEPT ![t] = r] /\ capacityLock' = capacityLock /\ revived' = revived
  BY DEF ApplyFailureIncrements, Moves
<1>2. txn[t] \in Progress /\ userProxies \in [Route -> Row] /\ Saturation \in Nat
  BY DEF CapacityInv, CapacityTypeOK, Progress, Row, CapacityConstants
<1>3. due \in SUBSET Route
  BY <1>2 DEF Progress
<1> HIDE DEF due
<1>4. q \in Progress /\ q.step \notin Locking \cup {"activate"}
  BY <1>3, PassProgress
<1> HIDE DEF q
<1>5. r \in Progress /\ r.step \notin Locking \cup {"activate"}
  BY <1>4, RestingMoves
<1> HIDE DEF r
<1>6. ASSUME NEW p \in Route
      PROVE  userProxies'[p] \in Row /\ userProxies'[p].state = userProxies[p].state
  <2>1. CASE p \in Returned(t)
    <3>1. userProxies[p] \in Row /\ userProxies[p].fails < Saturation /\ userProxies[p].fails \in 0..Saturation
      BY <1>2, <2>1 DEF Returned, Row
    <3>2. userProxies[p].fails + 1 \in 0..Saturation
      BY <1>2, <3>1
    <3>3. userProxies'[p] = [userProxies[p] EXCEPT !.fails = userProxies[p].fails + 1]
      BY <1>1, <2>1
    <3>4. QED
      BY <3>1, <3>2, <3>3 DEF Row
  <2>2. CASE p \notin Returned(t)
    BY <1>1, <1>2, <2>2
  <2>3. QED
    BY <2>1, <2>2
<1>7. userProxies' \in [Route -> Row]
  BY <1>1, <1>6
<1>8. ActiveRoutes' \subseteq ActiveRoutes
  BY <1>6, ActiveShrinks
<1>9. CapacityInv'
  BY <1>1, <1>5, <1>7, <1>8, MovesOn
<1>10. QED
  BY <1>8, <1>9 DEF Quiet

LEMMA ApplyFailureActionKeeps ==
    ASSUME CapacityConstants, CapacityInv, NEW t \in Txn, NEW p \in Route, NEW action \in FailureActions,
           ApplyFailureAction(t, p, action)
    PROVE  Quiet
<1> DEFINE q == [txn[t] EXCEPT !.routes = @ \ {p}]
           r == IF txn[t].routes = {p} THEN Resting ELSE q
<1>1. /\ txn[t].step = "act" /\ txn' = [txn EXCEPT ![t] = r]
      /\ capacityLock' = capacityLock /\ revived' = revived
      /\ \/ Pauses({p})
         \/ userProxies' = [userProxies EXCEPT ![p] = IF IsActive(p) THEN Unmanaged ELSE @]
  BY DEF ApplyFailureAction, TxnAt, Moves
<1>2. txn[t] \in Progress /\ userProxies \in [Route -> Row]
  BY DEF CapacityInv, CapacityTypeOK, Progress, Row
<1>3. q \in Progress /\ q.step = "act"
  BY <1>1, <1>2 DEF Progress
<1> HIDE DEF q
<1>4. r \in Progress /\ r.step \notin Locking \cup {"activate"}
  BY <1>3, RestingMoves DEF Locking
<1> HIDE DEF r
<1>5. userProxies' \in [Route -> Row] /\ ActiveRoutes' \subseteq ActiveRoutes
  <2>1. CASE Pauses({p})
    BY <1>2, <2>1, PausesKeeps
  <2>2. CASE userProxies' = [userProxies EXCEPT ![p] = IF IsActive(p) THEN Unmanaged ELSE @]
    <3>1. Unmanaged \in Row /\ Unmanaged.state = "none"
      BY DEF Unmanaged, Row, CapacityConstants
    <3>2. userProxies' \in [Route -> Row]
      BY <1>2, <2>2, <3>1
    <3>3. \A x \in Route : userProxies'[x] = userProxies[x] \/ userProxies'[x] = Unmanaged
      BY <1>2, <2>2
    <3>4. QED
      BY <3>1, <3>2, <3>3, ActiveShrinks
  <2>3. QED
    BY <1>1, <2>1, <2>2
<1>6. CapacityInv'
  BY <1>1, <1>4, <1>5, MovesOn
<1>7. QED
  BY <1>5, <1>6 DEF Quiet

LEMMA TxnFailsKeeps ==
    ASSUME CapacityConstants, CapacityInv, NEW t \in Txn, TxnFails(t)
    PROVE  Quiet
<1>1. /\ txn' = [txn EXCEPT ![t] = Resting] /\ userProxies' = userProxies /\ revived' = revived
      /\ capacityLock' = capacityLock \/ (capacityLock = t /\ capacityLock' = NoTxn)
  BY DEF TxnFails, Unlock, Ends, Moves
<1>2. userProxies' \in [Route -> Row]
  BY <1>1 DEF CapacityInv, CapacityTypeOK, Row
<1>3. ActiveRoutes' \subseteq ActiveRoutes
  BY <1>1, ActiveSame
<1>4. CapacityInv'
  BY <1>1, <1>2, <1>3, RestingMoves, MovesOn
<1>5. QED
  BY <1>3, <1>4 DEF Quiet

-----------------------------------------------------------------------------
(* The theorem.                                                            *)

LEMMA CapacityInvInit ==
    ASSUME CapacityConstants, CapacityInit
    PROVE  CapacityInv
<1>1. userProxies \in [Route -> Row]
  <2>1. {Unmanaged, Managed("active"), Managed("inactive")} \subseteq Row
    BY DEF Unmanaged, Managed, Row, CapacityConstants
  <2>2. QED
    BY <2>1 DEF CapacityInit
<1>2. Resting \in Progress /\ Resting.step = "idle"
  BY RestingProgress
<1>3. txn = [t \in Txn |-> Resting] /\ capacityLock = NoTxn /\ revived = {}
  BY DEF CapacityInit
<1>4. txn \in [Txn -> Progress] /\ \A t \in Txn : txn[t] = Resting
  BY <1>2, <1>3
<1>5. CapacityTypeOK
  BY <1>1, <1>3, <1>4 DEF CapacityTypeOK, Row, Progress
<1>6. HoldersLocked
  BY <1>2, <1>4 DEF HoldersLocked, Locking
<1>7. PlansFit
  BY <1>2, <1>4 DEF PlansFit, Fits
<1>8. QED
  BY <1>5, <1>6, <1>7 DEF CapacityInv

\* Every step keeps the invariant; only two can activate a route, and they fit.
LEMMA CapacityStep ==
    ASSUME CapacityConstants, CapacityInv, CapacityNext
    PROVE  CapacityInv' /\ ActivationFits
<1>q. Quiet => CapacityInv' /\ ActivationFits
  BY DEF Quiet, ActivationFits
<1>s. userProxies' = userProxies => ActivationFits
  BY ActiveSame DEF ActivationFits
<1>1. ASSUME NEW t \in Txn, NEW S \in SUBSET Route, PlanLookup(t, S) PROVE CapacityInv' /\ ActivationFits
  <2>1. userProxies' = userProxies
    BY <1>1 DEF PlanLookup
  <2>2. QED
    BY <1>1, <1>s, <2>1, PlanLookupKeeps
<1>2. ASSUME NEW t \in Txn, PlanCount(t) PROVE CapacityInv' /\ ActivationFits
  <2>1. userProxies' = userProxies
    BY <1>2 DEF PlanCount
  <2>2. QED
    BY <1>2, <1>s, <2>1, PlanCountKeeps
<1>3. ASSUME NEW t \in Txn, CreateAssociations(t) PROVE CapacityInv' /\ ActivationFits
  BY <1>3, CreateKeeps
<1>4. ASSUME NEW t \in Txn, NEW p \in Route, NEW active \in BOOLEAN, ReadManaged(t, p, active)
      PROVE  CapacityInv' /\ ActivationFits
  <2>1. userProxies' = userProxies
    BY <1>4 DEF ReadManaged
  <2>2. QED
    BY <1>4, <1>s, <2>1, ReadManagedKeeps
<1>5. ASSUME NEW t \in Txn, EnsureActivationAvailable(t) PROVE CapacityInv' /\ ActivationFits
  <2>1. userProxies' = userProxies
    BY <1>5 DEF EnsureActivationAvailable
  <2>2. QED
    BY <1>5, <1>s, <2>1, EnsureActivationKeeps
<1>6. ASSUME NEW t \in Txn, WriteState(t) PROVE CapacityInv' /\ ActivationFits
  BY <1>6, WriteStateKeeps
<1>7. ASSUME NEW t \in Txn,
             \/ CountOverflow(t) \/ SelectOverflow(t) \/ SelectFailing(t) \/ PauseSelected(t)
             \/ ApplyFailureResets(t) \/ ApplyFailureIncrements(t) \/ TxnFails(t)
      PROVE  CapacityInv' /\ ActivationFits
  BY <1>7, <1>q, CountOverflowKeeps, SelectOverflowKeeps, SelectFailingKeeps, PauseSelectedKeeps,
     ApplyFailureResetsKeeps, ApplyFailureIncrementsKeeps, TxnFailsKeeps
<1>8. ASSUME NEW t \in Txn, NEW good \in SUBSET Route, NEW bad \in SUBSET Route, StartFailureBatch(t, good, bad)
      PROVE  CapacityInv' /\ ActivationFits
  BY <1>8, <1>q, StartFailureBatchKeeps
<1>9. ASSUME NEW t \in Txn, NEW p \in Route, NEW action \in FailureActions, ApplyFailureAction(t, p, action)
      PROVE  CapacityInv' /\ ActivationFits
  BY <1>9, <1>q, ApplyFailureActionKeeps
<1>10. ASSUME NEW S \in SUBSET Route, DeleteManaged(S) PROVE CapacityInv' /\ ActivationFits
  BY <1>10, DeleteManagedKeeps DEF ActivationFits
<1>11. QED
  BY <1>1, <1>2, <1>3, <1>4, <1>5, <1>6, <1>7, <1>8, <1>9, <1>10 DEF CapacityNext

LEMMA CapacityStutters ==
    ASSUME CapacityInv, UNCHANGED capacityVars
    PROVE  CapacityInv'
BY DEF CapacityInv, CapacityTypeOK, HoldersLocked, PlansFit, Fits, ActiveCount, ActiveRoutes, IsActive, capacityVars

\* Whatever the set of transactions and however their statements interleave
\* (imports, activations, deletions, clean-up passes, failure actions), a step
\* that makes routes active leaves at most ActivationLimit of them, not counting
\* the routes an import re-creates that it had found.
THEOREM ActivationsFit == ASSUME CapacityConstants PROVE CapacitySpec => ActivationsWithinLimit
<1>1. CapacityInit => CapacityInv
  BY CapacityInvInit
<1>2. CapacityInv /\ [CapacityNext]_capacityVars => CapacityInv'
  BY CapacityStep, CapacityStutters
<1>3. CapacityInv /\ [CapacityNext]_capacityVars => [ActivationFits]_capacityVars
  BY CapacityStep
<1>4. QED
  BY <1>1, <1>2, <1>3, PTL DEF CapacitySpec, ActivationsWithinLimit

-----------------------------------------------------------------------------
(* Routes: the invariants of RouteLifecycle.                               *)

LEMMA PayloadFacts ==
    /\ \A p \in Payload : p # NoPayload /\ p.owners \subseteq Workspace
    /\ \A S \in SUBSET Workspace, t \in Tag \cup {Bare} : [owners |-> S, tag |-> t] \in Payload
    BY SMT DEF Payload, NoPayload

\* A worker that is not idle has the record of a cycle.
LEMMA BusyWorker ==
    ASSUME TypeOK, NEW w \in Worker
    PROVE  /\ wk[w] # Idle => wk[w] \in WorkerState
           /\ wk[w].pc # "idle" => wk[w] \in WorkerState
           /\ wk[w] \in WorkerState => wk[w] # Idle /\ wk[w].pc # "idle"
    BY DEF TypeOK, WorkerState, Idle

LEMMA RouteTypeInit == Init => TypeOK
    <1> SUFFICES ASSUME Init PROVE TypeOK
        OBVIOUS
    <1>1. managed \in [Workspace -> State]
        BY DEF Init, State
    <1>2. /\ payload \in Payload \cup {NoPayload}
          /\ slot \in {"none", "due"} \cup Worker
          /\ marker \in BOOLEAN
          /\ snapshots \in SUBSET Workspace
          /\ wk \in [Worker -> WorkerState \cup {Idle}]
          /\ tracker \in SUBSET Workspace
          /\ req \in [Handler -> Pending \cup {Idle}]
        BY DEF Init
    <1>3. /\ boot \in Bootstrap \cup {Idle}
          /\ fresh \in [Worker -> SUBSET Workspace]
          /\ faults \in Nat /\ requests \in Nat
        BY DEF Init
    <1> QED
        BY <1>1, <1>2, <1>3 DEF TypeOK

LEMMA MarshalledTag ==
    ASSUME NEW t \in Marshalled
    PROVE  t \in Tag \cup {Bare}
    BY DEF Marshalled

\* What AddToQueue leaves behind has its types.
LEMMA AddTypes ==
    ASSUME TypeOK, NEW owners \in SUBSET Workspace, AddToQueue(owners)
    PROVE  /\ payload' \in Payload \cup {NoPayload}
           /\ slot' \in {"none", "due"} \cup Worker
           /\ fresh' \in [Worker -> SUBSET Workspace]
    <1>1. CASE owners = {} /\ UNCHANGED <<payload, slot, fresh>>
        BY <1>1 DEF TypeOK
    <1>2. CASE owners # {}
        <2>1. PICK t \in Marshalled : payload' = [owners |-> owners, tag |-> t]
            BY <1>2 DEF AddToQueue
        <2>2. t \in Tag \cup {Bare}
            BY MarshalledTag
        <2>3. QED
            BY <1>2, <2>1, <2>2 DEF AddToQueue, TypeOK, Payload
    <1>3. QED
        BY <1>1, <1>2 DEF AddToQueue

\* complete.lua leaves a payload.
LEMMA CompletedType ==
    ASSUME TypeOK, NEW w \in Worker, wk[w].pc = "requeue", NEW t \in Marshalled
    PROVE  CompletedPayload(w, t) \in Payload
    <1>1. wk[w] \in WorkerState
        BY BusyWorker
    <1>2. t \in Tag \cup {Bare}
        BY MarshalledTag
    <1>3. CASE payload # NoPayload /\ payload # wk[w].snap
        <2>1. payload \in Payload
            BY <1>3 DEF TypeOK
        <2> QED
            BY <1>1, <1>3, <2>1 DEF CompletedPayload, MergeOwners, Payload, WorkerState
    <1>4. CASE ~(payload # NoPayload /\ payload # wk[w].snap)
        BY <1>1, <1>2, <1>4 DEF CompletedPayload, Payload, WorkerState
    <1> QED
        BY <1>3, <1>4

LEMMA WorkerUpdate ==
    ASSUME TypeOK, NEW w \in Worker, NEW r \in WorkerState \cup {Idle},
           wk' = [wk EXCEPT ![w] = r]
    PROVE  wk' \in [Worker -> WorkerState \cup {Idle}]
    BY DEF TypeOK

\* The steps of a worker on its own cycle.
LEMMA WorkerTypes ==
    ASSUME TypeOK, NEW w \in Worker,
           WorkerStep(w) \/ TrackTimeout(w) \/ VerifyFails(w) \/ Abandon(w) \/ Expire(w)
    PROVE  TypeOK'
    <1> USE BusyWorker
    <1>1. CASE Claim(w)
        <2>1. payload \in Payload
            BY <1>1 DEF Claim, TypeOK
        <2>2. wk' \in [Worker -> WorkerState \cup {Idle}]
            BY <1>1, <2>1, PayloadFacts DEF Claim, TypeOK, WorkerState
        <2> QED
            BY <1>1, <2>2 DEF Claim, TypeOK, budget
    <1>2. CASE DropMissing(w)
        BY <1>2 DEF DropMissing, TypeOK, budget
    <1>3. CASE Checked(w)
        <2>1. wk' \in [Worker -> WorkerState \cup {Idle}]
            <3>1. PICK failing \in SUBSET wk[w].owners :
                    wk' = [wk EXCEPT ![w].pc = "track", ![w].todo = failing]
                BY <1>3 DEF Checked
            <3>2. wk[w] \in WorkerState
                BY <1>3 DEF Checked
            <3>3. [wk[w] EXCEPT !.pc = "track", !.todo = failing] \in WorkerState
                BY <3>2 DEF WorkerState
            <3>4. wk' = [wk EXCEPT ![w] = [wk[w] EXCEPT !.pc = "track", !.todo = failing]]
                BY <3>1
            <3> QED
                BY <3>3, <3>4, WorkerUpdate
        <2> QED
            BY <1>3, <2>1 DEF Checked, TypeOK, budget, queue
    <1>4. ASSUME NEW u \in Workspace, ProcessBatchEntry(w, u)
          PROVE  TypeOK'
        <2>1. wk' \in [Worker -> WorkerState \cup {Idle}]
            <3> DEFINE r == [wk[w] EXCEPT
                    !.todo = wk[w].todo \ {u},
                    !.removed = IF managed[u] = "active" THEN wk[w].removed \cup {u} ELSE wk[w].removed,
                    !.ended = IF managed[u] = "active" THEN wk[w].ended \cup {u} ELSE wk[w].ended,
                    !.pc = IF managed[u] = "active" THEN "lookup" ELSE wk[w].pc]
            <3>1. wk[w] \in WorkerState
                BY <1>4 DEF ProcessBatchEntry
            <3>2. r \in WorkerState
                BY <3>1 DEF WorkerState
            <3>3. wk' = [wk EXCEPT ![w] = r]
                BY <1>4 DEF ProcessBatchEntry
            <3> QED
                BY <3>2, <3>3, WorkerUpdate
        <2>2. managed' \in [Workspace -> State]
            BY <1>4 DEF ProcessBatchEntry, FailureAction, TypeOK, State
        <2> QED
            BY <1>4, <2>1, <2>2 DEF ProcessBatchEntry, TypeOK, budget, queue
    <1>5. CASE InactiveLookup(w)
        <2>1. wk' \in [Worker -> WorkerState \cup {Idle}]
            BY <1>5 DEF InactiveLookup, TypeOK, WorkerState
        <2> QED
            BY <1>5, <2>1 DEF InactiveLookup, TypeOK, budget, queue
    <1>6. CASE Tracked(w)
        <2>1. wk' \in [Worker -> WorkerState \cup {Idle}]
            <3> DEFINE r == [wk[w] EXCEPT
                    !.pc = IF wk[w].inactive THEN "orphan" ELSE "verify",
                    !.owners = wk[w].owners \ wk[w].removed,
                    !.changed = wk[w].changed \/ wk[w].removed # {},
                    !.removed = {}, !.inactive = FALSE]
            <3>1. wk[w] \in WorkerState
                BY <1>6 DEF Tracked
            <3>2. r \in WorkerState
                BY <3>1 DEF WorkerState
            <3>3. wk' = [wk EXCEPT ![w] = r]
                BY <1>6 DEF Tracked
            <3> QED
                BY <3>2, <3>3, WorkerUpdate
        <2> QED
            BY <1>6, <2>1 DEF Tracked, TypeOK, budget, queue
    <1>7. CASE RemoveOrphan(w) \/ VerifyOwnership(w) \/ VerifyFails(w)
        <2>1. wk' \in [Worker -> WorkerState \cup {Idle}]
            BY <1>7 DEF RemoveOrphan, VerifyOwnership, VerifyFails, Go, TypeOK, WorkerState
        <2>2. payload' \in Payload \cup {NoPayload} /\ slot' \in {"none", "due"} \cup Worker
            BY <1>7 DEF RemoveOrphan, RemoveLeased, VerifyOwnership, VerifyFails, TypeOK, queue
        <2> QED
            BY <1>7, <2>1, <2>2 DEF RemoveOrphan, VerifyOwnership, VerifyFails, TypeOK, budget, Fault
    <1>8. CASE RemoveUnowned(w)
        BY <1>8 DEF RemoveUnowned, RemoveLeased, EndCycle, TypeOK, queue
    <1>9. CASE RequeueChecked(w)
        <2>1. payload' \in Payload \cup {NoPayload} /\ slot' \in {"none", "due"} \cup Worker
            BY <1>9, CompletedType DEF RequeueChecked, TypeOK, queue
        <2> QED
            BY <1>9, <2>1 DEF RequeueChecked, EndCycle, TypeOK
    <1>10. CASE TrackTimeout(w)
        <2>1. wk' \in [Worker -> WorkerState \cup {Idle}]
            <3> DEFINE r == [wk[w] EXCEPT
                    !.pc = "verify", !.todo = {}, !.removed = {}, !.inactive = FALSE,
                    !.ended = {}]
            <3>1. wk[w] \in WorkerState
                BY <1>10 DEF TrackTimeout
            <3>2. r \in WorkerState
                BY <3>1 DEF WorkerState
            <3>3. wk' = [wk EXCEPT ![w] = r]
                BY <1>10 DEF TrackTimeout
            <3> QED
                BY <3>2, <3>3, WorkerUpdate
        <2>2. tracker' \in SUBSET Workspace
            BY <1>10 DEF TrackTimeout, TypeOK, WorkerState
        <2> QED
            BY <1>10, <2>1, <2>2 DEF TrackTimeout, TypeOK, budget, queue, Fault
    <1>11. CASE Abandon(w)
        BY <1>11 DEF Abandon, EndCycle, TypeOK, queue, Fault
    <1>12. CASE Expire(w)
        BY <1>12 DEF Expire, TypeOK, Fault
    <1> QED
        BY <1>1, <1>2, <1>3, <1>4, <1>5, <1>6, <1>7, <1>8, <1>9, <1>10, <1>11, <1>12 DEF WorkerStep

\* A request that is under way has its record.
LEMMA BusyHandler ==
    ASSUME TypeOK, NEW h \in Handler
    PROVE  /\ req[h].pc # "idle" => req[h] \in Pending
           /\ req[h] # Idle => req[h] \in Pending
    BY DEF TypeOK, Pending, Idle

LEMMA HandlerTypes ==
    ASSUME TypeOK, NEW h \in Handler, HandlerStep(h) \/ RequestFails(h)
    PROVE  TypeOK'
    <1> USE BusyHandler
    <1>1. CASE Load(h)
        <2>1. Loaded(h) \in Pending \cup {Idle}
            BY <1>1 DEF Load, Loaded, Pending, Active
        <2> QED
            BY <1>1, <2>1 DEF Load, TypeOK, queue, budget
    <1>2. CASE Publish(h)
        <2>1. req[h].owners \in SUBSET Workspace
            BY <1>2 DEF Publish, Pending
        <2>2. /\ payload' \in Payload \cup {NoPayload}
              /\ slot' \in {"none", "due"} \cup Worker
              /\ fresh' \in [Worker -> SUBSET Workspace]
            BY <1>2, <2>1, AddTypes DEF Publish
        <2> QED
            BY <1>2, <2>2 DEF Publish, TypeOK, budget
    <1>3. CASE RemovePayload(h)
        <2>1. req' \in [Handler -> Pending \cup {Idle}]
            BY <1>3 DEF RemovePayload, TypeOK, Pending
        <2> QED
            BY <1>3, <2>1 DEF RemovePayload, TypeOK, budget
    <1>4. CASE RemoveEntry(h)
        <2>1. req' \in [Handler -> Pending \cup {Idle}]
            BY <1>4 DEF RemoveEntry, TypeOK, Pending
        <2> QED
            BY <1>4, <2>1 DEF RemoveEntry, TypeOK, budget
    <1>5. CASE RequestFails(h)
        BY <1>5 DEF RequestFails, Fault, TypeOK, queue
    <1> QED
        BY <1>1, <1>2, <1>3, <1>4, <1>5 DEF HandlerStep

LEMMA RequestTypes ==
    ASSUME TypeOK, NEW h \in Handler, NEW u \in Workspace, StartRequest(h, u)
    PROVE  TypeOK'
    <1>1. ASSUME NEW pc \in {"load", "sync", "hydrate", "orphans"}, Start(h, pc),
                 managed' \in [Workspace -> State]
          PROVE  TypeOK'
        <2>1. req' \in [Handler -> Pending \cup {Idle}]
            BY <1>1 DEF Start, TypeOK, Pending
        <2> QED
            BY <1>1, <2>1 DEF Start, TypeOK, queue
    <1>2. managed' \in [Workspace -> State]
        BY DEF StartRequest, Import, Requeue, Delete, SetManagedProxyState, TypeOK, State
    <1> QED
        BY <1>1, <1>2 DEF StartRequest, Import, Requeue, Delete, SetManagedProxyState

LEMMA RecoveryTypes ==
    ASSUME TypeOK,
           BootstrapStep \/ InitializeRuntimeQueues \/ BootstrapFails \/ Reconcile \/ LoseRedis
    PROVE  TypeOK'
    <1>1. CASE RecoverQueueState
        BY <1>1 DEF RecoverQueueState, BootstrapLoad, Bootstrap, Active, TypeOK, queue
    <1>2. CASE InitializeRuntimeQueues
        BY <1>2 DEF InitializeRuntimeQueues, BootstrapLoad, Bootstrap, Active, TypeOK, queue
    <1>3. CASE BootstrapPublish
        <2>1. boot \in Bootstrap
            BY <1>3 DEF BootstrapPublish, TypeOK, Bootstrap, Idle
        <2>2. /\ payload' \in Payload \cup {NoPayload}
              /\ slot' \in {"none", "due"} \cup Worker
              /\ fresh' \in [Worker -> SUBSET Workspace]
            BY <1>3, <2>1, AddTypes DEF BootstrapPublish, Bootstrap
        <2>3. boot' \in Bootstrap
            BY <1>3, <2>1 DEF BootstrapPublish, Bootstrap
        <2> QED
            BY <1>3, <2>2, <2>3 DEF BootstrapPublish, TypeOK, budget
    <1>4. CASE BootstrapMark
        BY <1>4 DEF BootstrapMark, TypeOK, queue, budget
    <1>5. CASE BootstrapFails
        BY <1>5 DEF BootstrapFails, Fault, TypeOK, queue
    <1>6. CASE Reconcile
        BY <1>6 DEF Reconcile, TypeOK, queue, budget
    <1>7. CASE LoseRedis
        <2>1. marker' \in BOOLEAN
            BY <1>7, Zenon DEF LoseRedis
        <2>2. faults' \in Nat
            BY <1>7 DEF LoseRedis, Fault, TypeOK
        <2> QED
            BY <1>7, <2>1, <2>2 DEF LoseRedis, TypeOK
    <1> QED
        BY <1>1, <1>2, <1>3, <1>4, <1>5, <1>6, <1>7 DEF BootstrapStep

LEMMA LateTypes ==
    ASSUME TypeOK, NEW u \in Workspace, LateFailureAction(u)
    PROVE  TypeOK'
    <1>1. managed' \in [Workspace -> State]
        BY DEF LateFailureAction, FailureAction, TypeOK, State
    <1> QED
        BY <1>1 DEF LateFailureAction, TypeOK, queue, budget

LEMMA RouteTypeNext == TypeOK /\ [Next]_vars => TypeOK'
    <1> SUFFICES ASSUME TypeOK, [Next]_vars PROVE TypeOK'
        OBVIOUS
    <1>1. CASE UNCHANGED vars
        BY <1>1 DEF vars, TypeOK
    <1>2. CASE Next
        BY <1>2, WorkerTypes, HandlerTypes, RequestTypes, RecoveryTypes, LateTypes DEF Next
    <1> QED
        BY <1>1, <1>2

\* The records of a route's life, in PostgreSQL, Redis, workers, requests and
\* the bootstrap, keep their types.
THEOREM RouteTypeCorrect == Spec => []TypeOK
    BY RouteTypeInit, RouteTypeNext, PTL DEF Spec

-----------------------------------------------------------------------------
(* Routes: what a worker may overwrite.                                    *)

\* While the payload still carries the sealed credentials a worker claimed,
\* nothing was published since its claim.
ImportsVisible ==
    \A w \in Worker :
        Busy(w) /\ payload # NoPayload /\ payload.tag = wk[w].snap.tag =>
            fresh[w] = {} \/ payload.tag = Bare

\* A step that publishes nothing and starts no cycle.
CyclesGoOn ==
    \A v \in Worker : Busy(v)' => Busy(v) /\ wk'[v].snap = wk[v].snap /\ fresh'[v] = fresh[v]

LEMMA QuietStep ==
    ASSUME ImportsVisible, CyclesGoOn,
           payload' # NoPayload => payload # NoPayload /\ payload'.tag = payload.tag
    PROVE  ImportsVisible'
    BY DEF ImportsVisible, CyclesGoOn

\* A sealed payload differs from every one that is still held.
LEMMA NewPayload ==
    ASSUME NEW t \in Marshalled, NEW w \in Worker, Busy(w)
    PROVE  t # wk[w].snap.tag \/ t = Bare
    BY DEF Marshalled, Held

LEMMA PublishVisible ==
    ASSUME TypeOK, ImportsVisible, UNCHANGED wk, NEW owners, AddToQueue(owners)
    PROVE  ImportsVisible'
    <1>1. CASE UNCHANGED <<payload, slot, fresh>>
        BY <1>1 DEF ImportsVisible, Busy
    <1>2. CASE \E t \in Marshalled : payload' = [owners |-> owners, tag |-> t]
        BY <1>2, NewPayload DEF ImportsVisible, Busy
    <1> QED
        BY <1>1, <1>2 DEF AddToQueue

LEMMA EndGoesOn ==
    ASSUME TypeOK, NEW w \in Worker, EndCycle(w)
    PROVE  CyclesGoOn
    BY DEF EndCycle, CyclesGoOn, Busy, TypeOK

\* Every step of a cycle after the claim keeps what was claimed.
LEMMA CycleKeeps ==
    ASSUME TypeOK, NEW w \in Worker,
           WorkerStep(w) \/ TrackTimeout(w) \/ VerifyFails(w) \/ Abandon(w) \/ Expire(w)
    PROVE  Claim(w) \/ CyclesGoOn
    <1> USE BusyWorker
    <1>1. CASE DropMissing(w) \/ Expire(w)
        BY <1>1 DEF DropMissing, Expire, CyclesGoOn, Busy
    <1>2. CASE Checked(w)
        BY <1>2 DEF Checked, CyclesGoOn, Busy, TypeOK, WorkerState
    <1>3. ASSUME NEW u \in Workspace, ProcessBatchEntry(w, u)
          PROVE  CyclesGoOn
        BY <1>3 DEF ProcessBatchEntry, CyclesGoOn, Busy, TypeOK, WorkerState
    <1>4. CASE InactiveLookup(w)
        BY <1>4 DEF InactiveLookup, CyclesGoOn, Busy, TypeOK, WorkerState
    <1>5. CASE Tracked(w)
        BY <1>5 DEF Tracked, CyclesGoOn, Busy, TypeOK, WorkerState
    <1>6. CASE TrackTimeout(w)
        BY <1>6 DEF TrackTimeout, CyclesGoOn, Busy, TypeOK, WorkerState
    <1>7. CASE RemoveOrphan(w) \/ VerifyOwnership(w) \/ VerifyFails(w)
        BY <1>7 DEF RemoveOrphan, VerifyOwnership, VerifyFails, Go, CyclesGoOn, Busy, TypeOK, WorkerState
    <1>8. CASE RemoveUnowned(w) \/ RequeueChecked(w) \/ Abandon(w)
        BY <1>8, EndGoesOn DEF RemoveUnowned, RequeueChecked, Abandon
    <1> QED
        BY <1>1, <1>2, <1>3, <1>4, <1>5, <1>6, <1>7, <1>8 DEF WorkerStep

LEMMA CompletedTag ==
    ASSUME TypeOK, ImportsVisible, NEW w \in Worker, RequeueChecked(w), CyclesGoOn
    PROVE  ImportsVisible'
    <1>1. CASE UNCHANGED payload
        BY <1>1, QuietStep
    <1>2. ASSUME NEW t \in Marshalled, payload' = CompletedPayload(w, t)
          PROVE  ImportsVisible'
        <2>1. CASE payload # NoPayload /\ payload # wk[w].snap
            <3>1. payload \in Payload
                BY <2>1 DEF TypeOK
            <3>2. payload'.tag = payload.tag
                BY <1>2, <2>1, <3>1 DEF CompletedPayload, Payload
            <3> QED
                BY <2>1, <3>2, QuietStep
        <2>2. CASE ~(payload # NoPayload /\ payload # wk[w].snap)
            <3>1. payload'.tag = t
                BY <1>2, <2>2 DEF CompletedPayload
            <3> QED
                BY <3>1, NewPayload DEF ImportsVisible, CyclesGoOn
        <2> QED
            BY <2>1, <2>2
    <1> QED
        BY <1>1, <1>2 DEF RequeueChecked, queue

LEMMA WorkerVisible ==
    ASSUME TypeOK, ImportsVisible, NEW w \in Worker,
           WorkerStep(w) \/ TrackTimeout(w) \/ VerifyFails(w) \/ Abandon(w) \/ Expire(w)
    PROVE  ImportsVisible'
    <1>1. CASE Claim(w)
        BY <1>1 DEF Claim, ImportsVisible, Busy, TypeOK
    <1>2. CASE RequeueChecked(w)
        BY <1>2, EndGoesOn, CompletedTag DEF RequeueChecked
    <1>3. CASE ~Claim(w) /\ ~RequeueChecked(w)
        <2>1. CyclesGoOn
            BY <1>3, CycleKeeps
        <2>2. UNCHANGED payload \/ payload' = NoPayload
            BY <1>3 DEF WorkerStep, DropMissing, Checked, ProcessBatchEntry, InactiveLookup, Tracked,
                RemoveOrphan, RemoveLeased, VerifyOwnership, RemoveUnowned, TrackTimeout,
                VerifyFails, Abandon, Expire, queue
        <2> QED
            BY <2>1, <2>2, QuietStep
    <1> QED
        BY <1>1, <1>2, <1>3

LEMMA OthersVisible ==
    ASSUME TypeOK, ImportsVisible, UNCHANGED wk,
           \/ \E u \in Workspace : LateFailureAction(u)
           \/ \E h \in Handler : HandlerStep(h) \/ RequestFails(h)
           \/ \E h \in Handler, u \in Workspace : StartRequest(h, u)
           \/ BootstrapStep \/ InitializeRuntimeQueues \/ BootstrapFails
           \/ Reconcile \/ LoseRedis
    PROVE  ImportsVisible'
    <1>1. ASSUME NEW h \in Handler, Publish(h)
          PROVE  ImportsVisible'
        BY <1>1, PublishVisible DEF Publish
    <1>2. CASE BootstrapPublish
        BY <1>2, PublishVisible DEF BootstrapPublish
    <1>3. ASSUME UNCHANGED fresh, UNCHANGED payload \/ payload' = NoPayload
          PROVE  ImportsVisible'
        BY <1>3 DEF ImportsVisible, Busy
    <1>4. ASSUME NEW h \in Handler, Load(h) \/ RemovePayload(h) \/ RemoveEntry(h) \/ RequestFails(h)
          PROVE  ImportsVisible'
        BY <1>3, <1>4 DEF Load, RemovePayload, RemoveEntry, RequestFails, queue
    <1>5. ASSUME NEW h \in Handler, NEW u \in Workspace, StartRequest(h, u)
          PROVE  ImportsVisible'
        BY <1>3, <1>5 DEF StartRequest, Import, Requeue, Delete, SetManagedProxyState, Start, queue
    <1>6. ASSUME NEW u \in Workspace, LateFailureAction(u)
          PROVE  ImportsVisible'
        BY <1>3, <1>6 DEF LateFailureAction, queue
    <1>7. CASE RecoverQueueState \/ InitializeRuntimeQueues \/ BootstrapMark \/ BootstrapFails
               \/ Reconcile \/ LoseRedis
        BY <1>3, <1>7 DEF RecoverQueueState, InitializeRuntimeQueues, BootstrapLoad, BootstrapMark,
            BootstrapFails, Reconcile, LoseRedis, queue
    <1> QED
        BY <1>1, <1>2, <1>4, <1>5, <1>6, <1>7 DEF HandlerStep, BootstrapStep

\* Only a worker moves its own cycle.
LEMMA OthersKeepCycles ==
    ASSUME \/ \E u \in Workspace : LateFailureAction(u)
           \/ \E h \in Handler : HandlerStep(h) \/ RequestFails(h)
           \/ \E h \in Handler, u \in Workspace : StartRequest(h, u)
           \/ BootstrapStep \/ InitializeRuntimeQueues \/ BootstrapFails
           \/ Reconcile \/ LoseRedis
    PROVE  UNCHANGED wk
    BY DEF LateFailureAction, HandlerStep, Load, Publish, RemovePayload, RemoveEntry, RequestFails,
        StartRequest, Import, Requeue, Delete, SetManagedProxyState, Start, BootstrapStep,
        RecoverQueueState, InitializeRuntimeQueues, BootstrapLoad, BootstrapPublish, BootstrapMark,
        BootstrapFails, Reconcile, LoseRedis

LEMMA VisibleNext ==
    TypeOK /\ ImportsVisible /\ [Next]_vars => ImportsVisible'
    <1> SUFFICES ASSUME TypeOK, ImportsVisible, [Next]_vars PROVE ImportsVisible'
        OBVIOUS
    <1>1. CASE UNCHANGED vars
        BY <1>1 DEF vars, ImportsVisible, Busy
    <1>2. CASE Next
        BY <1>2, WorkerVisible, OthersVisible, OthersKeepCycles DEF Next
    <1> QED
        BY <1>1, <1>2

\* A worker's own step changes no other worker's cycle.
LEMMA OwnCycleOnly ==
    ASSUME TypeOK, NEW v \in Worker, NEW w \in Worker, v # w,
           WorkerStep(v) \/ TrackTimeout(v) \/ VerifyFails(v) \/ Abandon(v) \/ Expire(v)
    PROVE  wk'[w] = wk[w]
    BY DEF WorkerStep, Claim, DropMissing, Checked, ProcessBatchEntry, InactiveLookup, Tracked,
        RemoveOrphan, VerifyOwnership, RemoveUnowned, RequeueChecked, TrackTimeout, VerifyFails,
        Abandon, EndCycle, Expire, Go, TypeOK

\* Whoever changed w's cycle was w.
LEMMA StepOfWorker ==
    ASSUME TypeOK, [Next]_vars, NEW w \in Worker, wk'[w] # wk[w]
    PROVE  WorkerStep(w) \/ TrackTimeout(w) \/ VerifyFails(w) \/ Abandon(w) \/ Expire(w)
    <1>1. Next
        BY DEF vars
    <1> QED
        BY <1>1, OthersKeepCycles, OwnCycleOnly DEF Next

\* The one step that gives a claim back is the completion.
LEMMA CompletionIsRequeue ==
    ASSUME TypeOK, [Next]_vars, NEW w \in Worker, Completes(w)
    PROVE  RequeueChecked(w)
    <1>1. w # "due" /\ w # "none"
        BY LifecycleAssumption
    <1>2. WorkerStep(w) \/ TrackTimeout(w) \/ VerifyFails(w) \/ Abandon(w) \/ Expire(w)
        BY StepOfWorker DEF Completes
    <1> QED
        BY <1>1, <1>2 DEF Completes, WorkerStep, Claim, DropMissing, Checked, ProcessBatchEntry,
            InactiveLookup, Tracked, RemoveOrphan, RemoveLeased, VerifyOwnership, RemoveUnowned,
            TrackTimeout, VerifyFails, Abandon, Expire, queue

LEMMA CompletionMerges ==
    ASSUME TypeOK, NEW w \in Worker, RequeueChecked(w), slot = w, payload # NoPayload
    PROVE  payload.owners \ wk[w].snap.owners \subseteq payload'.owners
    <1>1. payload \in Payload
        BY DEF TypeOK
    <1>2. CASE UNCHANGED payload
        BY <1>2
    <1>3. ASSUME NEW t \in Marshalled, payload' = CompletedPayload(w, t)
          PROVE  payload.owners \ wk[w].snap.owners \subseteq payload'.owners
        <2>1. CASE payload = wk[w].snap
            BY <2>1
        <2>2. CASE payload # wk[w].snap
            <3>1. payload'.owners = MergeOwners(payload.owners, wk[w].snap.owners, wk[w].owners)
                BY <1>1, <1>3, <2>2 DEF CompletedPayload, Payload
            <3> QED
                BY <3>1 DEF MergeOwners
        <2> QED
            BY <2>1, <2>2
    <1> QED
        BY <1>2, <1>3 DEF RequeueChecked, queue

\* KeepsNewWorkspaces: whatever was imported, dropped or failed during the check,
\* completing it keeps every workspace that the claim had not seen
\* (requeueCheckedProxy, complete.lua).
THEOREM CompletionKeepsImports == Spec => KeepsNewWorkspaces
    <1>1. ASSUME TypeOK, [Next]_vars
          PROVE  \A w \in Worker :
                    Completes(w) /\ payload # NoPayload =>
                        payload.owners \ wk[w].snap.owners \subseteq payload'.owners
        BY <1>1, CompletionIsRequeue, CompletionMerges DEF Completes
    <1>2. TypeOK /\ [Next]_vars =>
            [\A w \in Worker :
                Completes(w) /\ payload # NoPayload =>
                    payload.owners \ wk[w].snap.owners \subseteq payload'.owners]_vars
        BY <1>1
    <1> QED
        BY <1>2, RouteTypeCorrect, PTL DEF Spec, KeepsNewWorkspaces

LEMMA RemovalSeesClaim ==
    ASSUME TypeOK, ImportsVisible, [Next]_vars, NEW w \in Worker, Busy(w), wk'[w] # wk[w],
           payload # NoPayload, payload' = NoPayload
    PROVE  fresh[w] = {} \/ (payload = wk[w].snap /\ payload.tag = Bare)
    <1>1. WorkerStep(w) \/ TrackTimeout(w) \/ VerifyFails(w) \/ Abandon(w) \/ Expire(w)
        BY StepOfWorker
    <1>2. CASE RemoveOrphan(w) \/ RemoveUnowned(w)
        BY <1>2 DEF RemoveOrphan, RemoveUnowned, RemoveLeased, ImportsVisible, queue
    <1>3. CASE RequeueChecked(w)
        <2>1. PICK t \in Marshalled : payload' = CompletedPayload(w, t)
            BY <1>3 DEF RequeueChecked, queue
        <2> QED
            BY <1>3, <2>1, CompletedType, PayloadFacts DEF RequeueChecked
    <1>4. CASE ~(RemoveOrphan(w) \/ RemoveUnowned(w) \/ RequeueChecked(w))
        BY <1>1, <1>4 DEF WorkerStep, Claim, DropMissing, Checked, ProcessBatchEntry, InactiveLookup,
            Tracked, VerifyOwnership, TrackTimeout, VerifyFails, Abandon, Expire, queue
    <1> QED
        BY <1>2, <1>3, <1>4

\* RemovalSparesImports: a worker that found no owner erases nothing that was
\* published since its claim, unless the route carries no sealed credentials and
\* was published for exactly the workspaces of the claim: then remove.lua
\* compares equal bytes.
THEOREM RemovalKeepsImports == Spec => RemovalSparesImports
    <1>1. Init => ImportsVisible
        BY DEF Init, ImportsVisible, Busy
    <1>2. Spec => []ImportsVisible
        BY <1>1, VisibleNext, RouteTypeCorrect, PTL DEF Spec
    <1>3. TypeOK /\ ImportsVisible /\ [Next]_vars =>
            [\A w \in Worker :
                Busy(w) /\ wk'[w] # wk[w] /\ payload # NoPayload /\ payload' = NoPayload
                    => \/ fresh[w] \cap Active = {}
                       \/ payload = wk[w].snap /\ payload.tag = Bare]_vars
        BY RemovalSeesClaim
    <1> QED
        BY <1>2, <1>3, RouteTypeCorrect, PTL DEF Spec, RemovalSparesImports

\* What a worker's batch ended, and what the worker knows of it.
EndedFits(r) ==
    /\ r.ended \subseteq r.snap.owners /\ r.owners \subseteq r.snap.owners
    /\ r.pc = "check" => r.ended = {} /\ r.removed = {}
    /\ r.pc \in {"track", "lookup"} => r.ended = r.removed /\ r.todo \subseteq r.owners
    /\ r.pc \notin {"check", "track", "lookup"} =>
            r.ended \cap r.owners = {} /\ (r.ended # {} => r.changed)
EndedKnown == \A w \in Worker : Busy(w) => EndedFits(wk[w])

\* A worker's own step keeps what it knows.
LEMMA EndedOfWorker ==
    ASSUME TypeOK, NEW w \in Worker, Busy(w) => EndedFits(wk[w]),
           WorkerStep(w) \/ TrackTimeout(w) \/ VerifyFails(w) \/ Abandon(w) \/ Expire(w),
           wk'[w] # Idle
    PROVE  EndedFits(wk'[w])
    <1> USE BusyWorker
    <1>1. CASE Claim(w)
        BY <1>1 DEF Claim, EndedFits, TypeOK
    <1>2. CASE DropMissing(w) \/ Expire(w)
        BY <1>2 DEF DropMissing, Expire, Busy
    <1>3. CASE Checked(w)
        <2>1. PICK failing \in SUBSET wk[w].owners :
                wk' = [wk EXCEPT ![w].pc = "track", ![w].todo = failing]
            BY <1>3 DEF Checked
        <2>2. wk[w] \in WorkerState /\ wk[w].pc = "check" /\ EndedFits(wk[w])
            BY <1>3 DEF Checked, Busy
        <2>3. wk'[w] = [wk[w] EXCEPT !.pc = "track", !.todo = failing]
            BY <2>1 DEF TypeOK
        <2> QED
            BY <2>2, <2>3 DEF EndedFits, WorkerState
    <1>4. ASSUME NEW u \in Workspace, ProcessBatchEntry(w, u)
          PROVE  EndedFits(wk'[w])
        BY <1>4 DEF ProcessBatchEntry, EndedFits, Busy, TypeOK, WorkerState
    <1>5. CASE InactiveLookup(w)
        BY <1>5 DEF InactiveLookup, EndedFits, Busy, TypeOK, WorkerState
    <1>6. CASE Tracked(w)
        <2>1. wk[w] \in WorkerState /\ wk[w].pc = "track" /\ EndedFits(wk[w])
            BY <1>6 DEF Tracked, Busy
        <2>2. /\ wk'[w].pc \in {"orphan", "verify"}
              /\ wk'[w].snap = wk[w].snap /\ wk'[w].ended = wk[w].ended
              /\ wk'[w].owners = wk[w].owners \ wk[w].removed
              /\ wk'[w].changed = (wk[w].changed \/ wk[w].removed # {})
            BY <1>6, <2>1 DEF Tracked, TypeOK, WorkerState
        <2> QED
            BY <2>1, <2>2 DEF EndedFits
    <1>7. CASE TrackTimeout(w)
        BY <1>7 DEF TrackTimeout, EndedFits, Busy, TypeOK, WorkerState
    <1>8. CASE RemoveOrphan(w) \/ VerifyOwnership(w) \/ VerifyFails(w)
        BY <1>8 DEF RemoveOrphan, VerifyOwnership, VerifyFails, Go, EndedFits, Busy, TypeOK, WorkerState
    <1>9. CASE RemoveUnowned(w) \/ RequeueChecked(w) \/ Abandon(w)
        BY <1>9 DEF RemoveUnowned, RequeueChecked, Abandon, EndCycle, TypeOK
    <1> QED
        BY <1>1, <1>2, <1>3, <1>4, <1>5, <1>6, <1>7, <1>8, <1>9 DEF WorkerStep

LEMMA EndedNext == TypeOK /\ EndedKnown /\ [Next]_vars => EndedKnown'
    <1> SUFFICES ASSUME TypeOK, EndedKnown, [Next]_vars, NEW w \in Worker, Busy(w)'
                 PROVE  EndedFits(wk'[w])
        BY DEF EndedKnown, EndedFits
    <1>1. CASE wk'[w] = wk[w]
        BY <1>1 DEF EndedKnown, Busy
    <1>2. CASE wk'[w] # wk[w]
        BY <1>2, StepOfWorker, EndedOfWorker DEF EndedKnown, Busy
    <1> QED
        BY <1>1, <1>2

LEMMA CompletionDropsEnded ==
    ASSUME TypeOK, EndedKnown, NEW w \in Worker, RequeueChecked(w), slot = w
    PROVE  wk[w].ended = {} \/ wk[w].ended \cap payload'.owners = {}
    <1>1. Busy(w) /\ wk[w].pc = "requeue" /\ EndedFits(wk[w])
        BY BusyWorker DEF RequeueChecked, Busy, EndedKnown
    <1>2. CASE wk[w].changed
        <2>1. PICK t \in Marshalled : payload' = CompletedPayload(w, t)
            BY <1>2 DEF RequeueChecked
        <2>2. CASE payload # NoPayload /\ payload # wk[w].snap
            <3>1. payload \in Payload
                BY <2>2 DEF TypeOK
            <3>2. payload'.owners = MergeOwners(payload.owners, wk[w].snap.owners, wk[w].owners)
                BY <2>1, <2>2, <3>1 DEF CompletedPayload, Payload
            <3> QED
                BY <1>1, <3>2 DEF MergeOwners, EndedFits
        <2>3. CASE ~(payload # NoPayload /\ payload # wk[w].snap)
            BY <1>1, <2>1, <2>3 DEF CompletedPayload, EndedFits
        <2> QED
            BY <2>2, <2>3
    <1>3. CASE ~wk[w].changed
        BY <1>1, <1>3 DEF EndedFits
    <1> QED
        BY <1>2, <1>3

\* EndedLeavesPayload: a workspace whose management the worker's own batch ended
\* is not in the payload that the worker leaves when it gives its claim back,
\* unless it was published since the claim (Submit, processBatch, complete.lua).
THEOREM EndedManagementLeaves == Spec => EndedLeavesPayload
    <1>1. Init => EndedKnown
        BY DEF Init, EndedKnown, Busy
    <1>2. Spec => []EndedKnown
        BY <1>1, EndedNext, RouteTypeCorrect, PTL DEF Spec
    <1>3. TypeOK /\ EndedKnown /\ [Next]_vars =>
            [\A w \in Worker :
                Completes(w) /\ payload' # NoPayload =>
                    wk[w].ended \cap payload'.owners \subseteq fresh[w]]_vars
        BY CompletionIsRequeue, CompletionDropsEnded DEF Completes
    <1> QED
        BY <1>2, <1>3, RouteTypeCorrect, PTL DEF Spec, EndedLeavesPayload

-----------------------------------------------------------------------------
(* Plans: the invariant of CheckerPlans.                                   *)

WorkspaceRow ==
    [revision : Nat, full : Nat, projected : Nat, dirty : BOOLEAN, generation : Nat,
     defaults : Settings, rule : Settings \cup {Nothing}, key : Plan]

PlansTyped ==
    /\ ws \in WorkspaceRow
    /\ owned \subseteq Proxies /\ tagged \subseteq owned
    /\ changes \in [Proxies -> Change \cup {Nothing}]
    /\ plans \in [Proxies -> Plan]
    /\ header \in [Instances -> Headers]
    /\ snapshot \in [Instances -> Snapshot \cup {Nothing}]
    /\ loading \in [Instances -> SUBSET Snapshot]

\* The setting a route is to be checked with if it is not the default.
Override(p) == IF p \in tagged /\ ws.rule \notin {Nothing, ws.defaults} THEN ws.rule ELSE Nothing
KeyFor(setting, h) == IF setting = Nothing THEN Nothing ELSE PlanKey(setting, h)

\* No change of the route was recorded after revision r.
QuietSince(p, r) == changes[p] = Nothing \/ changes[p].revision <= r

RevisionsOrdered ==
    /\ ws.full <= ws.revision /\ ws.projected <= ws.revision
    /\ ~ws.dirty => ws.projected = ws.revision
    /\ \A p \in Proxies : QuietSince(p, ws.revision)

\* A route that has an override was recorded, so that its deletion is as well.
OverridesRecorded == \A p \in tagged : ws.rule # Nothing => changes[p] # Nothing

\* A snapshot that the watermark does not exclude differs from a compilation of
\* the present settings only in routes that were recorded since.
Mergeable(s) ==
    /\ s.base[1] = ws.defaults
    /\ \A p \in Proxies : QuietSince(p, s.revision) => s.plans[p] = KeyFor(Override(p), s.base[2])
SnapshotSound(s) ==
    /\ s.revision <= ws.projected
    /\ s.generation > 0 /\ s.generation <= ws.generation
    /\ s.generation = ws.generation => s.base = ws.key /\ s.revision = ws.projected
    /\ s.revision >= ws.full => Mergeable(s)
HeldBy(n) == loading[n] \cup ({snapshot[n]} \ {Nothing})
SnapshotsSound == \A n \in Instances : \A s \in HeldBy(n) : SnapshotSound(s)

\* Likewise the projection, as far as settings go.
ProjectionSound ==
    (ws.generation > 0 /\ ws.full <= ws.projected) =>
        /\ ws.key # Nothing /\ ws.key[1] = ws.defaults
        /\ \A p \in Proxies : QuietSince(p, ws.projected) => SettingOf(plans[p]) = Override(p)

PlansInv ==
    /\ PlansTyped /\ RevisionsOrdered /\ OverridesRecorded
    /\ SnapshotsSound /\ ProjectionSound

-----------------------------------------------------------------------------
LEMMA BuildIs ==
    ASSUME NEW h
    PROVE  Build(h) = [p \in Proxies |-> KeyFor(Override(p), h)]
    <1>1. CASE ws.rule \in {Nothing, ws.defaults}
        BY <1>1 DEF Build, KeyFor, Override, PlanKey
    <1>2. CASE ws.rule \notin {Nothing, ws.defaults}
        BY <1>2 DEF Build, KeyFor, Override, PlanKey
    <1> QED
        BY <1>1, <1>2

LEMMA KeyForFacts ==
    ASSUME PlansConstants, PlansTyped, NEW p \in Proxies, NEW h \in Headers
    PROVE  /\ Override(p) \in Settings \cup {Nothing}
           /\ KeyFor(Override(p), h) \in Plan
           /\ SettingOf(KeyFor(Override(p), h)) = Override(p)
    <1>1. Override(p) \in Settings \cup {Nothing}
        BY DEF PlansTyped, WorkspaceRow, Override
    <1>2. ASSUME NEW x \in Settings
          PROVE  KeyFor(x, h) \in Settings \X Headers /\ KeyFor(x, h)[1] = x
        BY <1>2 DEF KeyFor, PlanKey, PlansConstants
    <1> QED
        BY <1>1, <1>2 DEF KeyFor, Plan, SettingOf, PlansConstants

LEMMA HeldSnapshot ==
    ASSUME PlansConstants, PlansTyped, NEW n \in Instances
    PROVE  /\ HeldBy(n) \subseteq Snapshot
           /\ snapshot[n] # Nothing => snapshot[n] \in HeldBy(n)
    BY DEF PlansTyped, HeldBy

LEMMA SnapshotFields ==
    ASSUME NEW s \in Snapshot
    PROVE  /\ s.revision \in Nat /\ s.generation \in Nat
           /\ s.base \in Settings \X Headers
           /\ s.base[1] \in Settings /\ s.base[2] \in Headers
           /\ s.base = <<s.base[1], s.base[2]>>
           /\ s.plans \in [Proxies -> Plan]
    BY DEF Snapshot

LEMMA RowFields ==
    ASSUME NEW r \in WorkspaceRow
    PROVE  /\ r.revision \in Nat /\ r.full \in Nat /\ r.projected \in Nat
           /\ r.generation \in Nat /\ r.dirty \in BOOLEAN
           /\ r.defaults \in Settings /\ r.rule \in Settings \cup {Nothing} /\ r.key \in Plan
    BY DEF WorkspaceRow

LEMMA MarkedFields ==
    ASSUME ws \in WorkspaceRow
    PROVE  /\ Marked \in WorkspaceRow
           /\ Marked.revision = ws.revision + 1 /\ Marked.dirty = TRUE
           /\ Marked.full = ws.full /\ Marked.projected = ws.projected
           /\ Marked.generation = ws.generation /\ Marked.key = ws.key
           /\ Marked.defaults = ws.defaults /\ Marked.rule = ws.rule
    <1>1. ws.revision + 1 \in Nat
        BY DEF WorkspaceRow
    <1>2. Marked = [ws EXCEPT !.revision = ws.revision + 1, !.dirty = TRUE]
        BY DEF Marked, Revised
    <1>3. Marked.dirty = TRUE
        BY <1>2, Zenon DEF WorkspaceRow
    <1>4. /\ Marked \in WorkspaceRow
          /\ Marked.revision = ws.revision + 1
          /\ Marked.full = ws.full /\ Marked.projected = ws.projected
          /\ Marked.generation = ws.generation /\ Marked.key = ws.key
          /\ Marked.defaults = ws.defaults /\ Marked.rule = ws.rule
        BY <1>1, <1>2 DEF WorkspaceRow
    <1> QED
        BY <1>3, <1>4

\* A change of the settings, tags or routes keeps the invariant if it records
\* what it touches, or raises the watermark.
LEMMA InputsKeep ==
    ASSUME PlansConstants, PlansInv, PlansTyped', UNCHANGED <<snapshot, loading>>,
           ws'.generation = ws.generation, ws'.key = ws.key, ws'.projected = ws.projected,
           ws.full <= ws'.full, ws'.full <= ws'.revision, ws.revision <= ws'.revision,
           ~ws'.dirty => ~ws.dirty /\ ws'.revision = ws.revision,
           ws'.full <= ws.projected => ws'.defaults = ws.defaults,
           \A p \in Proxies : changes'[p] = Nothing \/ changes'[p].revision <= ws'.revision,
           \A p \in Proxies, r \in Nat :
               (/\ ws'.full <= r /\ r <= ws.projected
                /\ changes'[p] = Nothing \/ changes'[p].revision <= r)
               => QuietSince(p, r) /\ Override(p)' = Override(p) /\ plans'[p] = plans[p],
           OverridesRecorded'
    PROVE  PlansInv'
    <1>1. /\ ws.full \in Nat /\ ws.revision \in Nat /\ ws.projected \in Nat /\ ws.generation \in Nat
          /\ ws'.full \in Nat /\ ws'.revision \in Nat
        BY RowFields, PlansInv DEF PlansInv, PlansTyped
    <1>2. RevisionsOrdered'
        BY <1>1 DEF PlansInv, RevisionsOrdered, QuietSince
    <1>3. ASSUME NEW n \in Instances, NEW s \in HeldBy(n)'
          PROVE  SnapshotSound(s)'
        <2>1. s \in HeldBy(n) /\ s \in Snapshot
            BY <1>3, HeldSnapshot DEF HeldBy, PlansInv
        <2>2. SnapshotSound(s)
            BY <2>1 DEF PlansInv, SnapshotsSound
        <2>3. s.revision \in Nat
            BY <2>1, SnapshotFields
        <2>4. ASSUME s.revision >= ws'.full PROVE Mergeable(s)'
            <3>1. Mergeable(s) /\ s.revision <= ws.projected
                BY <1>1, <2>2, <2>3, <2>4 DEF SnapshotSound
            <3>2. ws'.defaults = ws.defaults
                BY <1>1, <2>3, <2>4, <3>1
            <3>3. ASSUME NEW p \in Proxies, QuietSince(p, s.revision)'
                  PROVE  s.plans[p] = KeyFor(Override(p)', s.base[2])
                <4>1. QuietSince(p, s.revision) /\ Override(p)' = Override(p)
                    BY <1>1, <2>3, <2>4, <3>1, <3>3 DEF QuietSince
                <4> QED
                    BY <4>1, <3>1 DEF Mergeable
            <3> QED
                BY <3>1, <3>2, <3>3 DEF Mergeable, KeyFor
        <2> QED
            BY <2>2, <2>4 DEF SnapshotSound
    <1>4. ProjectionSound'
        <2> SUFFICES ASSUME ws'.generation > 0, ws'.full <= ws'.projected
                     PROVE  /\ ws'.key # Nothing /\ ws'.key[1] = ws'.defaults
                            /\ \A p \in Proxies :
                                   (changes'[p] = Nothing \/ changes'[p].revision <= ws'.projected)
                                   => SettingOf(plans'[p]) = Override(p)'
            BY DEF ProjectionSound, SettingOf, QuietSince
        <2>1. /\ ws.key # Nothing /\ ws.key[1] = ws.defaults
              /\ \A p \in Proxies : QuietSince(p, ws.projected) => SettingOf(plans[p]) = Override(p)
            BY <1>1 DEF PlansInv, ProjectionSound
        <2>2. ASSUME NEW p \in Proxies, changes'[p] = Nothing \/ changes'[p].revision <= ws'.projected
              PROVE  SettingOf(plans'[p]) = Override(p)'
            <3>2. QuietSince(p, ws.projected) /\ Override(p)' = Override(p) /\ plans'[p] = plans[p]
                BY <1>1, <2>2
            <3> QED
                BY <2>1, <3>2
        <2> QED
            BY <2>1, <2>2
    <1> QED
        BY <1>2, <1>3, <1>4 DEF PlansInv, SnapshotsSound

LEMMA RecordFacts ==
    ASSUME PlansConstants, PlansTyped, NEW ps \in SUBSET Proxies, NEW gone \in BOOLEAN,
           Record(ps, gone)
    PROVE  /\ changes' \in [Proxies -> Change \cup {Nothing}]
           /\ \A p \in ps : changes'[p] # Nothing /\ changes'[p].revision = ws.revision + 1
           /\ \A p \in Proxies \ ps : changes'[p] = changes[p]
    <1> DEFINE c == [revision |-> Revised, deleted |-> gone]
    <1>1. ws.revision \in Nat
        BY RowFields DEF PlansTyped
    <1>2. c \in Change /\ c.revision = ws.revision + 1 /\ c # Nothing
        BY <1>1 DEF Change, Revised, PlansConstants
    <1>3. changes' = [p \in Proxies |-> IF p \in ps THEN c ELSE changes[p]]
        BY DEF Record
    <1> HIDE DEF c
    <1> QED
        BY <1>2, <1>3 DEF PlansTyped

\* The facts every step starts from.
LEMMA PlansFacts ==
    ASSUME PlansConstants, PlansInv
    PROVE  /\ PlansTyped /\ ws \in WorkspaceRow
           /\ ws.revision \in Nat /\ ws.full \in Nat /\ ws.projected \in Nat /\ ws.generation \in Nat
           /\ ws.full <= ws.revision /\ ws.projected <= ws.revision
           /\ \A p \in Proxies : changes[p] = Nothing
                                 \/ (changes[p] \in Change /\ changes[p].revision \in Nat
                                     /\ changes[p].revision <= ws.revision)
           /\ tagged \subseteq Proxies
    <1>1. PlansTyped /\ RevisionsOrdered
        BY DEF PlansInv
    <1>2. ws \in WorkspaceRow /\ tagged \subseteq Proxies
        BY <1>1 DEF PlansTyped
    <1>3. \A p \in Proxies : changes[p] = Nothing \/ (changes[p] \in Change /\ changes[p].revision \in Nat)
        BY <1>1 DEF PlansTyped, Change
    <1> QED
        BY <1>1, <1>2, <1>3, RowFields DEF RevisionsOrdered, QuietSince

LEMMA SaveDefaultsKeeps ==
    ASSUME PlansConstants, PlansInv, NEW d \in Settings, SaveDefaults(d)
    PROVE  PlansInv'
    <1> USE PlansFacts
    <1> DEFINE r == [Marked EXCEPT !.defaults = d, !.full = Revised]
    <1>1. Marked \in WorkspaceRow /\ Revised = ws.revision + 1 /\ Revised \in Nat
        BY MarkedFields DEF Revised
    <1>2. /\ r \in WorkspaceRow /\ r.revision = Marked.revision /\ r.full = Revised
          /\ r.projected = Marked.projected /\ r.generation = Marked.generation
          /\ r.key = Marked.key /\ r.rule = Marked.rule /\ r.defaults = d
        BY <1>1 DEF WorkspaceRow
    <1>3. r.dirty = Marked.dirty
        BY <1>1 DEF WorkspaceRow
    <1>4. ws' = r /\ UNCHANGED <<owned, tagged, changes, plans, header, snapshot, loading>>
        BY DEF SaveDefaults
    <1> HIDE DEF r
    <1>5. PlansTyped'
        BY <1>2, <1>4 DEF PlansTyped
    <1>6. OverridesRecorded'
        BY <1>2, <1>4, MarkedFields DEF PlansInv, OverridesRecorded
    <1>7. ws'.dirty = TRUE
        BY <1>3, <1>4, MarkedFields
    <1>8. /\ ws'.generation = ws.generation /\ ws'.key = ws.key /\ ws'.projected = ws.projected
          /\ ws'.full = ws.revision + 1 /\ ws'.revision = ws.revision + 1
        BY <1>1, <1>2, <1>4, MarkedFields
    <1>9. \A p \in Proxies : changes'[p] = Nothing \/ changes'[p].revision <= ws'.revision
        BY <1>4, <1>8
    <1> QED
        BY <1>4, <1>5, <1>6, <1>7, <1>8, <1>9, InputsKeep

\* A change that marks the workspace, records the routes ps and leaves the others'
\* tags and overrides alone.
LEMMA MarkedKeeps ==
    ASSUME PlansConstants, PlansInv, NEW ps \in SUBSET Proxies, NEW gone \in BOOLEAN, Record(ps, gone),
           NEW r \in Settings \cup {Nothing}, ws' = [Marked EXCEPT !.rule = r],
           owned' \subseteq Proxies, tagged' \subseteq owned', plans' \in [Proxies -> Plan],
           UNCHANGED <<header, snapshot, loading>>,
           \A p \in Proxies \ ps : Override(p)' = Override(p) /\ plans'[p] = plans[p],
           \A p \in tagged' \ ps : r # Nothing => p \in tagged /\ ws.rule # Nothing
    PROVE  PlansInv'
    <1> USE PlansFacts
    <1>1. Marked \in WorkspaceRow
        BY MarkedFields
    <1>2. /\ ws' \in WorkspaceRow /\ ws'.revision = Marked.revision /\ ws'.full = Marked.full
          /\ ws'.projected = Marked.projected /\ ws'.generation = Marked.generation
          /\ ws'.key = Marked.key /\ ws'.rule = r /\ ws'.defaults = Marked.defaults
        BY <1>1 DEF WorkspaceRow
    <1>3. ws'.dirty = Marked.dirty
        BY <1>1 DEF WorkspaceRow
    <1>5. PlansTyped'
        BY <1>2, RecordFacts DEF PlansTyped
    <1>6. OverridesRecorded'
        BY <1>2, RecordFacts DEF PlansInv, OverridesRecorded
    <1>7. ws'.dirty = TRUE
        BY <1>3, MarkedFields
    <1>8. /\ ws'.generation = ws.generation /\ ws'.key = ws.key /\ ws'.projected = ws.projected
          /\ ws'.full = ws.full /\ ws'.revision = ws.revision + 1 /\ ws'.defaults = ws.defaults
        BY <1>1, <1>2, MarkedFields
    <1>9. \A p \in Proxies : changes'[p] = Nothing \/ changes'[p].revision <= ws'.revision
        <2>1. ASSUME NEW p \in ps PROVE changes'[p].revision <= ws'.revision
            BY <1>8, RecordFacts
        <2>2. ASSUME NEW p \in Proxies \ ps
              PROVE  changes'[p] = Nothing \/ changes'[p].revision <= ws'.revision
            BY <1>8, RecordFacts
        <2> QED
            BY <2>1, <2>2
    <1>10. ASSUME NEW p \in Proxies, NEW q \in Nat, q <= ws.projected,
                  changes'[p] = Nothing \/ changes'[p].revision <= q
           PROVE  QuietSince(p, q) /\ Override(p)' = Override(p) /\ plans'[p] = plans[p]
        <2>1. p \notin ps
            BY <1>10, RecordFacts
        <2> QED
            BY <1>10, <2>1, RecordFacts DEF QuietSince
    <1> QED
        BY <1>5, <1>6, <1>7, <1>8, <1>9, <1>10, InputsKeep

LEMMA SaveRuleKeeps ==
    ASSUME PlansConstants, PlansInv, NEW r \in Settings \cup {Nothing}, SaveRule(r)
    PROVE  PlansInv'
    <1>1. /\ ws' = [Marked EXCEPT !.rule = r] /\ Record(tagged, FALSE)
          /\ UNCHANGED <<owned, tagged, plans, header, snapshot, loading>>
        BY DEF SaveRule
    <1>2. \A p \in Proxies \ tagged : Override(p)' = Override(p)
        BY <1>1 DEF Override
    <1> QED
        BY <1>1, <1>2, PlansFacts, MarkedKeeps DEF PlansTyped

\* A change that no plan depends on.
LEMMA UnrecordedKeeps ==
    ASSUME PlansConstants, PlansInv, UNCHANGED <<ws, changes, header, snapshot, loading>>,
           owned' \subseteq Proxies, tagged' \subseteq owned', plans' = plans,
           ws.rule # Nothing => tagged' \subseteq tagged,
           \A p \in Proxies : Override(p)' = Override(p)
    PROVE  PlansInv'
    <1> USE PlansFacts
    <1>1. PlansTyped'
        BY DEF PlansTyped
    <1>2. OverridesRecorded'
        BY DEF PlansInv, OverridesRecorded
    <1>3. /\ ws'.generation = ws.generation /\ ws'.key = ws.key /\ ws'.projected = ws.projected
          /\ ws'.full = ws.full /\ ws'.revision = ws.revision /\ ws'.defaults = ws.defaults
          /\ ws'.dirty = ws.dirty
        OBVIOUS
    <1>4. \A p \in Proxies : changes'[p] = Nothing \/ changes'[p].revision <= ws'.revision
        OBVIOUS
    <1>5. \A p \in Proxies, q \in Nat :
              (changes'[p] = Nothing \/ changes'[p].revision <= q)
              => QuietSince(p, q) /\ Override(p)' = Override(p) /\ plans'[p] = plans[p]
        BY DEF QuietSince
    <1> QED
        BY <1>1, <1>2, <1>3, <1>4, <1>5, InputsKeep

LEMMA SameRule ==
    ASSUME ws \in WorkspaceRow
    PROVE  Marked = [Marked EXCEPT !.rule = ws.rule]
    BY MarkedFields DEF WorkspaceRow

LEMMA ReplaceProxyTagsKeeps ==
    ASSUME PlansConstants, PlansInv, NEW p \in Proxies, ReplaceProxyTags(p)
    PROVE  PlansInv'
    <1> USE PlansFacts
    <1>1. /\ UNCHANGED <<owned, plans, header, snapshot, loading>>
          /\ tagged' \subseteq owned /\ owned \subseteq Proxies
          /\ \A q \in Proxies \ {p} : q \in tagged' <=> q \in tagged
        BY DEF ReplaceProxyTags, PlansTyped
    <1>2. CASE ws.rule = Nothing /\ UNCHANGED <<ws, changes>>
        <2>1. \A q \in Proxies : Override(q)' = Override(q)
            BY <1>2 DEF Override
        <2> QED
            BY <1>1, <1>2, <2>1, UnrecordedKeeps
    <1>3. CASE ws.rule # Nothing /\ ws' = Marked /\ Record({p}, FALSE)
        <2>1. ws' = [Marked EXCEPT !.rule = ws.rule] /\ ws.rule \in Settings \cup {Nothing}
            BY <1>3, SameRule, RowFields
        <2>2. ws'.rule = ws.rule /\ ws'.defaults = ws.defaults
            BY <1>3, MarkedFields
        <2>3. \A q \in Proxies \ {p} : Override(q)' = Override(q)
            BY <1>1, <2>2 DEF Override
        <2>4. /\ {p} \in SUBSET Proxies
              /\ owned' \subseteq Proxies /\ tagged' \subseteq owned' /\ plans' \in [Proxies -> Plan]
              /\ \A q \in tagged' \ {p} : q \in tagged
              /\ \A q \in Proxies \ {p} : plans'[q] = plans[q]
            BY <1>1 DEF PlansTyped
        <2>5. /\ \A q \in tagged' \ {p} : ws.rule # Nothing => q \in tagged /\ ws.rule # Nothing
              /\ \A q \in Proxies \ {p} : Override(q)' = Override(q) /\ plans'[q] = plans[q]
            BY <2>3, <2>4
        <2>6. {p} \in SUBSET Proxies /\ owned' \subseteq Proxies /\ tagged' \subseteq owned'
              /\ plans' \in [Proxies -> Plan]
            BY <2>4
        <2> QED
            BY <1>1, <1>3, <2>1, <2>5, <2>6, MarkedKeeps, PlansConstants, PlansInv, ZenonT(30)
    <1> QED
        BY <1>2, <1>3 DEF ReplaceProxyTags

LEMMA DeleteProxyTagKeeps ==
    ASSUME PlansConstants, PlansInv, DeleteProxyTag
    PROVE  PlansInv'
    <1> USE PlansFacts
    <1>1. /\ UNCHANGED <<owned, plans, header, snapshot, loading>>
          /\ tagged' = {} /\ owned \subseteq Proxies
        BY DEF DeleteProxyTag, PlansTyped
    <1>2. CASE ws.rule = Nothing /\ UNCHANGED <<ws, changes>>
        <2>1. \A q \in Proxies : Override(q)' = Override(q)
            BY <1>2 DEF Override
        <2> QED
            BY <1>1, <1>2, <2>1, UnrecordedKeeps
    <1>3. CASE ws' = [Marked EXCEPT !.rule = Nothing] /\ Record(tagged, FALSE)
        <2>1. \A q \in Proxies \ tagged : Override(q)' = Override(q)
            BY <1>1 DEF Override
        <2> QED
            BY <1>1, <1>3, <2>1, MarkedKeeps DEF PlansTyped
    <1> QED
        BY <1>2, <1>3 DEF DeleteProxyTag

LEMMA DeleteManagedRouteKeeps ==
    ASSUME PlansConstants, PlansInv, NEW p \in Proxies, DeleteManagedRoute(p)
    PROVE  PlansInv'
    <1> USE PlansFacts
    <1>1. /\ UNCHANGED <<header, snapshot, loading>>
          /\ owned' \subseteq Proxies /\ tagged' = tagged \ {p} /\ tagged' \subseteq owned'
          /\ plans' = [plans EXCEPT ![p] = Nothing]
        BY DEF DeleteManagedRoute, PlansTyped
    <1>2. /\ plans' \in [Proxies -> Plan]
          /\ \A q \in Proxies \ {p} : plans'[q] = plans[q]
          /\ plans[p] = Nothing => plans' = plans
        BY <1>1 DEF PlansTyped, Plan
    <1>3. CASE plans[p] = Nothing /\ changes[p] = Nothing /\ UNCHANGED <<ws, changes>>
        <2>1. p \in tagged => ws.rule = Nothing
            BY <1>3 DEF PlansInv, OverridesRecorded
        <2>2. \A q \in Proxies : Override(q)' = Override(q)
            BY <1>1, <1>3, <2>1 DEF Override
        <2> QED
            BY <1>1, <1>2, <1>3, <2>2, UnrecordedKeeps
    <1>4. CASE ws' = Marked /\ Record({p}, TRUE)
        <2>1. ws' = [Marked EXCEPT !.rule = ws.rule] /\ ws.rule \in Settings \cup {Nothing}
            BY <1>4, SameRule, RowFields
        <2>2. ws'.rule = ws.rule /\ ws'.defaults = ws.defaults
            BY <1>4, MarkedFields
        <2>3. \A q \in Proxies \ {p} : Override(q)' = Override(q)
            BY <1>1, <2>2 DEF Override
        <2>4. {p} \in SUBSET Proxies /\ \A q \in tagged' \ {p} : q \in tagged
            BY <1>1
        <2>5. /\ \A q \in tagged' \ {p} : ws.rule # Nothing => q \in tagged /\ ws.rule # Nothing
              /\ \A q \in Proxies \ {p} : Override(q)' = Override(q) /\ plans'[q] = plans[q]
            BY <1>2, <2>3, <2>4
        <2>6. {p} \in SUBSET Proxies /\ owned' \subseteq Proxies /\ tagged' \subseteq owned'
              /\ plans' \in [Proxies -> Plan]
            BY <1>1, <1>2, <2>4
        <2> QED
            BY <1>1, <1>2, <1>4, <2>1, <2>5, <2>6, MarkedKeeps, PlansConstants, PlansInv, ZenonT(30)
    <1> QED
        BY <1>3, <1>4 DEF DeleteManagedRoute

LEMMA ImportRouteKeeps ==
    ASSUME PlansConstants, PlansInv, NEW p \in Proxies, ImportRoute(p)
    PROVE  PlansInv'
    <1>1. /\ UNCHANGED <<ws, tagged, changes, plans, header, snapshot, loading>>
          /\ owned' \subseteq Proxies /\ tagged' \subseteq owned'
        BY PlansFacts DEF ImportRoute, PlansTyped
    <1>2. \A q \in Proxies : Override(q)' = Override(q)
        BY <1>1 DEF Override
    <1> QED
        BY <1>1, <1>2, UnrecordedKeeps

LEMMA PruneDeletedRouteKeeps ==
    ASSUME PlansConstants, PlansInv, NEW p \in Proxies, PruneDeletedRoute(p)
    PROVE  PlansInv'
    <1> USE PlansFacts
    <1>1. /\ UNCHANGED <<owned, tagged, plans, header, snapshot, loading>>
          /\ changes[p] \in Change /\ changes[p].revision \in Nat /\ changes[p].revision <= ws.revision
        BY DEF PruneDeletedRoute
    <1>2. CASE changes' = [changes EXCEPT ![p].deleted = FALSE] /\ UNCHANGED ws
        <2> DEFINE c == [changes[p] EXCEPT !.deleted = FALSE]
        <2>1. c \in Change /\ c.revision = changes[p].revision /\ c # Nothing /\ changes[p] # Nothing
            BY <1>1 DEF Change, PlansConstants
        <2>2. changes' = [changes EXCEPT ![p] = c]
            BY <1>2
        <2> HIDE DEF c
        <2>3. /\ changes' \in [Proxies -> Change \cup {Nothing}]
              /\ \A q \in Proxies : /\ changes'[q] = Nothing <=> changes[q] = Nothing
                                    /\ changes[q] # Nothing => changes'[q].revision = changes[q].revision
            BY <2>1, <2>2 DEF PlansTyped
        <2>4. PlansTyped'
            BY <1>1, <1>2, <2>3 DEF PlansTyped
        <2>5. OverridesRecorded'
            BY <1>1, <1>2, <2>3 DEF PlansInv, OverridesRecorded
        <2>6. \A q \in Proxies : changes'[q] = Nothing \/ changes'[q].revision <= ws'.revision
            BY <1>2, <2>3
        <2>7. \A q \in Proxies, r \in Nat :
                  (changes'[q] = Nothing \/ changes'[q].revision <= r)
                  => QuietSince(q, r) /\ Override(q)' = Override(q) /\ plans'[q] = plans[q]
            BY <1>1, <1>2, <2>3 DEF QuietSince, Override
        <2>8. /\ ws'.generation = ws.generation /\ ws'.key = ws.key /\ ws'.projected = ws.projected
              /\ ws'.full = ws.full /\ ws'.revision = ws.revision /\ ws'.defaults = ws.defaults
              /\ ws'.dirty = ws.dirty
            BY <1>2
        <2> QED
            BY <1>1, <2>4, <2>5, <2>6, <2>7, <2>8, InputsKeep
    <1>3. CASE /\ p \notin owned /\ ~ws.dirty /\ changes[p].revision =< ws.projected
               /\ changes' = [changes EXCEPT ![p] = Nothing]
               /\ ws' = [ws EXCEPT !.full = IF changes[p].revision > @ THEN changes[p].revision ELSE @]
        <2>1. PICK f \in Nat : /\ ws' = [ws EXCEPT !.full = f] /\ f >= ws.full /\ f >= changes[p].revision
                               /\ f <= ws.revision
            <3>1. CASE changes[p].revision > ws.full
                BY <1>1, <1>3, <3>1
            <3>2. CASE ~(changes[p].revision > ws.full)
                BY <1>1, <1>3, <3>2
            <3> QED
                BY <3>1, <3>2
        <2>2. /\ ws' \in WorkspaceRow /\ ws'.full = f
              /\ ws'.generation = ws.generation /\ ws'.key = ws.key /\ ws'.projected = ws.projected
              /\ ws'.revision = ws.revision /\ ws'.defaults = ws.defaults /\ ws'.rule = ws.rule
            BY <2>1 DEF WorkspaceRow
        <2>3. ws'.dirty = ws.dirty
            BY <2>1 DEF WorkspaceRow
        <2>4. /\ changes' \in [Proxies -> Change \cup {Nothing}]
              /\ \A q \in Proxies \ {p} : changes'[q] = changes[q]
              /\ changes'[p] = Nothing
            BY <1>3 DEF PlansTyped
        <2>5. PlansTyped'
            BY <1>1, <2>2, <2>4 DEF PlansTyped
        <2>6. OverridesRecorded'
            BY <1>1, <1>3, <2>2, <2>4 DEF PlansInv, OverridesRecorded, PlansTyped
        <2>7. \A q \in Proxies : changes'[q] = Nothing \/ changes'[q].revision <= ws'.revision
            BY <2>2, <2>4
        <2>8. ASSUME NEW q \in Proxies, NEW r \in Nat, ws'.full <= r,
                     changes'[q] = Nothing \/ changes'[q].revision <= r
              PROVE  QuietSince(q, r) /\ Override(q)' = Override(q) /\ plans'[q] = plans[q]
            <3>1. CASE q = p
                BY <1>1, <2>1, <2>2, <2>8, <3>1 DEF QuietSince, Override
            <3>2. CASE q # p
                BY <1>1, <2>2, <2>4, <2>8, <3>2 DEF QuietSince, Override
            <3> QED
                BY <3>1, <3>2
        <2> QED
            BY <1>1, <2>1, <2>2, <2>3, <2>5, <2>6, <2>7, <2>8, InputsKeep
    <1> QED
        BY <1>2, <1>3 DEF PruneDeletedRoute

LEMMA HeaderChangesKeeps ==
    ASSUME PlansConstants, PlansInv, NEW n \in Instances, NEW h \in Headers, HeaderChanges(n, h)
    PROVE  PlansInv'
    <1>1. PlansTyped'
        BY PlansFacts DEF HeaderChanges, PlansTyped
    <1>2. UNCHANGED <<ws, owned, tagged, changes, plans, snapshot, loading>>
        BY DEF HeaderChanges
    <1> QED
        BY <1>1, <1>2 DEF PlansInv, RevisionsOrdered, OverridesRecorded, SnapshotsSound, SnapshotSound,
            Mergeable, HeldBy, ProjectionSound, QuietSince, Override, KeyFor, SettingOf

-----------------------------------------------------------------------------
\* LoadCheckerWorkspace: whether it merges or not, the result is a compilation
\* of the present settings.
LEMMA CompiledIsBuild ==
    ASSUME PlansConstants, PlansInv, NEW n \in Instances
    PROVE  /\ Compiled(n) = [p \in Proxies |-> KeyFor(Override(p), header[n])]
           /\ Compiled(n) \in [Proxies -> Plan]
           /\ \A p \in Proxies : SettingOf(Compiled(n)[p]) = Override(p)
    <1> USE PlansFacts
    <1>1. header[n] \in Headers
        BY DEF PlansTyped
    <1>2. Build(header[n]) = [p \in Proxies |-> KeyFor(Override(p), header[n])]
        BY BuildIs
    <1>3. Compiled(n) = Build(header[n])
        <2>1. CASE ~Incremental(n)
            BY <2>1 DEF Compiled
        <2>2. CASE Incremental(n)
            <3> DEFINE s == snapshot[n]
            <3>1. s # Nothing /\ s.base = BaseOf(n) /\ s.revision >= ws.full
                BY <2>2 DEF Incremental
            <3>2. s \in HeldBy(n) /\ s \in Snapshot
                BY <3>1, HeldSnapshot
            <3>3. Mergeable(s)
                BY <3>1, <3>2 DEF PlansInv, SnapshotsSound, SnapshotSound
            <3>4. s.base[2] = header[n]
                BY <3>1 DEF BaseOf, PlanKey
            <3>5. ASSUME NEW p \in Proxies, p \notin Affected(n)
                  PROVE  s.plans[p] = Build(header[n])[p]
                <4>1. QuietSince(p, s.revision)
                    BY <3>2, <3>5, SnapshotFields DEF Affected, QuietSince
                <4> QED
                    BY <1>2, <3>3, <3>4, <4>1 DEF Mergeable
            <3> QED
                BY <1>2, <2>2, <3>5 DEF Compiled
        <2> QED
            BY <2>1, <2>2
    <1>4. \A p \in Proxies : Compiled(n)[p] = KeyFor(Override(p), header[n])
        BY <1>2, <1>3
    <1>5. \A p \in Proxies : KeyFor(Override(p), header[n]) \in Plan
                             /\ SettingOf(KeyFor(Override(p), header[n])) = Override(p)
        BY <1>1, KeyForFacts
    <1> QED
        BY <1>2, <1>3, <1>4, <1>5

\* A step that changes only what the instances hold.
LEMMA HoldingsKeep ==
    ASSUME PlansInv, PlansTyped', UNCHANGED <<ws, tagged, changes, plans>>,
           \A n \in Instances : \A s \in HeldBy(n)' : SnapshotSound(s)
    PROVE  PlansInv'
    <1>1. \A s : SnapshotSound(s)' <=> SnapshotSound(s)
        BY DEF SnapshotSound, Mergeable, QuietSince, Override, KeyFor, PlanKey
    <1>2. SnapshotsSound'
        BY <1>1 DEF SnapshotsSound
    <1> QED
        BY <1>2 DEF PlansInv, RevisionsOrdered, OverridesRecorded, ProjectionSound, QuietSince,
            Override, SettingOf

\* What a load of the row r hands over.
LEMMA SnapshotOfFacts ==
    ASSUME PlansConstants, PlansInv, NEW n \in Instances, NEW r \in WorkspaceRow
    PROVE  LET s == SnapshotOf(n, r) IN
           /\ s \in Snapshot /\ s.generation = r.generation /\ s.revision = r.revision
           /\ s.base = BaseOf(n) /\ s.base = <<ws.defaults, header[n]>> /\ s.plans = Compiled(n)
    <1>1. ws.defaults \in Settings /\ header[n] \in Headers
        BY PlansFacts, RowFields DEF PlansTyped
    <1>2. BaseOf(n) \in Settings \X Headers /\ BaseOf(n) = <<ws.defaults, header[n]>>
        BY <1>1 DEF BaseOf, PlanKey
    <1>3. Compiled(n) \in [Proxies -> Plan]
        BY CompiledIsBuild
    <1>4. /\ r.generation \in Nat /\ r.revision \in Nat /\ r.rule \in Settings \cup {Nothing}
        BY RowFields
    <1> QED
        BY <1>2, <1>3, <1>4 DEF SnapshotOf, Snapshot

LEMMA LoadedFacts ==
    ASSUME PlansConstants, PlansTyped, NEW n \in Instances, NEW s \in Snapshot, LoadedBy(n, s), UNCHANGED snapshot
    PROVE  /\ loading' \in [Instances -> SUBSET Snapshot]
           /\ \A i \in Instances : HeldBy(i)' \subseteq HeldBy(i) \cup {s}
    BY DEF LoadedBy, PlansTyped, HeldBy

LEMMA LoadUnchangedKeeps ==
    ASSUME PlansConstants, PlansInv, NEW n \in Instances, LoadUnchanged(n)
    PROVE  PlansInv'
    <1> USE PlansFacts
    <1>1. UNCHANGED <<ws, owned, tagged, changes, plans, header, snapshot>>
        BY DEF LoadUnchanged
    <1>2. ASSUME NEW s \in Snapshot, LoadedBy(n, s), SnapshotSound(s)
          PROVE  PlansInv'
        <2>1. PlansTyped'
            BY <1>1, <1>2, LoadedFacts DEF PlansTyped
        <2>2. \A i \in Instances : \A t \in HeldBy(i)' : SnapshotSound(t)
            BY <1>1, <1>2, LoadedFacts DEF PlansInv, SnapshotsSound
        <2> QED
            BY <1>1, <2>1, <2>2, HoldingsKeep
    <1>3. CASE UpToDate(n) /\ LoadedBy(n, snapshot[n])
        <2>1. snapshot[n] \in HeldBy(n) /\ snapshot[n] \in Snapshot
            BY <1>3, HeldSnapshot DEF UpToDate
        <2>2. SnapshotSound(snapshot[n])
            BY <2>1 DEF PlansInv, SnapshotsSound
        <2> QED
            BY <1>2, <1>3, <2>1, <2>2
    <1>4. CASE ~DefaultChanged(n) /\ ~RowFor(n).dirty /\ LoadedBy(n, SnapshotOf(n, ws))
        <2> DEFINE s == SnapshotOf(n, ws)
        <2>1. /\ s \in Snapshot /\ s.generation = ws.generation /\ s.revision = ws.revision
              /\ s.base = BaseOf(n) /\ s.base = <<ws.defaults, header[n]>> /\ s.plans = Compiled(n)
            BY SnapshotOfFacts
        <2>2. ws.generation # 0 /\ ws.key = BaseOf(n)
            BY <1>4 DEF DefaultChanged
        <2>3. ~ws.dirty
            <3>1. CASE NewRevision(n)
                <4>1. RowFor(n) = [ws EXCEPT !.revision = @ + 1, !.full = ws.revision + 1, !.dirty = TRUE]
                    BY <3>1 DEF RowFor
                <4>2. RowFor(n).dirty = TRUE
                    BY <4>1, Zenon DEF WorkspaceRow
                <4> QED
                    BY <1>4, <4>2
            <3>2. CASE ~NewRevision(n)
                BY <1>4, <3>2 DEF RowFor
            <3> QED
                BY <3>1, <3>2
        <2>4. ws.projected = ws.revision
            BY <2>3 DEF PlansInv, RevisionsOrdered
        <2>5. Mergeable(s)
            <3>1. s.base[1] = ws.defaults /\ s.base[2] = header[n]
                BY <2>1
            <3>2. \A p \in Proxies : s.plans[p] = KeyFor(Override(p), header[n])
                BY <2>1, CompiledIsBuild
            <3> QED
                BY <3>1, <3>2 DEF Mergeable
        <2> HIDE DEF s
        <2>6. SnapshotSound(s)
            <3>1. s.base = ws.key /\ s.revision = ws.projected
                BY <2>1, <2>2, <2>4
            <3>2. /\ s.revision <= ws.projected
                  /\ s.generation > 0 /\ s.generation <= ws.generation
                BY <2>1, <2>2, <2>4
            <3> QED
                BY <2>5, <3>1, <3>2 DEF SnapshotSound
        <2> QED
            BY <1>2, <1>4, <2>1, <2>6 DEF s
    <1> QED
        BY <1>3, <1>4 DEF LoadUnchanged

LEMMA LoadProjectKeeps ==
    ASSUME PlansConstants, PlansInv, NEW n \in Instances, LoadProject(n)
    PROVE  PlansInv'
    <1> USE PlansFacts
    <1>1. PICK rev \in Nat, full \in Nat :
              /\ rev = (IF NewRevision(n) THEN ws.revision + 1 ELSE ws.revision)
              /\ full = (IF NewRevision(n) THEN ws.revision + 1 ELSE ws.full)
              /\ full <= rev
        OBVIOUS
    <1>2. BaseOf(n) = <<ws.defaults, header[n]>> /\ BaseOf(n) \in Plan /\ BaseOf(n) # Nothing
        <2>1. ws.defaults \in Settings /\ header[n] \in Headers
            BY RowFields DEF PlansTyped
        <2> QED
            BY <2>1 DEF BaseOf, PlanKey, Plan, PlansConstants
    <1> DEFINE row == [RowFor(n) EXCEPT !.generation = @ + 1, !.dirty = FALSE,
                                        !.projected = RowFor(n).revision, !.key = BaseOf(n)]
    <1>3. /\ RowFor(n) \in WorkspaceRow /\ RowFor(n).revision = rev /\ RowFor(n).full = full
          /\ RowFor(n).generation = ws.generation
          /\ RowFor(n).defaults = ws.defaults /\ RowFor(n).rule = ws.rule
        <2>1. CASE NewRevision(n)
            BY <1>1, <2>1 DEF RowFor, WorkspaceRow
        <2>2. CASE ~NewRevision(n)
            BY <1>1, <2>2 DEF RowFor
        <2> QED
            BY <2>1, <2>2
    <1>4. /\ row \in WorkspaceRow /\ row.revision = rev /\ row.full = full /\ row.projected = rev
          /\ row.generation = ws.generation + 1 /\ row.key = BaseOf(n)
          /\ row.defaults = ws.defaults /\ row.rule = ws.rule
        <2> DEFINE f == RowFor(n)
        <2>1. /\ f \in WorkspaceRow /\ f.revision \in Nat /\ f.full \in Nat
              /\ f.generation + 1 \in Nat /\ BaseOf(n) \in Plan
            BY <1>2, <1>3
        <2> HIDE DEF f
        <2>2. row = [f EXCEPT !.generation = f.generation + 1, !.dirty = FALSE,
                              !.projected = f.revision, !.key = BaseOf(n)]
            BY DEF f
        <2> HIDE DEF row
        <2>3. row \in WorkspaceRow
            BY <2>1, <2>2 DEF WorkspaceRow
        <2>4. /\ row.revision = f.revision /\ row.full = f.full /\ row.projected = f.revision
              /\ row.generation = f.generation + 1 /\ row.key = BaseOf(n)
              /\ row.defaults = f.defaults /\ row.rule = f.rule
            BY <2>1, <2>2 DEF WorkspaceRow
        <2> QED
            BY <1>3, <2>3, <2>4 DEF f
    <1>5. /\ ws' = row /\ LoadedBy(n, SnapshotOf(n, row))
          /\ plans' = [p \in Proxies |-> IF p \in Delta(n) THEN Compiled(n)[p] ELSE plans[p]]
          /\ UNCHANGED <<owned, tagged, changes, header, snapshot>>
        BY DEF LoadProject
    <1> HIDE DEF row
    <1>6. PlansTyped'
        <2>1. plans' \in [Proxies -> Plan]
            BY <1>5, CompiledIsBuild DEF PlansTyped
        <2>2. SnapshotOf(n, row) \in Snapshot
            BY <1>4, SnapshotOfFacts
        <2> QED
            BY <1>4, <1>5, <2>1, <2>2, LoadedFacts DEF PlansTyped
    <1>7. rev >= ws.revision /\ full >= ws.full /\ full <= rev
          /\ (full # ws.full => full = ws.revision + 1)
        BY <1>1
    <1>8. RevisionsOrdered'
        BY <1>4, <1>5, <1>7 DEF RevisionsOrdered, QuietSince
    <1>9. OverridesRecorded'
        BY <1>4, <1>5 DEF PlansInv, OverridesRecorded
    <1>10. \A p \in Proxies : Override(p)' = Override(p)
        BY <1>4, <1>5 DEF Override
    <1>11. SnapshotsSound'
        <2> SUFFICES ASSUME NEW i \in Instances, NEW s \in HeldBy(i)'
                     PROVE  SnapshotSound(s)'
            BY DEF SnapshotsSound
        <2>1. CASE s \in HeldBy(i)
            <3>1. SnapshotSound(s) /\ s \in Snapshot
                BY <2>1, HeldSnapshot DEF PlansInv, SnapshotsSound
            <3>2. s.revision \in Nat /\ s.generation \in Nat
                BY <3>1, SnapshotFields
            <3>3. ASSUME s.revision >= full PROVE Mergeable(s)'
                <4>1. Mergeable(s)
                    BY <1>7, <3>1, <3>2, <3>3 DEF SnapshotSound
                <4> QED
                    BY <1>4, <1>5, <1>10, <4>1 DEF Mergeable, QuietSince, KeyFor
            <3> QED
                BY <1>4, <1>5, <1>7, <3>1, <3>2, <3>3 DEF SnapshotSound
        <2>2. CASE s = SnapshotOf(n, row)
            <3>1. /\ s.generation = row.generation /\ s.revision = row.revision
                  /\ s.base = BaseOf(n) /\ s.plans = Compiled(n)
                BY <1>4, <2>2, SnapshotOfFacts
            <3>2. s.base[1] = ws.defaults /\ s.base[2] = header[n]
                BY <1>2, <3>1
            <3>3. \A p \in Proxies : s.plans[p] = KeyFor(Override(p), header[n])
                BY <3>1, CompiledIsBuild
            <3>4. Mergeable(s)'
                BY <1>4, <1>5, <1>10, <3>2, <3>3 DEF Mergeable, KeyFor
            <3> QED
                BY <1>4, <1>5, <3>1, <3>4 DEF SnapshotSound
        <2>3. SnapshotOf(n, row) \in Snapshot
            BY <1>4, SnapshotOfFacts
        <2> QED
            BY <1>5, <2>1, <2>2, <2>3, LoadedFacts
    <1>12. ASSUME NEW p \in Proxies PROVE SettingOf(plans'[p]) = Override(p)
        <2>1. SettingOf(Compiled(n)[p]) = Override(p)
            BY CompiledIsBuild
        <2>2. CASE p \in Delta(n) \/ plans[p] = Compiled(n)[p]
            BY <1>5, <2>1, <2>2
        <2>3. CASE p \notin Delta(n) /\ plans[p] # Compiled(n)[p]
            <3> DEFINE s == snapshot[n]
            <3>1. Incremental(n) /\ p \notin Affected(n)
                BY <2>3 DEF Delta
            <3>2. s \in HeldBy(n) /\ s \in Snapshot /\ s.revision >= ws.full
                BY <3>1, HeldSnapshot DEF Incremental
            <3>3. SnapshotSound(s) /\ s.revision \in Nat /\ s.generation \in Nat
                BY <3>2, SnapshotFields DEF PlansInv, SnapshotsSound
            <3>4. QuietSince(p, s.revision)
                BY <3>1, <3>2, <3>3 DEF Affected, QuietSince
            <3>5. QuietSince(p, ws.projected) /\ ws.full <= ws.projected /\ ws.generation > 0
                BY <3>2, <3>3, <3>4 DEF SnapshotSound, QuietSince
            <3>6. SettingOf(plans[p]) = Override(p)
                BY <3>5 DEF PlansInv, ProjectionSound
            <3> QED
                BY <1>5, <2>3, <3>6
        <2> QED
            BY <2>2, <2>3
    <1>13. ProjectionSound'
        <2>1. ws'.key # Nothing /\ ws'.key[1] = ws'.defaults
            BY <1>2, <1>4, <1>5
        <2> QED
            BY <1>10, <1>12, <2>1 DEF ProjectionSound, SettingOf
    <1> QED
        BY <1>6, <1>8, <1>9, <1>11, <1>13 DEF PlansInv

LEMMA InstallKeeps ==
    ASSUME PlansConstants, PlansInv, NEW n \in Instances, NEW s \in loading[n], Install(n, s)
    PROVE  PlansInv'
    <1> USE PlansFacts
    <1>1. s \in Snapshot
        BY DEF PlansTyped
    <1>2. /\ snapshot' = [snapshot EXCEPT ![n] = s] \/ snapshot' = snapshot
          /\ loading' = [loading EXCEPT ![n] = @ \ {s}]
          /\ UNCHANGED <<ws, owned, tagged, changes, plans, header>>
        BY DEF Install
    <1>3. PlansTyped'
        BY <1>1, <1>2 DEF PlansTyped
    <1>4. \A i \in Instances : HeldBy(i)' \subseteq HeldBy(i)
        BY <1>1, <1>2 DEF PlansTyped, HeldBy
    <1> QED
        BY <1>2, <1>3, <1>4, HoldingsKeep DEF PlansInv, SnapshotsSound

LEMMA InstanceRestartsKeeps ==
    ASSUME PlansConstants, PlansInv, NEW n \in Instances, InstanceRestarts(n)
    PROVE  PlansInv'
    <1> USE PlansFacts
    <1>1. /\ snapshot' = [snapshot EXCEPT ![n] = Nothing]
          /\ loading' = [loading EXCEPT ![n] = {}]
          /\ UNCHANGED <<ws, owned, tagged, changes, plans, header>>
        BY DEF InstanceRestarts
    <1>2. PlansTyped'
        BY <1>1 DEF PlansTyped
    <1>3. \A i \in Instances : HeldBy(i)' \subseteq HeldBy(i)
        BY <1>1 DEF PlansTyped, HeldBy
    <1> QED
        BY <1>1, <1>2, <1>3, HoldingsKeep DEF PlansInv, SnapshotsSound

LEMMA PlansInitSound ==
    ASSUME PlansConstants, PlansInit
    PROVE  PlansInv
    <1> DEFINE h0 == CHOOSE h \in Headers : TRUE
    <1>1. h0 \in Headers
        BY DEF PlansConstants
    <1>2. PICK d \in Settings :
              ws = [revision |-> 0, full |-> 0, projected |-> 0, dirty |-> FALSE, generation |-> 0,
                    defaults |-> d, rule |-> Nothing, key |-> Nothing]
        BY DEF PlansInit
    <1>3. /\ owned = Proxies /\ tagged = {} /\ changes = NoPlans /\ plans = NoPlans
          /\ header \in [Instances -> {h0}]
          /\ snapshot = [n \in Instances |-> Nothing] /\ loading = [n \in Instances |-> {}]
        BY DEF PlansInit
    <1> HIDE DEF h0
    <1>4. ws \in WorkspaceRow
        BY <1>2 DEF WorkspaceRow, Plan
    <1>5. PlansTyped
        BY <1>1, <1>3, <1>4 DEF PlansTyped, NoPlans, Plan
    <1>6. RevisionsOrdered
        BY <1>2, <1>3 DEF RevisionsOrdered, QuietSince, NoPlans
    <1>7. OverridesRecorded /\ SnapshotsSound
        BY <1>3 DEF OverridesRecorded, SnapshotsSound, HeldBy
    <1>8. ProjectionSound
        BY <1>2 DEF ProjectionSound
    <1> QED
        BY <1>5, <1>6, <1>7, <1>8 DEF PlansInv

LEMMA PlansNextSound ==
    ASSUME PlansConstants, PlansInv, [PlansNext]_planVars
    PROVE  PlansInv'
    <1>1. CASE UNCHANGED planVars
        <2>1. PlansTyped'
            BY <1>1 DEF planVars, PlansInv, PlansTyped
        <2>2. \A i \in Instances : HeldBy(i)' \subseteq HeldBy(i)
            BY <1>1 DEF planVars, HeldBy
        <2> QED
            BY <1>1, <2>1, <2>2, HoldingsKeep DEF planVars, PlansInv, SnapshotsSound
    <1>2. ASSUME NEW d \in Settings, SaveDefaults(d) \/ SaveRule(d) PROVE PlansInv'
        BY <1>2, SaveDefaultsKeeps, SaveRuleKeeps
    <1>3. CASE SaveRule(Nothing) \/ DeleteProxyTag
        BY <1>3, SaveRuleKeeps, DeleteProxyTagKeeps
    <1>4. ASSUME NEW p \in Proxies,
                 ReplaceProxyTags(p) \/ DeleteManagedRoute(p) \/ ImportRoute(p) \/ PruneDeletedRoute(p)
          PROVE  PlansInv'
        BY <1>4, ReplaceProxyTagsKeeps, DeleteManagedRouteKeeps, ImportRouteKeeps, PruneDeletedRouteKeeps
    <1>5. ASSUME NEW n \in Instances, LoadUnchanged(n) \/ LoadProject(n) \/ InstanceRestarts(n)
          PROVE  PlansInv'
        BY <1>5, LoadUnchangedKeeps, LoadProjectKeeps, InstanceRestartsKeeps
    <1>6. ASSUME NEW n \in Instances, NEW h \in Headers, HeaderChanges(n, h) PROVE PlansInv'
        BY <1>6, HeaderChangesKeeps
    <1>7. ASSUME NEW n \in Instances, NEW s \in loading[n], Install(n, s) PROVE PlansInv'
        BY <1>7, InstallKeeps
    <1> QED
        BY <1>1, <1>2, <1>3, <1>4, <1>5, <1>6, <1>7 DEF PlansNext

LEMMA PlansInvExact ==
    ASSUME PlansConstants, PlansInv
    PROVE  ProjectionExact
    <1> USE PlansFacts
    <1> SUFFICES ASSUME ws.generation > 0, ~ws.dirty
                 PROVE  /\ ws.key = PlanKey(ws.defaults, ws.key[2])
                        /\ \A p \in Proxies : SettingOf(plans[p]) = SettingOf(Build(ws.key[2])[p])
                        /\ \A n \in Instances :
                               (snapshot[n] # Nothing /\ snapshot[n].generation = ws.generation)
                               => snapshot[n].plans = Build(ws.key[2]) /\ snapshot[n].base = ws.key
        BY DEF ProjectionExact
    <1>1. ws.projected = ws.revision /\ ws.full <= ws.projected
        BY DEF PlansInv, RevisionsOrdered
    <1>2. \A p \in Proxies : QuietSince(p, ws.projected)
        BY <1>1 DEF QuietSince
    <1>3. /\ ws.key # Nothing /\ ws.key[1] = ws.defaults
          /\ \A p \in Proxies : SettingOf(plans[p]) = Override(p)
        BY <1>1, <1>2 DEF PlansInv, ProjectionSound
    <1>4. ws.key \in Settings \X Headers
        BY <1>3, RowFields DEF Plan
    <1>5. ws.key = PlanKey(ws.defaults, ws.key[2]) /\ ws.key[2] \in Headers
        BY <1>3, <1>4 DEF PlanKey
    <1>6. \A p \in Proxies : SettingOf(plans[p]) = SettingOf(Build(ws.key[2])[p])
        BY <1>3, <1>5, BuildIs, KeyForFacts
    <1>7. ASSUME NEW n \in Instances, snapshot[n] # Nothing, snapshot[n].generation = ws.generation
          PROVE  snapshot[n].plans = Build(ws.key[2]) /\ snapshot[n].base = ws.key
        <2> DEFINE s == snapshot[n]
        <2>1. s \in HeldBy(n) /\ s \in Snapshot
            BY <1>7, HeldSnapshot
        <2>2. SnapshotSound(s)
            BY <2>1 DEF PlansInv, SnapshotsSound
        <2>3. s.base = ws.key /\ s.revision = ws.projected
            BY <1>7, <2>2 DEF SnapshotSound
        <2>4. Mergeable(s)
            BY <1>1, <2>2, <2>3 DEF SnapshotSound
        <2>5. \A p \in Proxies : s.plans[p] = KeyFor(Override(p), ws.key[2])
            BY <1>2, <2>3, <2>4 DEF Mergeable
        <2>6. s.plans \in [Proxies -> Plan]
            BY <2>1, SnapshotFields
        <2> QED
            BY <2>3, <2>5, <2>6, BuildIs
    <1> QED
        BY <1>5, <1>6, <1>7

\* ProjectionExact, for every number of instances, routes, settings and headers
\* and any number of refreshes at once: the projection has exactly the overrides
\* of the present settings and a snapshot of the current generation is what a
\* full compilation gives, although refreshes merge recorded routes only
\* (LoadCheckerWorkspace) and old tombstones are pruned.
THEOREM ProjectionStaysExact == ASSUME PlansConstants PROVE PlansSpec => []ProjectionExact
    <1>1. PlansInit => PlansInv
        BY PlansInitSound
    <1>2. PlansInv /\ [PlansNext]_planVars => PlansInv'
        BY PlansNextSound
    <1>3. PlansInv => ProjectionExact
        BY PlansInvExact
    <1> QED
        BY <1>1, <1>2, <1>3, PTL DEF PlansSpec
=============================================================================
