---------------------------- MODULE RotatorCursor ----------------------------
(***************************************************************************)
(* Which route a rotator serves next.  GetNextRotatingProxy locks the      *)
(* rotator row, takes the qualifying route with the smallest ID above the  *)
(* cursor (or the smallest at all), moves the cursor and commits, so       *)
(* selections are atomic; what qualifies changes in between: check         *)
(* results, the workspace's checker settings, the route's ownership, its   *)
(* reputation and uptime.  A selection is not taken back when the upstream *)
(* fails, and the API's "next" request moves the same cursor.              *)
(***************************************************************************)
EXTENDS Integers, FiniteSets

CONSTANTS
    Routes,       \* proxies.id of the routes, 1..Routes
    MaxSettings   \* bound on checker generations

\* What the code guarantees of the constants.
CursorConstants == Routes \in Nat \ {0} /\ MaxSettings \in Nat \ {0}

VARIABLES
    activeRoutes,       \* the workspace's active routes
    evidence,      \* latest evidence: 0 not alive, else the generation it is alive under
    passesFilters, \* routes that pass the rotator's reputation and uptime filters
    settings,      \* checker generation of the workspace, and whether a save is being applied
    cursor,        \* last_proxy_id, 0 for NULL
    passedOver     \* history: how often another route was served while this one
                   \* qualified and waited (2 for twice or more)

cursorVars == <<activeRoutes, evidence, passesFilters, settings, cursor, passedOver>>

RouteID == 1..Routes
Unpassed == [p \in RouteID |-> 0]
-----------------------------------------------------------------------------
\* buildAliveProxyQuery: an active route of the workspace, whose settings are not
\* being applied, with an alive result made under the current settings, and that
\* passes both filters.
Qualifies(p) ==
    /\ p \in activeRoutes /\ ~settings.dirty
    /\ evidence[p] = settings.generation
    /\ p \in passesFilters

Qualifying == {p \in RouteID : Qualifies(p)}

Lowest(ids) == CHOOSE p \in ids : \A q \in ids : p =< q

\* Fault: the cursor route itself is a candidate again.
NextAliveProxyInclusive ==
    LET after == {p \in Qualifying : p >= cursor}
    IN  Lowest(IF after # {} THEN after ELSE Qualifying)

\* nextAliveProxyForProtocol: the first after the cursor, else the first.
NextAliveProxy ==
    LET after == {p \in Qualifying : p > cursor}
    IN  Lowest(IF after # {} THEN after ELSE Qualifying)

\* GetNextRotatingProxy; without a qualifying route nothing changes.
GetNextRotatingProxy ==
    LET next == NextAliveProxy IN
    /\ Qualifying # {}
    /\ cursor' = next
    /\ passedOver' = [q \in RouteID |->
           IF q = next \/ ~Qualifies(q) THEN Unpassed
           ELSE [passedOver[q] EXCEPT ![next] = IF @ = 2 THEN 2 ELSE @ + 1]]
    /\ UNCHANGED <<activeRoutes, evidence, passesFilters, settings>>

\* Whatever changes, a route that stops qualifying starts waiting anew.
Requalify == passedOver' = [q \in RouteID |-> IF Qualifies(q)' THEN passedOver[q] ELSE Unpassed]

\* A check result is committed as the route's latest evidence, under the current
\* settings or, from a slow worker, under earlier ones.
CommitEvidence(p, key) ==
    /\ evidence' = [evidence EXCEPT ![p] = key]
    /\ UNCHANGED <<activeRoutes, passesFilters, settings, cursor>>
    /\ Requalify

\* A route is added to, or leaves, the workspace's active set.
ChangeMembership(p) ==
    /\ activeRoutes' = IF p \in activeRoutes THEN activeRoutes \ {p} ELSE activeRoutes \cup {p}
    /\ UNCHANGED <<evidence, passesFilters, settings, cursor>>
    /\ Requalify

\* The checker settings are saved (dirty) and later applied.
SaveSettings ==
    /\ ~settings.dirty /\ settings.generation < MaxSettings
    /\ settings' = [generation |-> settings.generation + 1, dirty |-> TRUE]
    /\ UNCHANGED <<activeRoutes, evidence, passesFilters, cursor>>
    /\ Requalify

ApplySettings ==
    /\ settings.dirty
    /\ settings' = [settings EXCEPT !.dirty = FALSE]
    /\ UNCHANGED <<activeRoutes, evidence, passesFilters, cursor>>
    /\ Requalify

\* applyReputationFilter, applyUptimeFilter: the route's label or its share of
\* successful checks changes sides.
Rescore(p) ==
    /\ passesFilters' = IF p \in passesFilters THEN passesFilters \ {p} ELSE passesFilters \cup {p}
    /\ UNCHANGED <<activeRoutes, evidence, settings, cursor>>
    /\ Requalify
-----------------------------------------------------------------------------
CursorInit ==
    /\ activeRoutes = RouteID /\ passesFilters = RouteID
    /\ evidence = [p \in RouteID |-> 1]
    /\ settings = [generation |-> 1, dirty |-> FALSE]
    /\ cursor = 0 /\ passedOver = [p \in RouteID |-> Unpassed]

CursorNext ==
    \/ GetNextRotatingProxy \/ SaveSettings \/ ApplySettings
    \/ \E p \in RouteID : \/ ChangeMembership(p) \/ Rescore(p)
                          \/ \E key \in 0..settings.generation : CommitEvidence(p, key)

CursorSpec == CursorInit /\ [][CursorNext]_cursorVars
-----------------------------------------------------------------------------
CursorTypeOK ==
    /\ activeRoutes \subseteq RouteID /\ passesFilters \subseteq RouteID
    /\ evidence \in [RouteID -> 0..MaxSettings]
    /\ settings \in [generation : 1..MaxSettings, dirty : BOOLEAN]
    /\ cursor \in 0..Routes /\ passedOver \in [RouteID -> [RouteID -> 0..2]]

(***************************************************************************)
(* Rotation is fair whatever joins and leaves: while a route qualifies     *)
(* without interruption, no other route is served twice before it is       *)
(* served itself.                                                          *)
(***************************************************************************)
NoRouteServedTwiceFirst == \A q, p \in RouteID : passedOver[q][p] =< 1
=============================================================================
