------------------------------- MODULE MCLive --------------------------------
(***************************************************************************)
(* What must happen in the end to a route and to a result.  The lifecycle  *)
(* of a route and the statistics stream share no state at the level at     *)
(* which they are modelled: a behaviour of this run is one of the part     *)
(* that has the focus, under that part's fairness, while the other rests.  *)
(***************************************************************************)
EXTENDS StatisticsStream

CONSTANTS Workspace, Known, Worker, Handler, Sealed, Tag, MaxRouteFaults, MaxRequests

VARIABLES focus, managed, payload, slot, marker, snapshots, wk, tracker, req, boot,
          fresh, routeFaults, requests

Lifecycle == INSTANCE RouteLifecycle WITH faults <- routeFaults, MaxFaults <- MaxRouteFaults

routeVars == <<managed, payload, slot, marker, snapshots, wk, tracker, req, boot,
               fresh, routeFaults, requests>>
liveVars == <<focus, vars, routeVars>>

\* Of a part that rests, one initial state is enough.
LiveInit ==
    /\ focus \in {"route", "stream"}
    /\ Init /\ Lifecycle!Init
    /\ focus = "route" => redis.group
    /\ focus = "stream" => Lifecycle!Active = {} /\ snapshots = Known

LiveNext ==
    \/ focus = "route" /\ Lifecycle!Next /\ UNCHANGED <<focus, vars>>
    \/ focus = "stream" /\ Next /\ UNCHANGED <<focus, routeVars>>

LiveFairness ==
    \/ focus = "route" /\ Lifecycle!Fairness
    \/ focus = "stream" /\ Fairness

LiveSpec == LiveInit /\ [][LiveNext]_liveVars /\ LiveFairness

\* Once no workspace wants the route checked, it leaves the schedule for good,
\* although stale requests and late workers may still publish it (VerifyOwnership).
InactiveLeaves == Lifecycle!InactiveLeaves
=============================================================================
