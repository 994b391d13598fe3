-------------------------- MODULE MCRouteLifecycle --------------------------
(* One route by itself: the runs that refute a statement.                   *)
EXTENDS RouteLifecycle
=============================================================================
