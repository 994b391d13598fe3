--------------------------- MODULE MCServicesLive ---------------------------
(***************************************************************************)
(* Services whose promise is that something happens in the end.  They      *)
(* share no state: a behaviour is one of the service that has the focus,   *)
(* under that service's fairness, while the others rest.                   *)
(***************************************************************************)
EXTENDS EmailOutbox, RotatorListeners, BlacklistSync, WorkerPool, InstanceHeartbeat,
        DashboardCache

VARIABLE focus

servicesVars ==
    <<focus, mailVars, listenerVars, blacklistVars, poolVars, heartbeatVars, dashboardVars>>

\* Of a service that rests, one initial state is enough.
ServicesInit ==
    /\ focus \in {"mail", "listeners", "blacklist", "pool", "heartbeat", "dashboard"}
    /\ MailInit /\ ListenerInit /\ BlacklistInit /\ PoolInit /\ HeartbeatInit /\ DashboardInit
    /\ focus # "pool" => items = 0
    /\ focus # "blacklist" => source = {} /\ configured

Rests(service, v) == IF focus = service THEN TRUE ELSE UNCHANGED v

OthersRest ==
    /\ UNCHANGED focus
    /\ Rests("mail", mailVars) /\ Rests("listeners", listenerVars)
    /\ Rests("blacklist", blacklistVars) /\ Rests("pool", poolVars)
    /\ Rests("heartbeat", heartbeatVars) /\ Rests("dashboard", dashboardVars)

ServicesNext ==
    \/ focus = "mail" /\ MailNext /\ OthersRest
    \/ focus = "listeners" /\ ListenerNext /\ OthersRest
    \/ focus = "blacklist" /\ BlacklistNext /\ OthersRest
    \/ focus = "pool" /\ PoolNext /\ OthersRest
    \/ focus = "heartbeat" /\ HeartbeatNext /\ OthersRest
    \/ focus = "dashboard" /\ DashboardNext /\ OthersRest

ServicesFairness ==
    \/ focus = "mail" /\ MailFairness
    \/ focus = "listeners" /\ ListenerFairness
    \/ focus = "blacklist" /\ BlacklistFairness
    \/ focus = "pool" /\ PoolFairness
    \/ focus = "heartbeat" /\ HeartbeatFairness
    \/ focus = "dashboard" /\ DashboardFairness

ServicesSpec == ServicesInit /\ [][ServicesNext]_servicesVars /\ ServicesFairness

-----------------------------------------------------------------------------
(* What each service promises, under its own fairness.                     *)

\* A queued message is settled for good in the end, although a crash leaves it
\* claimed by nobody and late marks bring it back (email_outbox.go).
MailDelivered == focus = "mail" => MailSettles

\* When rows stop changing, exactly the rotators with a port of this instance
\* are listened for, whatever stale lists Reconcile and Add worked on.
ListenersFollow == focus = "listeners" => ListenersConverge

\* When the sources stop changing, every instance's blacklist is what they
\* serve, although caches are loaded between TRUNCATE and the inserts.
BlacklistsAgree == focus = "blacklist" => CachesCatchUp

\* The checker pool ends at the size its load asks for, and after a shutdown
\* the dispatcher returns, although workers are slow to stop and panic.
PoolFitsLoad == focus = "pool" => PoolSettles

\* Once crashes end, every answer is the set of running instances, although a
\* reader may remove one that has just come back (instance_heartbeat.go).
InstancesKnown == focus = "heartbeat" => InstancesConverge

\* Health is served for the version it was read at, and whoever joined another
\* caller's load is released when the load ends, fails, is cancelled or panics.
DashboardAnswers == focus = "dashboard" => []HealthOfItsVersion /\ CallersReleased
=============================================================================
