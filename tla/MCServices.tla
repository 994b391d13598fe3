----------------------------- MODULE MCServices -----------------------------
(***************************************************************************)
(* The services around the queue and the statistics stream.  They share no *)
(* state with one another, so their product would show nothing that each   *)
(* does not show by itself.  One run explores them all: a behaviour is one *)
(* of the service that has the focus, while the others rest.  The run      *)
(* checks the modules' own properties, which the proof modules prove.      *)
(***************************************************************************)
EXTENDS BrowserPool, LeaderLock, Alerts, RotatorTunnels, RotatorCursor, ConfigSync,
        StatisticsAdmission, GeoLiteSync, TrafficUsage, BlacklistRanges, DailyCounts,
        ScrapeQueue, TLC

CONSTANTS m1, m2, c0, c1, c2   \* identities that are alike, and configurations

MCIntervals == c0 :> 1 @@ c1 :> 2 @@ c2 :> 1
MCPlugins == {[enabled |-> TRUE, key |-> TRUE, auto |-> FALSE]}

ASSUME ServicesAssumption ==
    /\ BrowserConstants /\ LockConstants /\ AlertConstants /\ TunnelConstants
    /\ CursorConstants /\ ConfigConstants /\ AdmissionConstants
    /\ UsageConstants /\ RangesConstants /\ CountsConstants /\ ScrapeConstants

VARIABLE focus

servicesVars ==
    <<focus, browserVars, lockVars, alertVars, tunnelVars, cursorVars,
      configVars, admissionVars, geoVars, usageVars, rangeVars, countVars,
      scrapeVars>>

\* Of a service that rests, one initial state is enough.
ServicesInit ==
    /\ focus \in {"browser", "lock", "alerts", "tunnels", "cursor", "config",
                  "admission", "geo", "usage", "ranges", "counts", "scrape"}
    /\ BrowserInit /\ LockInit /\ AlertInit /\ TunnelInit /\ CursorInit
    /\ ConfigInit /\ AdmissionInit /\ GeoInit /\ UsageInit
    /\ RangesInit /\ CountsInit /\ ScrapeInit
    /\ focus # "tunnels" => socksListener
    /\ focus # "admission" => streamReady
    /\ focus # "counts" => rows = Zero

Rests(service, v) == IF focus = service THEN TRUE ELSE UNCHANGED v

OthersRest ==
    /\ UNCHANGED focus
    /\ Rests("browser", browserVars) /\ Rests("lock", lockVars)
    /\ Rests("alerts", alertVars) /\ Rests("tunnels", tunnelVars)
    /\ Rests("cursor", cursorVars)
    /\ Rests("config", configVars) /\ Rests("admission", admissionVars)
    /\ Rests("geo", geoVars) /\ Rests("usage", usageVars) /\ Rests("ranges", rangeVars)
    /\ Rests("counts", countVars) /\ Rests("scrape", scrapeVars)

ServicesNext ==
    \/ focus = "browser" /\ BrowserNext /\ OthersRest
    \/ focus = "lock" /\ LockNext /\ OthersRest
    \/ focus = "alerts" /\ AlertNext /\ OthersRest
    \/ focus = "tunnels" /\ TunnelNext /\ OthersRest
    \/ focus = "cursor" /\ CursorNext /\ OthersRest
    \/ focus = "config" /\ ConfigNext /\ OthersRest
    \/ focus = "admission" /\ AdmissionNext /\ OthersRest
    \/ focus = "geo" /\ GeoNext /\ OthersRest
    \/ focus = "usage" /\ UsageNext /\ OthersRest
    \/ focus = "ranges" /\ RangesNext /\ OthersRest
    \/ focus = "counts" /\ CountsNext /\ OthersRest
    \/ focus = "scrape" /\ ScrapeNext /\ OthersRest

ServicesSpec == ServicesInit /\ [][ServicesNext]_servicesVars

MCSymmetry == Permutations({m1, m2})
=============================================================================
