--------------------------- MODULE DashboardCache ---------------------------
(***************************************************************************)
(* One component of one workspace's dashboard                              *)
(* (internal/database/dashboard_cache_state.go, database_proxy_dashboard.go *)
(* and refreshDashboardInfoCache).                                         *)
(*                                                                         *)
(* A request reads the workspace's health version (generation and dirty    *)
(* flag), serves a cached value of that version, or joins the load that is *)
(* under way for the key, or leads one.  A load reads the version, queries, *)
(* reads the version again and publishes unless an invalidation came in    *)
(* between; the request reads the version once more and masks the health   *)
(* if it moved.  The age limits of entries and of demand are choices: an   *)
(* entry may be too old at any time.                                       *)
(***************************************************************************)
EXTENDS Naturals, FiniteSets

CONSTANTS Caller, Routine, Missing, MaxHealthGeneration, MaxCancels

ASSUME RoutineAssumption == Routine \in Caller

VARIABLES health,       \* workspaces: the version, 2 * checker_generation, plus 1 when dirty
          revision,     \* the key's revision in dashboardCaches.entries
          flight,       \* the caller that leads a load, or Missing
          cached,       \* the stored entry, or Missing
          caller,       \* per caller: where getDashboardComponent is
          toInvalidate, \* a projection of this instance has still to invalidate
          cancels

dashboardVars == <<health, revision, flight, cached, caller, toInvalidate, cancels>>

Dirty(version) == version % 2 = 1
\* A value is the version its queries saw; masked health and an error are Missing.
IdleCaller == [step |-> "idle", version |-> Missing, loadVersion |-> Missing, revision |-> 0,
               value |-> Missing, leader |-> Missing, attempt |-> 0, own |-> TRUE]
CallerAt(c, step) == caller[c].step = step
Set(c, r) == caller' = [caller EXCEPT ![c] = r]
CallerTo(c, step) == Set(c, [caller[c] EXCEPT !.step = step])
Busy(c) == ~CallerAt(c, "idle") /\ ~CallerAt(c, "answered")

DashboardInit ==
  /\ health = 0
  /\ revision = 0 /\ flight = Missing /\ cached = Missing
  /\ caller = [c \in Caller |-> IdleCaller]
  /\ toInvalidate = FALSE /\ cancels = 0

-----------------------------------------------------------------------------
(* What the rest of the system does to the version.                        *)

SettingsCommit ==
  /\ ~Dirty(health) /\ health < 2 * MaxHealthGeneration
  /\ health' = health + 1
  /\ UNCHANGED <<revision, flight, cached, caller, toInvalidate, cancels>>
\* LoadCheckerWorkspace commits a projection, here or on another instance;
\* invalidateDashboardWorkspace follows here only.
ProjectionCommit ==
  /\ Dirty(health)
  /\ health' = health + 1
  /\ toInvalidate' \in {toInvalidate, TRUE}
  /\ UNCHANGED <<revision, flight, cached, caller, cancels>>
InvalidateDashboard ==
  /\ toInvalidate
  /\ toInvalidate' = FALSE
  /\ revision' = revision + 1
  /\ cached' = Missing
  /\ UNCHANGED <<health, flight, caller, cancels>>
\* requestedKeys, and the end of run: a key without demand and without a load is dropped.
EvictIdle ==
  /\ flight = Missing /\ cached # Missing
  /\ cached' = Missing /\ revision' = 0
  /\ UNCHANGED <<health, flight, caller, toInvalidate, cancels>>

-----------------------------------------------------------------------------
(* getDashboardComponent.                                                  *)

\* cachedDashboardComponent; the entry may also be too old (a miss).
Hit(version) == cached # Missing /\ ~Dirty(version) /\ cached.version = version

ReadVersion(c) ==
  /\ CallerAt(c, "idle") /\ c # Routine
  /\ \/ Dirty(health) /\ Set(c, [IdleCaller EXCEPT !.step = "answered"])
     \/ Set(c, [IdleCaller EXCEPT !.step = "lookup", !.version = health])
  /\ UNCHANGED <<health, revision, flight, cached, toInvalidate, cancels>>
\* RefreshRequestedDashboardCaches refreshes whatever is cached.
RoutineStarts ==
  /\ CallerAt(Routine, "idle")
  /\ Set(Routine, [IdleCaller EXCEPT !.step = "run"])
  /\ UNCHANGED <<health, revision, flight, cached, toInvalidate, cancels>>
LookUp(c) ==
  /\ CallerAt(c, "lookup")
  /\ \/ Hit(caller[c].version)
        /\ Set(c, [caller[c] EXCEPT !.step = "answered", !.value = cached.value])
     \/ CallerTo(c, "run")
  /\ UNCHANGED <<health, revision, flight, cached, toInvalidate, cancels>>

\* run: join the load under way, or lead one.
JoinFlight(c) ==
  /\ CallerAt(c, "run") /\ flight # Missing
  /\ Set(c, [caller[c] EXCEPT !.step = "wait", !.leader = flight, !.own = FALSE])
  /\ UNCHANGED <<health, revision, flight, cached, toInvalidate, cancels>>
LeadFlight(c) ==
  /\ CallerAt(c, "run") /\ flight = Missing
  /\ flight' = c
  /\ Set(c, [caller[c] EXCEPT !.step = "lead", !.own = TRUE])
  /\ UNCHANGED <<health, revision, cached, toInvalidate, cancels>>

\* The leader looks at the cache again, and then loads.
RecheckCache(c) ==
  /\ CallerAt(c, "lead") /\ c # Routine
  /\ Hit(caller[c].version)
  /\ Set(c, [caller[c] EXCEPT !.step = "loaded", !.value = cached.value])
  /\ UNCHANGED <<health, revision, flight, cached, toInvalidate, cancels>>
LoadVersion(c) ==
  /\ CallerAt(c, "lead")
  /\ \/ Dirty(health) /\ Set(c, [caller[c] EXCEPT !.step = "loaded", !.value = Missing])
     \/ Set(c, [caller[c] EXCEPT !.step = "query", !.loadVersion = health, !.revision = revision])
  /\ UNCHANGED <<health, revision, flight, cached, toInvalidate, cancels>>
Query(c) ==
  /\ CallerAt(c, "query")
  /\ Set(c, [caller[c] EXCEPT !.step = "recheck", !.value = health])
  /\ UNCHANGED <<health, revision, flight, cached, toInvalidate, cancels>>
RecheckVersion(c) ==
  /\ CallerAt(c, "recheck")
  /\ IF Dirty(caller[c].loadVersion) \/ health # caller[c].loadVersion
     THEN Set(c, [caller[c] EXCEPT !.step = "loaded", !.value = Missing])
     ELSE CallerTo(c, "publish")
  /\ UNCHANGED <<health, revision, flight, cached, toInvalidate, cancels>>
PublishEntry(c) ==
  /\ CallerAt(c, "publish")
  /\ cached' = IF revision = caller[c].revision
               THEN [version |-> caller[c].loadVersion, value |-> caller[c].value] ELSE cached
  /\ CallerTo(c, "loaded")
  /\ UNCHANGED <<health, revision, flight, toInvalidate, cancels>>

\* The deferred end of run hands the result to the callers that joined.
Joined(c) == {d \in Caller : CallerAt(d, "wait") /\ caller[d].leader = c}
EndFlight(c) ==
  /\ CallerAt(c, "loaded")
  /\ flight' = Missing
  /\ caller' = [d \in Caller |->
       IF d = c \/ d \in Joined(c)
       THEN IF d = Routine THEN IdleCaller
            ELSE [IdleCaller EXCEPT !.step = "check", !.version = caller[d].version,
                                    !.value = caller[c].value, !.own = caller[d].own]
       ELSE caller[d]]
  /\ UNCHANGED <<health, revision, cached, toInvalidate, cancels>>
\* The leader's request is cancelled or times out: those that joined lead or
\* join again, once.  When the load fails or panics they get the error.
Failed(d) == [IdleCaller EXCEPT !.step = IF d = Routine THEN "idle" ELSE "answered"]
FlightLeaks(c) ==
  /\ caller[c].step \in {"lead", "query", "recheck", "publish"} /\ cancels < MaxCancels
  /\ cancels' = cancels + 1
  /\ caller' = [caller EXCEPT ![c] = Failed(c)]
  /\ UNCHANGED <<health, revision, flight, cached, toInvalidate>>
Released(d, cancelled) ==
  IF cancelled /\ caller[d].attempt = 0 THEN [caller[d] EXCEPT !.step = "run", !.attempt = 1]
  ELSE Failed(d)
FlightFails(c) ==
  /\ caller[c].step \in {"lead", "query", "recheck", "publish"} /\ cancels < MaxCancels
  /\ cancels' = cancels + 1
  /\ flight' = Missing
  /\ \E cancelled \in BOOLEAN :
       caller' = [d \in Caller |-> CASE d = c -> Failed(d)
                                     [] d \in Joined(c) -> Released(d, cancelled)
                                     [] OTHER -> caller[d]]
  /\ UNCHANGED <<health, revision, cached, toInvalidate>>
\* A waiting caller gives up; the load goes on.
GiveUpWaiting(c) ==
  /\ CallerAt(c, "wait") /\ cancels < MaxCancels
  /\ cancels' = cancels + 1
  /\ Set(c, Failed(c))
  /\ UNCHANGED <<health, revision, flight, cached, toInvalidate>>

\* The version is read once more before the value is served.
CheckAnswer(c) ==
  /\ CallerAt(c, "check")
  /\ Set(c, [caller[c] EXCEPT !.step = "answered",
                              !.value = IF Dirty(health) \/ health # caller[c].version THEN Missing ELSE @])
  /\ UNCHANGED <<health, revision, flight, cached, toInvalidate, cancels>>
NextRequest(c) ==
  /\ CallerAt(c, "answered")
  /\ Set(c, IdleCaller)
  /\ UNCHANGED <<health, revision, flight, cached, toInvalidate, cancels>>

CallerStep(c) ==
  \/ LookUp(c) \/ JoinFlight(c) \/ LeadFlight(c) \/ RecheckCache(c) \/ LoadVersion(c) \/ Query(c)
  \/ RecheckVersion(c) \/ PublishEntry(c) \/ EndFlight(c) \/ CheckAnswer(c)
DashboardNext ==
  \/ SettingsCommit \/ ProjectionCommit \/ InvalidateDashboard \/ EvictIdle \/ RoutineStarts
  \/ \E c \in Caller : ReadVersion(c) \/ CallerStep(c) \/ FlightFails(c) \/ GiveUpWaiting(c) \/ NextRequest(c)

\* A goroutine that is not blocked continues.
DashboardFairness == \A c \in Caller : WF_dashboardVars(CallerStep(c))
DashboardSpec == DashboardInit /\ [][DashboardNext]_dashboardVars /\ DashboardFairness

-----------------------------------------------------------------------------
DashboardTypeOK ==
  /\ health \in 0..(2 * MaxHealthGeneration)
  /\ flight \in Caller \union {Missing}
  /\ flight # Missing => caller[flight].step \in {"lead", "query", "recheck", "publish", "loaded"}

\* Health computed while the version moved is never stored as of that version,
\* nor served by the caller that computed or looked it up: every entry's value,
\* and every answer that was not taken over from another caller's load, was
\* read at the version it is served for.
HealthOfItsVersion ==
  /\ cached # Missing => cached.value = cached.version
  /\ \A c \in Caller :
       (CallerAt(c, "answered") /\ caller[c].own /\ caller[c].value # Missing)
       => caller[c].value = caller[c].version

\* Every request is answered: whoever joined a load is released when it ends,
\* when its leader is cancelled and when it panics.
CallersReleased == \A c \in Caller : Busy(c) ~> ~Busy(c)
=============================================================================
