----------------------------- MODULE GeoLiteSync -----------------------------
(***************************************************************************)
(* How the GeoLite databases reach every instance (internal/geolite,       *)
(* internal/jobs/runtime/geolite_update.go).                               *)
(*                                                                         *)
(* An update downloads the two editions into files, reloads both readers,  *)
(* reads the files back from disk into Redis and notifies the instances;   *)
(* a notified instance copies them from Redis into its files and reloads.  *)
(* On one instance the initial copy, the handler of notifications and an   *)
(* update run concurrently over the same two files; only the reload takes  *)
(* a lock.  The editions are released anew with every update that starts,  *)
(* and a version is the release it was downloaded from.                    *)
(***************************************************************************)
EXTENDS Naturals, FiniteSets

CONSTANTS GeoServer,
          GeoPlugins,     \* configurations [enabled, key, auto] to start with
          MaxGeoEvents    \* updates started, failed commands, lost subscriptions and restarts, together

VARIABLES geoDisk,      \* per instance and edition: version of the file, 0 when there is none
          geoReaders,   \* per instance and edition: version answering lookups, 0 the embedded one
          geoStore,     \* per edition: version in Redis, 0 when there is none
          geoTask,      \* per instance and goroutine: [step, file, data, updated]
          geoPending,   \* per instance: notifications delivered and not handled
          geoListening, \* the subscribed instances
          geoPlugin, updates, geoFaults,
          geoInformed   \* history: the instances that the last notification must bring up to date

geoVars == <<geoDisk, geoReaders, geoStore, geoTask, geoPending, geoListening,
             geoPlugin, updates, geoFaults, geoInformed>>

Edition == {"asn", "country"}                   \* downloaded, stored and fetched in this order
GeoRoutine == {"initial", "handler", "update"}
GeoOff == [step |-> "off", file |-> "asn", data |-> 0, updated |-> FALSE]
GeoIdle == [GeoOff EXCEPT !.step = "idle"]

\* Instances that have started against an empty Redis: their initial load
\* found nothing and they are subscribed.
GeoInit ==
  /\ geoDisk = [n \in GeoServer |-> [f \in Edition |-> 0]]
  /\ geoReaders = geoDisk
  /\ geoStore = [f \in Edition |-> 0]
  /\ geoTask = [n \in GeoServer |-> [r \in GeoRoutine |-> GeoIdle]]
  /\ geoPending = [n \in GeoServer |-> 0] /\ geoListening = GeoServer
  /\ geoPlugin \in GeoPlugins
  /\ updates = 0 /\ geoFaults = 0 /\ geoInformed = {}

GeoAt(n, r, step) == geoTask[n][r].step = step
GeoGoto(n, r, t) == geoTask' = [geoTask EXCEPT ![n][r] = t]
GeoFault == updates + geoFaults < MaxGeoEvents /\ geoFaults' = geoFaults + 1
\* The loop over the editions: `again` for the next one, `after` when there is none.
NextEdition(t, again, after) ==
  IF t.file = "asn" THEN [t EXCEPT !.step = again, !.file = "country", !.data = 0]
  ELSE [t EXCEPT !.step = after, !.file = "asn", !.data = 0]

-----------------------------------------------------------------------------
(* Copying from Redis: the initial load and the handler.                   *)

\* EnableRedisDistribution starts the initial load and the subscription.
EnableDistribution(n) ==
  /\ GeoAt(n, "initial", "off")
  /\ geoTask' = [geoTask EXCEPT ![n] = [r \in GeoRoutine |->
                   IF r = "initial" THEN [GeoOff EXCEPT !.step = "get"]
                   ELSE IF r = "update" THEN GeoIdle ELSE GeoOff]]
  /\ UNCHANGED <<geoDisk, geoReaders, geoStore, geoPending, geoListening, geoPlugin, updates, geoFaults, geoInformed>>
SubscribeGeo(n) ==
  /\ ~GeoAt(n, "initial", "off") /\ GeoAt(n, "handler", "off")
  /\ GeoGoto(n, "handler", GeoIdle)
  /\ geoListening' = geoListening \cup {n}
  /\ UNCHANGED <<geoDisk, geoReaders, geoStore, geoPending, geoPlugin, updates, geoFaults, geoInformed>>
ReceiveGeo(n) ==
  /\ GeoAt(n, "handler", "idle") /\ geoPending[n] > 0
  /\ geoPending' = [geoPending EXCEPT ![n] = @ - 1]
  /\ GeoGoto(n, "handler", [GeoOff EXCEPT !.step = "get"])
  /\ UNCHANGED <<geoDisk, geoReaders, geoStore, geoListening, geoPlugin, updates, geoFaults, geoInformed>>
\* GET of one edition; one that Redis does not hold is skipped.
FetchGeo(n, r) ==
  /\ r # "update" /\ GeoAt(n, r, "get")
  /\ LET t == geoTask[n][r] IN
       GeoGoto(n, r, IF geoStore[t.file] = 0
                     THEN NextEdition(t, "get", IF t.updated THEN "reload" ELSE "idle")
                     ELSE [t EXCEPT !.step = "write", !.data = geoStore[t.file]])
  /\ UNCHANGED <<geoDisk, geoReaders, geoStore, geoPending, geoListening, geoPlugin, updates, geoFaults, geoInformed>>
\* writeToFile renames a complete temporary file onto the edition's file.
WriteGeo(n, r) ==
  /\ GeoAt(n, r, "write")
  /\ LET t == geoTask[n][r] IN
       /\ geoDisk' = [geoDisk EXCEPT ![n][t.file] = t.data]
       /\ GeoGoto(n, r, NextEdition([t EXCEPT !.updated = TRUE], "get", "reload"))
  /\ UNCHANGED <<geoReaders, geoStore, geoPending, geoListening, geoPlugin, updates, geoFaults, geoInformed>>
\* A Redis command or a write to disk fails: the copy or the update ends there.
GeoStepFails(n, r) ==
  /\ GeoFault /\ geoTask[n][r].step \in {"get", "write", "download", "set", "publish"}
  /\ GeoGoto(n, r, GeoIdle)
  /\ geoInformed' = geoInformed \ {n}
  /\ UNCHANGED <<geoDisk, geoReaders, geoStore, geoPending, geoListening, geoPlugin, updates>>

\* ReloadGeoLiteFromDisk holds the lock, reads the country file and then the
\* other one, and replaces both readers or none.
ReadCountry(n, r) ==
  /\ GeoAt(n, r, "reload") /\ \A q \in GeoRoutine : ~GeoAt(n, q, "reloading")
  /\ GeoGoto(n, r, [geoTask[n][r] EXCEPT !.step = "reloading", !.data = geoDisk[n]["country"]])
  /\ UNCHANGED <<geoDisk, geoReaders, geoStore, geoPending, geoListening, geoPlugin, updates, geoFaults, geoInformed>>
LoadReaders(n, r) ==
  /\ GeoAt(n, r, "reloading")
  /\ LET country == geoTask[n][r].data
         asn == geoDisk[n]["asn"]
         complete == country # 0 /\ asn # 0
     IN /\ geoReaders' = IF complete
                         THEN [geoReaders EXCEPT ![n] = [f \in Edition |-> IF f = "asn" THEN asn ELSE country]]
                         ELSE geoReaders
        /\ GeoGoto(n, r, IF r = "update" /\ complete THEN [GeoIdle EXCEPT !.step = "read"] ELSE GeoIdle)
  /\ UNCHANGED <<geoDisk, geoStore, geoPending, geoListening, geoPlugin, updates, geoFaults, geoInformed>>

-----------------------------------------------------------------------------
(* An update: by the leader's routine, or by saving the settings anywhere. *)

\* triggerGeoLiteUpdate; a second call on the instance joins the one in flight.
TriggerGeoUpdate(n, force) ==
  /\ updates + geoFaults < MaxGeoEvents /\ updates' = updates + 1
  /\ geoPlugin.enabled /\ geoPlugin.key /\ (force \/ geoPlugin.auto)
  /\ GeoAt(n, "update", "idle")
  /\ GeoGoto(n, "update", [GeoIdle EXCEPT !.step = "download"])
  /\ geoInformed' = geoInformed \ {n}
  /\ UNCHANGED <<geoDisk, geoReaders, geoStore, geoPending, geoListening, geoPlugin, geoFaults>>
\* The archive's file is written as it is unpacked, and renamed.
DownloadEdition(n) ==
  /\ GeoAt(n, "update", "download")
  /\ LET t == geoTask[n]["update"] IN
       /\ geoDisk' = [geoDisk EXCEPT ![n][t.file] = updates]
       /\ GeoGoto(n, "update", NextEdition(t, "download", "reload"))
  /\ UNCHANGED <<geoReaders, geoStore, geoPending, geoListening, geoPlugin, updates, geoFaults, geoInformed>>
\* PublishGeoLiteDatabases: ReadFile and SET per edition, then PUBLISH.
ReadForPublish(n) ==
  /\ GeoAt(n, "update", "read")
  /\ LET t == geoTask[n]["update"] IN
       GeoGoto(n, "update", [t EXCEPT !.step = "set", !.data = geoDisk[n][t.file]])
  /\ UNCHANGED <<geoDisk, geoReaders, geoStore, geoPending, geoListening, geoPlugin, updates, geoFaults, geoInformed>>
StoreGeo(n) ==
  /\ GeoAt(n, "update", "set")
  /\ LET t == geoTask[n]["update"] IN
       /\ geoStore' = [geoStore EXCEPT ![t.file] = t.data]
       /\ GeoGoto(n, "update", NextEdition(t, "read", "publish"))
  /\ geoInformed' = {}
  /\ UNCHANGED <<geoDisk, geoReaders, geoPending, geoListening, geoPlugin, updates, geoFaults>>
\* Mutant: an instance that has no databases yet is not notified of new ones.
NotifyServingInstances ==
  geoPending' = [n \in GeoServer |-> geoPending[n] +
                   (IF n \in geoListening /\ geoReaders[n]["country"] # 0 THEN 1 ELSE 0)]
\* Every subscriber gets the notification, however busy it is.
NotifyInstances ==
  geoPending' = [n \in GeoServer |-> geoPending[n] + (IF n \in geoListening THEN 1 ELSE 0)]
PublishGeo(n) ==
  /\ GeoAt(n, "update", "publish")
  /\ NotifyInstances
  /\ GeoGoto(n, "update", GeoIdle)
  /\ geoInformed' = {k \in geoListening : GeoAt(k, "initial", "idle") /\ (k = n \/ GeoAt(k, "update", "idle"))}
  /\ UNCHANGED <<geoDisk, geoReaders, geoStore, geoListening, geoPlugin, updates, geoFaults>>

-----------------------------------------------------------------------------
(* The surroundings.                                                       *)

\* The Pub/Sub connection breaks and is opened again.
GeoSubscriptionBreaks(n) ==
  /\ GeoFault /\ n \in geoListening
  /\ geoPending' = [geoPending EXCEPT ![n] = 0]
  /\ geoInformed' = geoInformed \ {n}
  /\ UNCHANGED <<geoDisk, geoReaders, geoStore, geoTask, geoListening, geoPlugin, updates>>
\* A restarted instance opens its files, and the embedded edition where one is missing.
GeoServerRestarts(n) ==
  /\ GeoFault /\ ~GeoAt(n, "initial", "off")
  /\ geoTask' = [geoTask EXCEPT ![n] = [r \in GeoRoutine |-> GeoOff]]
  /\ geoReaders' = [geoReaders EXCEPT ![n] = geoDisk[n]]
  /\ geoPending' = [geoPending EXCEPT ![n] = 0]
  /\ geoListening' = geoListening \ {n} /\ geoInformed' = geoInformed \ {n}
  /\ UNCHANGED <<geoDisk, geoStore, geoPlugin, updates>>

GeoNext ==
  \E n \in GeoServer :
       \/ EnableDistribution(n) \/ SubscribeGeo(n) \/ ReceiveGeo(n)
       \/ \E r \in GeoRoutine : FetchGeo(n, r) \/ WriteGeo(n, r) \/ GeoStepFails(n, r)
                                \/ ReadCountry(n, r) \/ LoadReaders(n, r)
       \/ \E force \in BOOLEAN : TriggerGeoUpdate(n, force)
       \/ DownloadEdition(n) \/ ReadForPublish(n) \/ StoreGeo(n) \/ PublishGeo(n)
       \/ GeoSubscriptionBreaks(n) \/ GeoServerRestarts(n)

GeoSpec == GeoInit /\ [][GeoNext]_geoVars

-----------------------------------------------------------------------------
GeoTypeOK ==
  /\ geoDisk \in [GeoServer -> [Edition -> 0..MaxGeoEvents]]
  /\ geoReaders \in [GeoServer -> [Edition -> 0..MaxGeoEvents]]
  /\ geoStore \in [Edition -> 0..MaxGeoEvents]
  /\ geoTask \in [GeoServer -> [GeoRoutine ->
       [step : {"off", "idle", "get", "write", "reload", "reloading", "download", "read", "set", "publish"},
        file : Edition, data : 0..MaxGeoEvents, updated : BOOLEAN]]]
  /\ geoPending \in [GeoServer -> 0..MaxGeoEvents] /\ geoListening \subseteq GeoServer
  /\ updates \in 0..MaxGeoEvents /\ geoFaults \in 0..MaxGeoEvents
  /\ geoInformed \subseteq geoListening

\* An instance that listened when the last notification went out, whose own
\* goroutines have not failed, restarted or begun an update since, answers
\* lookups from exactly the pair of editions in Redis once it has worked off
\* its notifications, whatever its copies, its updates and those of the other
\* instances did to the files in between (subscribeToGeoLiteUpdates,
\* PublishGeoLiteDatabases).
InformedReadersCurrent ==
  \A n \in geoInformed : geoPending[n] = 0 /\ GeoAt(n, "handler", "idle") => geoReaders[n] = geoStore

=============================================================================
