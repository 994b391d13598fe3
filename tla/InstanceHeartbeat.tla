-------------------------- MODULE InstanceHeartbeat --------------------------
(***************************************************************************)
(* Which instances are active                                              *)
(* (internal/jobs/runtime/instance_heartbeat.go).                          *)
(*                                                                         *)
(* Every instance writes a key that expires and its place in a sorted set  *)
(* scored by the same expiry, with two commands of one pipeline.  Readers  *)
(* prune the sorted set by score, rebuild it from the keys when it is      *)
(* empty, and drop the members whose key is gone.  The thread counts and   *)
(* the placement of rotators depend on the answer.  Times are kept as what *)
(* is left of them, so one unit of time passing lowers them all.           *)
(***************************************************************************)
EXTENDS Naturals, FiniteSets

CONSTANTS Host, Gone,
          BeatEvery,      \* heartbeat interval
          BeatTTL,        \* lifetime of a key
          MaxHostFaults   \* crashes, restarts and failed pipelines

ASSUME BeatAssumption == BeatEvery \in Nat \ {0} /\ BeatTTL \in Nat /\ BeatEvery < BeatTTL

VARIABLES host,      \* per instance: "up", "beating" (key written, index not yet), "leaving" or "down"
          beatIn,    \* per instance: time to the next heartbeat
          key,       \* per instance: what is left of its key's lifetime, or Gone
          index,     \* per instance: what is left until its score, or Gone
          reader,    \* [step, op, ids, left]: a reader and what it has read
          answer,    \* the instances of the last answer
          hostFaults

heartbeatVars == <<host, beatIn, key, index, reader, answer, hostFaults>>

Members == {n \in Host : index[n] # Gone}
Keys == {n \in Host : key[n] # Gone}
Up == {n \in Host : host[n] # "down"}
NoRead == [step |-> "idle", op |-> "count", ids |-> {}, left |-> [n \in Host |-> Gone]]
HostFault == hostFaults < MaxHostFaults /\ hostFaults' = hostFaults + 1

HeartbeatInit ==
  /\ host = [n \in Host |-> "down"] /\ beatIn = [n \in Host |-> 0]
  /\ key = [n \in Host |-> Gone] /\ index = [n \in Host |-> Gone]
  /\ reader = NoRead /\ answer = {} /\ hostFaults = 0

-----------------------------------------------------------------------------
(* The instances.                                                          *)

HostStarts(n) ==
  /\ host[n] = "down"
  /\ host' = [host EXCEPT ![n] = "up"] /\ beatIn' = [beatIn EXCEPT ![n] = 0]
  /\ UNCHANGED <<key, index, reader, answer, hostFaults>>
\* sendHeartbeat: SETEX and ZADD of a pipeline, with other commands in between.
BeatKey(n) ==
  /\ host[n] = "up" /\ beatIn[n] = 0
  /\ host' = [host EXCEPT ![n] = "beating"]
  /\ key' = [key EXCEPT ![n] = BeatTTL]
  /\ UNCHANGED <<beatIn, index, reader, answer, hostFaults>>
BeatIndex(n) ==
  /\ host[n] = "beating"
  /\ host' = [host EXCEPT ![n] = "up"] /\ beatIn' = [beatIn EXCEPT ![n] = BeatEvery]
  /\ index' = [index EXCEPT ![n] = BeatTTL]
  /\ UNCHANGED <<key, reader, answer, hostFaults>>
\* The pipeline fails before or between its commands: the next one is at the next tick.
BeatFails(n) ==
  /\ host[n] = "beating" \/ (host[n] = "up" /\ beatIn[n] = 0)
  /\ HostFault
  /\ host' = [host EXCEPT ![n] = "up"] /\ beatIn' = [beatIn EXCEPT ![n] = BeatEvery]
  /\ UNCHANGED <<key, index, reader, answer>>
\* The cleanup at the end: DEL and ZREM.
HostLeaves(n) ==
  /\ host[n] = "up" /\ HostFault
  /\ host' = [host EXCEPT ![n] = "leaving"]
  /\ key' = [key EXCEPT ![n] = Gone]
  /\ UNCHANGED <<beatIn, index, reader, answer>>
HostLeft(n) ==
  /\ host[n] = "leaving"
  /\ host' = [host EXCEPT ![n] = "down"]
  /\ index' = [index EXCEPT ![n] = Gone]
  /\ UNCHANGED <<beatIn, key, reader, answer, hostFaults>>
HostCrashes(n) ==
  /\ host[n] # "down" /\ HostFault
  /\ host' = [host EXCEPT ![n] = "down"]
  /\ UNCHANGED <<beatIn, key, index, reader, answer>>

\* Keys expire; a score below now stays until somebody prunes it.
Timely == \A n \in Host : host[n] \in {"down", "up"} /\ (host[n] = "up" => beatIn[n] > 0)
TimePasses ==
  /\ Timely
  /\ beatIn' = [n \in Host |-> IF beatIn[n] > 0 THEN beatIn[n] - 1 ELSE 0]
  /\ key' = [n \in Host |-> IF key[n] \in {Gone, 1} THEN Gone ELSE key[n] - 1]
  /\ index' = [n \in Host |-> IF index[n] \in {Gone, 0} THEN index[n] ELSE index[n] - 1]
  /\ UNCHANGED <<host, reader, answer, hostFaults>>

-----------------------------------------------------------------------------
(* CountActiveInstances and ListActiveInstances, a Redis command a step.   *)

ReaderTo(r) == reader' = r
Answer(ids) == answer' = ids /\ reader' = NoRead

\* pruneExpiredInstanceIndex
NotPruned == index
Pruned == [n \in Host |-> IF index[n] = 0 THEN Gone ELSE index[n]]
Prune(op) ==
  /\ reader.step = "idle"
  /\ index' = Pruned
  /\ ReaderTo([NoRead EXCEPT !.step = "members", !.op = op])
  /\ UNCHANGED <<host, beatIn, key, answer, hostFaults>>
\* ZCARD or ZRANGE
ReadMembers ==
  /\ reader.step = "members"
  /\ CASE Members = {} -> ReaderTo([reader EXCEPT !.step = "scan"]) /\ UNCHANGED answer
       [] Members # {} /\ reader.op = "count" -> Answer(Members)
       [] OTHER -> ReaderTo([reader EXCEPT !.step = "get", !.ids = Members]) /\ UNCHANGED answer
  /\ UNCHANGED <<host, beatIn, key, index, hostFaults>>
\* rebuildInstanceIndexFromScan: the keys and what is left of them ...
ScanKeys ==
  /\ reader.step = "scan"
  /\ ReaderTo([reader EXCEPT !.step = "rebuild", !.left = key])
  /\ UNCHANGED <<host, beatIn, key, index, answer, hostFaults>>
\* ... are added as of now, and pruned; the count is the answer.
Rebuild ==
  /\ reader.step = "rebuild"
  /\ index' = [n \in Host |-> IF reader.left[n] # Gone THEN reader.left[n] ELSE Pruned[n]]
  /\ ReaderTo([reader EXCEPT !.step = "again"])
  /\ UNCHANGED <<host, beatIn, key, answer, hostFaults>>
ReadAgain ==
  /\ reader.step = "again"
  /\ IF reader.op = "count" \/ Members = {} THEN Answer(Members)
     ELSE ReaderTo([reader EXCEPT !.step = "get", !.ids = Members]) /\ UNCHANGED answer
  /\ UNCHANGED <<host, beatIn, key, index, hostFaults>>
\* MGET: all are reported, and those without a key are then removed.
GetKeys ==
  /\ reader.step = "get"
  /\ IF reader.ids \subseteq Keys THEN Answer(reader.ids)
     ELSE /\ answer' = reader.ids
          /\ ReaderTo([reader EXCEPT !.step = "remove", !.ids = @ \ Keys])
  /\ UNCHANGED <<host, beatIn, key, index, hostFaults>>
\* A heartbeat since the MGET does not keep an instance from being removed.
RemoveStale ==
  /\ reader.step = "remove"
  /\ index' = [n \in Host |-> IF n \in reader.ids THEN Gone ELSE index[n]]
  /\ ReaderTo(NoRead)
  /\ UNCHANGED <<host, beatIn, key, answer, hostFaults>>

ReaderStep ==
  \/ Prune("count") \/ Prune("list") \/ ReadMembers \/ ScanKeys \/ Rebuild
  \/ ReadAgain \/ GetKeys \/ RemoveStale
HostStep(n) == BeatKey(n) \/ BeatIndex(n) \/ HostLeft(n)
HeartbeatNext ==
  \/ TimePasses \/ ReaderStep
  \/ \E n \in Host : HostStep(n) \/ HostStarts(n) \/ BeatFails(n) \/ HostLeaves(n) \/ HostCrashes(n)

\* Tickers fire, time passes, and somebody reads: dispatchers count every 15 seconds.
HeartbeatFairness ==
  /\ WF_heartbeatVars(TimePasses) /\ WF_heartbeatVars(ReaderStep)
  /\ \A n \in Host : WF_heartbeatVars(HostStep(n))
HeartbeatSpec == HeartbeatInit /\ [][HeartbeatNext]_heartbeatVars /\ HeartbeatFairness

-----------------------------------------------------------------------------
HeartbeatTypeOK ==
  /\ host \in [Host -> {"up", "beating", "leaving", "down"}]
  /\ \A n \in Host : key[n] \in {Gone} \cup (1..BeatTTL) /\ index[n] \in {Gone} \cup (0..BeatTTL)
  /\ answer \subseteq Host

\* Once crashes and failures end, every answer is the set of running instances:
\* no instance that died stays counted, whichever of the key and the index it
\* left behind, and none that runs stays missing although a reader may remove
\* one that has just come back.
InstancesConverge ==
  <>[](answer = Up)
=============================================================================
