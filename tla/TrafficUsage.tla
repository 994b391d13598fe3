---------------------------- MODULE TrafficUsage ----------------------------
(***************************************************************************)
(* How the traffic of the rotators is metered                              *)
(* (internal/jobs/runtime/workspace_usage.go,                              *)
(* internal/database/database_workspace_usage.go).                         *)
(*                                                                         *)
(* Connections add to an in-memory counter of the month; a flusher takes   *)
(* the counters' values, adds them to the month's row, puts them back when *)
(* that fails, and removes the counters of past months.  One workspace and *)
(* one quantity: requests and bytes are counted alike and independently.   *)
(***************************************************************************)
EXTENDS Naturals, FiniteSets

CONSTANTS Conn,            \* connections that report traffic
          Meter,           \* counter objects, one used per entry of the map
          Unmetered,       \* no counter
          MaxMonth, MaxAdds,
          MaxFlushErrors   \* batches answered with an error

\* What the model takes for granted of the constants.
UsageConstants == Unmetered \notin Meter /\ MaxMonth \in Nat \ {0} /\ MaxFlushErrors \in Nat

VARIABLES month,         \* the current month
          meterOf,       \* workspaceTrafficCounters: per month a counter or Unmetered
          reading,       \* per counter: its value
          everUsed,      \* counters created so far
          adder,         \* per connection: [step, key, meter]; "adding" holds the read lock
          flusher,       \* [step, next, taken, from]: a flush, what it took per month and from which counter
          recorded,      \* per month: the value of its row
          reported,      \* history: traffic reported per month
          repeated,      \* history: traffic of batches that were committed and failed all the same
          flushErrors, meterDown

usageVars == <<month, meterOf, reading, everUsed, adder, flusher, recorded, reported, repeated,
               flushErrors, meterDown>>

Month == 1..MaxMonth
NotAdding == [step |-> "idle", key |-> 1, meter |-> Unmetered]
NothingTaken == [m \in Month |-> 0]
NotFlushing == [step |-> "idle", next |-> 1, taken |-> NothingTaken, from |-> [m \in Month |-> Unmetered]]

UsageInit ==
  /\ month = 1
  /\ meterOf = [m \in Month |-> Unmetered] /\ reading = [x \in Meter |-> 0] /\ everUsed = {}
  /\ adder = [c \in Conn |-> NotAdding]
  /\ flusher = NotFlushing
  /\ recorded = NothingTaken /\ reported = NothingTaken /\ repeated = NothingTaken
  /\ flushErrors = 0 /\ meterDown = FALSE

-----------------------------------------------------------------------------
(* AddWorkspaceManagedTraffic: the month is read before the lock is taken. *)

ReadMonth(c) ==
  /\ adder[c].step = "idle" /\ ~meterDown
  /\ reported[month] < MaxAdds
  /\ adder' = [adder EXCEPT ![c] = [step |-> "keyed", key |-> month, meter |-> Unmetered]]
  /\ UNCHANGED <<month, meterOf, reading, everUsed, flusher, recorded, reported, repeated, flushErrors, meterDown>>
\* RLock and LoadOrStore
LoadMeter(c) ==
  /\ adder[c].step = "keyed"
  /\ LET k == adder[c].key IN
     IF meterOf[k] # Unmetered
     THEN adder' = [adder EXCEPT ![c].step = "adding", ![c].meter = meterOf[k]] /\ UNCHANGED <<meterOf, everUsed>>
     ELSE \E x \in Meter \ everUsed :
            /\ meterOf' = [meterOf EXCEPT ![k] = x] /\ everUsed' = everUsed \cup {x}
            /\ adder' = [adder EXCEPT ![c].step = "adding", ![c].meter = x]
  /\ UNCHANGED <<month, reading, flusher, recorded, reported, repeated, flushErrors, meterDown>>
\* The atomic add, and RUnlock.
AddTraffic(c) ==
  /\ adder[c].step = "adding"
  /\ reading' = [reading EXCEPT ![adder[c].meter] = @ + 1]
  /\ reported' = [reported EXCEPT ![adder[c].key] = @ + 1]
  /\ adder' = [adder EXCEPT ![c] = NotAdding]
  /\ UNCHANGED <<month, meterOf, everUsed, flusher, recorded, repeated, flushErrors, meterDown>>

-----------------------------------------------------------------------------
(* flushWorkspaceManagedTraffic, one flush at a time, on every tick and    *)
(* once at the end.                                                        *)

BeginFlush ==
  /\ flusher.step = "idle"
  /\ flusher' = [NotFlushing EXCEPT !.step = "taking"]
  /\ UNCHANGED <<month, meterOf, reading, everUsed, adder, recorded, reported, repeated, flushErrors, meterDown>>
\* Range visits the counters one after another and swaps each with zero.
TakeMeter ==
  /\ flusher.step = "taking" /\ flusher.next \in Month
  /\ LET k == flusher.next
         x == meterOf[k]
     IN IF x = Unmetered
        THEN flusher' = [flusher EXCEPT !.next = k + 1] /\ UNCHANGED reading
        ELSE /\ flusher' = [flusher EXCEPT !.next = k + 1, !.taken[k] = reading[x], !.from[k] = x]
             /\ reading' = [reading EXCEPT ![x] = 0]
  /\ UNCHANGED <<month, meterOf, everUsed, adder, recorded, reported, repeated, flushErrors, meterDown>>
Taken == flusher.step = "taking" /\ flusher.next > MaxMonth
\* RecordWorkspaceManagedTrafficBatch adds every month's sample in one statement.
RecordSamples == recorded' = [m \in Month |-> recorded[m] + flusher.taken[m]]
RecordBatch ==
  /\ Taken
  /\ RecordSamples
  /\ flusher' = [NotFlushing EXCEPT !.step = "pruning"]
  /\ UNCHANGED <<month, meterOf, reading, everUsed, adder, reported, repeated, flushErrors, meterDown>>
\* An error: the values are added to the counters they came from.  The batch may
\* have been committed before its answer was lost.
PutBack == [x \in Meter |-> reading[x] +
              (IF \E m \in Month : flusher.from[m] = x
               THEN flusher.taken[CHOOSE m \in Month : flusher.from[m] = x] ELSE 0)]
RecordFails ==
  /\ Taken /\ flusher.taken # NothingTaken
  /\ flushErrors < MaxFlushErrors /\ flushErrors' = flushErrors + 1
  /\ reading' = PutBack
  /\ \/ UNCHANGED <<recorded, repeated>>
     \/ RecordSamples /\ repeated' = [m \in Month |-> repeated[m] + flusher.taken[m]]
  /\ flusher' = NotFlushing
  /\ UNCHANGED <<month, meterOf, everUsed, adder, reported, meterDown>>
\* pruneWorkspaceTrafficCounters holds the write lock: no add is under way.
NoAddUnchecked == TRUE
NoAdd == \A c \in Conn : adder[c].step # "adding"
PruneMeters ==
  /\ flusher.step = "pruning" /\ NoAdd
  /\ meterOf' = [m \in Month |-> IF m < month /\ meterOf[m] # Unmetered /\ reading[meterOf[m]] = 0
                                 THEN Unmetered ELSE meterOf[m]]
  /\ flusher' = NotFlushing
  /\ UNCHANGED <<month, reading, everUsed, adder, recorded, reported, repeated, flushErrors, meterDown>>

-----------------------------------------------------------------------------
MonthPasses ==
  /\ month < MaxMonth /\ month' = month + 1
  /\ UNCHANGED <<meterOf, reading, everUsed, adder, flusher, recorded, reported, repeated, flushErrors, meterDown>>
\* The rotators are stopped; the routine's last flush follows.
RotatorsStopped ==
  /\ ~meterDown /\ \A c \in Conn : adder[c].step = "idle"
  /\ meterDown' = TRUE
  /\ UNCHANGED <<month, meterOf, reading, everUsed, adder, flusher, recorded, reported, repeated, flushErrors>>

UsageNext ==
  \/ \E c \in Conn : ReadMonth(c) \/ LoadMeter(c) \/ AddTraffic(c)
  \/ BeginFlush \/ TakeMeter \/ RecordBatch \/ RecordFails \/ PruneMeters
  \/ MonthPasses \/ RotatorsStopped

UsageSpec == UsageInit /\ [][UsageNext]_usageVars

-----------------------------------------------------------------------------
UsageTypeOK ==
  /\ month \in Month /\ meterOf \in [Month -> Meter \cup {Unmetered}]
  /\ reading \in [Meter -> Nat] /\ everUsed \subseteq Meter
  /\ adder \in [Conn -> [step : {"idle", "keyed", "adding"}, key : Month, meter : Meter \cup {Unmetered}]]
  /\ flusher \in [step : {"idle", "taking", "pruning"}, next : 1..MaxMonth + 1,
                  taken : [Month -> Nat], from : [Month -> Meter \cup {Unmetered}]]
  /\ recorded \in [Month -> Nat] /\ reported \in [Month -> Nat] /\ repeated \in [Month -> Nat]
  /\ flushErrors \in 0..MaxFlushErrors /\ meterDown \in BOOLEAN

\* Every unit of traffic is in the row of the month it was reported in, in that
\* month's counter in the map, or in the flush under way, exactly once, however
\* adds, flushes, failed batches, month ends and the removal of counters
\* interleave; only a batch that was committed and answered with an error is
\* recorded again.
TrafficMetered ==
  \A m \in Month :
    recorded[m] + flusher.taken[m] + (IF meterOf[m] = Unmetered THEN 0 ELSE reading[meterOf[m]])
      = reported[m] + repeated[m]
=============================================================================
