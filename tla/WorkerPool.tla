----------------------------- MODULE WorkerPool -----------------------------
(***************************************************************************)
(* The worker pools of the checker and of the scraper (ThreadDispatcher of *)
(* internal/jobs/checker/thread_handler.go and of                          *)
(* internal/jobs/scraper/thread_handler.go, the same code twice).          *)
(*                                                                         *)
(* Every 15 seconds the dispatcher compares the counter of its workers     *)
(* with the configured or computed number, launches what is missing and    *)
(* asks the surplus to stop.  A stop request is a send on an unbuffered    *)
(* channel, so one worker takes it; that worker ends when it next waits    *)
(* for work, and is counted until then.                                    *)
(***************************************************************************)
EXTENDS Naturals, FiniteSets

CONSTANTS Slot,            \* goroutines that can be workers
          FixedThreads,    \* cfg.Checker.Threads, or 0 with DynamicThreads
          MaxThreads,      \* cfg.Checker.MaxThreads
          ItemTime,        \* time of one item: protocols, attempts and timeout multiplied
          Period,          \* time in which every item is to be worked on once
          MaxItems, MaxInstances, MaxTargetChanges,
          MaxPanics        \* panics of workers and failed reads of the dispatcher

ASSUME PoolAssumption == MaxThreads \in Nat \ {0} /\ Period \in Nat \ {0} /\ MaxThreads =< Cardinality(Slot)

VARIABLES items,      \* queue length
          instances,  \* GetActiveInstances
          slot,       \* per goroutine: "off", "waiting" (for work) or "busy"
          asked,      \* workers whose context was cancelled by a stop request
          counted,    \* currentThreads
          dispatcher, \* "sleeping", "sizing", "returned"
          goal, seen, \* targetThreads and activeThreads of the tick under way
          shutDown,   \* the context of the producers is cancelled
          targetChanges, panics

poolVars == <<items, instances, slot, asked, counted, dispatcher, goal, seen, shutDown,
              targetChanges, panics>>

Running == {w \in Slot : slot[w] # "off"}

\* getAutoThreads and autoThreadCount: the share of this instance, rounded up,
\* at least one worker for a non-empty share, at most the maximum.
CeilDiv(a, b) == (a + b - 1) \div b
AutoThreads(active) ==
  LET share == CeilDiv(items, active)
      needed == CeilDiv(share * ItemTime, Period)
  IN CASE needed = 0 /\ share > 0 -> 1
       [] needed > MaxThreads -> MaxThreads
       [] OTHER -> needed
Target == IF FixedThreads > 0 THEN FixedThreads ELSE AutoThreads(instances)

PoolInit ==
  /\ items \in 0..MaxItems /\ instances = 1
  /\ slot = [w \in Slot |-> "off"] /\ asked = {}
  /\ counted = 0
  /\ dispatcher = "sleeping" /\ goal = 0 /\ seen = 0
  /\ shutDown = FALSE /\ targetChanges = 0 /\ panics = 0

-----------------------------------------------------------------------------
\* The queue grows or shrinks, or instances come and go.
DemandChanges(k, i) ==
  /\ targetChanges < MaxTargetChanges /\ <<k, i>> # <<items, instances>>
  /\ items' = k /\ instances' = i
  /\ targetChanges' = targetChanges + 1
  /\ UNCHANGED <<slot, asked, counted, dispatcher, goal, seen, shutDown, panics>>

DispatcherTick ==
  /\ dispatcher = "sleeping" /\ ~shutDown
  /\ dispatcher' = "sizing"
  /\ goal' = Target /\ seen' = counted
  /\ UNCHANGED <<items, instances, slot, asked, counted, shutDown, targetChanges, panics>>
\* Without the queue's length one worker is enough, without the number of
\* instances this one takes the whole queue.
DispatcherTickBlind ==
  /\ dispatcher = "sleeping" /\ ~shutDown
  /\ FixedThreads = 0 /\ panics < MaxPanics
  /\ dispatcher' = "sizing"
  /\ goal' \in {1, AutoThreads(1)} /\ seen' = counted
  /\ panics' = panics + 1
  /\ UNCHANGED <<items, instances, slot, asked, counted, shutDown, targetChanges>>

\* The launching loop, as one step: it is a few atomic additions long, and no
\* worker is taken to end while it runs.
LaunchWorkers(launched) ==
  /\ dispatcher = "sizing" /\ seen < goal
  /\ launched \subseteq Slot \ Running /\ Cardinality(launched) + counted = goal
  /\ slot' = [w \in Slot |-> IF w \in launched THEN "waiting" ELSE slot[w]]
  /\ counted' = goal
  /\ seen' = goal
  /\ UNCHANGED <<items, instances, asked, dispatcher, goal, shutDown, targetChanges, panics>>

\* requestCheckerWorkerStop: a worker whose watcher still listens takes the request.
Listening == Running \ asked
RequestStop(w) ==
  /\ dispatcher = "sizing" /\ seen > goal
  /\ w \in Listening /\ ~shutDown
  /\ asked' = asked \cup {w}
  /\ seen' = seen - 1
  /\ UNCHANGED <<items, instances, slot, counted, dispatcher, goal, shutDown, targetChanges, panics>>

\* The sizes agree, or nobody takes the request.
EndTick ==
  /\ dispatcher = "sizing"
  /\ seen = goal \/ (seen > goal /\ Listening = {})
  /\ dispatcher' = "sleeping"
  /\ UNCHANGED <<items, instances, slot, asked, counted, goal, seen, shutDown, targetChanges, panics>>

-----------------------------------------------------------------------------
TakeWork(w) ==
  /\ slot[w] = "waiting" /\ w \notin asked /\ ~shutDown
  /\ slot' = [slot EXCEPT ![w] = "busy"]
  /\ UNCHANGED <<items, instances, asked, counted, dispatcher, goal, seen, shutDown, targetChanges, panics>>
FinishWork(w) ==
  /\ slot[w] = "busy"
  /\ slot' = [slot EXCEPT ![w] = "waiting"]
  /\ UNCHANGED <<items, instances, asked, counted, dispatcher, goal, seen, shutDown, targetChanges, panics>>

\* The deferred calls of launchCheckerWorker, after a return or a panic.
LeavePoolUncounted(w) ==
  /\ slot' = [slot EXCEPT ![w] = "off"]
  /\ asked' = asked \ {w}
  /\ UNCHANGED counted
LeavePool(w) ==
  /\ slot' = [slot EXCEPT ![w] = "off"]
  /\ asked' = asked \ {w}
  /\ counted' = counted - 1
StopWorker(w) ==
  /\ slot[w] = "waiting" /\ (w \in asked \/ shutDown)
  /\ LeavePool(w)
  /\ UNCHANGED <<items, instances, dispatcher, goal, seen, shutDown, targetChanges, panics>>
WorkerPanics(w) ==
  /\ slot[w] = "busy" /\ panics < MaxPanics
  /\ LeavePool(w)
  /\ panics' = panics + 1
  /\ UNCHANGED <<items, instances, dispatcher, goal, seen, shutDown, targetChanges>>

\* Runtime.Shutdown cancels the producers; the dispatcher waits for its workers.
CancelPool ==
  /\ ~shutDown
  /\ shutDown' = TRUE
  /\ UNCHANGED <<items, instances, slot, asked, counted, dispatcher, goal, seen, targetChanges, panics>>
DispatcherReturns ==
  /\ shutDown /\ dispatcher = "sleeping" /\ Running = {}
  /\ dispatcher' = "returned"
  /\ UNCHANGED <<items, instances, slot, asked, counted, goal, seen, shutDown, targetChanges, panics>>
PoolOver == dispatcher = "returned" /\ UNCHANGED poolVars

DispatcherStep ==
  \/ DispatcherTick \/ EndTick \/ DispatcherReturns
  \/ \E launched \in SUBSET Slot : LaunchWorkers(launched)
  \/ \E w \in Slot : RequestStop(w)
WorkerStep(w) == FinishWork(w) \/ StopWorker(w)
PoolNext ==
  \/ DispatcherStep \/ DispatcherTickBlind \/ CancelPool \/ PoolOver
  \/ \E k \in 0..MaxItems, i \in 1..MaxInstances : DemandChanges(k, i)
  \/ \E w \in Slot : WorkerStep(w) \/ TakeWork(w) \/ WorkerPanics(w)

\* The ticker fires, a check ends within its timeouts, and a cancelled wait returns.
PoolFairness ==
  /\ WF_poolVars(DispatcherStep)
  /\ \A w \in Slot : WF_poolVars(WorkerStep(w))
PoolSpec == PoolInit /\ [][PoolNext]_poolVars /\ PoolFairness

-----------------------------------------------------------------------------
PoolTypeOK ==
  /\ slot \in [Slot -> {"off", "waiting", "busy"}] /\ asked \subseteq Running
  /\ counted \in 0..Cardinality(Slot) /\ goal \in 0..MaxThreads
  /\ dispatcher \in {"sleeping", "sizing", "returned"}

\* The pool ends at the size the load asks for, however demand moved, workers
\* were slow to stop (and were asked to stop while counted already) or
\* panicked; after the shutdown it ends empty and the dispatcher returns.
PoolSettles ==
  <>[](IF shutDown THEN dispatcher = "returned" ELSE Cardinality(Running) = Target)
=============================================================================
