------------------------- MODULE StatisticsAdmission -------------------------
(***************************************************************************)
(* The way of a check result from the checker's workers into the Redis     *)
(* stream or the memory queue, the workers of the memory queue, and the    *)
(* staged shutdown of the process                                          *)
(* (internal/jobs/runtime/proxy_statistics.go,                             *)
(* internal/app/bootstrap/lifecycle.go).                                   *)
(*                                                                         *)
(* What becomes of a result in the stream is the module StatisticsStream's *)
(* subject; here the stream's consumers only take entries out.  The time   *)
(* budget of a producer may be used up at any step.                        *)
(***************************************************************************)
EXTENDS Naturals, Sequences, FiniteSets

CONSTANTS Checker,       \* checker workers
          Writer,        \* workers of the memory queue
          Result,        \* check results
          NoResult,
          Policies,      \* overload policies configured for workspaces
          StreamCap,     \* cfg.maxLen
          QueueCap,      \* statisticsQueueCapacity
          MaxErrors      \* errors and timeouts of Redis and PostgreSQL

\* What the code guarantees of the constants: a cap and a number of workers
\* that are not positive are replaced by their defaults.
AdmissionConstants ==
  /\ IsFiniteSet(Checker) /\ Writer # {}
  /\ Policies \subseteq {"block", "drop_new", "evict_oldest"}
  /\ StreamCap \in Nat \ {0} /\ QueueCap \in Nat

VARIABLES streamReady,   \* proxyStatisticStreamReady
          streamed,      \* entries of the stream, oldest first
          queued,        \* proxyStatisticQueue
          held,          \* per writer: its buffer
          writer,        \* per writer: "running", "draining" or "over"
          stored,        \* results in PostgreSQL
          dropped,       \* results counted in proxyStatisticDroppedCount
          evicted,       \* results trimmed from the stream
          producer,      \* per checker: [step, result, policy]
          unchecked,     \* appends that no length check preceded
          stage,         \* of Runtime.Shutdown
          orderly,       \* no stage ran into the deadline
          errors

admissionVars == <<streamReady, streamed, queued, held, writer, stored, dropped, evicted,
                   producer, unchecked, stage, orderly, errors>>

NoWork == [step |-> "free", result |-> NoResult, policy |-> "block"]
ProducerAt(c, step) == producer[c].step = step
ProducerTo(c, step) == producer' = [producer EXCEPT ![c].step = step]
Released(c) == producer' = [producer EXCEPT ![c] = NoWork]
Err == errors < MaxErrors /\ errors' = errors + 1

AdmissionInit ==
  /\ streamReady \in BOOLEAN
  /\ streamed = <<>> /\ queued = <<>>
  /\ held = [w \in Writer |-> {}] /\ writer = [w \in Writer |-> "running"]
  /\ stored = {} /\ dropped = {} /\ evicted = {}
  /\ producer = [c \in Checker |-> NoWork]
  /\ unchecked = 0
  /\ stage = "up" /\ orderly = TRUE /\ errors = 0

Seen == {producer[c].result : c \in Checker} \cup stored \cup dropped \cup evicted
          \cup {streamed[i] : i \in DOMAIN streamed} \cup {queued[i] : i \in DOMAIN queued}
          \cup UNION {held[w] : w \in Writer}

-----------------------------------------------------------------------------
(* resolveStatisticsOverloadPolicy: the strictest of the default and those *)
(* of the workspaces that share the result.                                *)
Priority(policy) == CASE policy = "block" -> 3 [] policy = "drop_new" -> 1 [] policy = "evict_oldest" -> 0
Strictest(ps) == CHOOSE p \in ps : \A q \in ps : Priority(q) =< Priority(p)

\* A cycle ends with the result of a check; AddProxyStatisticForWorkspaces.  A
\* worker that outlived the deadline of its stage goes on.
Produce(c, r, ps) ==
  /\ ProducerAt(c, "free") /\ (stage \in {"up", "producers"} \/ ~orderly)
  /\ r \notin Seen
  /\ producer' = [producer EXCEPT ![c] =
       [step |-> IF streamReady THEN "measure" ELSE "memory", result |-> r, policy |-> Strictest(ps)]]
  /\ UNCHANGED <<streamReady, streamed, queued, held, writer, stored, dropped, evicted,
                 unchecked, stage, orderly, errors>>

\* XLEN.  Only an answer can refuse: without one the result is appended.
Full == Len(streamed) >= StreamCap
Measure(c) ==
  /\ ProducerAt(c, "measure")
  /\ \/ /\ producer[c].policy = "evict_oldest"
        /\ ProducerTo(c, "append") /\ unchecked' = unchecked + 1
        /\ UNCHANGED <<dropped, errors>>
     \/ /\ producer[c].policy # "evict_oldest" /\ ~Full
        /\ ProducerTo(c, "append")
        /\ UNCHANGED <<dropped, unchecked, errors>>
     \/ /\ producer[c].policy = "drop_new" /\ Full
        /\ dropped' = dropped \cup {producer[c].result} /\ Released(c)
        /\ UNCHANGED <<unchecked, errors>>
     \/ /\ producer[c].policy = "block" /\ Full
        /\ ProducerTo(c, "again")
        /\ UNCHANGED <<dropped, unchecked, errors>>
     \/ /\ producer[c].policy # "evict_oldest" /\ Err
        /\ ProducerTo(c, "append") /\ unchecked' = unchecked + 1
        /\ UNCHANGED dropped
  /\ UNCHANGED <<streamReady, streamed, queued, held, writer, stored, evicted, stage, orderly>>

\* XADD; evict_oldest trims approximately: everything above the cap, or nothing.
Kept(r, policy, trim) ==
  LET all == Append(streamed, r)
      excess == IF policy = "evict_oldest" /\ trim /\ Len(all) > StreamCap THEN Len(all) - StreamCap ELSE 0
  IN <<SubSeq(all, excess + 1, Len(all)), {all[i] : i \in 1..excess}>>
Extend(c, trim) ==
  LET kept == Kept(producer[c].result, producer[c].policy, trim) IN
  /\ streamed' = kept[1]
  /\ evicted' = evicted \cup kept[2]
XAdd(c) ==
  /\ ProducerAt(c, "append")
  /\ \E trim \in BOOLEAN : Extend(c, trim)
  /\ Released(c)
  /\ UNCHANGED <<streamReady, queued, held, writer, stored, dropped, unchecked, stage, orderly, errors>>
\* It fails, or it was executed and the answer came too late.
XAddFails(c) ==
  /\ ProducerAt(c, "append") /\ Err
  /\ \/ UNCHANGED <<streamed, evicted>>
     \/ Extend(c, TRUE)
  /\ ProducerTo(c, IF producer[c].policy = "block" THEN "again" ELSE "memory")
  /\ UNCHANGED <<streamReady, queued, held, writer, stored, dropped, unchecked, stage, orderly>>

\* Within the budget the producer tries the stream again, after it the memory queue.
TryAgain(c) ==
  /\ ProducerAt(c, "again")
  /\ \E step \in {"measure", "memory"} : ProducerTo(c, step)
  /\ UNCHANGED <<streamReady, streamed, queued, held, writer, stored, dropped, evicted,
                 unchecked, stage, orderly, errors>>

\* enqueueProxyStatistic
Enqueue(c) ==
  /\ ProducerAt(c, "memory") /\ Len(queued) < QueueCap
  /\ queued' = Append(queued, producer[c].result)
  /\ Released(c)
  /\ UNCHANGED <<streamReady, streamed, held, writer, stored, dropped, evicted,
                 unchecked, stage, orderly, errors>>
DropNew(c) ==
  /\ ProducerAt(c, "memory") /\ Len(queued) >= QueueCap
  /\ dropped' = dropped \cup {producer[c].result}
  /\ Released(c)
  /\ UNCHANGED <<streamReady, streamed, queued, held, writer, stored, evicted,
                 unchecked, stage, orderly, errors>>

-----------------------------------------------------------------------------
\* initializeProxyStatisticStream succeeds in the end.
StreamBecomesReady ==
  /\ ~streamReady
  /\ streamReady' = TRUE
  /\ UNCHANGED <<streamed, queued, held, writer, stored, dropped, evicted, producer,
                 unchecked, stage, orderly, errors>>
StreamConsumed ==
  /\ streamed # <<>>
  /\ streamed' = Tail(streamed) /\ stored' = stored \cup {Head(streamed)}
  /\ UNCHANGED <<streamReady, queued, held, writer, dropped, evicted, producer,
                 unchecked, stage, orderly, errors>>

-----------------------------------------------------------------------------
(* runProxyStatisticsWorker.                                               *)

ConsumersCancelled == stage \in {"consumers", "exited"}

Receive(w) ==
  /\ writer[w] # "over" /\ queued # <<>>
  /\ held' = [held EXCEPT ![w] = @ \cup {Head(queued)}] /\ queued' = Tail(queued)
  /\ UNCHANGED <<streamReady, streamed, writer, stored, dropped, evicted, producer,
                 unchecked, stage, orderly, errors>>
\* The flush by size or by time, or of the final drain.
FlushHeld(w) ==
  /\ writer[w] # "over" /\ held[w] # {}
  /\ stored' = stored \cup held[w] /\ held' = [held EXCEPT ![w] = {}]
  /\ UNCHANGED <<streamReady, streamed, queued, writer, dropped, evicted, producer,
                 unchecked, stage, orderly, errors>>
\* The buffer is kept and flushed again, although it may have been committed.
FlushHeldFails(w) ==
  /\ writer[w] # "over" /\ held[w] # {} /\ Err
  /\ stored' \in {stored, stored \cup held[w]}
  /\ UNCHANGED <<streamReady, streamed, queued, held, writer, dropped, evicted, producer,
                 unchecked, stage, orderly>>
WriterCancelled(w) ==
  /\ writer[w] = "running" /\ ConsumersCancelled
  /\ writer' = [writer EXCEPT ![w] = "draining"]
  /\ UNCHANGED <<streamReady, streamed, queued, held, stored, dropped, evicted, producer,
                 unchecked, stage, orderly, errors>>
WriterDrained(w) ==
  /\ writer[w] = "draining" /\ queued = <<>> /\ held[w] = {}
  /\ writer' = [writer EXCEPT ![w] = "over"]
  /\ UNCHANGED <<streamReady, streamed, queued, held, stored, dropped, evicted, producer,
                 unchecked, stage, orderly, errors>>

-----------------------------------------------------------------------------
(* Runtime.Shutdown: the producers are stopped and waited for, then the    *)
(* consumers; a deadline ends a wait, and the next stage follows anyway.   *)

AllFree == \A c \in Checker : ProducerAt(c, "free")
StopProducers ==
  /\ stage = "up"
  /\ stage' = "producers"
  /\ UNCHANGED <<streamReady, streamed, queued, held, writer, stored, dropped, evicted, producer,
                 unchecked, orderly, errors>>
StopConsumersAtOnce ==
  /\ stage = "producers"
  /\ stage' = "consumers"
  /\ UNCHANGED <<streamReady, streamed, queued, held, writer, stored, dropped, evicted, producer,
                 unchecked, orderly, errors>>
StopConsumers ==
  /\ stage = "producers"
  /\ stage' = "consumers"
  /\ orderly' = (orderly /\ AllFree)
  /\ UNCHANGED <<streamReady, streamed, queued, held, writer, stored, dropped, evicted, producer,
                 unchecked, errors>>
Exit ==
  /\ stage = "consumers"
  /\ stage' = "exited"
  /\ orderly' = (orderly /\ \A w \in Writer : writer[w] = "over")
  /\ UNCHANGED <<streamReady, streamed, queued, held, writer, stored, dropped, evicted, producer,
                 unchecked, errors>>

AdmissionNext ==
  /\ stage # "exited"
  /\ \/ \E c \in Checker :
          \/ \E r \in Result, ps \in SUBSET Policies : ps # {} /\ Produce(c, r, ps)
          \/ Measure(c) \/ XAdd(c) \/ XAddFails(c) \/ TryAgain(c) \/ Enqueue(c) \/ DropNew(c)
     \/ StreamBecomesReady \/ StreamConsumed
     \/ \E w \in Writer : Receive(w) \/ FlushHeld(w) \/ FlushHeldFails(w) \/ WriterCancelled(w) \/ WriterDrained(w)
     \/ StopProducers \/ StopConsumers \/ Exit

AdmissionSpec == AdmissionInit /\ [][AdmissionNext]_admissionVars

-----------------------------------------------------------------------------
AdmissionTypeOK ==
  /\ Len(queued) =< QueueCap /\ stored \cup dropped \cup evicted \subseteq Result
  /\ writer \in [Writer -> {"running", "draining", "over"}]
  /\ stage \in {"up", "producers", "consumers", "exited"} /\ orderly \in BOOLEAN

\* An orderly shutdown loses no result that memory had accepted: at the exit
\* of the process the queue and all buffers are empty and no producer is on
\* its way to them, because the consumers are drained only after the producers
\* have ended.
OrderlyExitLosesNothing ==
  (stage = "exited" /\ orderly) =>
    /\ queued = <<>> /\ AllFree
    /\ \A w \in Writer : held[w] = {}

\* The length check and the append are two commands, so producers overshoot the
\* cap, but by no more than one entry for each other producer, beyond what was
\* appended without an answer to the check or under evict_oldest.
StreamNearCap ==
  Len(streamed) =< StreamCap + Cardinality(Checker) - 1 + unchecked

\* What admission promises of memory and of the stream: nothing accepted is
\* lost by an orderly exit, and the cap holds but for the producers under way.
AdmissionBounded == OrderlyExitLosesNothing /\ StreamNearCap
=============================================================================
