-------------------------- MODULE StatisticsStream --------------------------
(***************************************************************************)
(* Check results on their way from the Redis stream to PostgreSQL: the     *)
(* consumers of every instance, the ledger that makes a replayed entry     *)
(* harmless, and the maintenance that retires the ledger behind a replay   *)
(* floor.  An entry is identified by its stream ID; IDs are numbers in the *)
(* order Redis generates them.  One step is one Redis command or script,   *)
(* or one PostgreSQL transaction or query.                                 *)
(***************************************************************************)
EXTENDS Naturals, FiniteSets

CONSTANTS
    Consumer,      \* stream workers, by consumer name
    Stable,        \* consumers that are started again after they stop
    None,          \* not a consumer
    MaxId,         \* bound on the entries ever appended
    Poison,        \* entries whose payload does not decode
    Doomed,        \* entries whose route may be deleted
    ReadBatch,     \* statisticsBatchThreshold
    PageLimit,     \* statisticsLatestRowBudget, in events
    ClaimBatch,    \* statisticsStreamClaimBatch
    AckBatch,      \* statisticsStreamAckBatchCap
    RetireBatch,   \* PROXY_STATISTICS_LEDGER_RETENTION_BATCH_SIZE
    MaxLen,        \* stream cap that evict_oldest trims to
    MaxFaults,     \* bound on stops, errors, lost replies and failovers
    MaxSaves       \* bound on the states Redis saves

Id == 1..MaxId

ASSUME StreamAssumption ==
    /\ Stable \subseteq Consumer
    /\ None \notin Consumer
    /\ MaxId \in Nat /\ MaxLen \in Nat
    /\ MaxFaults \in Nat /\ MaxSaves \in Nat
    /\ {ReadBatch, PageLimit, ClaimBatch, AckBatch, RetireBatch} \subseteq Nat \ {0}
    /\ Poison \subseteq Id /\ Doomed \subseteq Id

VARIABLES
    redis,         \* the stream and its consumer group
    disk,          \* the state of redis that a failover or restart finds
    next,          \* the ID the next entry gets
    ledger,        \* proxy_statistic_events
    floor,         \* proxy_statistic_streams.replay_before
    deleted,       \* entries whose route no longer exists
    worker,        \* consumer -> where its loop stands
    maint,         \* where maintainProxyStatisticStream stands
    counted,       \* history: how often each entry reached history and counters
    waived,        \* history: entries that need not be counted
    faults,        \* faults so far
    saves          \* saves so far

vars == <<redis, disk, next, ledger, floor, deleted, worker, maint, counted,
          waived, faults, saves>>

db == <<ledger, floor, counted>>
bounds == <<faults, saves>>

Stream ==
    [entries : SUBSET Id, group : BOOLEAN, delivered : 0..MaxId,
     owner : [Id -> Consumer \cup {None}]]
NoStream ==
    [entries |-> {}, group |-> FALSE, delivered |-> 0, owner |-> [e \in Id |-> None]]

\* XREADGROUP's ">": after every ID of the consumer's own pending entries.
New == MaxId + 1

\* A consumer: buffered results, message IDs it tracks, malformed messages it
\* is about to discard, results that prepareProxyStatistics kept, the stream ID
\* it reads from, and whether a flush has to be retried.
WorkerState ==
    [pc : {"down", "loop", "repair", "ack", "prepare", "insert", "ackRest"},
     buf : SUBSET Id, ids : SUBSET Id, bad : SUBSET Id, kept : SUBSET Id,
     cursor : 0..New, retry : BOOLEAN]

Started ==
    [pc |-> "loop", buf |-> {}, ids |-> {}, bad |-> {}, kept |-> {},
     cursor |-> 0, retry |-> FALSE]

Maintenance == [pc : {"idle", "repair", "trim", "retire"}, before : 0..MaxId + 1]
Resting == [pc |-> "idle", before |-> 0]

TypeOK ==
    /\ redis \in Stream /\ disk \in Stream
    /\ next \in 1..MaxId + 1
    /\ ledger \subseteq Id
    /\ floor \in 0..MaxId + 1
    /\ deleted \subseteq Doomed
    /\ worker \in [Consumer -> WorkerState]
    /\ maint \in Maintenance
    /\ counted \in [Id -> Nat]
    /\ waived \subseteq Id
    /\ faults \in 0..MaxFaults /\ saves \in 0..MaxSaves

\* The group was created; Redis may have lost it again before the first read.
Init ==
    /\ \E group \in BOOLEAN : redis = [NoStream EXCEPT !.group = group]
    /\ disk = NoStream
    /\ next = 1
    /\ ledger = {} /\ floor = 0 /\ deleted = {}
    /\ worker = [c \in Consumer |-> Started]
    /\ maint = Resting
    /\ counted = [e \in Id |-> 0]
    /\ waived = {}
    /\ faults = 0 /\ saves = 0

Fault == faults < MaxFaults /\ faults' = faults + 1

-----------------------------------------------------------------------------
(* Redis commands and scripts.                                             *)

Pending(r) == {e \in Id : r.owner[e] # None}
OwnPending(r, c) == {e \in Id : r.owner[e] = c}
Unread(r) == {e \in r.entries : e > r.delivered}

\* The at most n smallest elements of S.
FirstOf(S, n) == {e \in S : Cardinality({f \in S : f < e}) < n}

SetOwner(r, S, c) ==
    [r EXCEPT !.owner = [e \in Id |-> IF e \in S THEN c ELSE r.owner[e]]]

\* XGROUP CREATE ... 0 MKSTREAM; an existing group (BUSYGROUP) stays as it is.
GroupCreate(r) == IF r.group THEN r ELSE [NoStream EXCEPT !.entries = r.entries, !.group = TRUE]

\* XREADGROUP >: the entries go to the pending list of c.
Deliver(r, S, last, c) == [SetOwner(r, S, c) EXCEPT !.delivered = last]

\* XAUTOCLAIM: entries that were trimmed leave the pending list unanswered.
AutoClaim(r, S, c) == SetOwner(SetOwner(r, S, None), S \cap r.entries, c)

\* ackDeleteStatisticScript: XDEL and XACK.
AckDelete(r, S) == [SetOwner(r, S, None) EXCEPT !.entries = r.entries \ S]

\* Fault: the floor follows delivery alone.
FloorDelivered(r) == r.delivered + 1

\* statisticReplayFloorScript, and the successor of a delivered ID.
ReplayFloor(r) ==
    IF Pending(r) # {}
    THEN CHOOSE e \in Pending(r) : \A f \in Pending(r) : e <= f
    ELSE r.delivered + 1

-----------------------------------------------------------------------------
(* flushStreamStatisticsBuffer as stages of a worker: acknowledge what is  *)
(* settled, prepare, insert page by page, acknowledge again.               *)

\* Fault: acknowledges by position, whatever is left in the buffer.
ReadyAll(w) == w.ids

Ready(w) == w.ids \ w.buf

EndFlush(w) == [w EXCEPT !.pc = "loop", !.kept = {}, !.retry = w.buf # {}]

AckRest(w) == IF Ready(w) = {} THEN EndFlush(w) ELSE [w EXCEPT !.pc = "ackRest", !.kept = {}]

Persist(w) == IF w.buf = {} THEN AckRest(w) ELSE [w EXCEPT !.pc = "prepare"]

BeginFlush(w) == IF Ready(w) = {} THEN Persist(w) ELSE [w EXCEPT !.pc = "ack"]

RetryLater(w) == [w EXCEPT !.pc = "loop", !.kept = {}, !.retry = TRUE]

MustFlush(w) == w.retry \/ (w.ids # {} /\ w.buf = {}) \/ Cardinality(w.buf) >= ReadBatch

\* Fault: buffers a result without remembering its message ID.
AppendUntracked(w, S, r) ==
    LET good == {e \in S \ w.ids : e \in r.entries /\ e \notin Poison}
    IN  [w EXCEPT !.buf = @ \cup good]

\* appendStreamMessagesToBuffer.  A trimmed entry comes without a payload.
Append(w, S, r) ==
    LET fresh == S \ w.ids
        good == {e \in fresh : e \in r.entries /\ e \notin Poison}
    IN  [w EXCEPT !.buf = @ \cup good, !.ids = @ \cup good, !.bad = fresh \ good]

At(c, pc) == worker[c].pc = pc
Polling(c) == At(c, "loop") /\ worker[c].bad = {} /\ ~MustFlush(worker[c])
Becomes(c, w) == worker' = [worker EXCEPT ![c] = w]

-----------------------------------------------------------------------------
(* Producers and routes.                                                   *)

\* XADD.  With evict_oldest the append trims, approximately, to MaxLen.
AddToStream ==
    /\ next \in Id
    /\ LET all == redis.entries \cup {next} IN
       \E evicted \in SUBSET all :
          /\ \A e \in evicted, f \in all \ evicted : e < f
          /\ evicted = {} \/ Cardinality(all \ evicted) >= MaxLen
          /\ redis' = [redis EXCEPT !.entries = all \ evicted]
          /\ waived' = waived \cup evicted
    /\ next' = next + 1
    /\ UNCHANGED <<disk, db, deleted, worker, maint, bounds>>

\* The route of e is deleted from PostgreSQL.
DeleteRoute(e) ==
    /\ e \in Doomed \ deleted
    /\ deleted' = deleted \cup {e}
    /\ UNCHANGED <<redis, disk, next, db, worker, maint, waived, bounds>>

-----------------------------------------------------------------------------
(* runProxyStatisticsStreamWorker.                                         *)

\* A flush that is due, or the flush timer.
StartFlush(c) ==
    /\ At(c, "loop") /\ worker[c].bad = {}
    /\ MustFlush(worker[c]) \/ worker[c].ids # {}
    /\ Becomes(c, BeginFlush([worker[c] EXCEPT !.retry = FALSE]))
    /\ UNCHANGED <<redis, disk, next, db, deleted, maint, waived, bounds>>

\* XAUTOCLAIM of entries that have been idle for a minute; which ones have is
\* left open.  answered = FALSE is a reply that never arrives.
ClaimStale(c, S, answered) ==
    /\ Polling(c) /\ redis.group
    /\ S \subseteq Pending(redis) /\ S # {} /\ Cardinality(S) <= ClaimBatch
    /\ redis' = AutoClaim(redis, S, c)
    /\ IF answered
       THEN Becomes(c, Append(worker[c], S \cap redis.entries, redis)) /\ UNCHANGED faults
       ELSE Fault /\ UNCHANGED worker
    /\ UNCHANGED <<disk, next, db, deleted, maint, waived, saves>>

\* XREADGROUP with the cursor: this consumer's own pending entries, page by
\* page; an empty page ends recovery and flushes.
ReadPending(c) ==
    LET page == FirstOf({e \in OwnPending(redis, c) : e > worker[c].cursor}, ReadBatch) IN
    /\ Polling(c) /\ redis.group /\ worker[c].cursor # New
    /\ \/ /\ page = {}
          /\ Becomes(c, BeginFlush([worker[c] EXCEPT !.cursor = New]))
       \/ \E last \in page :
             /\ \A e \in page : e <= last
             /\ Becomes(c, [Append(worker[c], page, redis) EXCEPT !.cursor = last])
    /\ UNCHANGED <<redis, disk, next, db, deleted, maint, waived, bounds>>

\* XREADGROUP >.
ReadNew(c, answered) ==
    LET page == FirstOf(Unread(redis), ReadBatch) IN
    /\ Polling(c) /\ redis.group /\ worker[c].cursor = New
    /\ \E last \in page :
          /\ \A e \in page : e <= last
          /\ redis' = Deliver(redis, page, last, c)
    /\ IF answered THEN Becomes(c, Append(worker[c], page, redis)) /\ UNCHANGED faults
                   ELSE Fault /\ UNCHANGED worker
    /\ UNCHANGED <<disk, next, db, deleted, maint, waived, saves>>

\* A malformed message is acknowledged at once; when that fails its ID is kept.
Discard(c, e) ==
    /\ At(c, "loop") /\ e \in worker[c].bad
    /\ waived' = waived \cup {e}
    /\ \/ /\ redis' = AckDelete(redis, {e})
          /\ Becomes(c, [worker[c] EXCEPT !.bad = @ \ {e}])
          /\ UNCHANGED faults
       \/ /\ Fault
          /\ redis' \in {redis, AckDelete(redis, {e})}
          /\ Becomes(c, [worker[c] EXCEPT !.bad = @ \ {e}, !.ids = @ \cup {e}])
    /\ UNCHANGED <<disk, next, db, deleted, maint, saves>>

\* ackReadyStreamStatistics, before and after the insert, a batch at a time.
AckReady(c) ==
    /\ At(c, "ack") \/ At(c, "ackRest")
    /\ \E S \in SUBSET Ready(worker[c]) :
          LET w == [worker[c] EXCEPT !.ids = @ \ S] IN
          /\ S # {}
          /\ S = Ready(worker[c]) \/ Cardinality(S) = AckBatch
          /\ Cardinality(S) <= AckBatch
          /\ redis' = AckDelete(redis, S)
          /\ Becomes(c, IF Ready(w) # {} THEN w
                        ELSE IF At(c, "ack") THEN Persist(w) ELSE EndFlush(w))
    /\ UNCHANGED <<disk, next, db, deleted, maint, waived, bounds>>

\* The script fails, or was executed and its reply is lost.
AckFails(c) ==
    /\ At(c, "ack") \/ At(c, "ackRest")
    /\ Fault
    /\ \E S \in SUBSET Ready(worker[c]) :
          /\ Cardinality(S) <= AckBatch
          /\ redis' = AckDelete(redis, S)
    /\ Becomes(c, RetryLater(worker[c]))
    /\ UNCHANGED <<disk, next, db, deleted, maint, waived, saves>>

\* Fault: results of deleted routes are not filtered.
KeptAll(w) == w.buf

\* prepareProxyStatistics.
Kept(w) == w.buf \ deleted

Prepare(c) ==
    /\ At(c, "prepare")
    /\ \/ /\ Becomes(c, [worker[c] EXCEPT !.pc = "insert", !.kept = Kept(worker[c])])
          /\ UNCHANGED faults
       \/ Fault /\ Becomes(c, AckRest(worker[c]))
    /\ UNCHANGED <<redis, disk, next, db, deleted, maint, waived, saves>>

\* Fault: only the ledger is consulted.
AcceptUnlessLedgered(page) == {e \in page : e \notin ledger}

\* acceptProxyStatisticEvents: not in the ledger and not behind the floor.
Accept(page) == {e \in page : e \notin ledger /\ e >= floor}

\* InsertProxyStatistics: identities, history and counters in one transaction.
Commit(accepted) ==
    /\ ledger' = ledger \cup accepted
    /\ counted' = [e \in Id |-> IF e \in accepted THEN counted[e] + 1 ELSE counted[e]]
    /\ UNCHANGED floor

\* One page of flushProxyStatisticsContext.  The buffer's order is left open,
\* so a page is any part of it.  The transaction commits, or fails because a
\* route is gone, or is answered with an error although it may have committed.
InsertPage(c, page) ==
    LET w == worker[c]
        rest == [w EXCEPT !.buf = @ \ page]
        accepted == Accept(page \cap w.kept)
    IN
    /\ At(c, "insert")
    /\ page \subseteq w.buf /\ page # {} /\ Cardinality(page) <= PageLimit
    /\ \/ /\ accepted \cap deleted = {}
          /\ Commit(accepted)
          /\ waived' = waived \cup (page \ w.kept)
          /\ Becomes(c, IF rest.buf = {} THEN AckRest(rest) ELSE rest)
          /\ UNCHANGED faults
       \/ /\ accepted \cap deleted # {}
          /\ Becomes(c, AckRest(w))
          /\ UNCHANGED <<db, waived, faults>>
       \/ /\ Fault
          /\ UNCHANGED db \/ (accepted \cap deleted = {} /\ Commit(accepted))
          /\ Becomes(c, AckRest(w))
          /\ UNCHANGED waived
    /\ UNCHANGED <<redis, disk, next, deleted, maint, saves>>

\* A command meets NOGROUP, and repairProxyStatisticGroup creates the group.
MissGroup(c) ==
    /\ Polling(c) /\ ~redis.group
    /\ Becomes(c, [worker[c] EXCEPT !.pc = "repair"])
    /\ UNCHANGED <<redis, disk, next, db, deleted, maint, waived, bounds>>

RepairGroup(c) ==
    /\ At(c, "repair")
    /\ redis' = GroupCreate(redis)
    /\ Becomes(c, [worker[c] EXCEPT !.pc = "loop", !.cursor = 0])
    /\ UNCHANGED <<disk, next, db, deleted, maint, waived, bounds>>

RepairFails(c) ==
    /\ At(c, "repair")
    /\ Fault
    /\ redis' \in {redis, GroupCreate(redis)}
    /\ Becomes(c, [worker[c] EXCEPT !.pc = "loop"])
    /\ UNCHANGED <<disk, next, db, deleted, maint, waived, saves>>

\* The instance is shut down or dies: everything in memory is gone.
Stop(c) ==
    /\ worker[c].pc # "down"
    /\ Fault
    /\ Becomes(c, [Started EXCEPT !.pc = "down"])
    /\ UNCHANGED <<redis, disk, next, db, deleted, maint, waived, saves>>

\* The consumer starts again under its name.
Start(c) ==
    /\ At(c, "down")
    /\ redis' = GroupCreate(redis)
    /\ Becomes(c, Started)
    /\ UNCHANGED <<disk, next, db, deleted, maint, waived, bounds>>

-----------------------------------------------------------------------------
(* maintainProxyStatisticStream, run by one leader.                        *)

ReadFloor ==
    /\ maint.pc = "idle"
    /\ maint' = IF redis.group THEN [pc |-> "trim", before |-> ReplayFloor(redis)]
                               ELSE [Resting EXCEPT !.pc = "repair"]
    /\ UNCHANGED <<redis, disk, next, db, deleted, worker, waived, bounds>>

MaintenanceRepair ==
    /\ maint.pc = "repair"
    /\ redis' = GroupCreate(redis)
    /\ maint' = Resting
    /\ UNCHANGED <<disk, next, db, deleted, worker, waived, bounds>>

\* XTRIM MINID.
TrimStream ==
    /\ maint.pc = "trim"
    /\ redis' = [redis EXCEPT !.entries = {e \in @ : e >= maint.before}]
    /\ maint' = [maint EXCEPT !.pc = "retire"]
    /\ UNCHANGED <<disk, next, db, deleted, worker, waived, bounds>>

\* Fault: the floor may move back.
RaiseFloorBlindly(before) == before

RaiseFloor(before) == IF before > floor THEN before ELSE floor

\* RetireProxyStatisticEvents: the floor first, then a batch of identities.  A
\* full batch asks for another one while the time budget lasts.
RetireEvents ==
    LET raised == RaiseFloor(maint.before)
        batch == FirstOf({e \in ledger : e < raised}, RetireBatch)
    IN
    /\ maint.pc = "retire"
    /\ floor' = raised
    /\ ledger' = ledger \ batch
    /\ maint' \in {Resting} \cup (IF Cardinality(batch) = RetireBatch THEN {maint} ELSE {})
    /\ UNCHANGED <<redis, disk, next, counted, deleted, worker, waived, bounds>>

\* A command fails or leadership is lost: the pass ends where it stands.
MaintenanceFails ==
    /\ maint.pc # "idle"
    /\ Fault
    /\ maint' = Resting
    /\ UNCHANGED <<redis, disk, next, db, deleted, worker, waived, saves>>

-----------------------------------------------------------------------------
(* Redis persistence.                                                      *)

Save ==
    /\ saves < MaxSaves /\ faults < MaxFaults
    /\ saves' = saves + 1
    /\ disk' = redis
    /\ UNCHANGED <<redis, next, db, deleted, worker, maint, waived, faults>>

\* Redis comes back with an earlier state: entries are gone, and entries that
\* were acknowledged since are back.
Failover ==
    /\ Fault
    /\ redis' = disk
    /\ waived' = waived \cup (redis.entries \ disk.entries)
    /\ UNCHANGED <<disk, next, db, deleted, worker, maint, saves>>

-----------------------------------------------------------------------------
ConsumerStep(c) ==
    \/ StartFlush(c)
    \/ \E S \in SUBSET Pending(redis), answered \in BOOLEAN : ClaimStale(c, S, answered)
    \/ ReadPending(c)
    \/ \E answered \in BOOLEAN : ReadNew(c, answered)
    \/ \E e \in worker[c].bad : Discard(c, e)
    \/ AckReady(c)
    \/ AckFails(c)
    \/ Prepare(c)
    \/ \E page \in SUBSET worker[c].buf : InsertPage(c, page)
    \/ MissGroup(c)
    \/ RepairGroup(c)
    \/ RepairFails(c)
    \/ Stop(c)
    \/ Start(c)

Next ==
    \/ AddToStream
    \/ \E e \in Doomed : DeleteRoute(e)
    \/ \E c \in Consumer : ConsumerStep(c)
    \/ ReadFloor
    \/ MaintenanceRepair
    \/ TrimStream
    \/ RetireEvents
    \/ MaintenanceFails
    \/ Save
    \/ Failover

Spec == Init /\ [][Next]_vars

-----------------------------------------------------------------------------
(* Properties.                                                             *)

\* However often an entry is delivered, claimed, inserted or brought back by a
\* failover, and whether or not its identity was retired meanwhile, history and
\* counters receive it at most once (acceptProxyStatisticEvents).
CountedOnce == \A e \in Id : counted[e] <= 1

\* An entry is finished: counted, or covered by a documented exclusion
\* (deleted route, malformed payload, eviction, loss of Redis data).
Settled(e) == counted[e] > 0 \/ e \in waived \/ e \in Poison

\* An entry that was appended stays in the stream until it is settled: neither
\* acknowledgement nor trimming takes it away before (flushStreamStatisticsBuffer,
\* maintainProxyStatisticStream).
NothingLost == \A e \in 1..next - 1 : Settled(e) \/ e \in redis.entries

\* The replay floor is never ahead of work that somebody still has to do: an
\* entry behind it would be rejected as a replay and acknowledged
\* (RetireProxyStatisticEvents).
FloorBehindWork == \A e \in Id : e < floor => Settled(e)

\* What a worker buffers it can acknowledge; otherwise every later flush of it
\* fails (flushStreamStatisticsBuffer's consistency check).
BufferTracked == \A c \in Consumer : worker[c].buf \subseteq worker[c].ids

-----------------------------------------------------------------------------
(* Liveness.  The loop of a stable consumer goes on: it is started again,  *)
(* its flush timer fires, its commands are issued, and pending entries get *)
(* idle enough to be claimed.  Nothing else is fair.                       *)

FairClaim(c) == ClaimStale(c, FirstOf(Pending(redis), ClaimBatch), TRUE)

Fairness ==
    \A c \in Stable :
        /\ WF_vars(Start(c))
        /\ WF_vars(StartFlush(c))
        /\ WF_vars(FairClaim(c))
        /\ WF_vars(ReadPending(c))
        /\ WF_vars(ReadNew(c, TRUE))
        /\ WF_vars(\E e \in worker[c].bad : Discard(c, e))
        /\ WF_vars(AckReady(c))
        /\ WF_vars(Prepare(c))
        /\ WF_vars(\E page \in SUBSET worker[c].buf : InsertPage(c, page))
        /\ WF_vars(MissGroup(c))
        /\ WF_vars(RepairGroup(c))

FairSpec == Spec /\ Fairness

\* Every entry leaves the stream, whatever consumer held it, also when that
\* consumer never comes back, its reply got lost or its route was deleted.
EntriesLeave == \A e \in Id : e \in redis.entries ~> e \notin redis.entries
-----------------------------------------------------------------------------
(* Refinement.                                                             *)

Log == INSTANCE ResultLog WITH
    Result <- Id,
    accepted <- 1..next - 1,
    kept <- redis.entries,
    count <- counted,
    excluded <- waived \cup {e \in Poison : e < next}

\* The stream, its consumers, the ledger and the floor behave like a log that
\* keeps each accepted result until it is counted once or excluded, through
\* deliveries in any order, crashes, trimming and failovers.
ImplementsLog == Log!LogSpec
=============================================================================
