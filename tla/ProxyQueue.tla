----------------------------- MODULE ProxyQueue -----------------------------
(***************************************************************************)
(* The proxy queue under concurrent use: checker workers that claim, renew *)
(* and give back leases, imports and administrators that publish and       *)
(* remove routes at any moment, bulk rescheduling, a crash of any worker   *)
(* and the loss of Redis.  Each step is one Redis script or command (the   *)
(* operators of ProxyQueueScripts) plus what its caller remembers of it.   *)
(***************************************************************************)
EXTENDS ProxyQueueScripts

CONSTANTS
    Worker,        \* checker goroutines of all instances
    Interval,      \* check intervals in force (settings, interval_ms)
    RenewMargin,   \* RenewLeaseIfNeeded's two minutes
    MaxTime,       \* bound on the clock
    Delay          \* how old a clock reading may be when a script uses it

ASSUME QueueAssumption ==
    /\ Interval \in SUBSET (Nat \ {0})
    /\ Interval # {}
    /\ RenewMargin \in Nat /\ RenewMargin < LeaseTime
    /\ MaxTime \in Nat
    /\ Delay \in {0, 1}

VARIABLES
    redis,         \* the store
    now,           \* the clock, in milliseconds
    lease,         \* worker -> the claim it holds in memory (ProxyQueueLease)
    revoked,       \* history: workers whose entry was removed under them, or
                   \* whose claim was ended by a worker of the same token
    removing       \* pipelines that have deleted a payload, not yet the entry

vars == <<redis, now, lease, revoked, removing>>

\* candidate: popped, its payload being decoded and migrated; held: in check.
Lease == [phase   : {"candidate", "held"},
          member  : Member,
          token   : Nat,
          queue   : Shard,
          payload : Payload,
          sched   : Nat]

NoLease == [phase |-> "none"]

Busy(w) == lease[w] # NoLease
Held(w) == lease[w].phase = "held"
Current(w) == Busy(w) /\ LeaseHeld(redis, lease[w])

\* Other workers whose claim a step of w on its own claim also ends.
Displaced(w) ==
    {v \in Worker \ {w} : Current(v) /\ lease[v].member = lease[w].member}

\* time.Now() is read before the command is sent.
Reading(t) == t \in Nat /\ t <= now /\ now <= t + Delay

TypeOK ==
    /\ redis \in Store
    /\ now \in Nat
    /\ lease \in [Worker -> Lease \cup {NoLease}]
    /\ revoked \in SUBSET Worker
    /\ removing \in SUBSET (Config \X Member)

-----------------------------------------------------------------------------
(* A store may hold entries of an earlier release: members under an old    *)
(* hash or with an old payload, in the legacy queue.  NewRedisProxyQueue   *)
(* refreshes the heads before the queue is used.                           *)

OldStore(M, p) ==
    RefreshHead([EmptyStore EXCEPT
                    !.zset[Legacy] = [m \in Member |-> IF m \in M THEN Due(0) ELSE NoScore],
                    !.payload = [m \in Member |-> IF m \in M THEN p ELSE NoPayload]],
                Legacy)

Init ==
    /\ \E M \in SUBSET Member, p \in Payload :
        /\ p.fmt = "old" /\ p.owners # {}
        /\ redis = OldStore(M, p)
    /\ now = 0
    /\ lease = [w \in Worker |-> NoLease]
    /\ revoked = {}
    /\ removing = {}

-----------------------------------------------------------------------------
(* Publishing and administrative removal.                                  *)

\* AddToQueue, for one route: the pipeline runs add.lua once per route.
AddToQueue(c, m) ==
    /\ Canonical[m] = m
    /\ \E t \in 0..now, i \in Interval, owners \in (SUBSET Workspace) \ {{}}, tag \in Tag :
        /\ Reading(t)
        /\ \E offset \in 0..(i - 1) :
            redis' = AddScript(redis, c, m, Due(t + offset),
                               [owners |-> owners, fmt |-> "current", tag |-> tag])
    /\ UNCHANGED <<now, lease, revoked, removing>>

\* RemoveFromQueue without a lease, first command of the pipeline.
RemovePayload(c, m) ==
    /\ Canonical[m] = m
    /\ <<c, m>> \notin removing
    /\ redis' = DelPayload(redis, m)
    /\ removing' = removing \cup {<<c, m>>}
    /\ UNCHANGED <<now, lease, revoked>>

\* The rest of that pipeline.
RemoveEntry(c, m) ==
    /\ <<c, m>> \in removing
    /\ redis' = ZRemMember(redis, c, m)
    /\ removing' = removing \ {<<c, m>>}
    /\ revoked' = revoked \cup {w \in Worker : Busy(w) /\ lease[w].member = m}
    /\ UNCHANGED <<now, lease>>

\* RequeueAll, one shard: ZRANGE lists some members, the script reschedules
\* those that are still there and not leased.
RequeueAll(c, s) ==
    /\ s \in PopKeys[c]
    /\ \E t \in 0..now, i \in Interval, listed \in SUBSET Member :
        /\ Reading(t)
        /\ listed # {}
        /\ \E offset \in [listed -> 0..(i - 1)] :
            redis' = RequeueAllScript(redis, s, [m \in listed |-> Due(t + offset[m])])
    /\ UNCHANGED <<now, lease, revoked, removing>>

\* The last call of RequeueAll and of Reschedule, and the first of
\* NewRedisProxyQueue.
RefreshQueueHeads(c) ==
    /\ redis' = RefreshHeads(redis, PopKeys[c])
    /\ UNCHANGED <<now, lease, revoked, removing>>

-----------------------------------------------------------------------------
(* The checker worker.                                                     *)

\* GetNextProxyContext up to the decoded payload.  When nothing is due the
\* worker polls again; the script's repairs of the index stay.
GetNextProxy(w) ==
    /\ ~Busy(w)
    /\ \E t \in 0..now : \E r \in PopScript(redis, t) :
        /\ Reading(t)
        /\ LET p == r.st.payload[r.member]
           IN /\ redis' = r.st
              /\ lease' = [lease EXCEPT ![w] =
                    IF ~r.found THEN NoLease
                    ELSE [phase   |-> IF p.fmt = "old" THEN "candidate" ELSE "held",
                          member  |-> r.member,
                          token   |-> t + LeaseTime,
                          queue   |-> r.shard,
                          payload |-> p,
                          sched   |-> Floor(r.score)]]
    /\ revoked' = revoked \ {w}
    /\ UNCHANGED <<now, removing>>

\* What marshalQueuedProxy writes for the payload the worker decoded.
Normalized(p, tag) == [p EXCEPT !.fmt = "current", !.tag = tag]

\* migrateDequeuedProxyMember refuses the candidate: the claim was fenced,
\* its payload changed, or the current hash is leased to another worker.
MigrateRefused(w, c) ==
    /\ Busy(w) /\ ~Held(w)
    /\ \E t \in 0..now, tag \in Tag :
        LET l == lease[w]
        IN /\ Reading(t)
           /\ \/ /\ ~Renewable(redis, l, t)
                 /\ UNCHANGED redis
              \/ /\ Renewable(redis, l, t)
                 /\ redis.payload[l.member] # l.payload
                 /\ redis' = ReleaseCandidate(redis, l, t)
              \/ /\ Removable(redis, l) /\ l.token > t
                 /\ Canonical[l.member] # l.member
                 /\ MigrateOwned(redis, c, l, t) # {}
                 /\ redis' = MoveAlias(redis, c, l, t, Normalized(l.payload, tag))
    /\ lease' = [lease EXCEPT ![w] = NoLease]
    /\ revoked' = (revoked \ {w}) \cup Displaced(w)
    /\ UNCHANGED <<now, removing>>

\* migrateDequeuedProxyMember grants the claim, under the current hash.
MigrateClaimed(w, c) ==
    /\ Busy(w) /\ ~Held(w)
    /\ \E t \in 0..now, tag \in Tag :
        LET l == lease[w]
            m == Canonical[l.member]
            p == Normalized(l.payload, tag)
        IN /\ Reading(t)
           /\ Removable(redis, l) /\ l.token > t
           /\ \/ /\ m = l.member
                 /\ redis' = SetPayload(redis, m, p)
                 /\ lease' = [lease EXCEPT ![w].phase = "held", ![w].payload = p]
              \/ /\ m # l.member
                 /\ MigrateOwned(redis, c, l, t) = {}
                 /\ redis' = MoveAlias(redis, c, l, t, p)
                 /\ lease' = [lease EXCEPT ![w] =
                        [@ EXCEPT !.phase = "held", !.member = m,
                                  !.queue = Target[c][m],
                                  !.payload = redis'.payload[m]]]
    /\ revoked' = revoked \cup Displaced(w)
    /\ UNCHANGED <<now, removing>>

\* The worker gives up its claim in memory: ErrProxyLeaseLost.
LoseLease(w) ==
    /\ lease' = [lease EXCEPT ![w] = NoLease]
    /\ revoked' = revoked \ {w}
    /\ UNCHANGED <<redis, now, removing>>

\* RenewLeaseIfNeeded, between two outbound attempts.
RenewLease(w) ==
    /\ Busy(w) /\ Held(w)
    /\ \E t \in 0..now :
        /\ Reading(t)
        /\ lease[w].token - t <= RenewMargin
        /\ \/ /\ Renewable(redis, lease[w], t)
              /\ redis' = RenewScript(redis, lease[w], t)
              /\ lease' = [lease EXCEPT ![w].token = t + LeaseTime]
              /\ revoked' = revoked \cup Displaced(w)
              /\ UNCHANGED <<now, removing>>
           \/ /\ ~Renewable(redis, lease[w], t)
              /\ LoseLease(w)

\* RequeueProxy and RequeueProxyWithPayload.  The worker only drops owners.
RequeueProxy(w, c) ==
    /\ Busy(w) /\ Held(w)
    /\ LeaseHeld(redis, lease[w])
    /\ \E t \in 0..now, i \in Interval, changed \in BOOLEAN, tag \in Tag,
          owners \in SUBSET lease[w].payload.owners :
        LET base == IF t > lease[w].sched THEN t ELSE lease[w].sched
        IN /\ Reading(t)
           /\ redis' = CompleteScript(redis, c, lease[w], Due(base + i), changed,
                          [owners |-> owners, fmt |-> "current", tag |-> tag])
    /\ lease' = [lease EXCEPT ![w] = NoLease]
    /\ revoked' = (revoked \ {w}) \cup Displaced(w)
    /\ UNCHANGED <<now, removing>>

\* RemoveFromQueue with a lease: the worker found no owner left.
RemoveLeased(w) ==
    /\ Busy(w) /\ Held(w)
    /\ Removable(redis, lease[w])
    /\ redis' = RemoveScript(redis, lease[w])
    /\ lease' = [lease EXCEPT ![w] = NoLease]
    /\ revoked' = (revoked \ {w}) \cup Displaced(w)
    /\ UNCHANGED <<now, removing>>

\* Either form of completion is refused by its script.
CompletionRefused(w) ==
    /\ Busy(w) /\ Held(w)
    /\ ~Removable(redis, lease[w])
    /\ LoseLease(w)

\* The process dies, a worker is stopped or panics, or a claim fails to
\* decode: nothing is sent and the lease is left to expire.
Abandon(w) ==
    /\ Busy(w)
    /\ LoseLease(w)

-----------------------------------------------------------------------------
(* The environment.                                                        *)

Tick ==
    /\ now < MaxTime
    /\ now' = now + 1
    /\ UNCHANGED <<redis, lease, revoked, removing>>

\* Redis restarts empty.
LoseRedis ==
    /\ redis' = EmptyStore
    /\ revoked' = {w \in Worker : Busy(w)}
    /\ UNCHANGED <<now, lease, removing>>

Next ==
    \/ \E c \in Config, m \in Member :
        AddToQueue(c, m) \/ RemovePayload(c, m) \/ RemoveEntry(c, m)
    \/ \E c \in Config : RefreshQueueHeads(c) \/ \E s \in Shard : RequeueAll(c, s)
    \/ \E w \in Worker, c \in Config :
        MigrateRefused(w, c) \/ MigrateClaimed(w, c) \/ RequeueProxy(w, c)
    \/ \E w \in Worker :
        \/ GetNextProxy(w) \/ RenewLease(w) \/ RemoveLeased(w)
        \/ CompletionRefused(w) \/ Abandon(w)
    \/ Tick
    \/ LoseRedis

Spec == Init /\ [][Next]_vars

\* A worker's check ends: requests have timeouts, every path of work() either
\* completes the claim or abandons it.
EndClaim(w) ==
    \/ RemoveLeased(w) \/ CompletionRefused(w) \/ Abandon(w)
    \/ \E c \in Config : MigrateRefused(w, c) \/ MigrateClaimed(w, c) \/ RequeueProxy(w, c)

\* Workers poll for ever, checks end and time passes; nobody has to publish,
\* remove or reschedule anything, and Redis need not fail.
FairSpec ==
    /\ Spec
    /\ WF_vars(Tick)
    /\ \A w \in Worker : WF_vars(GetNextProxy(w)) /\ WF_vars(EndClaim(w))

-----------------------------------------------------------------------------
(* Properties.                                                             *)

\* Every shard that has entries is in the head index at or below its earliest
\* score, whatever add, complete, renew, remove and migrate left behind: pop
\* looks only at the index, so a shard indexed too late is a shard forgotten.
HeadIndexed ==
    \A s \in Shard : \A m \in Entries(redis, s) :
        redis.heads[s] # NoScore /\ redis.heads[s] <= ZScore(redis, s, m)

\* A route is scheduled in at most one shard while all instances are
\* configured alike: a second entry would be a second, unfenced claim.
OneShard ==
    \A m \in Member, r, s \in Shard :
        m \in Entries(redis, r) /\ m \in Entries(redis, s) => r = s

\* Of two workers that hold a claim on the same route at most one can still
\* renew, complete or remove it, unless the entry was removed under one of
\* them (RemoveFromQueue without a lease, loss of Redis) and added again.
LeaseExclusive ==
    \A v, w \in Worker :
        Current(v) /\ Current(w) /\ lease[v].member = lease[w].member /\ v # w
            => v \in revoked \/ w \in revoked

\* A claim takes the earliest route of the whole queue, not of one shard: no
\* entry with a payload had a lower score when a worker popped.
EarliestFirst ==
    \A w \in Worker :
        ~Busy(w) /\ lease'[w] # NoLease =>
            \A s \in Shard : \A m \in Entries(redis, s) :
                redis.payload[m] # NoPayload =>
                    lease'[w].sched <= Floor(ZScore(redis, s, m))

ClaimsEarliest == [][EarliestFirst]_vars

\* A lease mark in the store changes only when its time is over, by a step of
\* the worker that holds it, by an administrative removal or with Redis itself:
\* publishing, bulk rescheduling and migration of another member never end it.
LeaseEnds(s, m) ==
    \/ ZScore(redis, s, m) <= Due(now)
    \/ \E w \in Worker : /\ Current(w) /\ lease'[w] # lease[w]
                        /\ lease[w].member = m /\ lease[w].queue = s
    \/ removing' # removing
    \/ redis' = EmptyStore

LeasesKept ==
    [][\A s \in Shard, m \in Member :
            IsLease(ZScore(redis, s, m)) /\ ZScore(redis', s, m) # ZScore(redis, s, m)
                => LeaseEnds(s, m)]_vars

\* A route with a payload that has been due for a whole tick.
Overdue(m) ==
    /\ redis.payload[m] # NoPayload
    /\ \E s \in Shard : /\ m \in Entries(redis, s)
                        /\ ZScore(redis, s, m) <= Due(now - 1)

\* An overdue route does not stay overdue: some worker claims it (or it is
\* removed or rescheduled), however stale the index and whatever else is added.
OverdueIsClaimed == \A m \in Member : Overdue(m) ~> ~Overdue(m)
=============================================================================
