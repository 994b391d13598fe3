------------------------- MODULE ProxyQueueLeaseProofs -------------------------
(***************************************************************************)
(* Mutual exclusion of leases, for instances that agree on their shards.   *)
(*                                                                         *)
(* LeaseExclusive is not inductive.  What makes it so: a member is in one  *)
(* shard, a shard that every instance knows; and a worker whose claim was  *)
(* not revoked either still holds its mark in the store or has a token of  *)
(* the past, while every token a script writes is of the present.          *)
(***************************************************************************)
EXTENDS ProxyQueueProofs

\* All instances read the same PROXY_QUEUE_SHARDS.
UniformShards == \A c, d \in Config : PopKeys[c] = PopKeys[d]

Single(st) ==
    \A m \in Member, r, s \in Shard :
        st.zset[r][m] # NoScore /\ st.zset[s][m] # NoScore => r = s

Known(st) ==
    \A c \in Config, s \in Shard, m \in Member :
        st.zset[s][m] # NoScore => s \in PopKeys[c]

Placed(st) == Single(st) /\ Known(st)

-----------------------------------------------------------------------------
(* Marks and due times never coincide.                                     *)

LEMMA MarkIsLease == ASSUME NEW k \in Nat PROVE IsLease(LeaseScore(k))
<1>1. LeaseScore(k) # NoScore
  BY DEF LeaseScore, NoScore
<1>2. (2 * k + 1) % 2 = 1
  OBVIOUS
<1>3. QED
  BY <1>1, <1>2 DEF IsLease, LeaseScore

LEMMA DueIsNoLease == ASSUME NEW k \in Nat PROVE ~IsLease(Due(k))
<1>1. (2 * k) % 2 = 0
  OBVIOUS
<1>2. QED
  BY <1>1 DEF IsLease, Due

LEMMA NoScoreIsNoLease == ~IsLease(NoScore)
BY DEF IsLease

\* Marks of different tokens differ, and a mark at or below a due time has a
\* token below it.
LEMMA MarkOrder ==
    ASSUME NEW j \in Nat, NEW k \in Nat
    PROVE  /\ LeaseScore(j) = LeaseScore(k) => j = k
           /\ LeaseScore(j) <= Due(k) => j < k
           /\ LeaseScore(j) > Due(k) <=> j >= k
BY DEF LeaseScore, Due

-----------------------------------------------------------------------------
(* Every script leaves a member in one known shard.                        *)

LEMMA PlacedStep ==
    ASSUME NEW st, Placed(st), NEW new,
           \A m \in Member :
             \/ \A s \in Shard : new.zset[s][m] # NoScore => st.zset[s][m] # NoScore
             \/ \E q \in Shard : /\ \A c \in Config : q \in PopKeys[c]
                                 /\ \A s \in Shard : new.zset[s][m] # NoScore => s = q
    PROVE  Placed(new)
<1>1. Single(new)
  BY DEF Placed, Single
<1>2. Known(new)
  BY DEF Placed, Known
<1>3. QED
  BY <1>1, <1>2 DEF Placed

-----------------------------------------------------------------------------
(* The entries each script leaves, its heads aside.                        *)

LEMMA HeadsOnly ==
    ASSUME NEW st \in Store, NEW s \in Shard, NEW keys \in SUBSET Shard,
           NEW score \in Nat
    PROVE  /\ RefreshHead(st, s).zset = st.zset
           /\ RefreshHeads(st, keys).zset = st.zset
           /\ LowerHead(st, s, score).zset = st.zset
<1>1. RefreshHead(st, s).zset = st.zset
  BY HeadOfBounds, WriteHead DEF RefreshHead
<1>2. RefreshHeads(st, keys).zset = st.zset
  BY DEF RefreshHeads, Store
<1>3. score \in Score
  BY DEF Score
<1>4. [st EXCEPT !.heads[s] = score].zset = st.zset
  BY <1>3, WriteHead
<1>5. LowerHead(st, s, score).zset = st.zset
  BY <1>4 DEF LowerHead
<1>6. QED
  BY <1>1, <1>2, <1>5

LEMMA AddEntries ==
    ASSUME NEW st \in Store, NEW c \in Config, NEW m \in Member,
           NEW due \in Nat, NEW p \in Payload
    PROVE  LET q == AddShard(st, c, m)
               new == AddScript(st, c, m, due, p)
           IN /\ q \in PopKeys[c] /\ q \in Shard
              /\ \A s \in Shard, n \in Member :
                   new.zset[s][n] =
                      IF n # m THEN st.zset[s][n]
                      ELSE IF s = q THEN IF st.zset[q][m] = NoScore THEN due ELSE st.zset[q][m]
                      ELSE IF s \in PopKeys[c] THEN NoScore ELSE st.zset[s][n]
<1> DEFINE q == AddShard(st, c, m)
           kept == ZScore(st, q, m)
           zset == [s \in Shard |->
                      [st.zset[s] EXCEPT ![m] =
                          IF s = q THEN IF kept = NoScore THEN due ELSE kept
                          ELSE IF s \in PopKeys[c] THEN NoScore ELSE @]]
           placed == [st EXCEPT !.zset = zset, !.payload[m] = p]
           head == IF IsLease(kept) THEN kept ELSE due
<1>1. q \in PopKeys[c] /\ q \in Shard
  BY ScriptAssumption DEF AddShard, OwnedShards
<1>2. kept \in Score /\ kept = st.zset[q][m]
  BY <1>1 DEF Store, ZScore
<1>3. due \in Score /\ NoScore \in Score
  BY DEF Score
<1>4. zset \in [Shard -> [Member -> Score]]
  BY <1>2, <1>3 DEF Store
<1>5. placed \in Store /\ placed.zset = zset
  BY <1>4 DEF Store
<1>6. head \in Nat
  BY <1>2 DEF IsLease, Score
<1>7. LowerHead(placed, q, head).zset = zset
  BY <1>1, <1>5, <1>6, HeadsOnly
<1>8. AddScript(st, c, m, due, p).zset = zset
  BY <1>7 DEF AddScript
<1>9. ASSUME NEW s \in Shard, NEW n \in Member
      PROVE  zset[s][n] = IF n # m THEN st.zset[s][n]
                          ELSE IF s = q THEN IF kept = NoScore THEN due ELSE kept
                          ELSE IF s \in PopKeys[c] THEN NoScore ELSE st.zset[s][n]
  BY DEF Store
<1> HIDE DEF zset
<1>10. QED
  BY <1>1, <1>2, <1>8, <1>9

LEMMA CompleteEntries ==
    ASSUME NEW st \in Store, NEW c \in Config, NEW l \in Lease, NEW next \in Nat,
           NEW changed \in BOOLEAN, NEW after \in Payload
    PROVE  LET new == CompleteScript(st, c, l, next, changed, after)
               q == Target[c][l.member]
           IN \A s \in Shard, n \in Member :
                new.zset[s][n] =
                   IF n # l.member THEN st.zset[s][n]
                   ELSE IF s = q THEN next
                   ELSE IF s \in {l.queue, Legacy} THEN NoScore ELSE st.zset[s][n]
<1> DEFINE m == l.member
           q == Target[c][m]
           p == IF changed THEN CompletedPayload(st.payload[m], l.payload, after)
                ELSE st.payload[m]
           zset == [s \in Shard |->
                      [st.zset[s] EXCEPT ![m] =
                          IF s = q THEN next
                          ELSE IF s \in {l.queue, Legacy} THEN NoScore ELSE @]]
           placed == [st EXCEPT !.zset = zset, !.payload[m] = p]
<1>1. m \in Member /\ l.payload \in Payload /\ q \in Shard
  BY ScriptAssumption DEF Lease
<1>2. st.payload[m] \in Payload \cup {NoPayload}
  BY <1>1 DEF Store
<1>3. p \in Payload \cup {NoPayload}
  BY <1>1, <1>2, CompletedPayloadType
<1>4. next \in Score /\ NoScore \in Score
  BY DEF Score
<1>5. zset \in [Shard -> [Member -> Score]]
  BY <1>1, <1>4 DEF Store
<1>6. placed \in Store /\ placed.zset = zset
  BY <1>1, <1>3, <1>5 DEF Store
<1>7. LowerHead(placed, q, next).zset = zset
  BY <1>1, <1>6, HeadsOnly
<1>8. CompleteScript(st, c, l, next, changed, after).zset = zset
  BY <1>7 DEF CompleteScript
<1>9. ASSUME NEW s \in Shard, NEW n \in Member
      PROVE  zset[s][n] = IF n # m THEN st.zset[s][n]
                          ELSE IF s = q THEN next
                          ELSE IF s \in {l.queue, Legacy} THEN NoScore ELSE st.zset[s][n]
  BY <1>1 DEF Store
<1> HIDE DEF zset
<1>10. QED
  BY <1>8, <1>9

LEMMA SetEntries ==
    ASSUME NEW st \in Store, NEW s \in Shard, NEW m \in Member, NEW score \in Score
    PROVE  /\ \A r \in Shard, n \in Member :
                ZSet(st, s, m, score).zset[r][n] =
                    IF r = s /\ n = m THEN score ELSE st.zset[r][n]
           /\ RefreshHead(ZSet(st, s, m, score), s).zset = ZSet(st, s, m, score).zset
<1>1. /\ ZSet(st, s, m, score) \in Store
      /\ ZSet(st, s, m, score).zset =
            [st.zset EXCEPT ![s] = [st.zset[s] EXCEPT ![m] = score]]
  BY WriteEntry
<1>2. RefreshHead(ZSet(st, s, m, score), s).zset = ZSet(st, s, m, score).zset
  BY <1>1, HeadOfBounds, WriteHead DEF RefreshHead
<1>3. QED
  BY <1>1, <1>2 DEF Store

LEMMA RequeueAllEntries ==
    ASSUME NEW st \in Store, NEW s \in Shard, NEW M \in SUBSET Member,
           NEW due \in [M -> Nat]
    PROVE  \A r \in Shard, n \in Member :
             RequeueAllScript(st, s, due).zset[r][n] =
                IF /\ r = s /\ n \in M
                   /\ st.zset[s][n] # NoScore /\ ~IsLease(st.zset[s][n])
                THEN due[n] ELSE st.zset[r][n]
<1> DEFINE z == [m \in Member |->
                    IF m \in DOMAIN due /\ ZScore(st, s, m) # NoScore
                       /\ ~IsLease(ZScore(st, s, m))
                    THEN due[m] ELSE ZScore(st, s, m)]
           new == [st EXCEPT !.zset[s] = z]
<1>1. \A m \in M : due[m] \in Score
  BY DEF Score
<1>2. z \in [Member -> Score]
  BY <1>1 DEF Store, ZScore
<1>3. new \in Store /\ new.zset = [st.zset EXCEPT ![s] = z]
  BY <1>2 DEF Store
<1>4. RequeueAllScript(st, s, due).zset = new.zset
  BY <1>3, HeadOfBounds, WriteHead DEF RequeueAllScript, RefreshHead
<1>5. ASSUME NEW n \in Member
      PROVE  z[n] = IF n \in M /\ st.zset[s][n] # NoScore /\ ~IsLease(st.zset[s][n])
                    THEN due[n] ELSE st.zset[s][n]
  BY DEF ZScore
<1> HIDE DEF z
<1>6. QED
  BY <1>3, <1>4, <1>5 DEF Store

LEMMA MoveEntries ==
    ASSUME NEW st \in Store, NEW c \in Config, NEW l \in Lease, NEW t \in Nat,
           NEW normalized \in Payload, Canonical[l.member] # l.member
    PROVE  LET m == Canonical[l.member]
               owned == MigrateOwned(st, c, l, t)
               q == IF owned = {} THEN Target[c][m] ELSE CHOOSE s \in owned : TRUE
               new == MoveAlias(st, c, l, t, normalized)
           IN \A s \in Shard, n \in Member :
                new.zset[s][n] =
                   IF s \notin MigrateShards(c, l) \/ n \notin {l.member, m} THEN st.zset[s][n]
                   ELSE IF n # m THEN NoScore
                   ELSE IF s # q THEN NoScore
                   ELSE IF owned = {} THEN LeaseScore(l.token) ELSE st.zset[s][n]
<1> DEFINE m == Canonical[l.member]
           owned == MigrateOwned(st, c, l, t)
           q == IF owned = {} THEN Target[c][m] ELSE CHOOSE s \in owned : TRUE
           keys == MigrateShards(c, l)
           zset == [s \in Shard |->
                      IF s \notin keys THEN st.zset[s]
                      ELSE [st.zset[s] EXCEPT
                              ![l.member] = NoScore,
                              ![m] = IF s # q THEN NoScore
                                     ELSE IF owned = {} THEN LeaseScore(l.token)
                                     ELSE @]]
           payload == [st.payload EXCEPT
                          ![l.member] = NoPayload,
                          ![m] = MigratedPayload(@, normalized)]
           moved == [st EXCEPT !.zset = zset, !.payload = payload]
           dirty == {s \in keys : zset[s] # st.zset[s] \/ (owned = {} /\ s = q)}
<1>1. l.member \in Member /\ m \in Member
  BY ScriptAssumption DEF Lease
<1>2. MoveAlias(st, c, l, t, normalized) = RefreshHeads(moved, dirty)
  BY DEF MoveAlias
<1>3. RefreshHeads(moved, dirty).zset = zset
  <2> HIDE DEF zset, payload, dirty
  <2>1. DOMAIN moved = DOMAIN st /\ moved.zset = zset
    BY DEF Store
  <2> HIDE DEF moved
  <2>2. QED
    BY <2>1 DEF RefreshHeads, Store
<1>4. ASSUME NEW s \in Shard, NEW n \in Member
      PROVE  zset[s][n] =
                IF s \notin keys \/ n \notin {l.member, m} THEN st.zset[s][n]
                ELSE IF n # m THEN NoScore
                ELSE IF s # q THEN NoScore
                ELSE IF owned = {} THEN LeaseScore(l.token) ELSE st.zset[s][n]
  <2>1. CASE s \notin keys
    BY <2>1
  <2>2. CASE s \in keys
    <3> DEFINE x == IF s # q THEN NoScore
                    ELSE IF owned = {} THEN LeaseScore(l.token) ELSE st.zset[s][m]
               row == [st.zset[s] EXCEPT ![l.member] = NoScore, ![m] = x]
    <3>1. st.zset[s] \in [Member -> Score]
      BY DEF Store
    <3>2. zset[s] = row
      BY <2>2, <3>1, <1>1
    <3> HIDE DEF x, zset
    <3>3. row[n] = IF n = m THEN x ELSE IF n = l.member THEN NoScore ELSE st.zset[s][n]
      BY <3>1, <1>1
    <3> HIDE DEF row
    <3>4. QED
      BY <2>2, <3>2, <3>3 DEF x
  <2>3. QED
    BY <2>1, <2>2
<1> HIDE DEF zset, moved, dirty
<1>5. QED
  BY <1>2, <1>3, <1>4

-----------------------------------------------------------------------------
(* The inductive invariant.                                                *)

\* A claim that was not revoked is in the store, or its time is over.
Fenced ==
    \A v \in Worker : Busy(v) /\ v \notin revoked => Current(v) \/ lease[v].token < now

Exclusive == Sound /\ Placed(redis) /\ Fenced /\ LeaseExclusive

\* A claim survives a step as it was; X holds the worker that takes the step.
Survives(v) ==
    /\ lease'[v] = lease[v] /\ v \notin revoked
    /\ LeaseHeld(redis', lease[v]) => LeaseHeld(redis, lease[v])
    /\ LeaseHeld(redis, lease[v]) =>
         LeaseHeld(redis', lease[v]) \/ lease[v].token < now'

LEMMA StepExclusive ==
    ASSUME Fenced, LeaseExclusive, TypeOK, now' \in Nat, now <= now',
           NEW X \in SUBSET Worker,
           \A v \in Worker \ X : v \notin revoked' /\ lease'[v] # NoLease => Survives(v),
           \A w \in X : w \notin revoked' /\ lease'[w] # NoLease => LeaseHeld(redis', lease'[w]),
           \A w \in X : \A v \in Worker \ {w} :
                w \notin revoked' /\ v \notin revoked' /\
                lease'[w] # NoLease /\ lease'[v] # NoLease /\
                LeaseHeld(redis', lease'[w]) /\ LeaseHeld(redis', lease'[v])
                    => lease'[v].member # lease'[w].member
    PROVE  Fenced' /\ LeaseExclusive'
<1>1. ASSUME NEW v \in Worker, Busy(v)', v \notin revoked'
      PROVE  Current(v)' \/ lease'[v].token < now'
  <2>1. CASE v \in X
    BY <1>1, <2>1 DEF Busy, Current
  <2>2. CASE v \notin X
    <3>1. Survives(v) /\ lease'[v] # NoLease
      BY <1>1, <2>2 DEF Busy
    <3>2. Busy(v) /\ v \notin revoked /\ lease'[v] = lease[v]
      BY <3>1 DEF Survives, Busy
    <3>3. CASE Current(v)
      BY <3>1, <3>2, <3>3 DEF Survives, Current, Busy
    <3>4. CASE lease[v].token < now
      <4>1. lease[v].token \in Nat /\ now \in Nat
        BY <3>2, BusyLease DEF Lease, TypeOK
      <4>2. lease[v].token < now'
        BY <3>4, <4>1
      <4>3. QED
        BY <4>2, <3>2
    <3>5. QED
      BY <3>2, <3>3, <3>4 DEF Fenced
  <2>3. QED
    BY <2>1, <2>2
<1>2. ASSUME NEW v \in Worker, NEW w \in Worker, v # w,
             Current(v)', Current(w)', lease'[v].member = lease'[w].member,
             v \notin revoked', w \notin revoked'
      PROVE  FALSE
  <2>1. /\ lease'[v] # NoLease /\ lease'[w] # NoLease
        /\ LeaseHeld(redis', lease'[v]) /\ LeaseHeld(redis', lease'[w])
    BY <1>2 DEF Current, Busy
  <2>2. v \notin X /\ w \notin X
    BY <1>2, <2>1
  <2>3. Survives(v) /\ Survives(w)
    BY <1>2, <2>1, <2>2
  <2>4. /\ Current(v) /\ Current(w) /\ lease[v].member = lease[w].member
        /\ v \notin revoked /\ w \notin revoked
    BY <1>2, <2>1, <2>3 DEF Survives, Current, Busy
  <2>5. QED
    BY <1>2, <2>4 DEF LeaseExclusive
<1>3. QED
  BY <1>1, <1>2 DEF Fenced, LeaseExclusive

\* A step that moves no mark and no claim.
LEMMA QuietExclusive ==
    ASSUME Fenced, LeaseExclusive, TypeOK, now' \in Nat, now <= now',
           lease' = lease, revoked \subseteq revoked',
           \A s \in Shard, m \in Member, k \in Nat :
                redis'.zset[s][m] = LeaseScore(k) <=> redis.zset[s][m] = LeaseScore(k)
    PROVE  Fenced' /\ LeaseExclusive'
<1>1. ASSUME NEW v \in Worker, v \notin revoked', lease'[v] # NoLease
      PROVE  Survives(v)
  <2>1. lease[v] \in Lease
    BY <1>1, BusyLease DEF Busy
  <2>2. lease[v].queue \in Shard /\ lease[v].member \in Member /\ lease[v].token \in Nat
    BY <2>1 DEF Lease
  <2>3. LeaseHeld(redis', lease[v]) <=> LeaseHeld(redis, lease[v])
    BY <2>2 DEF LeaseHeld, ZScore
  <2>4. QED
    BY <1>1, <2>3 DEF Survives
<1>2. {} \in SUBSET Worker /\ \A v \in Worker \ {} :
          v \notin revoked' /\ lease'[v] # NoLease => Survives(v)
  BY <1>1
<1>3. \A w \in {} : FALSE
  OBVIOUS
<1>4. QED
  BY <1>2, <1>3, StepExclusive

\* What Fenced says of another worker's claim.
LEMMA ClaimFacts ==
    ASSUME Exclusive, NEW v \in Worker, lease[v] # NoLease, v \notin revoked
    PROVE  /\ lease[v] \in Lease /\ lease[v].token \in Nat
           /\ lease[v].queue \in Shard /\ lease[v].member \in Member
           /\ LeaseHeld(redis, lease[v]) \/ lease[v].token < now
           /\ LeaseHeld(redis, lease[v]) => Current(v)
<1>1. lease[v] \in Lease
  BY BusyLease DEF Exclusive, Sound, Busy
<1>2. Current(v) \/ lease[v].token < now
  BY DEF Exclusive, Fenced, Busy
<1>3. QED
  BY <1>1, <1>2 DEF Lease, Current, Busy

\* A clock reading plus a whole lease, or a token it has not reached, is not
\* in the past.
LEMMA ReadingIsPresent ==
    ASSUME TypeOK, NEW t, Reading(t)
    PROVE  /\ t \in Nat /\ t <= now /\ now <= t + LeaseTime
           /\ \A k \in Nat : k > t => now <= k
BY ScriptAssumption, QueueAssumption DEF Reading, TypeOK

\* A step of worker w on its own claim, which it leaves as x.
LEMMA WorkerExclusive ==
    ASSUME Exclusive, NEW w \in Worker, NEW x, lease' = [lease EXCEPT ![w] = x],
           now' = now, revoked \ {w} \subseteq revoked',
           \A v \in Worker \ {w} : v \notin revoked' /\ lease[v] # NoLease =>
                /\ LeaseHeld(redis', lease[v]) => LeaseHeld(redis, lease[v])
                /\ LeaseHeld(redis, lease[v]) =>
                     LeaseHeld(redis', lease[v]) \/ lease[v].token < now,
           x # NoLease /\ w \notin revoked' =>
                /\ LeaseHeld(redis', x)
                /\ \A v \in Worker \ {w} :
                     v \notin revoked' /\ lease[v] # NoLease /\ LeaseHeld(redis', lease[v])
                        => lease[v].member # x.member
    PROVE  Fenced' /\ LeaseExclusive'
<1>1. TypeOK /\ Fenced /\ LeaseExclusive /\ now' \in Nat /\ now <= now'
  BY DEF Exclusive, Sound, TypeOK
<1>2. lease'[w] = x /\ \A v \in Worker \ {w} : lease'[v] = lease[v]
  BY <1>1 DEF TypeOK
<1>3. \A v \in Worker \ {w} : v \notin revoked' /\ lease'[v] # NoLease => Survives(v)
  BY <1>2 DEF Survives
<1>4. {w} \in SUBSET Worker /\ \A u \in {w} : u = w
  OBVIOUS
<1>5. \A u \in {w} : u \notin revoked' /\ lease'[u] # NoLease => LeaseHeld(redis', lease'[u])
  BY <1>2
<1>6. \A u \in {w} : \A v \in Worker \ {u} :
         u \notin revoked' /\ v \notin revoked' /\
         lease'[u] # NoLease /\ lease'[v] # NoLease /\
         LeaseHeld(redis', lease'[u]) /\ LeaseHeld(redis', lease'[v])
             => lease'[v].member # lease'[u].member
  BY <1>2
<1>7. QED
  BY <1>1, <1>3, <1>4, <1>5, <1>6, StepExclusive

-----------------------------------------------------------------------------
(* Publishing, administration and bulk rescheduling.                       *)

LEMMA AddExclusive ==
    ASSUME UniformShards, Exclusive, NEW c \in Config, NEW m \in Member, AddToQueue(c, m)
    PROVE  Exclusive'
<1>1. PICK t \in 0..now, i \in Interval, owners \in (SUBSET Workspace) \ {{}}, tag \in Tag :
        /\ Reading(t)
        /\ \E offset \in 0..(i - 1) :
             redis' = AddScript(redis, c, m, Due(t + offset),
                                [owners |-> owners, fmt |-> "current", tag |-> tag])
  BY DEF AddToQueue
<1>2. PICK offset \in 0..(i - 1) :
        redis' = AddScript(redis, c, m, Due(t + offset),
                           [owners |-> owners, fmt |-> "current", tag |-> tag])
  BY <1>1
<1> DEFINE p == [owners |-> owners, fmt |-> "current", tag |-> tag]
           q == AddShard(redis, c, m)
           due == Due(t + offset)
<1>3. p \in Payload /\ redis \in Store
  BY DEF Payload, Exclusive, Sound, TypeOK
<1>4. t \in Nat /\ offset \in Nat /\ t + offset \in Nat
  BY <1>1, <1>2, QueueAssumption DEF Reading
<1>5. due \in Nat /\ ~IsLease(due)
  <2>1. due \in Nat
    BY <1>4 DEF Due
  <2>2. QED
    BY <1>4, <2>1, DueIsNoLease
<1> HIDE DEF due, p
<1>6. /\ q \in PopKeys[c] /\ q \in Shard
      /\ \A s \in Shard, n \in Member :
           redis'.zset[s][n] =
              IF n # m THEN redis.zset[s][n]
              ELSE IF s = q THEN IF redis.zset[q][m] = NoScore THEN due ELSE redis.zset[q][m]
              ELSE IF s \in PopKeys[c] THEN NoScore ELSE redis.zset[s][n]
  BY <1>2, <1>3, <1>5, AddEntries DEF due, p
<1> HIDE DEF q
<1>7. Single(redis) /\ Known(redis)
  BY DEF Exclusive, Placed
<1>8. \A s \in Shard \ {q} : redis'.zset[s][m] = NoScore
  BY <1>6, <1>7 DEF Known
<1>9. Placed(redis')
  <2>1. \A d \in Config : q \in PopKeys[d]
    BY <1>6 DEF UniformShards
  <2>2. ASSUME NEW n \in Member
        PROVE  \/ \A s \in Shard : redis'.zset[s][n] # NoScore => redis.zset[s][n] # NoScore
               \/ \E r \in Shard : /\ \A d \in Config : r \in PopKeys[d]
                                   /\ \A s \in Shard : redis'.zset[s][n] # NoScore => s = r
    BY <1>6, <1>8, <2>1
  <2>3. QED
    BY <2>2, PlacedStep DEF Exclusive
<1>10. ASSUME NEW s \in Shard, IsLease(redis.zset[s][m]) PROVE s = q
  <2>1. redis.zset[s][m] # NoScore
    BY <1>10 DEF IsLease
  <2>2. s \in PopKeys[c]
    BY <1>7, <2>1 DEF Known
  <2>3. s \in OwnedShards(redis, c, m)
    BY <1>10, <2>2 DEF OwnedShards, ZScore
  <2>4. q \in OwnedShards(redis, c, m)
    BY <2>3 DEF q, AddShard
  <2>5. redis.zset[q][m] # NoScore
    BY <2>4 DEF OwnedShards, ZScore, IsLease
  <2>6. QED
    BY <1>6, <1>7, <2>1, <2>5 DEF Single
<1>11. ASSUME NEW s \in Shard, NEW n \in Member, NEW k \in Nat
       PROVE  redis'.zset[s][n] = LeaseScore(k) <=> redis.zset[s][n] = LeaseScore(k)
  <2>1. IsLease(LeaseScore(k)) /\ LeaseScore(k) # NoScore
    BY MarkIsLease DEF IsLease
  <2>2. CASE n # m
    BY <1>6, <2>2
  <2>3. CASE n = m /\ s = q
    BY <1>5, <1>6, <2>1, <2>3
  <2>4. CASE n = m /\ s # q
    BY <1>8, <1>10, <2>1, <2>4
  <2>5. QED
    BY <2>2, <2>3, <2>4
<1>12. now' \in Nat /\ now <= now' /\ lease' = lease /\ revoked \subseteq revoked'
  BY DEF AddToQueue, Exclusive, Sound, TypeOK
<1>13. Fenced' /\ LeaseExclusive'
  BY <1>11, <1>12, QuietExclusive DEF Exclusive, Sound
<1>14. QED
  BY <1>9, <1>13, AddSound DEF Exclusive

LEMMA AdminExclusive ==
    ASSUME Exclusive, NEW c \in Config, NEW m \in Member,
           RemovePayload(c, m) \/ RemoveEntry(c, m)
    PROVE  Exclusive'
<1>1. Sound'
  BY AdminSound DEF Exclusive
<1>2. redis \in Store /\ now \in Nat /\ TypeOK /\ Fenced /\ LeaseExclusive /\ Placed(redis)
  BY DEF Exclusive, Sound, TypeOK
<1>3. CASE RemovePayload(c, m)
  <2>1. redis'.zset = redis.zset
    BY <1>2, <1>3 DEF RemovePayload, DelPayload, SetPayload, Store
  <2>2. now' \in Nat /\ now <= now' /\ lease' = lease /\ revoked \subseteq revoked'
    BY <1>2, <1>3 DEF RemovePayload
  <2>3. Fenced' /\ LeaseExclusive'
    BY <1>2, <2>1, <2>2, QuietExclusive
  <2>4. Placed(redis')
    BY <1>2, <2>1, PlacedStep
  <2>5. QED
    BY <1>1, <2>3, <2>4 DEF Exclusive
<1>4. CASE RemoveEntry(c, m)
  <2> DEFINE mid == ZRem(redis, Target[c][m], m)
  <2>1. Target[c][m] \in Shard /\ Legacy \in Shard /\ NoScore \in Score
    BY ScriptAssumption DEF Score
  <2>2. mid \in Store
    BY <1>2, <2>1, WriteEntry DEF ZRem
  <2>3. \A r \in Shard, n \in Member :
          mid.zset[r][n] = IF r = Target[c][m] /\ n = m THEN NoScore ELSE redis.zset[r][n]
    BY <1>2, <2>1, SetEntries DEF ZRem
  <2>4. redis' = ZSet(mid, Legacy, m, NoScore)
    BY <1>4 DEF RemoveEntry, ZRemMember, ZRem
  <2> HIDE DEF mid
  <2>5. \A r \in Shard, n \in Member :
          redis'.zset[r][n] = IF r = Legacy /\ n = m THEN NoScore ELSE mid.zset[r][n]
    BY <2>1, <2>2, <2>4, SetEntries
  <2>6. \A r \in Shard, n \in Member :
          /\ n # m => redis'.zset[r][n] = redis.zset[r][n]
          /\ redis'.zset[r][n] # NoScore => redis.zset[r][n] # NoScore
    BY <2>3, <2>5
  <2>7. Placed(redis')
    BY <1>2, <2>6, PlacedStep
  <2>8. ASSUME NEW v \in Worker, v \notin revoked', lease'[v] # NoLease
        PROVE  Survives(v)
    <3>1. lease' = lease /\ v \notin revoked /\ lease[v].member # m
      BY <1>4, <2>8 DEF RemoveEntry, Busy
    <3>2. lease[v] \in Lease
      BY <1>2, <2>8, <3>1, BusyLease DEF Busy
    <3>3. lease[v].queue \in Shard /\ lease[v].member \in Member
      BY <3>2 DEF Lease
    <3>4. LeaseHeld(redis', lease[v]) <=> LeaseHeld(redis, lease[v])
      BY <2>6, <3>1, <3>3 DEF LeaseHeld, ZScore
    <3>5. QED
      BY <3>1, <3>4 DEF Survives
  <2>9. {} \in SUBSET Worker /\ \A v \in Worker \ {} :
            v \notin revoked' /\ lease'[v] # NoLease => Survives(v)
    BY <2>8
  <2>10. now' \in Nat /\ now <= now' /\ \A w \in {} : FALSE
    BY <1>2, <1>4 DEF RemoveEntry
  <2>11. Fenced' /\ LeaseExclusive'
    BY <1>2, <2>9, <2>10, StepExclusive
  <2>12. QED
    BY <1>1, <2>7, <2>11 DEF Exclusive
<1>5. QED
  BY <1>3, <1>4

LEMMA BulkExclusive ==
    ASSUME Exclusive, NEW c \in Config,
           RefreshQueueHeads(c) \/ \E s \in Shard : RequeueAll(c, s)
    PROVE  Exclusive'
<1>1. Sound'
  BY BulkSound DEF Exclusive
<1>2. redis \in Store /\ now \in Nat /\ TypeOK /\ Fenced /\ LeaseExclusive /\ Placed(redis)
  BY DEF Exclusive, Sound, TypeOK
<1>3. CASE RefreshQueueHeads(c)
  <2>1. redis'.zset = redis.zset
    BY <1>2, <1>3 DEF RefreshQueueHeads, RefreshHeads, Store
  <2>2. now' \in Nat /\ now <= now' /\ lease' = lease /\ revoked \subseteq revoked'
    BY <1>2, <1>3 DEF RefreshQueueHeads
  <2>3. Fenced' /\ LeaseExclusive'
    BY <1>2, <2>1, <2>2, QuietExclusive
  <2>4. Placed(redis')
    BY <1>2, <2>1, PlacedStep
  <2>5. QED
    BY <1>1, <2>3, <2>4 DEF Exclusive
<1>4. ASSUME NEW s \in Shard, RequeueAll(c, s) PROVE Exclusive'
  <2>1. PICK t \in 0..now, i \in Interval, listed \in SUBSET Member :
          /\ Reading(t)
          /\ \E offset \in [listed -> 0..(i - 1)] :
               redis' = RequeueAllScript(redis, s, [m \in listed |-> Due(t + offset[m])])
    BY <1>4 DEF RequeueAll
  <2>2. PICK offset \in [listed -> 0..(i - 1)] :
          redis' = RequeueAllScript(redis, s, [m \in listed |-> Due(t + offset[m])])
    BY <2>1
  <2> DEFINE due == [m \in listed |-> Due(t + offset[m])]
  <2>3. t \in Nat /\ i \in Nat
    BY <2>1, QueueAssumption DEF Reading
  <2>4. \A m \in listed : t + offset[m] \in Nat
    BY <2>3
  <2>5. due \in [listed -> Nat]
    BY <2>4 DEF Due
  <2>6. \A m \in listed : ~IsLease(due[m])
    BY <2>4, DueIsNoLease
  <2>7. redis' = RequeueAllScript(redis, s, due)
    BY <2>2
  <2> HIDE DEF due
  <2>8. \A r \in Shard, n \in Member :
          redis'.zset[r][n] =
             IF /\ r = s /\ n \in listed
                /\ redis.zset[s][n] # NoScore /\ ~IsLease(redis.zset[s][n])
             THEN due[n] ELSE redis.zset[r][n]
    BY <1>2, <2>5, <2>7, RequeueAllEntries
  <2>9. \A r \in Shard, n \in Member :
          redis'.zset[r][n] # NoScore => redis.zset[r][n] # NoScore
    BY <2>8
  <2>10. Placed(redis')
    BY <1>2, <2>9, PlacedStep
  <2>11. \A r \in Shard, n \in Member, k \in Nat :
           redis'.zset[r][n] = LeaseScore(k) <=> redis.zset[r][n] = LeaseScore(k)
    BY <2>6, <2>8, MarkIsLease
  <2>12. now' \in Nat /\ now <= now' /\ lease' = lease /\ revoked \subseteq revoked'
    BY <1>2, <1>4 DEF RequeueAll
  <2>13. Fenced' /\ LeaseExclusive'
    BY <1>2, <2>11, <2>12, QuietExclusive
  <2>14. QED
    BY <1>1, <2>10, <2>13 DEF Exclusive
<1>5. QED
  BY <1>3, <1>4

-----------------------------------------------------------------------------
(* Claiming.                                                               *)

LEMMA PopExclusive ==
    ASSUME Exclusive, NEW w \in Worker, GetNextProxy(w)
    PROVE  Exclusive'
<1>1. Sound' /\ Good(redis)
  BY PopSound, SoundIsGood DEF Exclusive
<1>2. PICK t \in 0..now : \E r \in PopScript(redis, t) :
        /\ Reading(t)
        /\ LET p == r.st.payload[r.member]
           IN /\ redis' = r.st
              /\ lease' = [lease EXCEPT ![w] =
                    IF ~r.found THEN NoLease
                    ELSE [phase   |-> IF p.fmt = "old" THEN "candidate" ELSE "held",
                          member  |-> r.member,
                          token   |-> t + LeaseTime,
                          queue   |-> r.shard,
                          payload |-> p,
                          sched   |-> Floor(r.score)]]
  BY DEF GetNextProxy
<1>3. PICK r \in PopScript(redis, t) :
        /\ Reading(t)
        /\ redis' = r.st
        /\ lease' = [lease EXCEPT ![w] =
              IF ~r.found THEN NoLease
              ELSE [phase   |-> IF r.st.payload[r.member].fmt = "old" THEN "candidate" ELSE "held",
                    member  |-> r.member,
                    token   |-> t + LeaseTime,
                    queue   |-> r.shard,
                    payload |-> r.st.payload[r.member],
                    sched   |-> Floor(r.score)]]
  BY <1>2
<1> DEFINE x == IF ~r.found THEN NoLease
                ELSE [phase   |-> IF r.st.payload[r.member].fmt = "old" THEN "candidate" ELSE "held",
                      member  |-> r.member,
                      token   |-> t + LeaseTime,
                      queue   |-> r.shard,
                      payload |-> r.st.payload[r.member],
                      sched   |-> Floor(r.score)]
<1>4. t \in Nat /\ t <= now /\ now <= t + LeaseTime /\ now \in Nat /\ LeaseTime \in Nat
  BY <1>3, ReadingIsPresent, ScriptAssumption DEF Exclusive, Sound, TypeOK
<1>5. ScanOK(redis, t, r)
  BY <1>1, <1>4, PopKeeps
<1>6. /\ lease' = [lease EXCEPT ![w] = x] /\ now' = now /\ revoked \ {w} \subseteq revoked'
      /\ redis' = r.st
  BY <1>3 DEF GetNextProxy
<1>7. x # NoLease => r.found /\ x.member = r.member /\ x.token = t + LeaseTime /\ x.queue = r.shard
  OBVIOUS
<1> HIDE DEF x
<1>8. /\ r.found => /\ r.member \in Member /\ r.shard \in Shard
                    /\ redis.zset[r.shard][r.member] # NoScore
                    /\ redis.zset[r.shard][r.member] <= Due(t)
                    /\ redis'.zset[r.shard][r.member] = LeaseScore(t + LeaseTime)
      /\ \A s \in Shard, m \in Member :
           ~(r.found /\ s = r.shard /\ m = r.member) =>
              \/ redis'.zset[s][m] = redis.zset[s][m]
              \/ redis'.zset[s][m] = NoScore /\ redis.zset[s][m] <= Due(t)
  BY <1>5, <1>6 DEF ScanOK, ClaimOK, OthersKept, Claimed, Scans
<1>9. Placed(redis')
  <2>1. \A s \in Shard, m \in Member :
          redis'.zset[s][m] # NoScore => redis.zset[s][m] # NoScore
    BY <1>8
  <2>2. QED
    BY <2>1, PlacedStep DEF Exclusive
<1>10. ASSUME NEW v \in Worker \ {w}, v \notin revoked', lease[v] # NoLease
       PROVE  /\ LeaseHeld(redis', lease[v]) => LeaseHeld(redis, lease[v])
              /\ LeaseHeld(redis, lease[v]) =>
                   LeaseHeld(redis', lease[v]) \/ lease[v].token < now
              /\ r.found /\ lease[v].member = r.member => ~LeaseHeld(redis', lease[v])
  <2> DEFINE k == lease[v].token
             s == lease[v].queue
             m == lease[v].member
  <2>1. v \notin revoked
    BY <1>6, <1>10
  <2>2. /\ k \in Nat /\ s \in Shard /\ m \in Member
        /\ LeaseHeld(redis, lease[v]) \/ k < now
    BY <1>10, <2>1, ClaimFacts
  <2>3. /\ LeaseHeld(redis, lease[v]) <=> redis.zset[s][m] = LeaseScore(k)
        /\ LeaseHeld(redis', lease[v]) <=> redis'.zset[s][m] = LeaseScore(k)
    BY DEF LeaseHeld, ZScore
  <2>4. LeaseScore(k) # NoScore /\ (LeaseScore(k) <= Due(t) => k < now)
    BY <1>4, <2>2, MarkIsLease, MarkOrder DEF IsLease
  <2> HIDE DEF k, s, m
  <2>5. CASE r.found /\ s = r.shard /\ m = r.member
    <3>1. t + LeaseTime \in Nat
      BY <1>4
    <3>2. redis.zset[s][m] = LeaseScore(k) => k < now
      BY <1>8, <2>4, <2>5
    <3>3. k < now
      BY <2>2, <2>3, <3>2
    <3>4. k # t + LeaseTime
      BY <1>4, <2>2, <3>3
    <3>5. redis'.zset[s][m] # LeaseScore(k)
      BY <1>8, <2>2, <2>5, <3>1, <3>4, MarkOrder
    <3>6. QED
      BY <2>3, <3>3, <3>5 DEF k
  <2>6. CASE ~(r.found /\ s = r.shard /\ m = r.member)
    <3>1. \/ redis'.zset[s][m] = redis.zset[s][m]
          \/ redis'.zset[s][m] = NoScore /\ redis.zset[s][m] <= Due(t)
      BY <1>8, <2>2, <2>6
    <3>2. LeaseHeld(redis', lease[v]) => LeaseHeld(redis, lease[v])
      BY <2>3, <2>4, <3>1
    <3>3. LeaseHeld(redis, lease[v]) => LeaseHeld(redis', lease[v]) \/ k < now
      BY <2>3, <2>4, <3>1
    <3>4. ASSUME r.found, m = r.member, LeaseHeld(redis', lease[v]) PROVE FALSE
      <4>1. redis'.zset[s][m] # NoScore /\ redis'.zset[r.shard][m] # NoScore
        BY <1>4, <1>8, <2>3, <2>4, <3>4, MarkIsLease DEF IsLease
      <4>2. s = r.shard
        BY <1>8, <1>9, <2>2, <3>4, <4>1 DEF Placed, Single
      <4>3. QED
        BY <2>6, <3>4, <4>2
    <3>5. QED
      BY <3>2, <3>3, <3>4 DEF k, m
  <2>7. QED
    BY <2>5, <2>6
<1>11. x # NoLease => LeaseHeld(redis', x)
  BY <1>7, <1>8 DEF LeaseHeld, ZScore
<1>12. \A v \in Worker \ {w} : v \notin revoked' /\ lease[v] # NoLease =>
         /\ LeaseHeld(redis', lease[v]) => LeaseHeld(redis, lease[v])
         /\ LeaseHeld(redis, lease[v]) =>
              LeaseHeld(redis', lease[v]) \/ lease[v].token < now
  BY <1>10
<1>13. x # NoLease => \A v \in Worker \ {w} :
         v \notin revoked' /\ lease[v] # NoLease /\ LeaseHeld(redis', lease[v])
            => lease[v].member # x.member
  BY <1>7, <1>10
<1>14. Fenced' /\ LeaseExclusive'
  BY <1>6, <1>11, <1>12, <1>13, WorkerExclusive
<1>15. QED
  BY <1>1, <1>9, <1>14 DEF Exclusive

-----------------------------------------------------------------------------
(* A worker's steps on its own claim.                                      *)

\* Another worker's claim on the same member that such a step does not revoke
\* was lost before.
LEMMA Rivals ==
    ASSUME Exclusive, NEW w \in Worker, NEW v \in Worker \ {w}, Displaced(w) \subseteq revoked',
           v \notin revoked, v \notin revoked', lease[v] # NoLease,
           lease[v].member = lease[w].member
    PROVE  ~LeaseHeld(redis, lease[v]) /\ lease[v].token < now
<1>1. v \notin Displaced(w)
  OBVIOUS
<1>2. ~Current(v)
  BY <1>1 DEF Displaced
<1>3. QED
  BY <1>2, ClaimFacts

\* The step writes entries of the claimed member only, and no mark of the past.
LEMMA OwnMember ==
    ASSUME Exclusive, NEW w \in Worker, NEW x, lease' = [lease EXCEPT ![w] = x],
           now' = now, revoked \ {w} \subseteq revoked', Displaced(w) \subseteq revoked',
           \A s \in Shard, n \in Member :
              n # lease[w].member => redis'.zset[s][n] = redis.zset[s][n],
           \A s \in Shard, k \in Nat :
              k < now /\ redis'.zset[s][lease[w].member] = LeaseScore(k)
                 => redis.zset[s][lease[w].member] = LeaseScore(k),
           x # NoLease => x.member = lease[w].member /\ LeaseHeld(redis', x)
    PROVE  Fenced' /\ LeaseExclusive'
<1>1. ASSUME NEW v \in Worker \ {w}, v \notin revoked', lease[v] # NoLease
      PROVE  /\ LeaseHeld(redis', lease[v]) => LeaseHeld(redis, lease[v])
             /\ LeaseHeld(redis, lease[v]) =>
                  LeaseHeld(redis', lease[v]) \/ lease[v].token < now
             /\ lease[v].member = lease[w].member => ~LeaseHeld(redis', lease[v])
  <2>1. v \notin revoked
    BY <1>1
  <2>2. lease[v].token \in Nat /\ lease[v].queue \in Shard /\ lease[v].member \in Member
    BY <1>1, <2>1, ClaimFacts
  <2>3. CASE lease[v].member # lease[w].member
    BY <2>2, <2>3 DEF LeaseHeld, ZScore
  <2>4. CASE lease[v].member = lease[w].member
    <3>1. ~LeaseHeld(redis, lease[v]) /\ lease[v].token < now
      BY <1>1, <2>1, <2>4, Rivals
    <3>2. ~LeaseHeld(redis', lease[v])
      BY <2>2, <2>4, <3>1 DEF LeaseHeld, ZScore
    <3>3. QED
      BY <3>1, <3>2
  <2>5. QED
    BY <2>3, <2>4
<1>2. \A v \in Worker \ {w} : v \notin revoked' /\ lease[v] # NoLease =>
         /\ LeaseHeld(redis', lease[v]) => LeaseHeld(redis, lease[v])
         /\ LeaseHeld(redis, lease[v]) =>
              LeaseHeld(redis', lease[v]) \/ lease[v].token < now
  BY <1>1
<1>3. x # NoLease => \A v \in Worker \ {w} :
         v \notin revoked' /\ lease[v] # NoLease /\ LeaseHeld(redis', lease[v])
            => lease[v].member # x.member
  BY <1>1
<1>4. QED
  BY <1>2, <1>3, WorkerExclusive

\* The same for a step that ends the claim.
LEMMA OwnMemberEnds ==
    ASSUME Exclusive, NEW w \in Worker, lease' = [lease EXCEPT ![w] = NoLease],
           now' = now, revoked \ {w} \subseteq revoked', Displaced(w) \subseteq revoked',
           \A s \in Shard, n \in Member :
              n # lease[w].member => redis'.zset[s][n] = redis.zset[s][n],
           \A s \in Shard, k \in Nat :
              redis'.zset[s][lease[w].member] = LeaseScore(k)
                 => redis.zset[s][lease[w].member] = LeaseScore(k)
    PROVE  Fenced' /\ LeaseExclusive'
<1> DEFINE x == NoLease
<1>1. x # NoLease => x.member = lease[w].member /\ LeaseHeld(redis', x)
  OBVIOUS
<1>2. lease' = [lease EXCEPT ![w] = x]
  OBVIOUS
<1> HIDE DEF x
<1>3. \A s \in Shard, k \in Nat :
         k < now /\ redis'.zset[s][lease[w].member] = LeaseScore(k)
            => redis.zset[s][lease[w].member] = LeaseScore(k)
  OBVIOUS
<1>4. QED
  BY <1>1, <1>2, <1>3, OwnMember

LEMMA LoseLeaseExclusive ==
    ASSUME Exclusive, NEW w \in Worker, LoseLease(w)
    PROVE  Exclusive'
<1>1. Sound' /\ Placed(redis')
  BY LoseLeaseSound DEF Exclusive, LoseLease, Placed, Single, Known
<1>2. /\ lease' = [lease EXCEPT ![w] = NoLease] /\ now' = now /\ redis' = redis
      /\ revoked \ {w} \subseteq revoked'
  BY DEF LoseLease
<1>3. Fenced' /\ LeaseExclusive'
  BY <1>2, WorkerExclusive
<1>4. QED
  BY <1>1, <1>3 DEF Exclusive

LEMMA RenewExclusive ==
    ASSUME Exclusive, NEW w \in Worker, RenewLease(w)
    PROVE  Exclusive'
<1> DEFINE l == lease[w]
<1>1. Sound' /\ TypeOK /\ redis \in Store
  BY RenewSound DEF Exclusive, Sound, TypeOK
<1>2. l \in Lease /\ l.member \in Member /\ l.queue \in Shard
  BY <1>1, BusyLease DEF RenewLease, Lease
<1>3. PICK t \in 0..now :
        /\ Reading(t)
        /\ \/ /\ Renewable(redis, l, t)
              /\ redis' = RenewScript(redis, l, t)
              /\ lease' = [lease EXCEPT ![w].token = t + LeaseTime]
              /\ revoked' = revoked \cup Displaced(w)
              /\ UNCHANGED <<now, removing>>
           \/ LoseLease(w)
  BY DEF RenewLease
<1>4. CASE LoseLease(w)
  BY <1>4, LoseLeaseExclusive
<1>5. CASE /\ Renewable(redis, l, t)
           /\ redis' = RenewScript(redis, l, t)
           /\ lease' = [lease EXCEPT ![w].token = t + LeaseTime]
           /\ revoked' = revoked \cup Displaced(w)
           /\ UNCHANGED <<now, removing>>
  <2> DEFINE x == [l EXCEPT !.token = t + LeaseTime]
             mark == LeaseScore(t + LeaseTime)
  <2>1. t + LeaseTime \in Nat /\ now <= t + LeaseTime /\ now \in Nat
    BY <1>1, <1>3, ReadingIsPresent, ScriptAssumption DEF TypeOK
  <2>2. mark \in Score
    BY <2>1 DEF LeaseScore, Score
  <2>3. x.member = l.member /\ x.queue = l.queue /\ x.token = t + LeaseTime
    BY <1>2 DEF Lease
  <2>4. lease' = [lease EXCEPT ![w] = x]
    BY <1>1, <1>5 DEF TypeOK
  <2>5. redis' = ZSet(redis, l.queue, l.member, mark)
    BY <1>5 DEF RenewScript
  <2> HIDE DEF x, mark
  <2>6. \A s \in Shard, n \in Member :
          redis'.zset[s][n] = IF s = l.queue /\ n = l.member THEN mark ELSE redis.zset[s][n]
    BY <1>1, <1>2, <2>2, <2>5, SetEntries
  <2>7. redis.zset[l.queue][l.member] # NoScore
    <3>1. redis.zset[l.queue][l.member] = LeaseScore(l.token) /\ l.token \in Nat
      BY <1>2, <1>5 DEF Renewable, LeaseHeld, ZScore, Lease
    <3>2. QED
      BY <3>1, MarkIsLease DEF IsLease
  <2>8. \A s \in Shard, n \in Member :
          redis'.zset[s][n] # NoScore => redis.zset[s][n] # NoScore
    BY <2>6, <2>7
  <2>9. Placed(redis')
    BY <2>8, PlacedStep DEF Exclusive
  <2>10. LeaseHeld(redis', x)
    BY <1>2, <2>3, <2>6 DEF LeaseHeld, ZScore, mark
  <2>11. ASSUME NEW s \in Shard, NEW k \in Nat, k < now,
                redis'.zset[s][l.member] = LeaseScore(k)
         PROVE  redis.zset[s][l.member] = LeaseScore(k)
    <3>1. mark # LeaseScore(k)
      BY <2>1, <2>11, MarkOrder DEF mark
    <3>2. QED
      BY <1>2, <2>6, <2>11, <3>1
  <2>12. now' = now /\ revoked \ {w} \subseteq revoked' /\ Displaced(w) \subseteq revoked'
    BY <1>5
  <2>13. Fenced' /\ LeaseExclusive'
    BY <2>3, <2>4, <2>6, <2>10, <2>11, <2>12, OwnMember
  <2>14. QED
    BY <1>1, <2>9, <2>13 DEF Exclusive
<1>6. QED
  BY <1>3, <1>4, <1>5

LEMMA RequeueExclusive ==
    ASSUME UniformShards, Exclusive, NEW w \in Worker, NEW c \in Config, RequeueProxy(w, c)
    PROVE  Exclusive'
<1> DEFINE l == lease[w]
           m == l.member
           q == Target[c][m]
<1>1. Sound' /\ TypeOK /\ redis \in Store
  BY RequeueSound DEF Exclusive, Sound, TypeOK
<1>2. /\ l \in Lease /\ l.sched \in Nat /\ l.payload.owners \in SUBSET Workspace
      /\ m \in Member /\ l.queue \in Shard /\ q \in Shard /\ l.token \in Nat
      /\ q \in PopKeys[c]
  BY <1>1, BusyLease, ScriptAssumption DEF RequeueProxy, Lease, Payload
<1>3. PICK t \in 0..now, i \in Interval, changed \in BOOLEAN, tag \in Tag,
           owners \in SUBSET l.payload.owners :
        /\ Reading(t)
        /\ redis' = CompleteScript(redis, c, l,
                        Due((IF t > l.sched THEN t ELSE l.sched) + i), changed,
                        [owners |-> owners, fmt |-> "current", tag |-> tag])
  BY DEF RequeueProxy
<1> DEFINE next == Due((IF t > l.sched THEN t ELSE l.sched) + i)
<1>4. (IF t > l.sched THEN t ELSE l.sched) + i \in Nat
  BY <1>2, <1>3, QueueAssumption DEF Reading
<1>5. next \in Nat
  BY <1>4 DEF Due
<1>6. ~IsLease(next)
  BY <1>4, DueIsNoLease
<1> HIDE DEF next
<1> DEFINE after == [owners |-> owners, fmt |-> "current", tag |-> tag]
<1>7. /\ after \in Payload
      /\ redis' = CompleteScript(redis, c, l, next, changed, after)
  BY <1>2, <1>3 DEF Payload, next
<1> HIDE DEF after
<1>8. \A s \in Shard, n \in Member :
        redis'.zset[s][n] =
           IF n # m THEN redis.zset[s][n]
           ELSE IF s = q THEN next
           ELSE IF s \in {l.queue, Legacy} THEN NoScore ELSE redis.zset[s][n]
  BY <1>1, <1>2, <1>5, <1>7, CompleteEntries
<1>9. redis.zset[l.queue][m] # NoScore
  <2>1. redis.zset[l.queue][m] = LeaseScore(l.token)
    BY DEF RequeueProxy, LeaseHeld, ZScore
  <2>2. QED
    BY <1>2, <2>1, MarkIsLease DEF IsLease
<1> HIDE DEF q
<1>10. \A s \in Shard : redis'.zset[s][m] # NoScore => s = q
  <2>1. \A s \in Shard : redis.zset[s][m] # NoScore => s = l.queue
    BY <1>2, <1>9 DEF Exclusive, Placed, Single
  <2>2. QED
    BY <1>2, <1>8, <2>1
<1>11. Placed(redis')
  <2>1. \A d \in Config : q \in PopKeys[d]
    BY <1>2 DEF UniformShards
  <2>2. ASSUME NEW n \in Member
        PROVE  \/ \A s \in Shard : redis'.zset[s][n] # NoScore => redis.zset[s][n] # NoScore
               \/ \E r \in Shard : /\ \A d \in Config : r \in PopKeys[d]
                                   /\ \A s \in Shard : redis'.zset[s][n] # NoScore => s = r
    BY <1>2, <1>8, <1>10, <2>1
  <2>3. QED
    BY <2>2, PlacedStep DEF Exclusive
<1>12. \A s \in Shard, k \in Nat : redis'.zset[s][m] # LeaseScore(k)
  BY <1>2, <1>6, <1>8, <1>10, MarkIsLease DEF IsLease
<1>13. /\ lease' = [lease EXCEPT ![w] = NoLease] /\ now' = now
       /\ revoked \ {w} \subseteq revoked' /\ Displaced(w) \subseteq revoked'
  BY DEF RequeueProxy
<1>14. /\ \A s \in Shard, n \in Member :
             n # lease[w].member => redis'.zset[s][n] = redis.zset[s][n]
       /\ \A s \in Shard, k \in Nat :
             redis'.zset[s][lease[w].member] = LeaseScore(k)
                => redis.zset[s][lease[w].member] = LeaseScore(k)
  BY <1>8, <1>12
<1>15. Fenced' /\ LeaseExclusive'
  BY <1>13, <1>14, OwnMemberEnds
<1>16. QED
  BY <1>1, <1>11, <1>15 DEF Exclusive

LEMMA RemoveLeasedExclusive ==
    ASSUME Exclusive, NEW w \in Worker, RemoveLeased(w)
    PROVE  Exclusive'
<1> DEFINE l == lease[w]
           bare == SetPayload(redis, l.member, NoPayload)
           mid == ZRem(bare, l.queue, l.member)
<1>1. Sound' /\ TypeOK /\ redis \in Store
  BY RemoveLeasedSound DEF Exclusive, Sound, TypeOK
<1>2. l.member \in Member /\ l.queue \in Shard /\ Legacy \in Shard /\ NoScore \in Score
  BY <1>1, BusyLease, ScriptAssumption DEF RemoveLeased, Lease, Score
<1>3. bare \in Store /\ bare.zset = redis.zset
  BY <1>1, <1>2 DEF SetPayload, Store
<1>4. redis' = ZSet(mid, Legacy, l.member, NoScore)
  BY DEF RemoveLeased, RemoveScript, ZRem
<1> HIDE DEF bare
<1>5. mid \in Store
  BY <1>2, <1>3, WriteEntry DEF ZRem
<1>6. \A s \in Shard, n \in Member :
        mid.zset[s][n] = IF s = l.queue /\ n = l.member THEN NoScore ELSE redis.zset[s][n]
  BY <1>2, <1>3, SetEntries DEF ZRem
<1> HIDE DEF mid
<1>7. \A s \in Shard, n \in Member :
        redis'.zset[s][n] = IF s = Legacy /\ n = l.member THEN NoScore ELSE mid.zset[s][n]
  BY <1>2, <1>4, <1>5, SetEntries
<1>8. \A s \in Shard, n \in Member :
        /\ n # l.member => redis'.zset[s][n] = redis.zset[s][n]
        /\ redis'.zset[s][n] = NoScore \/ redis'.zset[s][n] = redis.zset[s][n]
  BY <1>6, <1>7
<1>9. Placed(redis')
  BY <1>8, PlacedStep DEF Exclusive
<1>10. \A s \in Shard, k \in Nat :
         redis'.zset[s][l.member] = LeaseScore(k) => redis.zset[s][l.member] = LeaseScore(k)
  BY <1>2, <1>8, MarkIsLease DEF IsLease
<1>11. /\ lease' = [lease EXCEPT ![w] = NoLease] /\ now' = now
       /\ revoked \ {w} \subseteq revoked' /\ Displaced(w) \subseteq revoked'
  BY DEF RemoveLeased
<1>12. Fenced' /\ LeaseExclusive'
  BY <1>8, <1>10, <1>11, OwnMemberEnds
<1>13. QED
  BY <1>1, <1>9, <1>12 DEF Exclusive

-----------------------------------------------------------------------------
(* Migration of a candidate.                                               *)

\* Where MoveAlias leaves the alias and the current hash.
LEMMA MovePlaces ==
    ASSUME UniformShards, NEW st \in Store, Placed(st), NEW c \in Config, NEW l \in Lease,
           NEW t \in Nat, NEW p \in Payload, Canonical[l.member] # l.member
    PROVE  LET m == Canonical[l.member]
               owned == MigrateOwned(st, c, l, t)
               new == MoveAlias(st, c, l, t, p)
           IN /\ \A s \in Shard : new.zset[s][l.member] = NoScore
              /\ \A s \in Shard, n \in Member :
                   n \notin {l.member, m} => new.zset[s][n] = st.zset[s][n]
              /\ owned = {} => \A s \in Shard :
                   new.zset[s][m] = IF s = Target[c][m] THEN LeaseScore(l.token) ELSE NoScore
              /\ owned # {} => \A s \in Shard : new.zset[s][m] = st.zset[s][m]
              /\ Placed(new)
<1> DEFINE m == Canonical[l.member]
           owned == MigrateOwned(st, c, l, t)
           q == IF owned = {} THEN Target[c][m] ELSE CHOOSE s \in owned : TRUE
           keys == MigrateShards(c, l)
           new == MoveAlias(st, c, l, t, p)
<1>1. /\ l.member \in Member /\ m \in Member /\ m # l.member
      /\ PopKeys[c] \subseteq keys /\ Target[c][m] \in Shard /\ Target[c][m] \in PopKeys[c]
  BY ScriptAssumption DEF Lease, MigrateShards
<1>2. \A s \in Shard, n \in Member :
        new.zset[s][n] =
           IF s \notin keys \/ n \notin {l.member, m} THEN st.zset[s][n]
           ELSE IF n # m THEN NoScore
           ELSE IF s # q THEN NoScore
           ELSE IF owned = {} THEN LeaseScore(l.token) ELSE st.zset[s][n]
  BY MoveEntries
<1>3. \A s \in Shard, n \in Member : s \notin keys => st.zset[s][n] = NoScore
  BY <1>1 DEF Placed, Known
<1>4. owned # {} => /\ q \in owned
                    /\ q \in Shard /\ q \in keys
                    /\ IsLease(st.zset[q][m]) /\ st.zset[q][m] # NoScore
  <2>1. \A s \in owned : /\ s \in keys /\ s \in Shard
                         /\ IsLease(st.zset[s][m]) /\ st.zset[s][m] # NoScore
    BY ScriptAssumption DEF MigrateOwned, LiveLease, IsLease, ZScore, MigrateShards, Lease
  <2>2. owned # {} => q \in owned
    OBVIOUS
  <2>3. QED
    BY <2>1, <2>2
<1>5. owned = {} => q = Target[c][m]
  OBVIOUS
<1> HIDE DEF owned, q, keys, new, m
<1>6. \A s \in Shard : new.zset[s][l.member] = NoScore
  BY <1>1, <1>2, <1>3
<1>7. \A s \in Shard, n \in Member : n \notin {l.member, m} => new.zset[s][n] = st.zset[s][n]
  BY <1>2
<1>8. owned = {} => \A s \in Shard :
        new.zset[s][m] = IF s = Target[c][m] THEN LeaseScore(l.token) ELSE NoScore
  BY <1>1, <1>2, <1>3, <1>5
<1>9. owned # {} => \A s \in Shard : new.zset[s][m] = st.zset[s][m]
  <2>1. owned # {} => \A s \in Shard \ {q} : st.zset[s][m] = NoScore
    BY <1>1, <1>4 DEF Placed, Single
  <2>2. QED
    BY <1>1, <1>2, <1>3, <1>4, <2>1
<1>10. Placed(new)
  <2>1. \A d \in Config : Target[c][m] \in PopKeys[d]
    BY <1>1 DEF UniformShards
  <2>2. ASSUME NEW n \in Member
        PROVE  \/ \A s \in Shard : new.zset[s][n] # NoScore => st.zset[s][n] # NoScore
               \/ \E r \in Shard : /\ \A d \in Config : r \in PopKeys[d]
                                   /\ \A s \in Shard : new.zset[s][n] # NoScore => s = r
    BY <1>1, <1>6, <1>7, <1>8, <1>9, <2>1
  <2>3. QED
    BY <2>2, PlacedStep
<1>11. QED
  BY <1>6, <1>7, <1>8, <1>9, <1>10 DEF owned, new, m

LEMMA RefusedExclusive ==
    ASSUME UniformShards, Exclusive, NEW w \in Worker, NEW c \in Config, MigrateRefused(w, c)
    PROVE  Exclusive'
<1> DEFINE l == lease[w]
<1>1. Sound' /\ TypeOK /\ redis \in Store /\ Placed(redis)
  BY RefusedSound DEF Exclusive, Sound, TypeOK
<1>2. /\ l \in Lease /\ l.payload \in Payload /\ l.member \in Member /\ l.queue \in Shard
      /\ l.token \in Nat
  BY <1>1, BusyLease DEF MigrateRefused, Lease
<1>3. PICK t \in 0..now, tag \in Tag :
        /\ Reading(t)
        /\ \/ UNCHANGED redis
           \/ Renewable(redis, l, t) /\ redis' = ReleaseCandidate(redis, l, t)
           \/ /\ Canonical[l.member] # l.member
              /\ MigrateOwned(redis, c, l, t) # {}
              /\ redis' = MoveAlias(redis, c, l, t, Normalized(l.payload, tag))
  BY DEF MigrateRefused
<1>4. t \in Nat /\ Normalized(l.payload, tag) \in Payload
  BY <1>2, <1>3, NormalizedType DEF Reading
<1>5. /\ lease' = [lease EXCEPT ![w] = NoLease] /\ now' = now
      /\ revoked \ {w} \subseteq revoked' /\ Displaced(w) \subseteq revoked'
  BY DEF MigrateRefused
<1>6. CASE UNCHANGED redis
  <2>1. Placed(redis')
    BY <1>1, <1>6, PlacedStep
  <2>2. Fenced' /\ LeaseExclusive'
    BY <1>5, <1>6, OwnMemberEnds
  <2>3. QED
    BY <1>1, <2>1, <2>2 DEF Exclusive
<1>7. CASE Renewable(redis, l, t) /\ redis' = ReleaseCandidate(redis, l, t)
  <2> DEFINE score == IF redis.payload[l.member] = NoPayload THEN NoScore ELSE Due(t)
  <2>1. score \in Score /\ ~IsLease(score)
    <3>1. Due(t) \in Score /\ NoScore \in Score
      BY <1>4 DEF Due, Score
    <3>2. QED
      BY <1>4, <3>1, DueIsNoLease, NoScoreIsNoLease
  <2>2. redis' = RefreshHead(ZSet(redis, l.queue, l.member, score), l.queue)
    BY <1>7 DEF ReleaseCandidate
  <2> HIDE DEF score
  <2>3. \A s \in Shard, n \in Member :
          redis'.zset[s][n] = IF s = l.queue /\ n = l.member THEN score ELSE redis.zset[s][n]
    BY <1>1, <1>2, <2>1, <2>2, SetEntries
  <2>4. redis.zset[l.queue][l.member] # NoScore
    <3>1. redis.zset[l.queue][l.member] = LeaseScore(l.token)
      BY <1>7 DEF Renewable, LeaseHeld, ZScore
    <3>2. QED
      BY <1>2, <3>1, MarkIsLease DEF IsLease
  <2>5. Placed(redis')
    BY <1>1, <2>3, <2>4, PlacedStep
  <2>6. \A s \in Shard, n \in Member :
          n # lease[w].member => redis'.zset[s][n] = redis.zset[s][n]
    BY <2>3
  <2>7. \A s \in Shard, k \in Nat :
          redis'.zset[s][lease[w].member] = LeaseScore(k)
             => redis.zset[s][lease[w].member] = LeaseScore(k)
    BY <1>2, <2>1, <2>3, MarkIsLease
  <2>8. Fenced' /\ LeaseExclusive'
    BY <1>5, <2>6, <2>7, OwnMemberEnds
  <2>9. QED
    BY <1>1, <2>5, <2>8 DEF Exclusive
<1>8. CASE /\ Canonical[l.member] # l.member
           /\ MigrateOwned(redis, c, l, t) # {}
           /\ redis' = MoveAlias(redis, c, l, t, Normalized(l.payload, tag))
  <2>1. /\ \A s \in Shard : redis'.zset[s][l.member] = NoScore
        /\ \A s \in Shard, n \in Member :
             n # lease[w].member => redis'.zset[s][n] = redis.zset[s][n]
        /\ Placed(redis')
    BY <1>1, <1>2, <1>4, <1>8, MovePlaces
  <2>2. \A s \in Shard, k \in Nat :
          redis'.zset[s][lease[w].member] = LeaseScore(k)
             => redis.zset[s][lease[w].member] = LeaseScore(k)
    BY <2>1, MarkIsLease DEF IsLease
  <2>3. Fenced' /\ LeaseExclusive'
    BY <1>5, <2>1, <2>2, OwnMemberEnds
  <2>4. QED
    BY <1>1, <2>1, <2>3 DEF Exclusive
<1>9. QED
  BY <1>3, <1>6, <1>7, <1>8

LEMMA ClaimedExclusive ==
    ASSUME UniformShards, Exclusive, NEW w \in Worker, NEW c \in Config, MigrateClaimed(w, c)
    PROVE  Exclusive'
<1> DEFINE l == lease[w]
           m == Canonical[l.member]
<1>1. Sound' /\ TypeOK /\ redis \in Store /\ Placed(redis) /\ now \in Nat
  BY ClaimedSound DEF Exclusive, Sound, TypeOK
<1>2. /\ l \in Lease /\ l.payload \in Payload /\ l.member \in Member /\ l.queue \in Shard
      /\ l.token \in Nat /\ m \in Member /\ Target[c][m] \in Shard
  BY <1>1, BusyLease, ScriptAssumption DEF MigrateClaimed, Lease
<1>3. PICK t \in 0..now, tag \in Tag :
        /\ Reading(t)
        /\ Removable(redis, l) /\ l.token > t
        /\ \/ /\ m = l.member
              /\ redis' = SetPayload(redis, m, Normalized(l.payload, tag))
              /\ lease' = [lease EXCEPT ![w].phase = "held",
                                        ![w].payload = Normalized(l.payload, tag)]
           \/ /\ m # l.member
              /\ MigrateOwned(redis, c, l, t) = {}
              /\ redis' = MoveAlias(redis, c, l, t, Normalized(l.payload, tag))
              /\ lease' = [lease EXCEPT ![w] =
                    [@ EXCEPT !.phase = "held", !.member = m,
                              !.queue = Target[c][m],
                              !.payload = redis'.payload[m]]]
  BY DEF MigrateClaimed
<1> DEFINE p == Normalized(l.payload, tag)
<1>4. t \in Nat /\ p \in Payload /\ t <= now /\ now <= l.token
  BY <1>1, <1>2, <1>3, NormalizedType, ReadingIsPresent
<1> HIDE DEF p
<1>5. /\ now' = now /\ revoked \ {w} \subseteq revoked' /\ Displaced(w) \subseteq revoked'
  BY DEF MigrateClaimed
<1>6. CASE m = l.member
  <2> DEFINE x == [l EXCEPT !.phase = "held", !.payload = p]
  <2>1. redis'.zset = redis.zset
    <3>1. redis' = SetPayload(redis, m, p)
      BY <1>3, <1>6 DEF p
    <3>2. QED
      BY <1>1, <3>1 DEF SetPayload, Store
  <2>2. lease' = [lease EXCEPT ![w] = x]
    BY <1>1, <1>2, <1>3, <1>6 DEF p, Lease, TypeOK
  <2>3. x.member = l.member /\ x.queue = l.queue /\ x.token = l.token
    BY <1>2 DEF Lease
  <2> HIDE DEF x
  <2>4. LeaseHeld(redis', x)
    BY <1>3, <2>1, <2>3 DEF Removable, LeaseHeld, ZScore
  <2>5. Placed(redis')
    BY <1>1, <2>1, PlacedStep
  <2>6. Fenced' /\ LeaseExclusive'
    BY <1>5, <2>1, <2>2, <2>3, <2>4, OwnMember
  <2>7. QED
    BY <1>1, <2>5, <2>6 DEF Exclusive
<1>7. CASE m # l.member
  <2> DEFINE x == [l EXCEPT !.phase = "held", !.member = m, !.queue = Target[c][m],
                            !.payload = redis'.payload[m]]
  <2>1. lease' = [lease EXCEPT ![w] = x]
    BY <1>1, <1>3, <1>7 DEF TypeOK
  <2>2. x.member = m /\ x.queue = Target[c][m] /\ x.token = l.token
    BY <1>2 DEF Lease
  <2> HIDE DEF x
  <2>3. redis' = MoveAlias(redis, c, l, t, p) /\ MigrateOwned(redis, c, l, t) = {}
    BY <1>3, <1>7 DEF p
  <2>4. /\ \A s \in Shard : redis'.zset[s][l.member] = NoScore
        /\ \A s \in Shard, n \in Member :
             n \notin {l.member, m} => redis'.zset[s][n] = redis.zset[s][n]
        /\ \A s \in Shard :
             redis'.zset[s][m] = IF s = Target[c][m] THEN LeaseScore(l.token) ELSE NoScore
        /\ Placed(redis')
    BY <1>1, <1>2, <1>4, <1>7, <2>3, MovePlaces
  <2>5. LeaseHeld(redis', x)
    BY <1>2, <2>2, <2>4 DEF LeaseHeld, ZScore
  <2>6. ASSUME NEW v \in Worker \ {w}, v \notin revoked', lease[v] # NoLease
        PROVE  /\ LeaseHeld(redis', lease[v]) => LeaseHeld(redis, lease[v])
               /\ LeaseHeld(redis, lease[v]) =>
                    LeaseHeld(redis', lease[v]) \/ lease[v].token < now
               /\ lease[v].member = m => ~LeaseHeld(redis', lease[v])
    <3> DEFINE k == lease[v].token
               s == lease[v].queue
               n == lease[v].member
    <3>1. v \notin revoked
      BY <1>5, <2>6
    <3>2. /\ k \in Nat /\ s \in Shard /\ n \in Member
          /\ LeaseHeld(redis, lease[v]) \/ k < now
      BY <2>6, <3>1, ClaimFacts
    <3>3. /\ LeaseHeld(redis, lease[v]) <=> redis.zset[s][n] = LeaseScore(k)
          /\ LeaseHeld(redis', lease[v]) <=> redis'.zset[s][n] = LeaseScore(k)
      BY DEF LeaseHeld, ZScore
    <3>4. IsLease(LeaseScore(k)) /\ LeaseScore(k) # NoScore
      BY <3>2, MarkIsLease DEF IsLease
    <3>5. CASE n = l.member
      <4>1. k < now
        BY <1>5, <2>6, <3>1, <3>5, Rivals
      <4>2. QED
        BY <1>7, <2>4, <3>2, <3>3, <3>4, <3>5, <4>1
    <3>6. CASE n = m
      <4>1. redis.zset[s][m] = LeaseScore(k) => k < t
        <5>1. ASSUME redis.zset[s][m] = LeaseScore(k) PROVE s \in MigrateShards(c, l)
          BY <1>1, <1>2, <3>2, <3>4, <5>1 DEF Placed, Known, MigrateShards
        <5>2. ASSUME redis.zset[s][m] = LeaseScore(k) PROVE ~(LeaseScore(k) > Due(t))
          BY <2>3, <3>4, <5>1, <5>2 DEF MigrateOwned, LiveLease, ZScore
        <5>3. LeaseScore(k) > Due(t) <=> k >= t
          BY <1>4, <3>2, MarkOrder
        <5> HIDE DEF k
        <5>4. QED
          BY <1>4, <3>2, <5>2, <5>3
      <4>2. k < now
        BY <1>1, <1>4, <3>2, <3>3, <3>6, <4>1
      <4>3. LeaseScore(k) # LeaseScore(l.token)
        BY <1>1, <1>2, <1>4, <3>2, <4>2, MarkOrder
      <4>4. redis'.zset[s][m] # LeaseScore(k)
        BY <2>4, <3>2, <3>4, <4>3
      <4>5. QED
        BY <3>3, <3>6, <4>2, <4>4
    <3>7. CASE n \notin {l.member, m}
      BY <2>4, <3>2, <3>3, <3>7
    <3>8. QED
      BY <3>5, <3>6, <3>7
  <2>7. \A v \in Worker \ {w} : v \notin revoked' /\ lease[v] # NoLease =>
          /\ LeaseHeld(redis', lease[v]) => LeaseHeld(redis, lease[v])
          /\ LeaseHeld(redis, lease[v]) =>
               LeaseHeld(redis', lease[v]) \/ lease[v].token < now
    BY <2>6
  <2>8. \A v \in Worker \ {w} :
          v \notin revoked' /\ lease[v] # NoLease /\ LeaseHeld(redis', lease[v])
             => lease[v].member # x.member
    BY <2>2, <2>6
  <2>9. Fenced' /\ LeaseExclusive'
    BY <1>5, <2>1, <2>5, <2>7, <2>8, WorkerExclusive
  <2>10. QED
    BY <1>1, <2>4, <2>9 DEF Exclusive
<1>8. QED
  BY <1>6, <1>7

-----------------------------------------------------------------------------
(* The theorems.                                                           *)

LEMMA EnvironmentExclusive ==
    ASSUME Exclusive, Tick \/ LoseRedis \/ UNCHANGED vars
    PROVE  Exclusive'
<1>1. Sound' /\ TypeOK /\ now \in Nat /\ Fenced /\ LeaseExclusive /\ Placed(redis)
  BY EnvironmentSound DEF Exclusive, Sound, TypeOK
<1>2. CASE Tick \/ UNCHANGED vars
  <2>1. redis' = redis /\ lease' = lease /\ revoked' = revoked /\ now' \in Nat /\ now <= now'
    BY <1>1, <1>2 DEF Tick, vars
  <2>2. Fenced' /\ LeaseExclusive'
    BY <1>1, <2>1, QuietExclusive
  <2>3. Placed(redis')
    BY <1>1, <2>1, PlacedStep
  <2>4. QED
    BY <1>1, <2>2, <2>3 DEF Exclusive
<1>3. CASE LoseRedis
  <2>1. \A s \in Shard, m \in Member : redis'.zset[s][m] = NoScore
    BY <1>3 DEF LoseRedis, EmptyStore
  <2>2. Placed(redis')
    BY <1>1, <2>1, PlacedStep
  <2>3. \A v \in Worker : Busy(v)' => v \in revoked'
    BY <1>3 DEF LoseRedis, Busy
  <2>4. Fenced' /\ LeaseExclusive'
    BY <2>3 DEF Fenced, LeaseExclusive, Current
  <2>5. QED
    BY <1>1, <2>2, <2>4 DEF Exclusive
<1>4. QED
  BY <1>2, <1>3

LEMMA InitExclusive == Init => Exclusive
<1> SUFFICES ASSUME Init PROVE Exclusive
  OBVIOUS
<1>1. Sound
  BY InitSound
<1>2. PICK M \in SUBSET Member, p \in Payload : redis = OldStore(M, p)
  BY DEF Init
<1>3. \A s \in Shard, m \in Member : redis.zset[s][m] # NoScore => s = Legacy
  BY <1>2, ScriptAssumption DEF OldStore, RefreshHead, EmptyStore
<1>4. Placed(redis)
  BY <1>3, ScriptAssumption DEF Placed, Single, Known
<1>5. \A v \in Worker : ~Busy(v)
  BY DEF Init, Busy
<1>6. QED
  BY <1>1, <1>4, <1>5 DEF Exclusive, Fenced, LeaseExclusive, Current

LEMMA NextExclusive ==
    ASSUME UniformShards
    PROVE  Exclusive /\ [Next]_vars => Exclusive'
<1> SUFFICES ASSUME Exclusive, [Next]_vars PROVE Exclusive'
  OBVIOUS
<1>1. ASSUME NEW w \in Worker, CompletionRefused(w) \/ Abandon(w) PROVE Exclusive'
  BY <1>1, LoseLeaseExclusive DEF CompletionRefused, Abandon
<1>2. QED
  BY <1>1, AddExclusive, AdminExclusive, BulkExclusive, PopExclusive, RefusedExclusive,
     ClaimedExclusive, RenewExclusive, RequeueExclusive, RemoveLeasedExclusive,
     EnvironmentExclusive DEF Next

\* For every number of shards, workers and instances, if the instances agree on
\* the shards: of two unrevoked claims on a route at most one passes the fence
\* of renew.lua, complete.lua, remove.lua and migrate.lua.
THEOREM LeasesExclude ==
    ASSUME UniformShards
    PROVE  Spec => []LeaseExclusive
<1>1. Init => Exclusive
  BY InitExclusive
<1>2. Exclusive /\ [Next]_vars => Exclusive'
  BY NextExclusive
<1>3. Exclusive => LeaseExclusive
  BY DEF Exclusive
<1>4. QED
  BY <1>1, <1>2, <1>3, PTL DEF Spec

\* Under the same assumption no script, and no interleaving of the commands of
\* a removal, leaves a route scheduled in two shards.
THEOREM OnePlace ==
    ASSUME UniformShards
    PROVE  Spec => []OneShard
<1>1. Init => Exclusive
  BY InitExclusive
<1>2. Exclusive /\ [Next]_vars => Exclusive'
  BY NextExclusive
<1>3. Exclusive => OneShard
  BY DEF Exclusive, Placed, Single, OneShard, Entries, ZScore
<1>4. QED
  BY <1>1, <1>2, <1>3, PTL DEF Spec

-----------------------------------------------------------------------------
(* A lease mark changes only in the ways LeaseEnds lists.                  *)

MarksKept ==
    \A s \in Shard, m \in Member :
        IsLease(ZScore(redis, s, m)) /\ ZScore(redis', s, m) # ZScore(redis, s, m)
            => LeaseEnds(s, m)

\* A worker's step on its own claim touches no entry of another member, and its
\* own member has no entry but the claimed one.
LEMMA OwnMarkEnds ==
    ASSUME Exclusive, NEW w \in Worker, Current(w), lease'[w] # lease[w],
           lease[w] \in Lease,
           \A s \in Shard, n \in Member :
              n # lease[w].member => redis'.zset[s][n] = redis.zset[s][n]
    PROVE  MarksKept
<1> SUFFICES ASSUME NEW s \in Shard, NEW m \in Member, IsLease(redis.zset[s][m]),
                    redis'.zset[s][m] # redis.zset[s][m]
             PROVE  LeaseEnds(s, m)
  BY DEF MarksKept, ZScore
<1>1. m = lease[w].member
  OBVIOUS
<1>2. redis.zset[s][m] # NoScore
  BY NoScoreIsNoLease
<1>3. lease[w].queue \in Shard /\ lease[w].token \in Nat
  BY DEF Lease
<1>4. redis.zset[lease[w].queue][m] # NoScore
  BY <1>1, <1>3, MarkIsLease, NoScoreIsNoLease DEF Current, LeaseHeld, ZScore
<1>5. s = lease[w].queue
  BY <1>2, <1>3, <1>4 DEF Exclusive, Placed, Single
<1>6. QED
  BY <1>1, <1>5 DEF LeaseEnds

LEMMA AddKeepsMarks ==
    ASSUME Exclusive, NEW c \in Config, NEW m \in Member, AddToQueue(c, m)
    PROVE  MarksKept
<1>1. PICK t \in 0..now, i \in Interval, owners \in (SUBSET Workspace) \ {{}}, tag \in Tag :
        /\ Reading(t)
        /\ \E offset \in 0..(i - 1) :
             redis' = AddScript(redis, c, m, Due(t + offset),
                                [owners |-> owners, fmt |-> "current", tag |-> tag])
  BY DEF AddToQueue
<1>2. PICK offset \in 0..(i - 1) :
        redis' = AddScript(redis, c, m, Due(t + offset),
                           [owners |-> owners, fmt |-> "current", tag |-> tag])
  BY <1>1
<1> DEFINE p == [owners |-> owners, fmt |-> "current", tag |-> tag]
           q == AddShard(redis, c, m)
           due == Due(t + offset)
<1>3. p \in Payload /\ redis \in Store
  BY DEF Payload, Exclusive, Sound, TypeOK
<1>4. t \in Nat /\ offset \in Nat
  BY <1>1, <1>2, QueueAssumption DEF Reading
<1>5. due \in Nat
  BY <1>4 DEF Due
<1> HIDE DEF due, p
<1>6. /\ q \in PopKeys[c] /\ q \in Shard
      /\ \A s \in Shard, n \in Member :
           redis'.zset[s][n] =
              IF n # m THEN redis.zset[s][n]
              ELSE IF s = q THEN IF redis.zset[q][m] = NoScore THEN due ELSE redis.zset[q][m]
              ELSE IF s \in PopKeys[c] THEN NoScore ELSE redis.zset[s][n]
  BY <1>2, <1>3, <1>5, AddEntries DEF due, p
<1> HIDE DEF q
<1>7. ASSUME NEW s \in Shard, IsLease(redis.zset[s][m]) PROVE s = q
  <2>1. redis.zset[s][m] # NoScore
    BY <1>7, NoScoreIsNoLease
  <2>2. s \in OwnedShards(redis, c, m)
    BY <1>7, <2>1 DEF OwnedShards, ZScore, Exclusive, Placed, Known
  <2>3. q \in OwnedShards(redis, c, m)
    BY <2>2 DEF q, AddShard
  <2>4. redis.zset[q][m] # NoScore
    BY <2>3, NoScoreIsNoLease DEF OwnedShards, ZScore
  <2>5. QED
    BY <1>6, <2>1, <2>4 DEF Exclusive, Placed, Single
<1>8. \A s \in Shard, n \in Member :
        IsLease(redis.zset[s][n]) => redis'.zset[s][n] = redis.zset[s][n]
  BY <1>6, <1>7, NoScoreIsNoLease
<1>9. QED
  BY <1>8 DEF MarksKept, ZScore

LEMMA AdminKeepsMarks ==
    ASSUME Exclusive, NEW c \in Config, NEW m \in Member,
           RemovePayload(c, m) \/ RemoveEntry(c, m)
    PROVE  MarksKept
BY DEF MarksKept, LeaseEnds, RemovePayload, RemoveEntry

LEMMA BulkKeepsMarks ==
    ASSUME Exclusive, NEW c \in Config,
           RefreshQueueHeads(c) \/ \E s \in Shard : RequeueAll(c, s)
    PROVE  MarksKept
<1>1. redis \in Store
  BY DEF Exclusive, Sound, TypeOK
<1>2. CASE RefreshQueueHeads(c)
  BY <1>1, <1>2 DEF RefreshQueueHeads, RefreshHeads, Store, MarksKept, ZScore
<1>3. ASSUME NEW s \in Shard, RequeueAll(c, s) PROVE MarksKept
  <2>1. PICK t \in 0..now, i \in Interval, listed \in SUBSET Member :
          /\ Reading(t)
          /\ \E offset \in [listed -> 0..(i - 1)] :
               redis' = RequeueAllScript(redis, s, [m \in listed |-> Due(t + offset[m])])
    BY <1>3 DEF RequeueAll
  <2>2. PICK offset \in [listed -> 0..(i - 1)] :
          redis' = RequeueAllScript(redis, s, [m \in listed |-> Due(t + offset[m])])
    BY <2>1
  <2>3. t \in Nat /\ i \in Nat
    BY <2>1, QueueAssumption DEF Reading
  <2> DEFINE due == [m \in listed |-> Due(t + offset[m])]
  <2>4. due \in [listed -> Nat]
    BY <2>3 DEF Due
  <2>5. redis' = RequeueAllScript(redis, s, due)
    BY <2>2
  <2> HIDE DEF due
  <2>6. \A r \in Shard, n \in Member :
          RequeueAllScript(redis, s, due).zset[r][n] =
             IF /\ r = s /\ n \in listed
                /\ redis.zset[s][n] # NoScore /\ ~IsLease(redis.zset[s][n])
             THEN due[n] ELSE redis.zset[r][n]
    BY <1>1, <2>4, RequeueAllEntries
  <2>7. \A r \in Shard, n \in Member :
          IsLease(redis.zset[r][n]) => redis'.zset[r][n] = redis.zset[r][n]
    BY <2>5, <2>6
  <2>8. QED
    BY <2>7 DEF MarksKept, ZScore
<1>4. QED
  BY <1>2, <1>3

LEMMA PopKeepsMarks ==
    ASSUME Exclusive, NEW w \in Worker, GetNextProxy(w)
    PROVE  MarksKept
<1>1. PICK t \in 0..now : \E r \in PopScript(redis, t) : Reading(t) /\ redis' = r.st
  BY DEF GetNextProxy
<1>2. PICK r \in PopScript(redis, t) : Reading(t) /\ redis' = r.st
  BY <1>1
<1>3. Good(redis) /\ t \in Nat /\ now \in Nat /\ t <= now
  BY <1>2, SoundIsGood DEF Exclusive, TypeOK, Reading
<1>4. ScanOK(redis, t, r)
  BY <1>3, PopKeeps
<1>5. ASSUME NEW s \in Shard, NEW m \in Member, redis'.zset[s][m] # redis.zset[s][m]
      PROVE  redis.zset[s][m] <= Due(t)
  BY <1>2, <1>4, <1>5 DEF ScanOK, ClaimOK, OthersKept, Claimed
<1>6. ASSUME NEW s \in Shard, NEW m \in Member, redis.zset[s][m] <= Due(t)
      PROVE  redis.zset[s][m] <= Due(now)
  <2>1. redis.zset[s][m] \in Int
    BY <1>3 DEF Good, Store, Score, NoScore
  <2>2. QED
    BY <1>3, <1>6, <2>1 DEF Due
<1>7. QED
  BY <1>5, <1>6 DEF MarksKept, LeaseEnds, ZScore

LEMMA RefusedKeepsMarks ==
    ASSUME UniformShards, Exclusive, NEW w \in Worker, NEW c \in Config, MigrateRefused(w, c)
    PROVE  MarksKept
<1> DEFINE l == lease[w]
<1>1. TypeOK /\ redis \in Store /\ Placed(redis) /\ Busy(w)
  BY DEF Exclusive, Sound, TypeOK, MigrateRefused
<1>2. /\ l \in Lease /\ l.payload \in Payload /\ l.member \in Member /\ l.queue \in Shard
  BY <1>1, BusyLease DEF Lease
<1>3. PICK t \in 0..now, tag \in Tag :
        /\ Reading(t)
        /\ \/ UNCHANGED redis
           \/ Renewable(redis, l, t) /\ redis' = ReleaseCandidate(redis, l, t)
           \/ /\ Canonical[l.member] # l.member
              /\ Removable(redis, l)
              /\ MigrateOwned(redis, c, l, t) # {}
              /\ redis' = MoveAlias(redis, c, l, t, Normalized(l.payload, tag))
  BY DEF MigrateRefused
<1>4. t \in Nat /\ Normalized(l.payload, tag) \in Payload
  BY <1>2, <1>3, NormalizedType DEF Reading
<1>5. lease'[w] # lease[w]
  BY <1>1 DEF MigrateRefused, TypeOK, Busy
<1>6. CASE UNCHANGED redis
  BY <1>6 DEF MarksKept
<1>7. CASE Renewable(redis, l, t) /\ redis' = ReleaseCandidate(redis, l, t)
  <2> DEFINE score == IF redis.payload[l.member] = NoPayload THEN NoScore ELSE Due(t)
  <2>1. score \in Score
    BY <1>4 DEF Due, Score
  <2>2. redis' = RefreshHead(ZSet(redis, l.queue, l.member, score), l.queue)
    BY <1>7 DEF ReleaseCandidate
  <2> HIDE DEF score
  <2>3. \A s \in Shard, n \in Member :
          n # l.member => redis'.zset[s][n] = redis.zset[s][n]
    BY <1>1, <1>2, <2>1, <2>2, SetEntries
  <2>4. Current(w)
    BY <1>1, <1>7 DEF Current, Renewable
  <2>5. QED
    BY <1>2, <1>5, <2>3, <2>4, OwnMarkEnds
<1>8. CASE /\ Canonical[l.member] # l.member
           /\ Removable(redis, l)
           /\ MigrateOwned(redis, c, l, t) # {}
           /\ redis' = MoveAlias(redis, c, l, t, Normalized(l.payload, tag))
  <2>1. \A s \in Shard, n \in Member :
          n # l.member => redis'.zset[s][n] = redis.zset[s][n]
    BY <1>1, <1>2, <1>4, <1>8, MovePlaces
  <2>2. Current(w)
    BY <1>1, <1>8 DEF Current, Removable
  <2>3. QED
    BY <1>2, <1>5, <2>1, <2>2, OwnMarkEnds
<1>9. QED
  BY <1>3, <1>6, <1>7, <1>8

LEMMA ClaimedKeepsMarks ==
    ASSUME UniformShards, Exclusive, NEW w \in Worker, NEW c \in Config, MigrateClaimed(w, c)
    PROVE  MarksKept
<1> DEFINE l == lease[w]
           m == Canonical[l.member]
<1>1. TypeOK /\ redis \in Store /\ Placed(redis) /\ Busy(w) /\ now \in Nat
  BY DEF Exclusive, Sound, TypeOK, MigrateClaimed
<1>2. /\ l \in Lease /\ l.payload \in Payload /\ l.member \in Member /\ l.queue \in Shard
      /\ l.token \in Nat /\ m \in Member
  BY <1>1, BusyLease, ScriptAssumption DEF Lease
<1>3. PICK t \in 0..now, tag \in Tag :
        /\ Reading(t)
        /\ Removable(redis, l)
        /\ \/ redis' = SetPayload(redis, m, Normalized(l.payload, tag))
           \/ /\ m # l.member
              /\ MigrateOwned(redis, c, l, t) = {}
              /\ redis' = MoveAlias(redis, c, l, t, Normalized(l.payload, tag))
              /\ lease' = [lease EXCEPT ![w] =
                    [@ EXCEPT !.phase = "held", !.member = m,
                              !.queue = Target[c][m],
                              !.payload = redis'.payload[m]]]
  BY DEF MigrateClaimed
<1> DEFINE p == Normalized(l.payload, tag)
<1>4. t \in Nat /\ p \in Payload /\ t <= now
  BY <1>2, <1>3, NormalizedType DEF Reading
<1> HIDE DEF p
<1>5. CASE redis' = SetPayload(redis, m, p)
  BY <1>1, <1>5 DEF SetPayload, Store, MarksKept, ZScore
<1>6. CASE /\ m # l.member
           /\ MigrateOwned(redis, c, l, t) = {}
           /\ redis' = MoveAlias(redis, c, l, t, p)
           /\ lease' = [lease EXCEPT ![w] =
                 [@ EXCEPT !.phase = "held", !.member = m,
                           !.queue = Target[c][m],
                           !.payload = redis'.payload[m]]]
  <2>1. lease'[w].member = m
    BY <1>1, <1>2, <1>6 DEF TypeOK, Lease
  <2>2. lease'[w] # lease[w]
    BY <1>6, <2>1
  <2>3. Current(w)
    BY <1>1, <1>3 DEF Current, Removable
  <2>4. \A s \in Shard, n \in Member :
          n \notin {l.member, m} => redis'.zset[s][n] = redis.zset[s][n]
    BY <1>1, <1>2, <1>4, <1>6, MovePlaces
  <2>5. SUFFICES ASSUME NEW s \in Shard, NEW n \in Member, IsLease(redis.zset[s][n]),
                        redis'.zset[s][n] # redis.zset[s][n]
                 PROVE  LeaseEnds(s, n)
    BY DEF MarksKept, ZScore
  <2>6. redis.zset[s][n] # NoScore
    BY <2>5, NoScoreIsNoLease
  <2>7. CASE n = m
    <3>1. s \in MigrateShards(c, l)
      BY <1>1, <2>6 DEF Placed, Known, MigrateShards
    <3>2. ~LiveLease(redis.zset[s][m], t)
      BY <1>6, <3>1 DEF MigrateOwned, ZScore
    <3>3. ~(redis.zset[s][m] > Due(t))
      BY <2>5, <2>7, <3>2 DEF LiveLease
    <3>4. redis.zset[s][m] \in Int
      BY <1>1, <1>2 DEF Store, Score, NoScore
    <3>5. redis.zset[s][m] <= Due(now)
      BY <1>1, <1>4, <3>3, <3>4 DEF Due
    <3>6. QED
      BY <2>7, <3>5 DEF LeaseEnds, ZScore
  <2>8. CASE n = l.member
    <3>1. redis.zset[l.queue][n] # NoScore
      BY <1>2, <2>3, <2>8, MarkIsLease, NoScoreIsNoLease DEF Current, LeaseHeld, ZScore
    <3>2. s = l.queue
      BY <1>1, <1>2, <2>6, <3>1 DEF Placed, Single
    <3>3. QED
      BY <2>2, <2>3, <2>8, <3>2 DEF LeaseEnds
  <2>9. QED
    BY <2>4, <2>5, <2>7, <2>8
<1>7. QED
  BY <1>3, <1>5, <1>6 DEF p

LEMMA RenewKeepsMarks ==
    ASSUME Exclusive, NEW w \in Worker, RenewLease(w)
    PROVE  MarksKept
<1> DEFINE l == lease[w]
<1>1. TypeOK /\ redis \in Store /\ Busy(w)
  BY DEF Exclusive, Sound, TypeOK, RenewLease
<1>2. l \in Lease /\ l.member \in Member /\ l.queue \in Shard /\ l.token \in Nat
  BY <1>1, BusyLease DEF Lease
<1>3. PICK t \in 0..now :
        /\ Reading(t)
        /\ l.token - t <= RenewMargin
        /\ \/ /\ Renewable(redis, l, t)
              /\ redis' = RenewScript(redis, l, t)
              /\ lease' = [lease EXCEPT ![w].token = t + LeaseTime]
           \/ UNCHANGED redis
  BY DEF RenewLease, LoseLease
<1>4. t \in Nat /\ t + LeaseTime \in Nat /\ l.token # t + LeaseTime
  BY <1>2, <1>3, ScriptAssumption, QueueAssumption DEF Reading
<1>5. CASE UNCHANGED redis
  BY <1>5 DEF MarksKept
<1>6. CASE /\ Renewable(redis, l, t)
           /\ redis' = RenewScript(redis, l, t)
           /\ lease' = [lease EXCEPT ![w].token = t + LeaseTime]
  <2>1. lease'[w].token = t + LeaseTime
    BY <1>1, <1>2, <1>6 DEF TypeOK, Lease
  <2>2. LeaseScore(t + LeaseTime) \in Score
    BY <1>4 DEF LeaseScore, Score
  <2>3. \A s \in Shard, n \in Member :
          n # l.member => redis'.zset[s][n] = redis.zset[s][n]
    BY <1>1, <1>2, <1>6, <2>2, SetEntries DEF RenewScript
  <2>4. Current(w) /\ lease'[w] # lease[w]
    BY <1>1, <1>4, <1>6, <2>1 DEF Current, Renewable
  <2>5. QED
    BY <1>2, <2>3, <2>4, OwnMarkEnds
<1>7. QED
  BY <1>3, <1>5, <1>6

LEMMA RequeueKeepsMarks ==
    ASSUME Exclusive, NEW w \in Worker, NEW c \in Config, RequeueProxy(w, c)
    PROVE  MarksKept
<1> DEFINE l == lease[w]
<1>1. TypeOK /\ redis \in Store /\ Busy(w) /\ LeaseHeld(redis, l)
  BY DEF Exclusive, Sound, TypeOK, RequeueProxy
<1>2. l \in Lease /\ l.sched \in Nat /\ l.payload.owners \in SUBSET Workspace
  BY <1>1, BusyLease DEF Lease, Payload
<1>3. PICK t \in 0..now, i \in Interval, changed \in BOOLEAN, tag \in Tag,
           owners \in SUBSET l.payload.owners :
        /\ Reading(t)
        /\ redis' = CompleteScript(redis, c, l,
                        Due((IF t > l.sched THEN t ELSE l.sched) + i), changed,
                        [owners |-> owners, fmt |-> "current", tag |-> tag])
  BY DEF RequeueProxy
<1>4. t \in Nat /\ i \in Nat
  BY <1>3, QueueAssumption DEF Reading
<1>5. Due((IF t > l.sched THEN t ELSE l.sched) + i) \in Nat
  BY <1>2, <1>4 DEF Due
<1>6. [owners |-> owners, fmt |-> "current", tag |-> tag] \in Payload
  BY <1>2 DEF Payload
<1>7. \A s \in Shard, n \in Member :
        n # l.member => redis'.zset[s][n] = redis.zset[s][n]
  BY <1>1, <1>2, <1>3, <1>5, <1>6, CompleteEntries
<1>8. Current(w) /\ lease'[w] # lease[w]
  BY <1>1 DEF Current, RequeueProxy, TypeOK, Busy
<1>9. QED
  BY <1>2, <1>7, <1>8, OwnMarkEnds

LEMMA RemoveLeasedKeepsMarks ==
    ASSUME Exclusive, NEW w \in Worker, RemoveLeased(w)
    PROVE  MarksKept
<1> DEFINE l == lease[w]
           bare == SetPayload(redis, l.member, NoPayload)
           mid == ZRem(bare, l.queue, l.member)
<1>1. TypeOK /\ redis \in Store /\ Busy(w) /\ Removable(redis, l)
  BY DEF Exclusive, Sound, TypeOK, RemoveLeased
<1>2. /\ l \in Lease /\ l.member \in Member /\ l.queue \in Shard
      /\ Legacy \in Shard /\ NoScore \in Score
  BY <1>1, BusyLease, ScriptAssumption DEF Lease, Score
<1>3. bare \in Store /\ bare.zset = redis.zset
  BY <1>1, <1>2 DEF SetPayload, Store
<1>4. redis' = ZSet(mid, Legacy, l.member, NoScore)
  BY DEF RemoveLeased, RemoveScript, ZRem
<1> HIDE DEF bare
<1>5. mid \in Store
  BY <1>2, <1>3, WriteEntry DEF ZRem
<1>6. \A s \in Shard, n \in Member : n # l.member => mid.zset[s][n] = redis.zset[s][n]
  BY <1>2, <1>3, SetEntries DEF ZRem
<1> HIDE DEF mid
<1>7. \A s \in Shard, n \in Member : n # l.member => redis'.zset[s][n] = mid.zset[s][n]
  BY <1>2, <1>4, <1>5, SetEntries
<1>8. \A s \in Shard, n \in Member : n # l.member => redis'.zset[s][n] = redis.zset[s][n]
  BY <1>6, <1>7
<1>9. Current(w) /\ lease'[w] # lease[w]
  BY <1>1 DEF Current, Removable, RemoveLeased, TypeOK, Busy
<1>10. QED
  BY <1>2, <1>8, <1>9, OwnMarkEnds

LEMMA NextKeepsMarks ==
    ASSUME UniformShards
    PROVE  Exclusive /\ [Next]_vars => [MarksKept]_vars
<1> SUFFICES ASSUME Exclusive, [Next]_vars PROVE MarksKept
  OBVIOUS
<1>1. ASSUME NEW w \in Worker, CompletionRefused(w) \/ Abandon(w) PROVE MarksKept
  BY <1>1 DEF CompletionRefused, Abandon, LoseLease, MarksKept
<1>2. CASE Tick \/ LoseRedis \/ UNCHANGED vars
  BY <1>2 DEF Tick, LoseRedis, vars, MarksKept, LeaseEnds
<1>3. QED
  BY <1>1, <1>2, AddKeepsMarks, AdminKeepsMarks, BulkKeepsMarks, PopKeepsMarks,
     RefusedKeepsMarks, ClaimedKeepsMarks, RenewKeepsMarks, RequeueKeepsMarks,
     RemoveLeasedKeepsMarks DEF Next

\* While the instances agree on the shards, a mark changes only when it has
\* expired, by a step of the worker that holds it, or with an administrative
\* removal or the loss of Redis: publishing a route, rescheduling the queue and
\* migrating another member never take a lease from a worker in mid-check.
THEOREM LeasesAreKept ==
    ASSUME UniformShards
    PROVE  Spec => LeasesKept
<1>1. Init => Exclusive
  BY InitExclusive
<1>2. Exclusive /\ [Next]_vars => Exclusive'
  BY NextExclusive
<1>3. Exclusive /\ [Next]_vars => [MarksKept]_vars
  BY NextKeepsMarks
<1>4. QED
  BY <1>1, <1>2, <1>3, PTL DEF Spec, LeasesKept, MarksKept
=============================================================================
