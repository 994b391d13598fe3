--------------------------- MODULE ProxyQueueProofs ---------------------------
(***************************************************************************)
(* Theorems about ProxyQueue, for every set of members, shards, workers,   *)
(* configurations and every bound.  Each script gets a lemma on the store  *)
(* it leaves; the theorems then only pass from action to script.           *)
(***************************************************************************)
EXTENDS ProxyQueue, WellFoundedInduction, TLAPS

-----------------------------------------------------------------------------
(* The minima that ZRANGE ... 0 0 chooses exist.                           *)

\* Every non-empty set of naturals has a least element.
LEMMA LeastNatural ==
    ASSUME NEW T \in SUBSET Nat, T # {}
    PROVE  \E x \in T : \A y \in T : x <= y
<1>1. PICK x \in T : \A y \in T : ~ (<<y, x>> \in OpToRel(<, Nat))
  BY NatLessThanWellFounded, WFMin
<1>2. ASSUME NEW y \in T PROVE x <= y
  <2>1. <<y, x>> \notin OpToRel(<, Nat)
    BY <1>1
  <2>2. ~(y < x)
    BY <2>1 DEF OpToRel
  <2>3. QED
    BY <2>2
<1>3. QED
  BY <1>2

\* ZRANGE s 0 0 returns an entry with the lowest score of its shard.
LEMMA FirstEntryIsLeast ==
    ASSUME NEW st \in Store, NEW s \in Shard, Entries(st, s) # {}
    PROVE  /\ FirstEntry(st, s) \in Entries(st, s)
           /\ \A n \in Entries(st, s) : ZScore(st, s, FirstEntry(st, s)) <= ZScore(st, s, n)
<1> DEFINE T == {ZScore(st, s, m) : m \in Entries(st, s)}
<1>1. \A m \in Entries(st, s) : ZScore(st, s, m) \in Nat
  BY DEF Entries, ZScore, Store, Score
<1>2. T \in SUBSET Nat /\ T # {}
  BY <1>1
<1>3. PICK x \in T : \A y \in T : x <= y
  BY <1>2, LeastNatural
<1>4. \E m \in Entries(st, s) : \A n \in Entries(st, s) : ZScore(st, s, m) <= ZScore(st, s, n)
  BY <1>3
<1>5. QED
  BY <1>4 DEF FirstEntry

-----------------------------------------------------------------------------
(* Stores whose head index can be trusted by pop.lua.                      *)

IndexedAt(st, s) ==
    \A m \in Member :
        st.zset[s][m] # NoScore => st.heads[s] # NoScore /\ st.heads[s] <= st.zset[s][m]

Indexed(st) == \A s \in Shard : IndexedAt(st, s)

Good(st) == st \in Store /\ Indexed(st)

\* What the three kinds of write do to a store.
LEMMA WriteHead ==
    ASSUME NEW st \in Store, NEW s \in Shard, NEW h \in Score
    PROVE  LET new == [st EXCEPT !.heads[s] = h]
           IN /\ new \in Store
              /\ new.zset = st.zset /\ new.payload = st.payload
              /\ new.heads = [st.heads EXCEPT ![s] = h]
BY DEF Store

LEMMA WriteEntry ==
    ASSUME NEW st \in Store, NEW s \in Shard, NEW m \in Member, NEW score \in Score
    PROVE  LET new == ZSet(st, s, m, score)
           IN /\ new \in Store
              /\ new.heads = st.heads /\ new.payload = st.payload
              /\ new.zset = [st.zset EXCEPT ![s] = [st.zset[s] EXCEPT ![m] = score]]
BY DEF Store, ZSet

LEMMA WritePayload ==
    ASSUME NEW st \in Store, NEW m \in Member, NEW p \in Payload \cup {NoPayload}
    PROVE  LET new == SetPayload(st, m, p)
           IN /\ new \in Store
              /\ new.heads = st.heads /\ new.zset = st.zset
              /\ new.payload = [st.payload EXCEPT ![m] = p]
BY DEF Store, SetPayload

\* The exact head is a score at or below every entry of its shard.
LEMMA HeadOfBounds ==
    ASSUME NEW st \in Store, NEW s \in Shard
    PROVE  /\ HeadOf(st, s) \in Score
           /\ \A m \in Member : st.zset[s][m] # NoScore =>
                HeadOf(st, s) # NoScore /\ HeadOf(st, s) <= st.zset[s][m]
<1>1. CASE Entries(st, s) = {}
  <2>1. HeadOf(st, s) = NoScore
    BY <1>1 DEF HeadOf
  <2>2. \A m \in Member : st.zset[s][m] = NoScore
    BY <1>1 DEF Entries, ZScore
  <2>3. QED
    BY <2>1, <2>2 DEF Score
<1>2. CASE Entries(st, s) # {}
  <2> DEFINE f == FirstEntry(st, s)
  <2>1. /\ f \in Entries(st, s)
        /\ \A n \in Entries(st, s) : ZScore(st, s, f) <= ZScore(st, s, n)
    BY <1>2, FirstEntryIsLeast
  <2>2. HeadOf(st, s) = st.zset[s][f]
    BY <1>2 DEF HeadOf, ZScore
  <2>3. f \in Member /\ st.zset[s][f] # NoScore
    BY <2>1 DEF Entries, ZScore
  <2>4. st.zset[s][f] \in Score
    BY <2>3 DEF Store
  <2>5. ASSUME NEW m \in Member, st.zset[s][m] # NoScore
        PROVE  st.zset[s][f] <= st.zset[s][m]
    BY <2>1, <2>5 DEF Entries, ZScore
  <2>6. QED
    BY <2>2, <2>3, <2>4, <2>5
<1>3. QED
  BY <1>1, <1>2

\* Refreshing the head of one shard makes it right and leaves the others.
LEMMA RefreshHeadGood ==
    ASSUME NEW st \in Store, NEW s \in Shard,
           \A r \in Shard \ {s} : IndexedAt(st, r)
    PROVE  Good(RefreshHead(st, s))
<1> DEFINE new == RefreshHead(st, s)
<1>1. new = [st EXCEPT !.heads[s] = HeadOf(st, s)]
  BY DEF RefreshHead
<1>2. /\ new \in Store
      /\ new.zset = st.zset
      /\ new.heads = [st.heads EXCEPT ![s] = HeadOf(st, s)]
  BY <1>1, HeadOfBounds, WriteHead
<1>3. ASSUME NEW r \in Shard PROVE IndexedAt(new, r)
  <2>1. CASE r = s
    BY <1>2, <2>1, HeadOfBounds DEF IndexedAt, Store
  <2>2. CASE r # s
    BY <1>2, <2>2 DEF IndexedAt, Store
  <2>3. QED
    BY <2>1, <2>2
<1>4. QED
  BY <1>2, <1>3 DEF Good, Indexed

\* Refreshing a set of heads, the others being right already.
LEMMA RefreshHeadsGood ==
    ASSUME NEW st \in Store, NEW keys \in SUBSET Shard,
           \A r \in Shard \ keys : IndexedAt(st, r)
    PROVE  Good(RefreshHeads(st, keys))
<1> DEFINE new == RefreshHeads(st, keys)
           heads == [s \in Shard |-> IF s \in keys THEN HeadOf(st, s) ELSE st.heads[s]]
<1>1. new = [st EXCEPT !.heads = heads]
  BY DEF RefreshHeads
<1>2. heads \in [Shard -> Score]
  BY HeadOfBounds DEF Store
<1>3. new \in Store /\ new.zset = st.zset /\ new.heads = heads
  BY <1>1, <1>2 DEF Store
<1>4. ASSUME NEW r \in Shard PROVE IndexedAt(new, r)
  <2>1. CASE r \in keys
    BY <1>3, <2>1, HeadOfBounds DEF IndexedAt
  <2>2. CASE r \notin keys
    BY <1>3, <2>2 DEF IndexedAt
  <2>3. QED
    BY <2>1, <2>2
<1>5. QED
  BY <1>3, <1>4 DEF Good, Indexed

\* ZADD LT keeps a head at or below both its old value and the new score.
LEMMA LowerHeadGood ==
    ASSUME NEW st \in Store, NEW s \in Shard, NEW score \in Nat,
           \A r \in Shard \ {s} : IndexedAt(st, r),
           \A m \in Member : st.zset[s][m] # NoScore =>
                \/ score <= st.zset[s][m]
                \/ st.heads[s] # NoScore /\ st.heads[s] <= st.zset[s][m]
    PROVE  Good(LowerHead(st, s, score))
<1> DEFINE new == LowerHead(st, s, score)
<1>1. score # NoScore /\ score \in Score
  BY DEF NoScore, Score
<1>2. st.heads[s] \in Score
  BY DEF Store
<1>3. \A m \in Member : st.zset[s][m] \in Score
  BY DEF Store
<1>4. CASE st.heads[s] = NoScore \/ score < st.heads[s]
  <2>1. new = [st EXCEPT !.heads[s] = score]
    BY <1>4 DEF LowerHead
  <2>2. /\ new \in Store
        /\ new.zset = st.zset
        /\ new.heads = [st.heads EXCEPT ![s] = score]
    BY <2>1, <1>1, WriteHead
  <2>3. ASSUME NEW r \in Shard PROVE IndexedAt(new, r)
    <3>1. CASE r = s
      <4>1. new.heads[s] = score /\ new.zset[s] = st.zset[s]
        BY <2>2 DEF Store
      <4>2. ASSUME NEW m \in Member, st.zset[s][m] # NoScore
            PROVE  score <= st.zset[s][m]
        BY <1>4, <1>2, <1>3, <4>2 DEF Score, NoScore
      <4>3. QED
        BY <4>1, <4>2, <1>1, <3>1 DEF IndexedAt
    <3>2. CASE r # s
      BY <2>2, <3>2 DEF IndexedAt, Store
    <3>3. QED
      BY <3>1, <3>2
  <2>4. QED
    BY <2>2, <2>3 DEF Good, Indexed
<1>5. CASE ~(st.heads[s] = NoScore \/ score < st.heads[s])
  <2>1. new = st
    BY <1>5 DEF LowerHead
  <2>2. IndexedAt(st, s)
    BY <1>5, <1>2, <1>3 DEF IndexedAt, Score, NoScore
  <2>3. QED
    BY <2>1, <2>2 DEF Good, Indexed
<1>6. QED
  BY <1>4, <1>5

\* Entries may leave, and later ones may come, under an unchanged head.
LEMMA UnderHeadGood ==
    ASSUME NEW st, Good(st), NEW new \in Store, new.heads = st.heads,
           \A s \in Shard, m \in Member :
                \/ new.zset[s][m] = NoScore
                \/ new.zset[s][m] = st.zset[s][m]
                \/ st.zset[s][m] # NoScore /\ st.zset[s][m] <= new.zset[s][m]
    PROVE  Good(new)
<1>1. ASSUME NEW s \in Shard, NEW m \in Member, new.zset[s][m] # NoScore
      PROVE  new.heads[s] # NoScore /\ new.heads[s] <= new.zset[s][m]
  <2>1. st.heads[s] \in Score /\ st.zset[s][m] \in Score /\ new.zset[s][m] \in Score
    BY DEF Good, Store
  <2>2. st.zset[s][m] # NoScore /\ st.zset[s][m] <= new.zset[s][m]
    BY <1>1, <2>1 DEF Score, NoScore
  <2>3. st.heads[s] # NoScore /\ st.heads[s] <= st.zset[s][m]
    BY <2>2 DEF Good, Indexed, IndexedAt
  <2>4. QED
    BY <2>1, <2>2, <2>3 DEF Score, NoScore
<1>2. QED
  BY <1>1 DEF Good, Indexed, IndexedAt

-----------------------------------------------------------------------------
(* One lemma per script.                                                   *)

\* add.lua
LEMMA AddGood ==
    ASSUME NEW st, Good(st), NEW c \in Config, NEW m \in Member,
           NEW due \in Nat, NEW p \in Payload
    PROVE  Good(AddScript(st, c, m, due, p))
<1> DEFINE q == AddShard(st, c, m)
           kept == ZScore(st, q, m)
           zset == [s \in Shard |->
                      [st.zset[s] EXCEPT ![m] =
                          IF s = q THEN IF kept = NoScore THEN due ELSE kept
                          ELSE IF s \in PopKeys[c] THEN NoScore ELSE @]]
           placed == [st EXCEPT !.zset = zset, !.payload[m] = p]
           head == IF IsLease(kept) THEN kept ELSE due
<1>1. st \in Store /\ Indexed(st)
  BY DEF Good
<1>2. q \in Shard
  BY ScriptAssumption DEF AddShard, OwnedShards
<1>3. kept \in Score /\ kept = st.zset[q][m]
  BY <1>1, <1>2 DEF Store, ZScore
<1>4. due \in Score /\ NoScore \in Score
  BY DEF Score
<1>5. zset \in [Shard -> [Member -> Score]]
  BY <1>1, <1>3, <1>4 DEF Store
<1>6. /\ placed \in Store
      /\ placed.zset = zset /\ placed.heads = st.heads
  BY <1>1, <1>5 DEF Store
<1>7. head \in Nat
  BY <1>3 DEF IsLease, Score
<1>8. ASSUME NEW r \in Shard, NEW n \in Member
      PROVE  zset[r][n] = IF n # m THEN st.zset[r][n]
                          ELSE IF r = q THEN IF kept = NoScore THEN due ELSE kept
                          ELSE IF r \in PopKeys[c] THEN NoScore ELSE st.zset[r][n]
  BY <1>1 DEF Store
<1>9. \A r \in Shard \ {q} : IndexedAt(placed, r)
  BY <1>1, <1>6, <1>8 DEF Indexed, IndexedAt
<1>10. ASSUME NEW n \in Member, placed.zset[q][n] # NoScore
       PROVE  \/ head <= placed.zset[q][n]
              \/ placed.heads[q] # NoScore /\ placed.heads[q] <= placed.zset[q][n]
  <2>1. CASE n = m /\ kept = NoScore
    <3>1. placed.zset[q][n] = due
      BY <1>2, <1>6, <1>8, <2>1
    <3>2. head = due
      BY <2>1 DEF IsLease
    <3>3. QED
      BY <3>1, <3>2
  <2>2. CASE ~(n = m /\ kept = NoScore)
    <3>1. placed.zset[q][n] = st.zset[q][n]
      BY <1>2, <1>3, <1>6, <1>8, <2>2
    <3>2. QED
      BY <3>1, <1>1, <1>2, <1>6, <1>10 DEF Indexed, IndexedAt
  <2>3. QED
    BY <2>1, <2>2
<1>11. Good(LowerHead(placed, q, head))
  BY <1>2, <1>6, <1>7, <1>9, <1>10, LowerHeadGood
<1>12. QED
  BY <1>11 DEF AddScript

\* renew.lua, called with less of the lease left than a new one lasts
LEMMA RenewGood ==
    ASSUME NEW st, Good(st), NEW l \in Lease, NEW t \in Nat,
           LeaseHeld(st, l), l.token < t + LeaseTime
    PROVE  Good(RenewScript(st, l, t))
<1> DEFINE new == RenewScript(st, l, t)
<1>1. st \in Store /\ l.queue \in Shard /\ l.member \in Member /\ l.token \in Nat
  BY DEF Good, Lease
<1>2. LeaseScore(t + LeaseTime) \in Nat /\ LeaseScore(l.token) \in Nat
  BY <1>1, ScriptAssumption DEF LeaseScore
<1>3. LeaseScore(t + LeaseTime) \in Score
  BY <1>2 DEF Score
<1>4. /\ new \in Store /\ new.heads = st.heads
      /\ new.zset = [st.zset EXCEPT ![l.queue] =
                        [st.zset[l.queue] EXCEPT ![l.member] = LeaseScore(t + LeaseTime)]]
  BY <1>1, <1>3, WriteEntry DEF RenewScript
<1>5. st.zset[l.queue][l.member] = LeaseScore(l.token)
  BY DEF LeaseHeld, ZScore
<1>6. LeaseScore(l.token) <= LeaseScore(t + LeaseTime) /\ LeaseScore(l.token) # NoScore
  BY <1>1, ScriptAssumption DEF LeaseScore, NoScore
<1>7. ASSUME NEW s \in Shard, NEW m \in Member
      PROVE  \/ new.zset[s][m] = st.zset[s][m]
             \/ st.zset[s][m] # NoScore /\ st.zset[s][m] <= new.zset[s][m]
  <2>1. CASE s = l.queue /\ m = l.member
    <3>1. new.zset[s][m] = LeaseScore(t + LeaseTime)
      BY <1>1, <1>4, <2>1 DEF Store
    <3>2. QED
      BY <3>1, <2>1, <1>5, <1>6
  <2>2. CASE ~(s = l.queue /\ m = l.member)
    BY <1>1, <1>4, <2>2 DEF Store
  <2>3. QED
    BY <2>1, <2>2
<1>8. QED
  BY <1>4, <1>7, UnderHeadGood

\* complete.lua's payload is a payload.
LEMMA CompletedPayloadType ==
    ASSUME NEW current \in Payload \cup {NoPayload}, NEW before \in Payload,
           NEW after \in Payload
    PROVE  CompletedPayload(current, before, after) \in Payload
<1>1. CASE current # NoPayload /\ current # before
  <2> DEFINE merged == MergeOwners(current.owners, before.owners, after.owners)
  <2>1. current \in Payload
    BY <1>1
  <2>2. merged \in SUBSET Workspace
    BY <2>1 DEF MergeOwners, Payload
  <2>3. CompletedPayload(current, before, after) = [current EXCEPT !.owners = merged]
    BY <1>1, <2>1 DEF CompletedPayload, Payload
  <2>4. QED
    BY <2>1, <2>2, <2>3 DEF Payload
<1>2. CASE ~(current # NoPayload /\ current # before)
  BY <1>2 DEF CompletedPayload
<1>3. QED
  BY <1>1, <1>2

\* complete.lua
LEMMA CompleteGood ==
    ASSUME NEW st, Good(st), NEW c \in Config, NEW l \in Lease, NEW next \in Nat,
           NEW changed \in BOOLEAN, NEW after \in Payload
    PROVE  Good(CompleteScript(st, c, l, next, changed, after))
<1> DEFINE m == l.member
           q == Target[c][m]
           p == IF changed THEN CompletedPayload(st.payload[m], l.payload, after)
                ELSE st.payload[m]
           zset == [s \in Shard |->
                      [st.zset[s] EXCEPT ![m] =
                          IF s = q THEN next
                          ELSE IF s \in {l.queue, Legacy} THEN NoScore ELSE @]]
           placed == [st EXCEPT !.zset = zset, !.payload[m] = p]
<1>1. st \in Store /\ Indexed(st) /\ m \in Member /\ l.payload \in Payload
  BY DEF Good, Lease
<1>2. q \in Shard
  BY <1>1, ScriptAssumption
<1>3. p \in Payload \cup {NoPayload}
  <2>1. st.payload[m] \in Payload \cup {NoPayload}
    BY <1>1 DEF Store
  <2>2. QED
    BY <2>1, <1>1, CompletedPayloadType
<1>4. next \in Score /\ NoScore \in Score
  BY DEF Score
<1>5. zset \in [Shard -> [Member -> Score]]
  BY <1>1, <1>4 DEF Store
<1>6. placed \in Store /\ placed.zset = zset /\ placed.heads = st.heads
  BY <1>1, <1>3, <1>5 DEF Store
<1>7. ASSUME NEW r \in Shard, NEW n \in Member
      PROVE  zset[r][n] = IF n # m THEN st.zset[r][n]
                          ELSE IF r = q THEN next
                          ELSE IF r \in {l.queue, Legacy} THEN NoScore
                          ELSE st.zset[r][n]
  BY <1>1 DEF Store
<1>8. \A r \in Shard \ {q} : IndexedAt(placed, r)
  BY <1>1, <1>6, <1>7 DEF Indexed, IndexedAt
<1>9. ASSUME NEW n \in Member, placed.zset[q][n] # NoScore
      PROVE  \/ next <= placed.zset[q][n]
             \/ placed.heads[q] # NoScore /\ placed.heads[q] <= placed.zset[q][n]
  <2>1. CASE n = m
    BY <1>2, <1>6, <1>7, <2>1
  <2>2. CASE n # m
    <3>1. placed.zset[q][n] = st.zset[q][n]
      BY <1>2, <1>6, <1>7, <2>2
    <3>2. QED
      BY <3>1, <1>1, <1>2, <1>6, <1>9 DEF Indexed, IndexedAt
  <2>3. QED
    BY <2>1, <2>2
<1>10. Good(LowerHead(placed, q, next))
  BY <1>2, <1>6, <1>8, <1>9, LowerHeadGood
<1>11. QED
  BY <1>10 DEF CompleteScript

\* ZREM of a member leaves the head where it was, or too low.
LEMMA ZRemGood ==
    ASSUME NEW st, Good(st), NEW s \in Shard, NEW m \in Member
    PROVE  Good(ZRem(st, s, m))
<1> DEFINE new == ZRem(st, s, m)
<1>1. st \in Store /\ NoScore \in Score
  BY DEF Good, Score
<1>2. /\ new \in Store /\ new.heads = st.heads
      /\ new.zset = [st.zset EXCEPT ![s] = [st.zset[s] EXCEPT ![m] = NoScore]]
  BY <1>1, WriteEntry DEF ZRem
<1>3. ASSUME NEW r \in Shard, NEW n \in Member
      PROVE  new.zset[r][n] = NoScore \/ new.zset[r][n] = st.zset[r][n]
  BY <1>1, <1>2 DEF Store
<1>4. Indexed(new)
  BY <1>2, <1>3 DEF Good, Indexed, IndexedAt
<1>5. QED
  BY <1>2, <1>4 DEF Good

\* SET and DEL of a payload do not touch schedules.
LEMMA PayloadGood ==
    ASSUME NEW st, Good(st), NEW m \in Member, NEW p \in Payload \cup {NoPayload}
    PROVE  Good(SetPayload(st, m, p))
<1>1. /\ SetPayload(st, m, p) \in Store
      /\ SetPayload(st, m, p).heads = st.heads /\ SetPayload(st, m, p).zset = st.zset
  BY WritePayload DEF Good
<1>2. QED
  BY <1>1, UnderHeadGood

\* remove.lua and the pipeline of RemoveFromQueue
LEMMA RemoveGood ==
    ASSUME NEW st, Good(st), NEW l \in Lease
    PROVE  Good(RemoveScript(st, l))
BY PayloadGood, ZRemGood, ScriptAssumption DEF RemoveScript, Lease

LEMMA ZRemMemberGood ==
    ASSUME NEW st, Good(st), NEW c \in Config, NEW m \in Member
    PROVE  Good(ZRemMember(st, c, m))
BY ZRemGood, ScriptAssumption DEF ZRemMember

\* Any write to one entry, followed by a refresh of its shard's head.
LEMMA RewriteGood ==
    ASSUME NEW st, Good(st), NEW s \in Shard, NEW m \in Member, NEW score \in Score
    PROVE  Good(RefreshHead(ZSet(st, s, m, score), s))
<1> DEFINE new == ZSet(st, s, m, score)
<1>1. /\ new \in Store /\ new.heads = st.heads
      /\ new.zset = [st.zset EXCEPT ![s] = [st.zset[s] EXCEPT ![m] = score]]
  BY WriteEntry DEF Good
<1>2. \A r \in Shard \ {s} : IndexedAt(new, r)
  BY <1>1 DEF Good, Indexed, IndexedAt, Store
<1>3. QED
  BY <1>1, <1>2, RefreshHeadGood

\* migrate.lua, first refusal
LEMMA ReleaseGood ==
    ASSUME NEW st, Good(st), NEW l \in Lease, NEW t \in Nat
    PROVE  Good(ReleaseCandidate(st, l, t))
<1>1. Due(t) \in Score /\ NoScore \in Score
  BY DEF Due, Score
<1>2. l.queue \in Shard /\ l.member \in Member
  BY DEF Lease
<1>3. QED
  BY <1>1, <1>2, RewriteGood DEF ReleaseCandidate

\* requeue_all.lua
LEMMA RequeueAllGood ==
    ASSUME NEW st, Good(st), NEW s \in Shard, NEW M \in SUBSET Member,
           NEW due \in [M -> Nat]
    PROVE  Good(RequeueAllScript(st, s, due))
<1> DEFINE z == [m \in Member |->
                    IF m \in DOMAIN due /\ ZScore(st, s, m) # NoScore
                       /\ ~IsLease(ZScore(st, s, m))
                    THEN due[m] ELSE ZScore(st, s, m)]
           new == [st EXCEPT !.zset[s] = z]
<1>1. st \in Store
  BY DEF Good
<1>2. \A m \in M : due[m] \in Score
  BY DEF Score
<1>3. z \in [Member -> Score]
  BY <1>1, <1>2 DEF Store, ZScore
<1>4. new \in Store /\ new.heads = st.heads /\ new.zset = [st.zset EXCEPT ![s] = z]
  BY <1>1, <1>3 DEF Store
<1>5. \A r \in Shard \ {s} : IndexedAt(new, r)
  BY <1>4 DEF Good, Indexed, IndexedAt, Store
<1>6. Good(RefreshHead(new, s))
  BY <1>4, <1>5, RefreshHeadGood
<1>7. QED
  BY <1>6 DEF RequeueAllScript

\* migrate.lua's payload is a payload.
LEMMA MigratedPayloadType ==
    ASSUME NEW current \in Payload \cup {NoPayload}, NEW normalized \in Payload
    PROVE  MigratedPayload(current, normalized) \in Payload
<1>1. CASE current = NoPayload
  BY <1>1 DEF MigratedPayload
<1>2. CASE current # NoPayload
  <2> DEFINE owners == MigratedOwners(current.owners, normalized.owners)
  <2>1. current \in Payload
    BY <1>2
  <2>2. owners \in SUBSET Workspace
    BY <2>1 DEF MigratedOwners, Payload
  <2>3. \/ MigratedPayload(current, normalized) = [normalized EXCEPT !.owners = owners]
        \/ MigratedPayload(current, normalized) = [current EXCEPT !.owners = owners]
    BY <1>2 DEF MigratedPayload
  <2>4. QED
    BY <2>1, <2>2, <2>3 DEF Payload
<1>3. QED
  BY <1>1, <1>2

\* migrate.lua, when the alias is consumed
LEMMA MoveAliasGood ==
    ASSUME NEW st, Good(st), NEW c \in Config, NEW l \in Lease, NEW t \in Nat,
           NEW normalized \in Payload
    PROVE  Good(MoveAlias(st, c, l, t, normalized))
<1> DEFINE m == Canonical[l.member]
           owned == MigrateOwned(st, c, l, t)
           q == IF owned = {} THEN Target[c][m] ELSE CHOOSE s \in owned : TRUE
           keys == MigrateShards(c, l)
           zset == [s \in Shard |->
                      IF s \notin keys THEN st.zset[s]
                      ELSE [st.zset[s] EXCEPT
                              ![l.member] = NoScore,
                              ![m] = IF s # q THEN NoScore
                                     ELSE IF owned = {} THEN LeaseScore(l.token)
                                     ELSE @]]
           payload == [st.payload EXCEPT
                          ![l.member] = NoPayload,
                          ![m] = MigratedPayload(@, normalized)]
           moved == [st EXCEPT !.zset = zset, !.payload = payload]
           dirty == {s \in keys : zset[s] # st.zset[s] \/ (owned = {} /\ s = q)}
<1>1. st \in Store /\ l.member \in Member /\ l.queue \in Shard /\ m \in Member
  BY ScriptAssumption DEF Good, Lease
<1>2. keys \in SUBSET Shard
  BY <1>1, ScriptAssumption DEF MigrateShards
<1>3. LeaseScore(l.token) \in Score /\ NoScore \in Score
  BY DEF LeaseScore, Score, Lease
<1>4. zset \in [Shard -> [Member -> Score]]
  BY <1>1, <1>3 DEF Store
<1>5. payload \in [Member -> Payload \cup {NoPayload}]
  <2> DEFINE cleared == [st.payload EXCEPT ![l.member] = NoPayload]
  <2>1. cleared \in [Member -> Payload \cup {NoPayload}]
    BY <1>1 DEF Store
  <2>2. payload = [cleared EXCEPT ![m] = MigratedPayload(cleared[m], normalized)]
    BY <1>1 DEF Store
  <2>3. MigratedPayload(cleared[m], normalized) \in Payload
    BY <1>1, <2>1, MigratedPayloadType
  <2> HIDE DEF cleared
  <2>4. QED
    BY <2>1, <2>2, <2>3
<1>6. moved \in Store /\ moved.zset = zset /\ moved.heads = st.heads
  BY <1>1, <1>4, <1>5 DEF Store
<1>7. dirty \in SUBSET Shard
  BY <1>2
<1>8. ASSUME NEW r \in Shard \ dirty PROVE IndexedAt(moved, r)
  <2>1. zset[r] = st.zset[r]
    BY <1>8
  <2>2. QED
    BY <1>6, <2>1 DEF Good, Indexed, IndexedAt
<1>9. Good(RefreshHeads(moved, dirty))
  BY <1>6, <1>7, <1>8, RefreshHeadsGood
<1>10. QED
  BY <1>9 DEF MoveAlias

\* A lost and an inherited store.
LEMMA EmptyGood == Good(EmptyStore)
<1>1. NoScore \in Score
  BY DEF Score
<1>2. EmptyStore \in Store
  BY <1>1 DEF EmptyStore, Store
<1>3. QED
  BY <1>2 DEF Good, Indexed, IndexedAt, EmptyStore

LEMMA OldGood ==
    ASSUME NEW M \in SUBSET Member, NEW p \in Payload
    PROVE  Good(OldStore(M, p))
<1> DEFINE z == [m \in Member |-> IF m \in M THEN Due(0) ELSE NoScore]
           pay == [m \in Member |-> IF m \in M THEN p ELSE NoPayload]
           st == [EmptyStore EXCEPT !.zset[Legacy] = z, !.payload = pay]
<1>1. Due(0) \in Score /\ NoScore \in Score
  BY DEF Due, Score
<1>2. z \in [Member -> Score] /\ pay \in [Member -> Payload \cup {NoPayload}]
  BY <1>1
<1>3. EmptyStore \in Store
  BY EmptyGood DEF Good
<1>4. /\ st \in Store
      /\ st.zset = [EmptyStore.zset EXCEPT ![Legacy] = z]
  BY <1>2, <1>3, ScriptAssumption DEF Store
<1>5. \A r \in Shard \ {Legacy} : IndexedAt(st, r)
  BY <1>4 DEF IndexedAt, EmptyStore
<1>6. QED
  BY <1>4, <1>5, ScriptAssumption, RefreshHeadGood DEF OldStore

-----------------------------------------------------------------------------
(* pop.lua: what every iteration of its loop keeps.                        *)

AnyMember == CHOOSE m \in Member : TRUE

Scans == [st : Store, done : BOOLEAN, found : BOOLEAN, shard : Shard,
          member : Member \cup {AnyMember}, score : Score]

\* The claim, if there is one, took an expired or due entry with a payload and
\* marked it; every other entry is as it was, or was due and is gone.
Claimed(old, r, s, m) == r.found /\ s = r.shard /\ m = r.member

ClaimOK(old, t, r) ==
    r.found =>
        /\ r.done
        /\ r.member \in Member
        /\ old.payload[r.member] # NoPayload
        /\ r.score # NoScore /\ r.score <= Due(t)
        /\ old.zset[r.shard][r.member] = r.score
        /\ r.st.zset[r.shard][r.member] = LeaseScore(t + LeaseTime)

OthersKept(old, t, r) ==
    \A s \in Shard, m \in Member :
        ~Claimed(old, r, s, m) =>
            \/ r.st.zset[s][m] = old.zset[s][m]
            \/ r.st.zset[s][m] = NoScore /\ old.zset[s][m] <= Due(t)

ScanOK(old, t, r) ==
    /\ r \in Scans
    /\ Indexed(r.st)
    /\ r.st.payload = old.payload
    /\ ClaimOK(old, t, r)
    /\ OthersKept(old, t, r)

\* ZRANGE proxy_queue_heads 0 0 names a shard with the lowest head.
LEMMA FirstShardLeast ==
    ASSUME NEW st \in Store, IndexedShards(st) # {}
    PROVE  /\ FirstShard(st) \in Shard
           /\ \A x \in IndexedShards(st) : st.heads[FirstShard(st)] <= st.heads[x]
<1> DEFINE T == {st.heads[s] : s \in IndexedShards(st)}
<1>1. \A s \in IndexedShards(st) : s \in Shard /\ st.heads[s] \in Nat
  BY DEF IndexedShards, Store, Score
<1>2. T \in SUBSET Nat /\ T # {}
  BY <1>1
<1>3. PICK x \in T : \A y \in T : x <= y
  BY <1>2, LeastNatural
<1>4. \E s \in IndexedShards(st) : \A r \in IndexedShards(st) : st.heads[s] <= st.heads[r]
  BY <1>3
<1>5. /\ FirstShard(st) \in IndexedShards(st)
      /\ \A r \in IndexedShards(st) : st.heads[FirstShard(st)] <= st.heads[r]
  BY <1>4 DEF FirstShard
<1>6. QED
  BY <1>1, <1>5

LEMMA ScanStart ==
    ASSUME NEW old, Good(old), NEW t \in Nat
    PROVE  ScanOK(old, t, Scan(old))
<1>1. NoScore \in Score
  BY DEF Score
<1>2. Scan(old) \in Scans
  BY <1>1, ScriptAssumption DEF Scan, Scans, Good, AnyMember
<1>3. Scan(old).st = old /\ Scan(old).found = FALSE
  BY DEF Scan
<1>4. QED
  BY <1>2, <1>3 DEF ScanOK, ClaimOK, OthersKept, Good

LEMMA PassKeeps ==
    ASSUME NEW old, Good(old), NEW t \in Nat, NEW r, ScanOK(old, t, r)
    PROVE  ScanOK(old, t, PopPass(r, t))
<1> DEFINE st == r.st
           s == FirstShard(st)
           m == FirstEntry(st, s)
           score == ZScore(st, s, m)
<1>1. r \in Scans /\ Good(st) /\ st \in Store /\ old \in Store
  BY DEF ScanOK, Scans, Good
<1>2. CASE r.done \/ IndexedShards(st) = {}
  <2> DEFINE new == [r EXCEPT !.done = TRUE]
  <2>1. PopPass(r, t) = new
    BY <1>2 DEF PopPass
  <2>2. /\ new \in Scans /\ new.st = st /\ new.found = r.found /\ new.shard = r.shard
        /\ new.member = r.member /\ new.score = r.score /\ new.done = TRUE
    BY <1>1 DEF Scans
  <2>3. QED
    BY <2>1, <2>2 DEF ScanOK, ClaimOK, OthersKept, Claimed
<1>3. CASE ~(r.done \/ IndexedShards(st) = {})
  <2>1. ~r.done /\ ~r.found
    BY <1>3 DEF ScanOK, ClaimOK
  <2>2. s \in Shard
    BY <1>1, <1>3, FirstShardLeast
  <2>3. ASSUME NEW x \in Shard, NEW n \in Member
        PROVE  \/ st.zset[x][n] = old.zset[x][n]
               \/ st.zset[x][n] = NoScore /\ old.zset[x][n] <= Due(t)
    BY <2>1 DEF ScanOK, OthersKept, Claimed
  <2>4. ASSUME NEW h \in Score, Good([st EXCEPT !.heads[s] = h])
        PROVE  ScanOK(old, t, [r EXCEPT !.st.heads[s] = h])
    <3> DEFINE new == [r EXCEPT !.st.heads[s] = h]
    <3>1. /\ new \in Scans /\ new.found = r.found /\ new.st = [st EXCEPT !.heads[s] = h]
      <4>1. [st EXCEPT !.heads[s] = h] \in Store
        BY <1>1, <2>2, WriteHead
      <4>2. new = [r EXCEPT !.st = [st EXCEPT !.heads[s] = h]]
        BY <1>1 DEF Scans
      <4>3. QED
        BY <1>1, <4>1, <4>2 DEF Scans
    <3> HIDE DEF new
    <3>2. new.st.zset = st.zset /\ new.st.payload = st.payload
      <4> DEFINE mid == [st EXCEPT !.heads[s] = h]
      <4>1. mid.zset = st.zset /\ mid.payload = st.payload
        BY <1>1, <2>2, WriteHead
      <4>2. new.st = mid
        BY <3>1
      <4> HIDE DEF mid
      <4>3. QED
        BY <4>1, <4>2
    <3>3. ClaimOK(old, t, new)
      BY <2>1, <3>1 DEF ClaimOK
    <3>4. OthersKept(old, t, new)
      BY <2>3, <3>2 DEF OthersKept
    <3>5. Indexed(new.st) /\ new.st.payload = old.payload
      BY <2>4, <3>1, <3>2 DEF Good, ScanOK
    <3>6. ScanOK(old, t, new)
      BY <3>1, <3>3, <3>4, <3>5 DEF ScanOK
    <3>7. QED
      BY <3>6 DEF new
  <2>5. CASE Entries(st, s) = {}
    <3>1. PopPass(r, t) = [r EXCEPT !.st.heads[s] = NoScore]
      BY <1>3, <2>5 DEF PopPass
    <3>2. HeadOf(st, s) = NoScore
      BY <2>5 DEF HeadOf
    <3>3. NoScore \in Score
      BY DEF Score
    <3>4. Good([st EXCEPT !.heads[s] = NoScore])
      BY <3>2, <1>1, <2>2, RefreshHeadGood DEF RefreshHead, Good, Indexed
    <3>5. QED
      BY <3>1, <3>3, <3>4, <2>4
  <2>6. CASE Entries(st, s) # {} /\ score # st.heads[s]
    <3>1. PopPass(r, t) = [r EXCEPT !.st.heads[s] = score]
      BY <1>3, <2>6 DEF PopPass
    <3>2. HeadOf(st, s) = score
      BY <2>6 DEF HeadOf
    <3>3. score \in Score
      BY <3>2, <1>1, <2>2, HeadOfBounds
    <3>4. Good([st EXCEPT !.heads[s] = score])
      BY <3>2, <1>1, <2>2, RefreshHeadGood DEF RefreshHead, Good, Indexed
    <3>5. QED
      BY <3>1, <3>3, <3>4, <2>4
  <2>7. CASE Entries(st, s) # {} /\ score = st.heads[s]
    <3>1. m \in Member /\ score # NoScore /\ score = st.zset[s][m]
      BY <1>1, <2>2, <2>7, FirstEntryIsLeast DEF Entries, ZScore
    <3>2. score \in Nat
      BY <1>1, <2>2, <3>1 DEF Store, Score
    <3>3. old.zset[s][m] = score
      BY <2>2, <2>3, <3>1
    <3>4. ASSUME NEW x \in Score
          PROVE  LET new == RefreshHead(ZSet(st, s, m, x), s)
                 IN /\ Good(new) /\ new.payload = st.payload
                    /\ \A q \in Shard, n \in Member :
                         new.zset[q][n] = IF q = s /\ n = m THEN x ELSE st.zset[q][n]
      <4> DEFINE mid == ZSet(st, s, m, x)
                 new == RefreshHead(mid, s)
      <4>1. /\ mid \in Store /\ mid.payload = st.payload
            /\ mid.zset = [st.zset EXCEPT ![s] = [st.zset[s] EXCEPT ![m] = x]]
        BY <1>1, <2>2, <3>1, WriteEntry
      <4>2. new.zset = mid.zset /\ new.payload = mid.payload
        BY <4>1, <2>2, HeadOfBounds, WriteHead DEF RefreshHead
      <4>3. Good(new)
        BY <1>1, <2>2, <3>1, RewriteGood
      <4>4. ASSUME NEW q \in Shard, NEW n \in Member
            PROVE  mid.zset[q][n] = IF q = s /\ n = m THEN x ELSE st.zset[q][n]
        BY <1>1, <2>2, <3>1, <4>1 DEF Store
      <4>5. QED
        BY <4>1, <4>2, <4>3, <4>4
    <3>5. CASE score > Due(t)
      <4> DEFINE new == [r EXCEPT !.done = TRUE]
      <4>1. PopPass(r, t) = new
        BY <1>3, <2>7, <3>5 DEF PopPass
      <4>2. new \in Scans /\ new.st = st /\ new.found = r.found
        BY <1>1 DEF Scans
      <4>3. QED
        BY <4>1, <4>2, <2>1, <2>3 DEF ScanOK, ClaimOK, OthersKept
    <3>6. CASE ~(score > Due(t)) /\ st.payload[m] = NoPayload
      <4> DEFINE left == RefreshHead(ZSet(st, s, m, NoScore), s)
                 new == [r EXCEPT !.st = left]
      <4>1. PopPass(r, t) = new
        BY <1>3, <2>7, <3>6 DEF PopPass, ZRem
      <4>2. NoScore \in Score
        BY DEF Score
      <4>3. /\ Good(left) /\ left.payload = st.payload
            /\ \A q \in Shard, n \in Member :
                 left.zset[q][n] = IF q = s /\ n = m THEN NoScore ELSE st.zset[q][n]
        BY <4>2, <3>4
      <4>4. new \in Scans /\ new.st = left /\ new.found = r.found
        BY <1>1, <4>3 DEF Scans, Good
      <4>5. old.zset[s][m] <= Due(t)
        BY <3>2, <3>3, <3>6 DEF Due
      <4> HIDE DEF left
      <4>6. OthersKept(old, t, new)
        BY <2>3, <4>3, <4>4, <4>5 DEF OthersKept
      <4>7. QED
        BY <4>1, <4>3, <4>4, <4>6, <2>1 DEF ScanOK, ClaimOK, Good
    <3>7. CASE ~(score > Due(t)) /\ st.payload[m] # NoPayload
      <4> DEFINE mark == LeaseScore(t + LeaseTime)
                 left == RefreshHead(ZSet(st, s, m, mark), s)
                 new == [st |-> left, done |-> TRUE, found |-> TRUE,
                         shard |-> s, member |-> m, score |-> score]
      <4>1. PopPass(r, t) = new
        BY <1>3, <2>7, <3>7 DEF PopPass
      <4>2. mark \in Score
        BY ScriptAssumption DEF LeaseScore, Score
      <4>3. /\ Good(left) /\ left.payload = st.payload
            /\ \A q \in Shard, n \in Member :
                 left.zset[q][n] = IF q = s /\ n = m THEN mark ELSE st.zset[q][n]
        BY <4>2, <3>4
      <4>4. score \in Score
        BY <3>2 DEF Score
      <4>5. score <= Due(t)
        BY <3>2, <3>7 DEF Due
      <4> HIDE DEF left, mark
      <4>6. new \in Scans
        BY <4>3, <4>4, <2>2, <3>1 DEF Scans, Good
      <4>7. ClaimOK(old, t, new)
        BY <4>3, <4>5, <2>2, <3>1, <3>3, <3>7 DEF ClaimOK, ScanOK, mark
      <4>8. OthersKept(old, t, new)
        BY <2>3, <4>3 DEF OthersKept, Claimed
      <4>9. QED
        BY <4>1, <4>3, <4>6, <4>7, <4>8 DEF ScanOK, Good
    <3>8. QED
      BY <3>5, <3>6, <3>7
  <2>8. QED
    BY <2>5, <2>6, <2>7
<1>4. QED
  BY <1>2, <1>3

\* pop.lua
LEMMA PopKeeps ==
    ASSUME NEW old, Good(old), NEW t \in Nat, NEW r \in PopScript(old, t)
    PROVE  ScanOK(old, t, r)
<1>1. ASSUME NEW S, \A x \in S : ScanOK(old, t, x)
      PROVE  \A x \in PassTwice(S, t) : ScanOK(old, t, x)
  <2>1. \A x \in Pass(S, t) : ScanOK(old, t, x)
    BY <1>1, PassKeeps DEF Pass
  <2>2. QED
    BY <2>1, PassKeeps DEF Pass, PassTwice
<1> DEFINE S1 == PassTwice({Scan(old)}, t)
           S2 == PassTwice(S1, t)
           S3 == PassTwice(S2, t)
<1>2. \A x \in {Scan(old)} : ScanOK(old, t, x)
  BY ScanStart
<1>3. \A x \in S1 : ScanOK(old, t, x)
  BY <1>1, <1>2
<1> HIDE DEF S1
<1>4. \A x \in S2 : ScanOK(old, t, x)
  BY <1>1, <1>3
<1> HIDE DEF S2
<1>5. \A x \in S3 : ScanOK(old, t, x)
  BY <1>1, <1>4
<1>6. r \in PassTwice(S3, t)
  BY DEF PopScript, S1, S2
<1> HIDE DEF S3
<1>7. QED
  BY <1>1, <1>5, <1>6

-----------------------------------------------------------------------------
(* pop.lua takes the lowest score of all shards: until it claims, only     *)
(* entries without a payload have left the store it started from.          *)

LowestSoFar(old, r) ==
    IF r.found
    THEN \A s \in Shard, n \in Member :
            old.zset[s][n] # NoScore /\ old.payload[n] # NoPayload
                => r.score <= old.zset[s][n]
    ELSE \A s \in Shard, n \in Member :
            old.payload[n] # NoPayload => r.st.zset[s][n] = old.zset[s][n]

LEMMA PassLowest ==
    ASSUME NEW old, Good(old), NEW t \in Nat, NEW r, ScanOK(old, t, r),
           LowestSoFar(old, r)
    PROVE  LowestSoFar(old, PopPass(r, t))
<1> DEFINE st == r.st
           s == FirstShard(st)
           m == FirstEntry(st, s)
           score == ZScore(st, s, m)
<1>1. r \in Scans /\ Good(st) /\ st \in Store /\ st.payload = old.payload
  BY DEF ScanOK, Scans, Good
<1>2. CASE r.done \/ IndexedShards(st) = {}
  <2> DEFINE new == [r EXCEPT !.done = TRUE]
  <2>1. PopPass(r, t) = new
    BY <1>2 DEF PopPass
  <2>2. new.st = st /\ new.found = r.found /\ new.score = r.score
    BY <1>1 DEF Scans
  <2>3. QED
    BY <2>1, <2>2 DEF LowestSoFar
<1>3. CASE ~(r.done \/ IndexedShards(st) = {})
  <2>1. ~r.done /\ ~r.found
    BY <1>3 DEF ScanOK, ClaimOK
  <2>2. /\ s \in Shard
        /\ \A x \in IndexedShards(st) : st.heads[s] <= st.heads[x]
    BY <1>1, <1>3, FirstShardLeast
  <2>3. \A x \in Shard, n \in Member :
          old.payload[n] # NoPayload => st.zset[x][n] = old.zset[x][n]
    BY <2>1 DEF LowestSoFar
  <2>4. ASSUME NEW h
        PROVE  LowestSoFar(old, [r EXCEPT !.st.heads[s] = h])
    <3> DEFINE mid == [st EXCEPT !.heads[s] = h]
               new == [r EXCEPT !.st.heads[s] = h]
    <3>1. mid.zset = st.zset
      BY <1>1 DEF Store
    <3>2. new.found = r.found /\ new.st = mid
      BY <1>1 DEF Scans
    <3> HIDE DEF mid, new
    <3>3. LowestSoFar(old, new)
      BY <2>1, <2>3, <3>1, <3>2 DEF LowestSoFar
    <3>4. QED
      BY <3>3 DEF new
  <2>5. CASE Entries(st, s) = {}
    BY <1>3, <2>4, <2>5 DEF PopPass
  <2>6. CASE Entries(st, s) # {} /\ score # st.heads[s]
    BY <1>3, <2>4, <2>6 DEF PopPass
  <2>7. CASE Entries(st, s) # {} /\ score = st.heads[s]
    <3>1. m \in Member
      BY <1>1, <2>2, <2>7, FirstEntryIsLeast DEF Entries
    <3>2. CASE score > Due(t)
      <4> DEFINE new == [r EXCEPT !.done = TRUE]
      <4>1. PopPass(r, t) = new
        BY <1>3, <2>7, <3>2 DEF PopPass
      <4>2. new.st = st /\ new.found = r.found
        BY <1>1 DEF Scans
      <4>3. QED
        BY <4>1, <4>2, <2>1, <2>3 DEF LowestSoFar
    <3>3. CASE ~(score > Due(t)) /\ st.payload[m] = NoPayload
      <4> DEFINE mid == ZSet(st, s, m, NoScore)
                 left == RefreshHead(mid, s)
                 new == [r EXCEPT !.st = left]
      <4>1. PopPass(r, t) = new
        BY <1>3, <2>7, <3>3 DEF PopPass, ZRem
      <4>2. NoScore \in Score
        BY DEF Score
      <4>3. /\ mid \in Store
            /\ mid.zset = [st.zset EXCEPT ![s] = [st.zset[s] EXCEPT ![m] = NoScore]]
        BY <1>1, <2>2, <3>1, <4>2, WriteEntry
      <4>4. left.zset = mid.zset
        BY <4>3, <2>2, HeadOfBounds, WriteHead DEF RefreshHead
      <4>5. new.st = left /\ new.found = r.found
        BY <1>1 DEF Scans
      <4>6. ASSUME NEW x \in Shard, NEW n \in Member, n # m
            PROVE  left.zset[x][n] = st.zset[x][n]
        BY <1>1, <2>2, <3>1, <4>3, <4>4, <4>6 DEF Store
      <4> HIDE DEF mid, left, new
      <4>7. QED
        BY <1>1, <2>1, <2>3, <3>3, <4>1, <4>5, <4>6 DEF LowestSoFar
    <3>4. CASE ~(score > Due(t)) /\ st.payload[m] # NoPayload
      <4>1. PopPass(r, t).found /\ PopPass(r, t).score = score
        BY <1>3, <2>7, <3>4 DEF PopPass
      <4>2. ASSUME NEW x \in Shard, NEW n \in Member,
                   old.zset[x][n] # NoScore, old.payload[n] # NoPayload
            PROVE  score <= old.zset[x][n]
        <5>1. st.zset[x][n] = old.zset[x][n]
          BY <2>3, <4>2
        <5>2. st.heads[x] # NoScore /\ st.heads[x] <= st.zset[x][n]
          BY <1>1, <4>2, <5>1 DEF Good, Indexed, IndexedAt
        <5>3. st.heads[s] <= st.heads[x]
          BY <2>2, <5>2 DEF IndexedShards
        <5>4. st.heads[s] \in Int /\ st.heads[x] \in Int /\ st.zset[x][n] \in Int
          BY <1>1, <2>2 DEF Store, Score, NoScore
        <5>5. QED
          BY <2>7, <5>1, <5>2, <5>3, <5>4
      <4>3. QED
        BY <4>1, <4>2 DEF LowestSoFar
    <3>5. QED
      BY <3>2, <3>3, <3>4
  <2>8. QED
    BY <2>5, <2>6, <2>7
<1>4. QED
  BY <1>2, <1>3

LEMMA PopLowest ==
    ASSUME NEW old, Good(old), NEW t \in Nat, NEW r \in PopScript(old, t)
    PROVE  LowestSoFar(old, r)
<1> DEFINE Both(x) == ScanOK(old, t, x) /\ LowestSoFar(old, x)
<1>1. ASSUME NEW S, \A x \in S : Both(x)
      PROVE  \A x \in PassTwice(S, t) : Both(x)
  <2>1. \A x \in Pass(S, t) : Both(x)
    BY <1>1, PassKeeps, PassLowest DEF Pass
  <2>2. QED
    BY <2>1, PassKeeps, PassLowest DEF Pass, PassTwice
<1> DEFINE S1 == PassTwice({Scan(old)}, t)
           S2 == PassTwice(S1, t)
           S3 == PassTwice(S2, t)
<1>2. \A x \in {Scan(old)} : Both(x)
  BY ScanStart DEF Scan, LowestSoFar
<1>3. \A x \in S1 : Both(x)
  BY <1>1, <1>2
<1> HIDE DEF S1
<1>4. \A x \in S2 : Both(x)
  BY <1>1, <1>3
<1> HIDE DEF S2
<1>5. \A x \in S3 : Both(x)
  BY <1>1, <1>4
<1>6. r \in PassTwice(S3, t)
  BY DEF PopScript, S1, S2
<1> HIDE DEF S3
<1>7. QED
  BY <1>1, <1>5, <1>6

-----------------------------------------------------------------------------
(* Type correctness and the head index.                                    *)

Sound == TypeOK /\ HeadIndexed

LEMMA SoundIsGood == Sound <=> TypeOK /\ Good(redis)
BY DEF Sound, TypeOK, HeadIndexed, Good, Indexed, IndexedAt, Entries, ZScore

LEMMA GoodIsSoundNext ==
    ASSUME Good(redis'), now' \in Nat, lease' \in [Worker -> Lease \cup {NoLease}],
           revoked' \in SUBSET Worker, removing' \in SUBSET (Config \X Member)
    PROVE  Sound'
BY DEF Sound, TypeOK, HeadIndexed, Good, Indexed, IndexedAt, Entries, ZScore

\* What a busy worker holds.
LEMMA BusyLease ==
    ASSUME TypeOK, NEW w \in Worker, Busy(w)
    PROVE  lease[w] \in Lease
BY DEF TypeOK, Busy

LEMMA NormalizedType ==
    ASSUME NEW p \in Payload, NEW tag \in Tag
    PROVE  Normalized(p, tag) \in Payload
BY DEF Normalized, Payload

LEMMA InitSound == Init => Sound
<1> SUFFICES ASSUME Init PROVE Sound
  OBVIOUS
<1>1. PICK M \in SUBSET Member, p \in Payload : redis = OldStore(M, p)
  BY DEF Init
<1>2. Good(redis)
  BY <1>1, OldGood
<1>3. TypeOK
  BY <1>2 DEF TypeOK, Init, Good
<1>4. QED
  BY <1>2, <1>3, SoundIsGood

LEMMA AddSound ==
    ASSUME Sound, NEW c \in Config, NEW m \in Member, AddToQueue(c, m)
    PROVE  Sound'
<1>1. PICK t \in 0..now, i \in Interval, owners \in (SUBSET Workspace) \ {{}}, tag \in Tag :
        /\ Reading(t)
        /\ \E offset \in 0..(i - 1) :
             redis' = AddScript(redis, c, m, Due(t + offset),
                                [owners |-> owners, fmt |-> "current", tag |-> tag])
  BY DEF AddToQueue
<1>2. PICK offset \in 0..(i - 1) :
        redis' = AddScript(redis, c, m, Due(t + offset),
                           [owners |-> owners, fmt |-> "current", tag |-> tag])
  BY <1>1
<1>3. [owners |-> owners, fmt |-> "current", tag |-> tag] \in Payload
  BY DEF Payload
<1>4. i \in Nat
  BY QueueAssumption
<1>5. t \in Nat /\ offset \in Nat
  BY <1>1, <1>2, <1>4 DEF Reading
<1>6. Due(t + offset) \in Nat
  BY <1>5 DEF Due
<1>7. Good(redis)
  BY SoundIsGood
<1>8. Good(redis')
  BY <1>2, <1>3, <1>6, <1>7, AddGood
<1>9. QED
  BY <1>8, GoodIsSoundNext DEF Sound, TypeOK, AddToQueue

LEMMA AdminSound ==
    ASSUME Sound, NEW c \in Config, NEW m \in Member,
           RemovePayload(c, m) \/ RemoveEntry(c, m)
    PROVE  Sound'
<1>1. Good(redis)
  BY SoundIsGood
<1>2. CASE RemovePayload(c, m)
  <2>1. Good(redis')
    BY <1>1, <1>2, PayloadGood DEF RemovePayload, DelPayload
  <2>2. QED
    BY <2>1, <1>2, GoodIsSoundNext DEF Sound, TypeOK, RemovePayload
<1>3. CASE RemoveEntry(c, m)
  <2>1. Good(redis')
    BY <1>1, <1>3, ZRemMemberGood DEF RemoveEntry
  <2>2. QED
    BY <2>1, <1>3, GoodIsSoundNext DEF Sound, TypeOK, RemoveEntry
<1>4. QED
  BY <1>2, <1>3

LEMMA BulkSound ==
    ASSUME Sound, NEW c \in Config,
           RefreshQueueHeads(c) \/ \E s \in Shard : RequeueAll(c, s)
    PROVE  Sound'
<1>1. Good(redis)
  BY SoundIsGood
<1>2. CASE RefreshQueueHeads(c)
  <2>1. PopKeys[c] \in SUBSET Shard
    BY ScriptAssumption
  <2>2. redis \in Store /\ \A r \in Shard \ PopKeys[c] : IndexedAt(redis, r)
    BY <1>1 DEF Good, Indexed
  <2>3. Good(redis')
    BY <1>2, <2>1, <2>2, RefreshHeadsGood DEF RefreshQueueHeads
  <2>4. QED
    BY <2>3, <1>2, GoodIsSoundNext DEF Sound, TypeOK, RefreshQueueHeads
<1>3. ASSUME NEW s \in Shard, RequeueAll(c, s) PROVE Sound'
  <2>1. PICK t \in 0..now, i \in Interval, listed \in SUBSET Member :
          /\ Reading(t)
          /\ \E offset \in [listed -> 0..(i - 1)] :
               redis' = RequeueAllScript(redis, s, [m \in listed |-> Due(t + offset[m])])
    BY <1>3 DEF RequeueAll
  <2>2. PICK offset \in [listed -> 0..(i - 1)] :
          redis' = RequeueAllScript(redis, s, [m \in listed |-> Due(t + offset[m])])
    BY <2>1
  <2>3. t \in Nat /\ i \in Nat
    BY <2>1, QueueAssumption DEF Reading
  <2>4. [m \in listed |-> Due(t + offset[m])] \in [listed -> Nat]
    BY <2>3 DEF Due
  <2>5. Good(redis')
    BY <1>1, <2>2, <2>4, RequeueAllGood
  <2>6. QED
    BY <2>5, <1>3, GoodIsSoundNext DEF Sound, TypeOK, RequeueAll
<1>4. QED
  BY <1>2, <1>3

LEMMA PopSound ==
    ASSUME Sound, NEW w \in Worker, GetNextProxy(w)
    PROVE  Sound'
<1>1. Good(redis)
  BY SoundIsGood
<1>2. PICK t \in 0..now : \E r \in PopScript(redis, t) :
        /\ Reading(t)
        /\ LET p == r.st.payload[r.member]
           IN /\ redis' = r.st
              /\ lease' = [lease EXCEPT ![w] =
                    IF ~r.found THEN NoLease
                    ELSE [phase   |-> IF p.fmt = "old" THEN "candidate" ELSE "held",
                          member  |-> r.member,
                          token   |-> t + LeaseTime,
                          queue   |-> r.shard,
                          payload |-> p,
                          sched   |-> Floor(r.score)]]
  BY DEF GetNextProxy
<1>3. PICK r \in PopScript(redis, t) :
        /\ Reading(t)
        /\ redis' = r.st
        /\ lease' = [lease EXCEPT ![w] =
              IF ~r.found THEN NoLease
              ELSE [phase   |-> IF r.st.payload[r.member].fmt = "old" THEN "candidate" ELSE "held",
                    member  |-> r.member,
                    token   |-> t + LeaseTime,
                    queue   |-> r.shard,
                    payload |-> r.st.payload[r.member],
                    sched   |-> Floor(r.score)]]
  BY <1>2
<1>4. t \in Nat
  BY <1>3 DEF Reading
<1>5. ScanOK(redis, t, r)
  BY <1>1, <1>4, PopKeeps
<1>6. Good(redis')
  BY <1>3, <1>5 DEF ScanOK, Scans, Good
<1>7. ASSUME r.found
      PROVE  /\ r.member \in Member /\ r.shard \in Shard
             /\ r.st.payload[r.member] \in Payload
             /\ Floor(r.score) \in Nat /\ t + LeaseTime \in Nat
  <2>1. /\ r.member \in Member /\ r.shard \in Shard
        /\ r.score # NoScore /\ r.score \in Score
        /\ r.st.payload = redis.payload /\ redis.payload[r.member] # NoPayload
    BY <1>5, <1>7 DEF ScanOK, ClaimOK, Scans
  <2>2. r.score \in Nat
    BY <2>1 DEF Score
  <2>3. Floor(r.score) \in Nat
    BY <2>2 DEF Floor
  <2>4. t + LeaseTime \in Nat
    BY <1>4, ScriptAssumption
  <2>5. redis.payload[r.member] \in Payload
    BY <1>1, <2>1 DEF Good, Store
  <2>6. QED
    BY <2>1, <2>3, <2>4, <2>5
<1>8. lease' \in [Worker -> Lease \cup {NoLease}]
  <2>1. lease \in [Worker -> Lease \cup {NoLease}]
    BY DEF Sound, TypeOK
  <2>2. CASE r.found
    <3> DEFINE l == [phase   |-> IF r.st.payload[r.member].fmt = "old" THEN "candidate" ELSE "held",
                     member  |-> r.member,
                     token   |-> t + LeaseTime,
                     queue   |-> r.shard,
                     payload |-> r.st.payload[r.member],
                     sched   |-> Floor(r.score)]
    <3>1. l \in Lease
      BY <1>7, <2>2 DEF Lease
    <3>2. lease' = [lease EXCEPT ![w] = l]
      BY <1>3, <2>2
    <3> HIDE DEF l
    <3>3. QED
      BY <2>1, <3>1, <3>2
  <2>3. CASE ~r.found
    <3>1. lease' = [lease EXCEPT ![w] = NoLease]
      BY <1>3, <2>3
    <3>2. QED
      BY <2>1, <3>1
  <2>4. QED
    BY <2>2, <2>3
<1>9. QED
  BY <1>6, <1>8, GoodIsSoundNext DEF Sound, TypeOK, GetNextProxy

LEMMA RefusedSound ==
    ASSUME Sound, NEW w \in Worker, NEW c \in Config, MigrateRefused(w, c)
    PROVE  Sound'
<1> DEFINE l == lease[w]
<1>1. Good(redis) /\ TypeOK
  BY SoundIsGood
<1>2. l \in Lease /\ l.payload \in Payload
  BY <1>1, BusyLease DEF MigrateRefused, Lease
<1>3. PICK t \in 0..now, tag \in Tag :
        /\ Reading(t)
        /\ \/ UNCHANGED redis
           \/ redis' = ReleaseCandidate(redis, l, t)
           \/ redis' = MoveAlias(redis, c, l, t, Normalized(l.payload, tag))
  BY DEF MigrateRefused
<1>4. t \in Nat /\ Normalized(l.payload, tag) \in Payload
  BY <1>2, <1>3, NormalizedType DEF Reading
<1>5. Good(redis')
  BY <1>1, <1>2, <1>3, <1>4, ReleaseGood, MoveAliasGood
<1>6. lease' \in [Worker -> Lease \cup {NoLease}]
  BY <1>1 DEF TypeOK, MigrateRefused
<1>7. QED
  BY <1>1, <1>5, <1>6, GoodIsSoundNext DEF TypeOK, MigrateRefused, Displaced

LEMMA ClaimedSound ==
    ASSUME Sound, NEW w \in Worker, NEW c \in Config, MigrateClaimed(w, c)
    PROVE  Sound'
<1> DEFINE l == lease[w]
           m == Canonical[l.member]
<1>1. Good(redis) /\ TypeOK
  BY SoundIsGood
<1>2. /\ l \in Lease /\ l.payload \in Payload /\ m \in Member
      /\ Target[c][m] \in Shard
  BY <1>1, BusyLease, ScriptAssumption DEF MigrateClaimed, Lease
<1>3. PICK t \in 0..now, tag \in Tag :
        /\ Reading(t)
        /\ Removable(redis, l) /\ l.token > t
        /\ \/ /\ m = l.member
              /\ redis' = SetPayload(redis, m, Normalized(l.payload, tag))
              /\ lease' = [lease EXCEPT ![w].phase = "held",
                                        ![w].payload = Normalized(l.payload, tag)]
           \/ /\ m # l.member
              /\ MigrateOwned(redis, c, l, t) = {}
              /\ redis' = MoveAlias(redis, c, l, t, Normalized(l.payload, tag))
              /\ lease' = [lease EXCEPT ![w] =
                    [@ EXCEPT !.phase = "held", !.member = m,
                              !.queue = Target[c][m],
                              !.payload = redis'.payload[m]]]
  BY DEF MigrateClaimed
<1> DEFINE p == Normalized(l.payload, tag)
<1>4. t \in Nat /\ p \in Payload
  BY <1>2, <1>3, NormalizedType DEF Reading
<1> HIDE DEF p
<1>5. Good(redis')
  BY <1>1, <1>2, <1>3, <1>4, PayloadGood, MoveAliasGood DEF p
<1>6. lease' \in [Worker -> Lease \cup {NoLease}]
  <2>1. lease \in [Worker -> Lease \cup {NoLease}]
    BY <1>1 DEF TypeOK
  <2>2. CASE m = l.member
    <3> DEFINE new == [l EXCEPT !.phase = "held", !.payload = p]
    <3>1. new \in Lease
      BY <1>2, <1>4 DEF Lease
    <3>2. lease' = [lease EXCEPT ![w] = new]
      BY <1>2, <1>3, <2>1, <2>2 DEF p, Lease
    <3> HIDE DEF new
    <3>3. QED
      BY <2>1, <3>1, <3>2
  <2>3. CASE m # l.member
    <3> DEFINE new == [l EXCEPT !.phase = "held", !.member = m, !.queue = Target[c][m],
                                !.payload = redis'.payload[m]]
    <3>1. redis'.payload[m] \in Payload
      <4>1. /\ redis' = MoveAlias(redis, c, l, t, p)
            /\ redis \in Store /\ l.member \in Member
        BY <1>1, <1>2, <1>3, <2>3 DEF p, Good, Lease
      <4>2. redis'.payload[m] = MigratedPayload(redis.payload[m], p)
        BY <1>2, <2>3, <4>1 DEF MoveAlias, RefreshHeads, Store
      <4>3. QED
        BY <1>2, <1>4, <4>1, <4>2, MigratedPayloadType DEF Store
    <3>2. new \in Lease
      BY <1>2, <3>1 DEF Lease
    <3>3. lease' = [lease EXCEPT ![w] = new]
      BY <1>3, <2>1, <2>3
    <3> HIDE DEF new
    <3>4. QED
      BY <2>1, <3>2, <3>3
  <2>4. QED
    BY <2>2, <2>3
<1>7. QED
  BY <1>1, <1>5, <1>6, GoodIsSoundNext DEF TypeOK, MigrateClaimed, Displaced

LEMMA LoseLeaseSound ==
    ASSUME Sound, NEW w \in Worker, LoseLease(w)
    PROVE  Sound'
<1>1. Good(redis) /\ TypeOK
  BY SoundIsGood
<1>2. lease' \in [Worker -> Lease \cup {NoLease}]
  BY <1>1 DEF TypeOK, LoseLease
<1>3. QED
  BY <1>1, <1>2, GoodIsSoundNext DEF TypeOK, LoseLease

LEMMA RenewSound ==
    ASSUME Sound, NEW w \in Worker, RenewLease(w)
    PROVE  Sound'
<1> DEFINE l == lease[w]
<1>1. Good(redis) /\ TypeOK
  BY SoundIsGood
<1>2. l \in Lease /\ l.token \in Nat
  BY <1>1, BusyLease DEF RenewLease, Lease
<1>3. PICK t \in 0..now :
        /\ Reading(t)
        /\ l.token - t <= RenewMargin
        /\ \/ /\ Renewable(redis, l, t)
              /\ redis' = RenewScript(redis, l, t)
              /\ lease' = [lease EXCEPT ![w].token = t + LeaseTime]
              /\ revoked' = revoked \cup Displaced(w)
              /\ UNCHANGED <<now, removing>>
           \/ LoseLease(w)
  BY DEF RenewLease
<1>4. t \in Nat /\ t + LeaseTime \in Nat /\ l.token < t + LeaseTime
  BY <1>2, <1>3, ScriptAssumption, QueueAssumption DEF Reading
<1>5. CASE LoseLease(w)
  BY <1>5, LoseLeaseSound
<1>6. CASE /\ Renewable(redis, l, t)
           /\ redis' = RenewScript(redis, l, t)
           /\ lease' = [lease EXCEPT ![w].token = t + LeaseTime]
           /\ revoked' = revoked \cup Displaced(w)
           /\ UNCHANGED <<now, removing>>
  <2>1. Good(redis')
    BY <1>1, <1>2, <1>4, <1>6, RenewGood DEF Renewable
  <2>2. lease' \in [Worker -> Lease \cup {NoLease}]
    <3> DEFINE new == [l EXCEPT !.token = t + LeaseTime]
    <3>1. lease \in [Worker -> Lease \cup {NoLease}]
      BY <1>1 DEF TypeOK
    <3>2. new \in Lease
      BY <1>2, <1>4 DEF Lease
    <3>3. lease' = [lease EXCEPT ![w] = new]
      BY <1>6, <3>1
    <3> HIDE DEF new
    <3>4. QED
      BY <3>1, <3>2, <3>3
  <2>3. QED
    BY <1>1, <1>6, <2>1, <2>2, GoodIsSoundNext DEF TypeOK, Displaced
<1>7. QED
  BY <1>3, <1>5, <1>6

LEMMA RequeueSound ==
    ASSUME Sound, NEW w \in Worker, NEW c \in Config, RequeueProxy(w, c)
    PROVE  Sound'
<1> DEFINE l == lease[w]
<1>1. Good(redis) /\ TypeOK
  BY SoundIsGood
<1>2. l \in Lease /\ l.sched \in Nat /\ l.payload.owners \in SUBSET Workspace
  BY <1>1, BusyLease DEF RequeueProxy, Lease, Payload
<1>3. PICK t \in 0..now, i \in Interval, changed \in BOOLEAN, tag \in Tag,
           owners \in SUBSET l.payload.owners :
        /\ Reading(t)
        /\ redis' = CompleteScript(redis, c, l,
                        Due((IF t > l.sched THEN t ELSE l.sched) + i), changed,
                        [owners |-> owners, fmt |-> "current", tag |-> tag])
  BY DEF RequeueProxy
<1>4. t \in Nat /\ i \in Nat
  BY <1>3, QueueAssumption DEF Reading
<1>5. Due((IF t > l.sched THEN t ELSE l.sched) + i) \in Nat
  BY <1>2, <1>4 DEF Due
<1>6. [owners |-> owners, fmt |-> "current", tag |-> tag] \in Payload
  BY <1>2 DEF Payload
<1>7. Good(redis')
  BY <1>1, <1>2, <1>3, <1>5, <1>6, CompleteGood
<1>8. lease' \in [Worker -> Lease \cup {NoLease}]
  BY <1>1 DEF TypeOK, RequeueProxy
<1>9. QED
  BY <1>1, <1>7, <1>8, GoodIsSoundNext DEF TypeOK, RequeueProxy, Displaced

LEMMA RemoveLeasedSound ==
    ASSUME Sound, NEW w \in Worker, RemoveLeased(w)
    PROVE  Sound'
<1>1. Good(redis) /\ TypeOK
  BY SoundIsGood
<1>2. lease[w] \in Lease
  BY <1>1, BusyLease DEF RemoveLeased
<1>3. Good(redis')
  BY <1>1, <1>2, RemoveGood DEF RemoveLeased
<1>4. lease' \in [Worker -> Lease \cup {NoLease}]
  BY <1>1 DEF TypeOK, RemoveLeased
<1>5. QED
  BY <1>1, <1>3, <1>4, GoodIsSoundNext DEF TypeOK, RemoveLeased, Displaced

LEMMA EnvironmentSound ==
    ASSUME Sound, Tick \/ LoseRedis \/ UNCHANGED vars
    PROVE  Sound'
<1>1. Good(redis) /\ TypeOK
  BY SoundIsGood
<1>2. CASE Tick
  BY <1>1, <1>2, GoodIsSoundNext DEF TypeOK, Tick
<1>3. CASE LoseRedis
  BY <1>1, <1>3, EmptyGood, GoodIsSoundNext DEF TypeOK, LoseRedis
<1>4. CASE UNCHANGED vars
  BY <1>1, <1>4, GoodIsSoundNext DEF TypeOK, vars
<1>5. QED
  BY <1>2, <1>3, <1>4

LEMMA NextSound == Sound /\ [Next]_vars => Sound'
<1> SUFFICES ASSUME Sound, [Next]_vars PROVE Sound'
  OBVIOUS
<1>1. ASSUME NEW w \in Worker, CompletionRefused(w) \/ Abandon(w) PROVE Sound'
  BY <1>1, LoseLeaseSound DEF CompletionRefused, Abandon
<1>2. QED
  BY <1>1, AddSound, AdminSound, BulkSound, PopSound, RefusedSound, ClaimedSound,
     RenewSound, RequeueSound, RemoveLeasedSound, EnvironmentSound DEF Next

\* Every variable keeps its type: in particular no script writes a score below
\* zero, a payload with unknown owners or a token that is not a time.
THEOREM TypeCorrect == Spec => []TypeOK
<1>1. Init => Sound
  BY InitSound
<1>2. Sound /\ [Next]_vars => Sound'
  BY NextSound
<1>3. Sound => TypeOK
  BY DEF Sound
<1>4. QED
  BY <1>1, <1>2, <1>3, PTL DEF Spec

\* The head index never hides an entry from pop.lua, for every number of
\* shards and also when instances disagree on that number.
THEOREM HeadIndexCorrect == Spec => []HeadIndexed
<1>1. Init => Sound
  BY InitSound
<1>2. Sound /\ [Next]_vars => Sound'
  BY NextSound
<1>3. Sound => HeadIndexed
  BY DEF Sound
<1>4. QED
  BY <1>1, <1>2, <1>3, PTL DEF Spec
-----------------------------------------------------------------------------
(* The earliest route of the whole queue is the one that is claimed.       *)

LEMMA PopEarliest ==
    ASSUME Sound, NEW w \in Worker, GetNextProxy(w)
    PROVE  EarliestFirst
<1>1. Good(redis) /\ lease \in [Worker -> Lease \cup {NoLease}]
  BY SoundIsGood DEF TypeOK
<1>2. PICK t \in 0..now : \E r \in PopScript(redis, t) :
        /\ Reading(t)
        /\ lease' = [lease EXCEPT ![w] =
              IF ~r.found THEN NoLease
              ELSE [phase   |-> IF r.st.payload[r.member].fmt = "old" THEN "candidate" ELSE "held",
                    member  |-> r.member,
                    token   |-> t + LeaseTime,
                    queue   |-> r.shard,
                    payload |-> r.st.payload[r.member],
                    sched   |-> Floor(r.score)]]
  BY DEF GetNextProxy
<1>3. PICK r \in PopScript(redis, t) :
        /\ Reading(t)
        /\ lease' = [lease EXCEPT ![w] =
              IF ~r.found THEN NoLease
              ELSE [phase   |-> IF r.st.payload[r.member].fmt = "old" THEN "candidate" ELSE "held",
                    member  |-> r.member,
                    token   |-> t + LeaseTime,
                    queue   |-> r.shard,
                    payload |-> r.st.payload[r.member],
                    sched   |-> Floor(r.score)]]
  BY <1>2
<1> DEFINE l == [phase   |-> IF r.st.payload[r.member].fmt = "old" THEN "candidate" ELSE "held",
                 member  |-> r.member,
                 token   |-> t + LeaseTime,
                 queue   |-> r.shard,
                 payload |-> r.st.payload[r.member],
                 sched   |-> Floor(r.score)]
<1>4. /\ lease' = [lease EXCEPT ![w] = IF ~r.found THEN NoLease ELSE l]
      /\ l.sched = Floor(r.score)
  BY <1>3
<1> HIDE DEF l
<1>5. t \in Nat
  BY <1>3 DEF Reading
<1>6. LowestSoFar(redis, r) /\ ScanOK(redis, t, r)
  BY <1>1, <1>5, PopLowest, PopKeeps
<1>7. SUFFICES ASSUME NEW v \in Worker, ~Busy(v), lease'[v] # NoLease,
                      NEW s \in Shard, NEW m \in Member, redis.zset[s][m] # NoScore,
                      redis.payload[m] # NoPayload
               PROVE  lease'[v].sched <= Floor(redis.zset[s][m])
  BY DEF EarliestFirst, Entries, ZScore
<1>8. v = w /\ r.found /\ lease'[v] = l
  BY <1>1, <1>4, <1>7 DEF Busy
<1>9. r.score <= redis.zset[s][m]
  BY <1>6, <1>7, <1>8 DEF LowestSoFar
<1>10. r.score \in Nat /\ redis.zset[s][m] \in Nat
  BY <1>1, <1>6, <1>7, <1>8 DEF ScanOK, ClaimOK, Scans, Good, Store, Score
<1>11. Floor(r.score) <= Floor(redis.zset[s][m])
  BY <1>9, <1>10 DEF Floor
<1>12. QED
  BY <1>4, <1>8, <1>11

\* Only GetNextProxy gives a claim to a worker that had none.
LEMMA OthersEarliest ==
    ASSUME Sound, \/ lease' = lease
                  \/ \E w \in Worker : lease' = [lease EXCEPT ![w] = NoLease]
    PROVE  EarliestFirst
<1>1. lease \in [Worker -> Lease \cup {NoLease}]
  BY DEF Sound, TypeOK
<1>2. \A v \in Worker : ~Busy(v) => lease'[v] = NoLease
  BY <1>1 DEF Busy
<1>3. QED
  BY <1>2 DEF EarliestFirst

LEMMA NextEarliest == Sound /\ [Next]_vars => [EarliestFirst]_vars
<1> SUFFICES ASSUME Sound, [Next]_vars PROVE EarliestFirst
  OBVIOUS
<1>0. lease \in [Worker -> Lease \cup {NoLease}]
  BY DEF Sound, TypeOK
<1>1. ASSUME NEW c \in Config, NEW m \in Member,
             AddToQueue(c, m) \/ RemovePayload(c, m) \/ RemoveEntry(c, m)
      PROVE  EarliestFirst
  BY <1>1, OthersEarliest DEF AddToQueue, RemovePayload, RemoveEntry
<1>2. ASSUME NEW c \in Config, RefreshQueueHeads(c) \/ \E s \in Shard : RequeueAll(c, s)
      PROVE  EarliestFirst
  BY <1>2, OthersEarliest DEF RefreshQueueHeads, RequeueAll
<1>3. ASSUME NEW w \in Worker, NEW c \in Config, MigrateRefused(w, c) \/ RequeueProxy(w, c)
      PROVE  EarliestFirst
  <2>1. lease' = [lease EXCEPT ![w] = NoLease]
    BY <1>3 DEF MigrateRefused, RequeueProxy
  <2>2. QED
    BY <2>1, OthersEarliest
<1>4. ASSUME NEW w \in Worker, NEW c \in Config, MigrateClaimed(w, c)
      PROVE  EarliestFirst
  <2>1. Busy(w)
    BY <1>4 DEF MigrateClaimed
  <2>2. PICK t \in 0..now, tag \in Tag :
          \/ lease' = [lease EXCEPT ![w].phase = "held",
                                    ![w].payload = Normalized(lease[w].payload, tag)]
          \/ lease' = [lease EXCEPT ![w] =
                [@ EXCEPT !.phase = "held", !.member = Canonical[lease[w].member],
                          !.queue = Target[c][Canonical[lease[w].member]],
                          !.payload = redis'.payload[Canonical[lease[w].member]]]]
    BY <1>4 DEF MigrateClaimed
  <2>3. \A v \in Worker : ~Busy(v) => lease'[v] = NoLease
    <3> SUFFICES ASSUME NEW v \in Worker, ~Busy(v) PROVE lease'[v] = NoLease
      OBVIOUS
    <3>1. v # w /\ lease[v] = NoLease
      BY <2>1 DEF Busy
    <3>2. QED
      BY <1>0, <2>2, <3>1
  <2>4. QED
    BY <2>3 DEF EarliestFirst
<1>5. ASSUME NEW w \in Worker, RenewLease(w)
      PROVE  EarliestFirst
  <2>1. Busy(w)
    BY <1>5 DEF RenewLease
  <2>2. PICK t \in 0..now : \/ lease' = [lease EXCEPT ![w].token = t + LeaseTime]
                            \/ lease' = [lease EXCEPT ![w] = NoLease]
    BY <1>5 DEF RenewLease, LoseLease
  <2>3. \A v \in Worker : ~Busy(v) => lease'[v] = NoLease
    BY <1>0, <2>1, <2>2 DEF Busy
  <2>4. QED
    BY <2>3 DEF EarliestFirst
<1>6. ASSUME NEW w \in Worker, RemoveLeased(w) \/ CompletionRefused(w) \/ Abandon(w)
      PROVE  EarliestFirst
  <2>1. lease' = [lease EXCEPT ![w] = NoLease]
    BY <1>6 DEF RemoveLeased, CompletionRefused, Abandon, LoseLease
  <2>2. QED
    BY <2>1, OthersEarliest
<1>7. CASE Tick \/ LoseRedis \/ UNCHANGED vars
  BY <1>7, OthersEarliest DEF Tick, LoseRedis, vars
<1>8. QED
  BY <1>1, <1>2, <1>3, <1>4, <1>5, <1>6, <1>7, PopEarliest DEF Next

\* However stale the head index and however many entries without a payload lie
\* in front, a claim takes the lowest score of all shards: no route of any
\* shard is passed over for a later one.
THEOREM EarliestIsClaimed == Spec => ClaimsEarliest
<1>1. Init => Sound
  BY InitSound
<1>2. Sound /\ [Next]_vars => Sound'
  BY NextSound
<1>3. Sound /\ [Next]_vars => [EarliestFirst]_vars
  BY NextEarliest
<1>4. QED
  BY <1>1, <1>2, <1>3, PTL DEF Spec, ClaimsEarliest
=============================================================================
