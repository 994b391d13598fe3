---------------------------- MODULE TenantProofs ----------------------------
(***************************************************************************)
(* Theorems about what serves a workspace and its users: the limiter of    *)
(* authentication attempts, the owners of a workspace, the number of       *)
(* checks on its dashboard, the ranges that its imports are filtered by,   *)
(* and the passwords of its users.                                         *)
(***************************************************************************)
EXTENDS RateLimiter, Workspaces, DailyCounts, BlacklistRanges, Accounts, FiniteSetTheorems,
        WellFoundedInduction, TLAPS

-----------------------------------------------------------------------------
(* The authentication rate limiter.                                        *)

Counters == [count : Nat, expires : Nat]

CounterMap(f) ==
    /\ f = [k \in DOMAIN f |-> f[k]]
    /\ DOMAIN f \subseteq Key
    /\ \A k \in DOMAIN f : f[k] \in Counters

\* Every counter of the map can still be found through the heap: nothing else
\* ends its window or lets it be evicted.
InHeap(counted, heap) ==
    \A k \in DOMAIN counted : [key |-> k, expires |-> counted[k].expires] \in heap

LimiterInv ==
    /\ CounterMap(counters) /\ InHeap(counters, expiries)
    /\ IsFiniteSet(DOMAIN counters) /\ Cardinality(DOMAIN counters) =< MaxLocalEntries
    /\ \A e \in expiries : e.expires \in Nat
    /\ CounterMap(remote)
    /\ redisUp \in BOOLEAN /\ instant \in 0..LimiterHorizon
    /\ retryAt \in 0..(LimiterHorizon + LimiterBackoff)

LEMMA WithoutMap ==
    ASSUME NEW f, CounterMap(f), NEW ks
    PROVE  /\ CounterMap(Without(f, ks))
           /\ DOMAIN Without(f, ks) = DOMAIN f \ ks
           /\ \A k \in DOMAIN f \ ks : Without(f, ks)[k] = f[k]
<1> DEFINE g == [k \in DOMAIN f \ ks |-> f[k]]
<1>1. Without(f, ks) = g
  BY DEF Without, Restrict
<1>2. /\ DOMAIN g = DOMAIN f \ ks
      /\ \A k \in DOMAIN f \ ks : g[k] = f[k]
      /\ g = [k \in DOMAIN g |-> g[k]]
  OBVIOUS
<1> HIDE DEF g
<1>3. CounterMap(g)
  BY <1>2 DEF CounterMap
<1>4. QED
  BY <1>1, <1>2, <1>3

\* g is f with c for k.
Adds(g, f, k, c) ==
    /\ CounterMap(g) /\ DOMAIN g = DOMAIN f \cup {k}
    /\ \A j \in DOMAIN f \cup {k} : g[j] = IF j = k THEN c ELSE f[j]

LEMMA WithMap ==
    ASSUME NEW f, CounterMap(f), NEW k \in Key, NEW c \in Counters
    PROVE  Adds(With(f, k, c), f, k, c)
<1> DEFINE g == [j \in DOMAIN f \union {k} |-> IF j = k THEN c ELSE f[j]]
<1>1. With(f, k, c) = g
  BY DEF With
<1>2. /\ DOMAIN g = DOMAIN f \cup {k}
      /\ \A j \in DOMAIN f \cup {k} : g[j] = IF j = k THEN c ELSE f[j]
      /\ g = [j \in DOMAIN g |-> g[j]]
  OBVIOUS
<1> HIDE DEF g
<1>3. CounterMap(g)
  BY <1>2 DEF CounterMap
<1>4. QED
  BY <1>1, <1>2, <1>3 DEF Adds

LEMMA NewCounter ==
    ASSUME NEW n \in Nat, NEW e \in Nat
    PROVE  Counter(n, e) \in Counters /\ Counter(n, e).count = n /\ Counter(n, e).expires = e
BY DEF Counter, Counters

LEMMA LimiterStarts ==
    ASSUME LimiterConstants, LimiterInit PROVE LimiterInv
<1>1. DOMAIN LimiterNone = {} /\ LimiterNone = [k \in DOMAIN LimiterNone |-> LimiterNone[k]]
  BY DEF LimiterNone
<1>2. CounterMap(LimiterNone)
  BY <1>1 DEF CounterMap
<1>3. IsFiniteSet({}) /\ Cardinality({}) = 0
  BY FS_EmptySet
<1>4. QED
  BY <1>1, <1>2, <1>3 DEF LimiterInit, LimiterInv, LimiterConstants, InHeap

\* What a purge leaves: the counters whose window is open, and theirs in the heap.
LEMMA PurgeKeeps ==
    ASSUME LimiterInv, LimiterConstants
    PROVE  LET counted == Without(counters, Purgeable(counters, expiries))
               heap == PurgedHeap(expiries)
           IN /\ CounterMap(counted) /\ InHeap(counted, heap)
              /\ DOMAIN counted = {k \in DOMAIN counters : counters[k].expires > instant}
              /\ \A k \in DOMAIN counted : counted[k] = counters[k]
              /\ IsFiniteSet(DOMAIN counted)
              /\ Cardinality(DOMAIN counted) =< Cardinality(DOMAIN counters)
              /\ Cardinality(DOMAIN counted) =< MaxLocalEntries
              /\ \A e \in heap : e.expires \in Nat
<1> DEFINE gone == Purgeable(counters, expiries)
           counted == Without(counters, gone)
           heap == PurgedHeap(expiries)
<1>1. /\ CounterMap(counters) /\ InHeap(counters, expiries) /\ instant \in Nat
      /\ IsFiniteSet(DOMAIN counters) /\ Cardinality(DOMAIN counters) =< MaxLocalEntries
      /\ \A k \in DOMAIN counters : counters[k].expires \in Nat
  BY DEF LimiterInv, CounterMap, Counters
<1>2. gone = {k \in DOMAIN counters : counters[k].expires =< instant}
  BY <1>1 DEF Purgeable, InHeap
<1> HIDE DEF gone
<1>3a. /\ CounterMap(Without(counters, gone))
       /\ DOMAIN Without(counters, gone) = DOMAIN counters \ gone
       /\ \A k \in DOMAIN counters \ gone : Without(counters, gone)[k] = counters[k]
  BY <1>1, WithoutMap
<1> HIDE DEF counted
<1>3. /\ CounterMap(counted)
      /\ DOMAIN counted = DOMAIN counters \ gone
      /\ \A k \in DOMAIN counted : counted[k] = counters[k]
  BY <1>3a DEF counted
<1>4. DOMAIN counted = {k \in DOMAIN counters : counters[k].expires > instant}
  BY <1>1, <1>2, <1>3
<1>5. DOMAIN counted \in SUBSET DOMAIN counters
  BY <1>3
<1>6. IsFiniteSet(DOMAIN counted) /\ Cardinality(DOMAIN counted) =< Cardinality(DOMAIN counters)
  BY <1>1, <1>5, FS_Subset
<1>7. Cardinality(DOMAIN counted) \in Nat /\ Cardinality(DOMAIN counters) \in Nat
  BY <1>1, <1>6, FS_CardinalityType
<1>8. Cardinality(DOMAIN counted) =< MaxLocalEntries
  BY <1>1, <1>6, <1>7 DEF LimiterConstants
<1>9. ASSUME NEW k \in DOMAIN counted
      PROVE  [key |-> k, expires |-> counted[k].expires] \in heap
  <2> DEFINE e == [key |-> k, expires |-> counted[k].expires]
  <2>1. k \in DOMAIN counters /\ counted[k] = counters[k] /\ counters[k].expires > instant
    BY <1>3, <1>4
  <2>2. e \in expiries /\ e.expires > instant
    BY <1>1, <2>1 DEF InHeap
  <2>3. QED
    BY <2>2 DEF PurgedHeap
<1>10. \A e \in heap : e.expires \in Nat
  BY DEF PurgedHeap, LimiterInv
<1>11. InHeap(counted, heap)
  BY <1>9 DEF InHeap
<1>12. QED
  BY <1>3, <1>4, <1>6, <1>8, <1>10, <1>11 DEF counted, gone

LEMMA RetryType ==
    ASSUME LimiterInv, LimiterConstants
    PROVE  RetryAfterFailure \in 0..(LimiterHorizon + LimiterBackoff)
BY DEF LimiterInv, LimiterConstants, RetryAfterFailure

\* The entry that a full map gives up.
LEMMA EvictsEarliest ==
    ASSUME NEW counted, NEW heap, NEW e \in Earliest(Live(counted, heap)), InHeap(counted, heap)
    PROVE  /\ e \in heap /\ e.key \in DOMAIN counted /\ counted[e.key].expires = e.expires
           /\ \A j \in DOMAIN counted : e.expires =< counted[j].expires
<1>1. e \in Live(counted, heap) /\ \A x \in Live(counted, heap) : e.expires =< x.expires
  BY DEF Earliest
<1>2. ASSUME NEW j \in DOMAIN counted PROVE e.expires =< counted[j].expires
  <2> DEFINE x == [key |-> j, expires |-> counted[j].expires]
  <2>1. x \in heap /\ x.key = j /\ x.expires = counted[j].expires
    BY DEF InHeap
  <2>2. x \in Live(counted, heap)
    BY <2>1 DEF Live
  <2>3. QED
    BY <1>1, <2>1, <2>2
<1>3. QED
  BY <1>1, <1>2 DEF Live

LEMMA IncrementLocalKeeps ==
    ASSUME LimiterInv, LimiterConstants, NEW k \in Key, IncrementLocal(k)
    PROVE  LimiterInv'
<1> DEFINE counted == Without(counters, Purgeable(counters, expiries))
           heap == PurgedHeap(expiries)
           new == Counter(1, instant + Window)
           entry == [key |-> k, expires |-> instant + Window]
<1>1. /\ CounterMap(counted) /\ InHeap(counted, heap)
      /\ IsFiniteSet(DOMAIN counted)
      /\ Cardinality(DOMAIN counted) =< MaxLocalEntries
      /\ \A e \in heap : e.expires \in Nat
  BY PurgeKeeps
<1>2. Cardinality(DOMAIN counted) \in Nat /\ MaxLocalEntries \in Nat /\ instant + Window \in Nat
  BY <1>1, FS_CardinalityType DEF LimiterConstants, LimiterInv
<1>3. new \in Counters /\ new.expires = instant + Window
  BY <1>2, NewCounter
<1>4. entry.expires = instant + Window
  OBVIOUS
<1>5. /\ retryAt' \in 0..(LimiterHorizon + LimiterBackoff)
      /\ remote' = remote /\ redisUp' = redisUp /\ instant' = instant
  BY RetryType DEF IncrementLocal
<1>6. \/ /\ k \in DOMAIN counted
         /\ counters' = [counted EXCEPT ![k].count = @ + 1]
         /\ expiries' = heap
      \/ /\ k \notin DOMAIN counted
         /\ Cardinality(DOMAIN counted) < MaxLocalEntries
         /\ counters' = With(counted, k, new)
         /\ expiries' = heap \union {entry}
      \/ /\ k \notin DOMAIN counted
         /\ \E e \in Earliest(Live(counted, heap)) :
              /\ counters' = With(Without(counted, {e.key}), k, new)
              /\ expiries' = {x \in heap : x.expires > e.expires \/ (x \in Live(counted, heap) /\ x # e)}
                               \union {entry}
  BY DEF IncrementLocal
<1> HIDE DEF counted, heap, new
<1>7. SUFFICES /\ CounterMap(counters') /\ InHeap(counters', expiries')
               /\ IsFiniteSet(DOMAIN counters') /\ Cardinality(DOMAIN counters') =< MaxLocalEntries
               /\ \A e \in expiries' : e.expires \in Nat
  BY <1>5 DEF LimiterInv, CounterMap
<1>8. CASE /\ k \in DOMAIN counted
           /\ counters' = [counted EXCEPT ![k].count = @ + 1]
           /\ expiries' = heap
  <2> DEFINE c == [counted[k] EXCEPT !.count = @ + 1]
  <2>1. c \in Counters /\ c.expires = counted[k].expires
    BY <1>1, <1>8 DEF CounterMap, Counters
  <2>2. counters' = [counted EXCEPT ![k] = c]
    BY <1>8
  <2> HIDE DEF c
  <2>3. /\ DOMAIN counters' = DOMAIN counted
        /\ \A j \in DOMAIN counted : counters'[j] = IF j = k THEN c ELSE counted[j]
        /\ counters' = [j \in DOMAIN counters' |-> counters'[j]]
    BY <1>1, <2>2 DEF CounterMap
  <2>4. CounterMap(counters')
    BY <1>1, <2>1, <2>3 DEF CounterMap
  <2>5. InHeap(counters', expiries')
    BY <1>1, <1>8, <2>1, <2>3 DEF InHeap
  <2>6. QED
    BY <1>1, <1>8, <2>3, <2>4, <2>5
<1>9. CASE /\ k \notin DOMAIN counted
           /\ Cardinality(DOMAIN counted) < MaxLocalEntries
           /\ counters' = With(counted, k, new)
           /\ expiries' = heap \union {entry}
  <2>1. /\ CounterMap(counters')
        /\ DOMAIN counters' = DOMAIN counted \cup {k}
        /\ \A j \in DOMAIN counted \cup {k} : counters'[j] = IF j = k THEN new ELSE counted[j]
    BY <1>1, <1>3, <1>9, WithMap DEF Adds
  <2>2. /\ IsFiniteSet(DOMAIN counters')
        /\ Cardinality(DOMAIN counters') = Cardinality(DOMAIN counted) + 1
    BY <1>1, <1>9, <2>1, FS_AddElement
  <2>3. InHeap(counters', expiries')
    BY <1>1, <1>3, <1>9, <2>1 DEF InHeap
  <2>4. \A e \in expiries' : e.expires \in Nat
    BY <1>1, <1>2, <1>4, <1>9
  <2>5. QED
    BY <1>2, <1>9, <2>1, <2>2, <2>3, <2>4
<1>10. ASSUME k \notin DOMAIN counted, NEW e \in Earliest(Live(counted, heap)),
              counters' = With(Without(counted, {e.key}), k, new),
              expiries' = {x \in heap : x.expires > e.expires \/ (x \in Live(counted, heap) /\ x # e)}
                            \union {entry}
       PROVE  /\ CounterMap(counters') /\ InHeap(counters', expiries')
              /\ IsFiniteSet(DOMAIN counters') /\ Cardinality(DOMAIN counters') =< MaxLocalEntries
              /\ \A x \in expiries' : x.expires \in Nat
  <2> DEFINE rest == Without(counted, {e.key})
  <2>1. e.key \in DOMAIN counted
    BY <1>1, EvictsEarliest
  <2>2. /\ CounterMap(rest) /\ DOMAIN rest = DOMAIN counted \ {e.key}
        /\ \A j \in DOMAIN counted \ {e.key} : rest[j] = counted[j]
    BY <1>1, WithoutMap
  <2> HIDE DEF rest
  <2>3a. Adds(With(rest, k, new), rest, k, new)
    BY <1>3, <2>2, WithMap
  <2>3b. counters' = With(rest, k, new)
    BY <1>10 DEF rest
  <2>3. /\ CounterMap(counters')
        /\ DOMAIN counters' = DOMAIN rest \cup {k}
        /\ \A j \in DOMAIN rest \cup {k} : counters'[j] = IF j = k THEN new ELSE rest[j]
    BY <2>3a, <2>3b DEF Adds
  <2>4. /\ IsFiniteSet(DOMAIN rest)
        /\ Cardinality(DOMAIN rest) = Cardinality(DOMAIN counted) - 1
    BY <1>1, <2>1, <2>2, FS_RemoveElement
  <2>5. /\ IsFiniteSet(DOMAIN counters')
        /\ Cardinality(DOMAIN counters') = Cardinality(DOMAIN counted)
    <3>1. k \notin DOMAIN rest
      BY <1>10, <2>2
    <3>2. /\ IsFiniteSet(DOMAIN rest \cup {k})
          /\ Cardinality(DOMAIN rest \cup {k}) = Cardinality(DOMAIN rest) + 1
      BY <2>4, <3>1, FS_AddElement
    <3>3. QED
      BY <1>2, <2>3, <2>4, <3>2
  <2>6. ASSUME NEW j \in DOMAIN counters'
        PROVE  [key |-> j, expires |-> counters'[j].expires] \in expiries'
    <3>1. CASE j = k
      BY <1>3, <1>10, <2>3, <3>1
    <3>2. CASE j # k
      <4> DEFINE x == [key |-> j, expires |-> counted[j].expires]
      <4>1. j \in DOMAIN counted /\ j # e.key /\ counters'[j] = counted[j]
        BY <2>2, <2>3, <3>2
      <4>2. x \in heap /\ x.key = j /\ x.expires = counted[j].expires
        BY <1>1, <4>1 DEF InHeap
      <4>3. x \in Live(counted, heap) /\ x # e
        BY <4>1, <4>2 DEF Live
      <4>4. QED
        BY <1>10, <4>1, <4>2, <4>3
    <3>3. QED
      BY <3>1, <3>2
  <2>7. \A x \in expiries' : x.expires \in Nat
    BY <1>1, <1>2, <1>4, <1>10
  <2>8. QED
    BY <1>1, <2>3, <2>5, <2>6, <2>7 DEF InHeap
<1>11. QED
  BY <1>6, <1>8, <1>9, <1>10

LEMMA LimiterNextKeeps ==
    ASSUME LimiterInv, LimiterConstants, [LimiterNext]_limiterVars
    PROVE  LimiterInv'
<1>1. ASSUME NEW k \in Key, IncrementRemote(k) PROVE LimiterInv'
  <2> DEFINE c == IF k \in DOMAIN remote THEN [remote[k] EXCEPT !.count = @ + 1]
                  ELSE Counter(1, instant + Window)
  <2>1. CounterMap(remote) /\ instant + Window \in Nat
    BY DEF LimiterInv, LimiterConstants
  <2>2. c \in Counters
    <3>1. CASE k \in DOMAIN remote
      BY <2>1, <3>1 DEF CounterMap, Counters
    <3>2. CASE k \notin DOMAIN remote
      BY <2>1, <3>2, NewCounter
    <3>3. QED
      BY <3>1, <3>2
  <2>3. remote' = With(remote, k, c)
    BY <1>1 DEF IncrementRemote
  <2> HIDE DEF c
  <2>4. CounterMap(remote')
    BY <2>1, <2>2, <2>3, WithMap DEF Adds
  <2>5. /\ counters' = counters /\ expiries' = expiries /\ redisUp' = redisUp
        /\ instant' = instant /\ retryAt' = 0
    BY <1>1 DEF IncrementRemote
  <2>6. 0 \in 0..(LimiterHorizon + LimiterBackoff)
    BY DEF LimiterConstants
  <2>7. QED
    BY <2>4, <2>5, <2>6 DEF LimiterInv, CounterMap
<1>2. ASSUME NEW k \in Key, IncrementLocal(k) PROVE LimiterInv'
  BY <1>2, IncrementLocalKeeps
<1>3. ASSUME NEW k \in Key, ResetCounter(k) PROVE LimiterInv'
  <2>1. /\ CounterMap(remote) /\ CounterMap(counters) /\ InHeap(counters, expiries)
        /\ IsFiniteSet(DOMAIN counters) /\ Cardinality(DOMAIN counters) =< MaxLocalEntries
    BY DEF LimiterInv
  <2>2. /\ CounterMap(Without(remote, {k})) /\ CounterMap(Without(counters, {k}))
        /\ DOMAIN Without(counters, {k}) = DOMAIN counters \ {k}
        /\ \A j \in DOMAIN counters \ {k} : Without(counters, {k})[j] = counters[j]
    BY <2>1, WithoutMap
  <2>3. /\ remote' = Without(remote, {k}) \/ remote' = remote
        /\ counters' = Without(counters, {k})
        /\ expiries' = expiries /\ redisUp' = redisUp /\ instant' = instant
        /\ retryAt' = 0 \/ retryAt' = RetryAfterFailure
    BY <1>3 DEF ResetCounter
  <2>4. retryAt' \in 0..(LimiterHorizon + LimiterBackoff)
    BY <2>3, RetryType DEF LimiterConstants
  <2>5. IsFiniteSet(DOMAIN counters') /\ Cardinality(DOMAIN counters') =< MaxLocalEntries
    <3>1. /\ IsFiniteSet(DOMAIN counters')
          /\ Cardinality(DOMAIN counters') =< Cardinality(DOMAIN counters)
      BY <2>1, <2>2, <2>3, FS_Subset
    <3>2. Cardinality(DOMAIN counters') \in Nat /\ Cardinality(DOMAIN counters) \in Nat
      BY <2>1, <3>1, FS_CardinalityType
    <3>3. QED
      BY <2>1, <3>1, <3>2 DEF LimiterConstants
  <2>6. InHeap(counters', expiries')
    BY <2>1, <2>2, <2>3 DEF InHeap
  <2>7. CounterMap(counters') /\ CounterMap(remote')
    BY <2>1, <2>2, <2>3
  <2>8. QED
    BY <2>3, <2>4, <2>5, <2>6, <2>7 DEF LimiterInv, CounterMap
<1>4. CASE CurrentLocal
  <2>1. /\ counters' = Without(counters, Purgeable(counters, expiries))
        /\ expiries' = PurgedHeap(expiries)
        /\ retryAt' = RetryAfterFailure
        /\ remote' = remote /\ redisUp' = redisUp /\ instant' = instant
    BY <1>4 DEF CurrentLocal
  <2>2. QED
    BY <2>1, PurgeKeeps, RetryType DEF LimiterInv, CounterMap
<1>5. CASE RedisFlips
  BY <1>5 DEF RedisFlips, LimiterInv, CounterMap
<1>6. CASE LimiterTick
  <2>1. PICK gone : remote' = Without(remote, gone)
    BY <1>6 DEF LimiterTick
  <2>2. CounterMap(remote')
    BY <2>1, WithoutMap DEF LimiterInv
  <2>3. instant' \in 0..LimiterHorizon
    BY <1>6 DEF LimiterTick, LimiterInv, LimiterConstants
  <2>4. QED
    BY <1>6, <2>2, <2>3 DEF LimiterTick, LimiterInv, CounterMap
<1>7. CASE UNCHANGED limiterVars
  BY <1>7 DEF limiterVars, LimiterInv, CounterMap
<1>8. QED
  BY <1>1, <1>2, <1>3, <1>4, <1>5, <1>6, <1>7 DEF LimiterNext

\* A key whose window is open and full is still counted after a purge.
LEMMA PurgeSparesBlocked ==
    ASSUME LimiterInv, LimiterConstants, NEW k \in Key, BlockedLocally(k)
    PROVE  LET counted == Without(counters, Purgeable(counters, expiries))
           IN k \in DOMAIN counted /\ counted[k] = counters[k]
BY PurgeKeeps DEF BlockedLocally

LEMMA BlocksEndOnlySo ==
    ASSUME LimiterInv, LimiterConstants, [LimiterNext]_limiterVars
    PROVE  BlockEnds
<1> SUFFICES ASSUME NEW k \in Key, BlockedLocally(k),
                    k \notin DOMAIN counters' \/ counters'[k].count < WindowLimit
             PROVE  \/ instant >= counters[k].expires
                    \/ ResetCounter(k)
                    \/ /\ Cardinality(DOMAIN counters) = MaxLocalEntries
                       /\ \A j \in DOMAIN counters : counters[j].expires > instant
                            => counters[k].expires =< counters[j].expires
  BY DEF BlockEnds
<1> DEFINE counted == Without(counters, Purgeable(counters, expiries))
           heap == PurgedHeap(expiries)
<1>1. /\ CounterMap(counted) /\ InHeap(counted, heap)
      /\ DOMAIN counted = {j \in DOMAIN counters : counters[j].expires > instant}
      /\ \A j \in DOMAIN counted : counted[j] = counters[j]
      /\ IsFiniteSet(DOMAIN counted)
      /\ Cardinality(DOMAIN counted) =< Cardinality(DOMAIN counters)
  BY PurgeKeeps
<1>2. k \in DOMAIN counted /\ counted[k] = counters[k]
  BY PurgeSparesBlocked
<1>3. /\ k \in DOMAIN counters /\ counters[k].count \in Nat /\ WindowLimit \in Nat
      /\ counters[k].count >= WindowLimit /\ instant + Window \in Nat
  BY DEF BlockedLocally, LimiterInv, CounterMap, Counters, LimiterConstants
<1>4. ~(counters[k].count < WindowLimit)
  BY <1>3
<1>5. CASE counters' = counters
  BY <1>3, <1>4, <1>5
<1>6. CASE counters' = counted
  BY <1>2, <1>4, <1>6
<1>7. ASSUME NEW j \in Key, ResetCounter(j), j # k PROVE FALSE
  <2>1. counters' = Without(counters, {j}) /\ CounterMap(counters)
    BY <1>7 DEF ResetCounter, LimiterInv
  <2>2. k \in DOMAIN counters' /\ counters'[k] = counters[k]
    <3>1. /\ DOMAIN Without(counters, {j}) = DOMAIN counters \ {j}
          /\ \A i \in DOMAIN counters \ {j} : Without(counters, {j})[i] = counters[i]
      BY <2>1, WithoutMap
    <3>2. QED
      BY <1>3, <1>7, <2>1, <3>1
  <2>3. QED
    BY <1>4, <2>2
<1>8. ASSUME NEW j \in Key, IncrementLocal(j)
      PROVE  /\ Cardinality(DOMAIN counters) = MaxLocalEntries
             /\ \A i \in DOMAIN counters : counters[i].expires > instant
                  => counters[k].expires =< counters[i].expires
  <2> DEFINE new == Counter(1, instant + Window)
  <2>1. \/ /\ j \in DOMAIN counted
           /\ counters' = [counted EXCEPT ![j].count = @ + 1]
        \/ /\ j \notin DOMAIN counted
           /\ counters' = With(counted, j, new)
        \/ /\ j \notin DOMAIN counted
           /\ Cardinality(DOMAIN counted) >= MaxLocalEntries
           /\ \E e \in Earliest(Live(counted, heap)) :
                counters' = With(Without(counted, {e.key}), j, new)
    BY <1>8 DEF IncrementLocal
  <2>2. new \in Counters
    BY <1>3, NewCounter
  <2> HIDE DEF counted, heap, new
  <2>3. ASSUME j \in DOMAIN counted, counters' = [counted EXCEPT ![j].count = @ + 1]
        PROVE  FALSE
    <3>1. k \in DOMAIN counters' /\ counted[k].count \in Nat
      BY <1>2, <1>3, <2>3
    <3>2. counters'[k].count \in {counted[k].count, counted[k].count + 1}
      <4>1. CASE j = k
        <5>1. counters'[k] = [counted[k] EXCEPT !.count = @ + 1]
          BY <1>1, <1>2, <2>3, <4>1 DEF CounterMap
        <5>2. counted[k] \in Counters
          BY <1>1, <1>2 DEF CounterMap
        <5>3. QED
          BY <5>1, <5>2 DEF Counters
      <4>2. CASE j # k
        BY <1>1, <1>2, <2>3, <4>2 DEF CounterMap
      <4>3. QED
        BY <4>1, <4>2
    <3>3. QED
      BY <1>2, <1>3, <3>1, <3>2
  <2>4. ASSUME j \notin DOMAIN counted, counters' = With(counted, j, new)
        PROVE  FALSE
    <3>1. k \in DOMAIN counters' /\ counters'[k] = counted[k]
      <4>1. Adds(With(counted, j, new), counted, j, new)
        BY <1>1, <2>2, WithMap
      <4>2. QED
        BY <1>2, <2>4, <4>1 DEF Adds
    <3>2. QED
      BY <1>2, <1>4, <3>1
  <2>5. ASSUME j \notin DOMAIN counted, Cardinality(DOMAIN counted) >= MaxLocalEntries,
               NEW e \in Earliest(Live(counted, heap)),
               counters' = With(Without(counted, {e.key}), j, new)
        PROVE  /\ Cardinality(DOMAIN counters) = MaxLocalEntries
               /\ \A i \in DOMAIN counters : counters[i].expires > instant
                    => counters[k].expires =< counters[i].expires
    <3> DEFINE rest == Without(counted, {e.key})
    <3>1. /\ CounterMap(rest) /\ DOMAIN rest = DOMAIN counted \ {e.key}
          /\ \A i \in DOMAIN counted \ {e.key} : rest[i] = counted[i]
      BY <1>1, WithoutMap
    <3> HIDE DEF rest
    <3>2a. Adds(With(rest, j, new), rest, j, new)
      BY <2>2, <3>1, WithMap
    <3>2b. counters' = With(rest, j, new)
      BY <2>5 DEF rest
    <3>2. /\ DOMAIN counters' = DOMAIN rest \cup {j}
          /\ \A i \in DOMAIN rest \cup {j} : counters'[i] = IF i = j THEN new ELSE rest[i]
      BY <3>2a, <3>2b DEF Adds
    <3>3. ASSUME k # e.key PROVE FALSE
      <4>1. k \in DOMAIN rest /\ k # j /\ counters'[k] = counted[k]
        BY <1>2, <2>5, <3>1, <3>2, <3>3
      <4>2. QED
        BY <1>2, <1>4, <3>2, <4>1
    <3>4. k = e.key
      BY <3>3
    <3>5. \A i \in DOMAIN counted : counted[k].expires =< counted[i].expires
      BY <1>1, <3>4, EvictsEarliest
    <3>6. Cardinality(DOMAIN counters) = MaxLocalEntries
      <4>1. /\ Cardinality(DOMAIN counted) \in Nat /\ Cardinality(DOMAIN counters) \in Nat
            /\ MaxLocalEntries \in Nat /\ Cardinality(DOMAIN counters) =< MaxLocalEntries
        BY <1>1, FS_CardinalityType DEF LimiterInv, LimiterConstants
      <4>2. QED
        BY <1>1, <2>5, <4>1
    <3>7. QED
      BY <1>1, <1>2, <3>5, <3>6
  <2>6. QED
    BY <2>1, <2>3, <2>4, <2>5
<1>9. \/ counters' = counters \/ counters' = counted
      \/ \E j \in Key : ResetCounter(j) \/ IncrementLocal(j)
  BY DEF LimiterNext, limiterVars, IncrementRemote, CurrentLocal, RedisFlips, LimiterTick
<1>10. QED
  BY <1>5, <1>6, <1>7, <1>8, <1>9

\* The map, its heap and its bound stay consistent through purges, evictions
\* and resets, whichever of Redis and the map counts.
THEOREM LimiterTypeCorrect ==
    ASSUME LimiterConstants
    PROVE  LimiterSpec => []LimiterTypeOK
<1>1. LimiterInit => LimiterInv
  BY LimiterStarts
<1>2. LimiterInv /\ [LimiterNext]_limiterVars => LimiterInv'
  BY LimiterNextKeeps
<1>3. LimiterInv => LimiterTypeOK
  BY DEF LimiterInv, LimiterTypeOK, CounterMap
<1>4. QED
  BY <1>1, <1>2, <1>3, PTL DEF LimiterSpec

\* For every limit, window and map size, a key that is blocked in memory stays
\* blocked until its window ends, it is reset, or a full map in which no other
\* open window ends earlier evicts it; the heap entries that resets leave
\* behind never end the window of a later counter.
THEOREM BlocksHold ==
    ASSUME LimiterConstants
    PROVE  LimiterSpec => BlockedUntilExpiry
<1>1. LimiterInit => LimiterInv
  BY LimiterStarts
<1>2. LimiterInv /\ [LimiterNext]_limiterVars => LimiterInv'
  BY LimiterNextKeeps
<1>3. LimiterInv /\ [LimiterNext]_limiterVars => [BlockEnds]_limiterVars
  BY BlocksEndOnlySo
<1>4. QED
  BY <1>1, <1>2, <1>3, PTL DEF LimiterSpec, BlockedUntilExpiry

-----------------------------------------------------------------------------
(* Memberships: who can leave a workspace without an owner.                *)

JobRecord == [op : {"none", "update", "remove", "delete", "invite"},
              by : User \cup {NoUser}, on : User \cup {NoUser},
              to : {"none"} \cup MemberRoles, step : {"none", "authorized", "checked"}]

JobTyped(r) ==
    /\ r \in JobRecord
    /\ r.op # "none" => r.by \in User /\ r.on \in User
    /\ r.step # "none" => r.op # "none"
    /\ r.op = "update" => r.to \in MemberRoles
    /\ r.op = "invite" => r.to \in InviteRoles \cup {"none"}
    /\ r.op = "delete" => r.on = r.by

WorkspaceTyped ==
    /\ wsExists \in BOOLEAN /\ personal \in BOOLEAN
    /\ role \in [User -> {"none"} \cup MemberRoles]
    /\ invitation \in [User -> {"none", "expired"} \cup InviteRoles]
    /\ accounts \subseteq User /\ overtaken \subseteq Job

JobsTyped == job \in [Job -> JobRecord] /\ \A j \in Job : JobTyped(job[j])

\* What request j checked.
CheckHolds(j) ==
    /\ job[j].op = "update" /\ job[j].to # "owner" => KeepsAnOwner(job[j].on)
    /\ job[j].op = "remove" => KeepsAnOwner(job[j].on)
    /\ job[j].op = "delete" => ~DeletionBlocked(job[j].by)

\* It still holds while no other request has committed since.
ChecksFresh == \A j \in Job \ overtaken : job[j].step = "checked" => CheckHolds(j)

WorkspaceInv == WorkspaceTyped /\ JobsTyped /\ ChecksFresh

LEMMA NoJobTyped == JobTyped(NoJob)
BY DEF JobTyped, JobRecord, NoJob, MemberRoles, InviteRoles

LEMMA WorkspaceStarts == ASSUME WorkspaceInit PROVE WorkspaceInv
<1>1. WorkspaceTyped
  BY DEF WorkspaceInit, WorkspaceTyped
<1>2. JobsTyped /\ ChecksFresh
  BY NoJobTyped DEF WorkspaceInit, JobsTyped, JobTyped, ChecksFresh, NoJob
<1>3. QED
  BY <1>1, <1>2 DEF WorkspaceInv

\* What a request checked says nothing of invitations and accounts.
LEMMA SameRolesSameChecks ==
    ASSUME role' = role, wsExists' = wsExists, personal' = personal,
           NEW j \in Job, job'[j] = job[j], CheckHolds(j)
    PROVE  CheckHolds(j)'
BY DEF CheckHolds, KeepsAnOwner, DeletionBlocked, Owners, Members

LEMMA StartKeeps ==
    ASSUME WorkspaceInv, NEW j \in Job, NEW op \in {"update", "remove", "delete", "invite"},
           NEW u \in User, NEW v \in User, NEW to \in {"none"} \cup MemberRoles,
           op = "update" => to \in MemberRoles,
           op = "invite" => to \in InviteRoles \cup {"none"},
           op = "delete" => u = v,
           StartJob(j, op, u, v, to)
    PROVE  WorkspaceInv'
<1> DEFINE r == [op |-> op, by |-> u, on |-> v, to |-> to, step |-> "authorized"]
<1>1. JobTyped(r) /\ r.step = "authorized"
  BY DEF JobTyped, JobRecord
<1>2. /\ job' = [job EXCEPT ![j] = r]
      /\ role' = role /\ wsExists' = wsExists /\ personal' = personal
      /\ invitation' = invitation /\ accounts' = accounts /\ overtaken' = overtaken
  BY DEF StartJob
<1> HIDE DEF r
<1>3. /\ job' \in [Job -> JobRecord] /\ job'[j] = r
      /\ \A k \in Job : k # j => job'[k] = job[k]
  BY <1>1, <1>2 DEF WorkspaceInv, JobsTyped, JobTyped
<1>4. JobsTyped'
  BY <1>1, <1>3 DEF WorkspaceInv, JobsTyped, JobTyped
<1>5. ChecksFresh'
  <2>1. SUFFICES ASSUME NEW k \in Job \ overtaken, job'[k].step = "checked" PROVE CheckHolds(k)'
    BY <1>2 DEF ChecksFresh
  <2>2. job'[k] = job[k]
    BY <1>1, <1>3, <2>1
  <2>3. CheckHolds(k)
    BY <2>1, <2>2 DEF WorkspaceInv, ChecksFresh
  <2>4. QED
    BY <1>2, <2>2, <2>3, SameRolesSameChecks
<1>6. WorkspaceTyped'
  BY <1>2 DEF WorkspaceInv, WorkspaceTyped
<1>7. QED
  BY <1>4, <1>5, <1>6 DEF WorkspaceInv

LEMMA CheckedKeeps ==
    ASSUME WorkspaceInv, NEW j \in Job, job[j].op # "none", CheckHolds(j), PassCheck(j)
    PROVE  WorkspaceInv'
<1> DEFINE r == [job[j] EXCEPT !.step = "checked"]
<1>1. JobTyped(job[j]) /\ job[j] \in JobRecord
  BY DEF WorkspaceInv, JobsTyped
<1>2. /\ r.op = job[j].op /\ r.by = job[j].by /\ r.on = job[j].on /\ r.to = job[j].to
      /\ r.step = "checked" /\ r \in JobRecord
  BY <1>1 DEF JobRecord
<1>3. /\ job' = [job EXCEPT ![j] = r]
      /\ role' = role /\ wsExists' = wsExists /\ personal' = personal
      /\ invitation' = invitation /\ accounts' = accounts /\ overtaken' = overtaken
  BY DEF PassCheck
<1> HIDE DEF r
<1>4. JobTyped(r)
  BY <1>1, <1>2 DEF JobTyped
<1>5. /\ job' \in [Job -> JobRecord] /\ job'[j] = r
      /\ \A k \in Job : k # j => job'[k] = job[k]
  BY <1>2, <1>3 DEF WorkspaceInv, JobsTyped
<1>6. JobsTyped'
  BY <1>4, <1>5 DEF WorkspaceInv, JobsTyped, JobTyped
<1>7. CheckHolds(j)'
  BY <1>2, <1>3, <1>5 DEF CheckHolds, KeepsAnOwner, DeletionBlocked, Owners, Members
<1>8. ASSUME NEW k \in Job \ overtaken, k # j, job'[k].step = "checked" PROVE CheckHolds(k)'
  <2>1. CheckHolds(k) /\ job'[k] = job[k]
    BY <1>5, <1>8 DEF WorkspaceInv, ChecksFresh
  <2>2. QED
    BY <1>3, <2>1, SameRolesSameChecks
<1>9. ChecksFresh'
  BY <1>3, <1>7, <1>8 DEF ChecksFresh
<1>10. WorkspaceTyped'
  BY <1>3 DEF WorkspaceInv, WorkspaceTyped
<1>11. QED
  BY <1>6, <1>9, <1>10 DEF WorkspaceInv

LEMMA AbortKeeps ==
    ASSUME WorkspaceInv, NEW j \in Job, Abort(j)
    PROVE  WorkspaceInv'
<1>1. /\ job' = [job EXCEPT ![j] = NoJob] /\ overtaken' = overtaken \ {j}
      /\ role' = role /\ wsExists' = wsExists /\ personal' = personal
      /\ invitation' = invitation /\ accounts' = accounts
  BY DEF Abort, EndJob
<1>2. JobTyped(NoJob) /\ NoJob \in JobRecord /\ NoJob.step = "none"
  BY NoJobTyped DEF JobTyped, NoJob
<1>3. /\ job' \in [Job -> JobRecord] /\ job'[j] = NoJob
      /\ \A k \in Job : k # j => job'[k] = job[k]
  BY <1>1, <1>2 DEF WorkspaceInv, JobsTyped
<1>4. JobsTyped'
  BY <1>2, <1>3 DEF WorkspaceInv, JobsTyped, JobTyped
<1>5. ASSUME NEW k \in Job \ overtaken', job'[k].step = "checked" PROVE CheckHolds(k)'
  <2>1. k # j /\ job'[k] = job[k]
    BY <1>2, <1>3, <1>5
  <2>2. CheckHolds(k)
    BY <1>1, <1>5, <2>1 DEF WorkspaceInv, ChecksFresh
  <2>3. QED
    BY <1>1, <2>1, <2>2, SameRolesSameChecks
<1>6. ChecksFresh'
  BY <1>5 DEF ChecksFresh
<1>7. WorkspaceTyped'
  BY <1>1 DEF WorkspaceInv, WorkspaceTyped
<1>8. QED
  BY <1>4, <1>6, <1>7 DEF WorkspaceInv

\* The tables as a commit leaves them.
TablesTyped ==
    /\ wsExists \in BOOLEAN /\ personal \in BOOLEAN
    /\ role \in [User -> {"none"} \cup MemberRoles]
    /\ invitation \in [User -> {"none", "expired"} \cup InviteRoles]
    /\ accounts \subseteq User

\* A commit leaves no fresh check: every request that has checked is overtaken.
LEMMA CommitKeeps ==
    ASSUME WorkspaceInv, NEW j \in Job, Commit(j), TablesTyped'
    PROVE  WorkspaceInv'
<1>1. /\ job' = [job EXCEPT ![j] = NoJob]
      /\ overtaken' = (overtaken \union {k \in Job : job[k].step = "checked"}) \ {j}
  BY DEF Commit, EndJob
<1>2. JobTyped(NoJob) /\ NoJob \in JobRecord /\ NoJob.step = "none"
  BY NoJobTyped DEF JobTyped, NoJob
<1>3. /\ job' \in [Job -> JobRecord] /\ job'[j] = NoJob
      /\ \A k \in Job : k # j => job'[k] = job[k]
  BY <1>1, <1>2 DEF WorkspaceInv, JobsTyped
<1>4. JobsTyped'
  BY <1>2, <1>3 DEF WorkspaceInv, JobsTyped, JobTyped
<1>5. \A k \in Job \ overtaken' : job'[k].step # "checked"
  BY <1>1, <1>2, <1>3
<1>6. ChecksFresh'
  BY <1>5 DEF ChecksFresh
<1>7. WorkspaceTyped'
  BY <1>1 DEF WorkspaceInv, WorkspaceTyped, TablesTyped
<1>8. QED
  BY <1>4, <1>6, <1>7 DEF WorkspaceInv

LEMMA OvertakeKeeps ==
    ASSUME WorkspaceInv, Overtake, job' = job, TablesTyped'
    PROVE  WorkspaceInv'
<1>1. overtaken' = overtaken \union {k \in Job : job[k].step = "checked"}
  BY DEF Overtake
<1>2. ChecksFresh'
  BY <1>1 DEF ChecksFresh
<1>3. JobsTyped'
  BY DEF WorkspaceInv, JobsTyped, JobTyped
<1>4. WorkspaceTyped'
  BY <1>1 DEF WorkspaceInv, WorkspaceTyped, TablesTyped
<1>5. QED
  BY <1>2, <1>3, <1>4 DEF WorkspaceInv

LEMMA InvitationOnlyKeeps ==
    ASSUME WorkspaceInv, invitation' \in [User -> {"none", "expired"} \cup InviteRoles],
           UNCHANGED <<wsExists, personal, role, accounts, job, overtaken>>
    PROVE  WorkspaceInv'
<1>1. ASSUME NEW k \in Job \ overtaken, job[k].step = "checked" PROVE CheckHolds(k)'
  BY <1>1, SameRolesSameChecks DEF WorkspaceInv, ChecksFresh
<1>2. ChecksFresh'
  BY <1>1 DEF ChecksFresh
<1>3. JobsTyped'
  BY DEF WorkspaceInv, JobsTyped, JobTyped
<1>4. WorkspaceTyped'
  BY DEF WorkspaceInv, WorkspaceTyped
<1>5. QED
  BY <1>2, <1>3, <1>4 DEF WorkspaceInv

LEMMA UserActionsKeep ==
    ASSUME WorkspaceInv, NEW u \in User,
           CreateWorkspace(u) \/ AcceptInvitation(u) \/ DeclineInvitation(u)
             \/ InvitationExpires(u) \/ DeleteExpiredInvitation(u)
    PROVE  WorkspaceInv'
<1>1. CASE CreateWorkspace(u)
  <2>1. TablesTyped'
    BY <1>1 DEF CreateWorkspace, TablesTyped, WorkspaceInv, WorkspaceTyped, MemberRoles
  <2>2. QED
    BY <1>1, <2>1, OvertakeKeeps DEF CreateWorkspace
<1>2. CASE AcceptInvitation(u)
  <2>1. TablesTyped'
    BY <1>2 DEF AcceptInvitation, TablesTyped, WorkspaceInv, WorkspaceTyped, MemberRoles
  <2>2. QED
    BY <1>2, <2>1, OvertakeKeeps DEF AcceptInvitation
<1>3. CASE DeclineInvitation(u) \/ InvitationExpires(u) \/ DeleteExpiredInvitation(u)
  <2>1. invitation' \in [User -> {"none", "expired"} \cup InviteRoles]
    BY <1>3 DEF DeclineInvitation, InvitationExpires, DeleteExpiredInvitation, WorkspaceInv, WorkspaceTyped
  <2>2. UNCHANGED <<wsExists, personal, role, accounts, job, overtaken>>
    BY <1>3 DEF DeclineInvitation, InvitationExpires, DeleteExpiredInvitation
  <2>3. QED
    BY <2>1, <2>2, InvitationOnlyKeeps
<1>4. QED
  BY <1>1, <1>2, <1>3

LEMMA CheckStepsKeep ==
    ASSUME WorkspaceInv, NEW j \in Job, UpdateCheck(j) \/ RemoveCheck(j) \/ DeleteCheck(j)
    PROVE  WorkspaceInv'
<1>1. CASE UpdateCheck(j)
  <2>1. \/ Abort(j)
        \/ PassCheck(j) /\ job[j].op = "update"
             /\ (job[j].to # "owner" => KeepsAnOwner(job[j].on))
    BY <1>1 DEF UpdateCheck, AtStep
  <2>2. QED
    BY <2>1, AbortKeeps, CheckedKeeps DEF CheckHolds
<1>2. CASE RemoveCheck(j)
  <2>1. \/ Abort(j)
        \/ PassCheck(j) /\ job[j].op = "remove" /\ KeepsAnOwner(job[j].on)
    BY <1>2 DEF RemoveCheck, AtStep
  <2>2. QED
    BY <2>1, AbortKeeps, CheckedKeeps DEF CheckHolds
<1>3. CASE DeleteCheck(j)
  <2>1. \/ Abort(j)
        \/ PassCheck(j) /\ job[j].op = "delete" /\ ~DeletionBlocked(job[j].by)
    BY <1>3 DEF DeleteCheck, AtStep
  <2>2. QED
    BY <2>1, AbortKeeps, CheckedKeeps DEF CheckHolds
<1>4. QED
  BY <1>1, <1>2, <1>3

LEMMA CommitStepsKeep ==
    ASSUME WorkspaceInv, NEW j \in Job,
           UpdateCommit(j) \/ RemoveCommit(j) \/ DeleteAccountCommit(j) \/ InviteCommit(j)
    PROVE  WorkspaceInv'
<1>1. JobTyped(job[j]) /\ WorkspaceTyped
  BY DEF WorkspaceInv, JobsTyped
<1>2. CASE UpdateCommit(j)
  <2>1. job[j].to \in MemberRoles /\ Commit(j)
    BY <1>1, <1>2 DEF UpdateCommit, AtStep, JobTyped
  <2>2. TablesTyped'
    BY <1>1, <1>2, <2>1 DEF UpdateCommit, TablesTyped, WorkspaceTyped
  <2>3. QED
    BY <2>1, <2>2, CommitKeeps
<1>3. CASE RemoveCommit(j)
  <2>1. TablesTyped' /\ Commit(j)
    BY <1>1, <1>3 DEF RemoveCommit, TablesTyped, WorkspaceTyped
  <2>2. QED
    BY <2>1, CommitKeeps
<1>4. CASE DeleteAccountCommit(j)
  <2>1. role' \in [User -> {"none"} \cup MemberRoles] /\ accounts' \subseteq User /\ Commit(j)
    BY <1>1, <1>4 DEF DeleteAccountCommit, WorkspaceTyped
  <2>2. invitation' \in [User -> {"none", "expired"} \cup InviteRoles]
    BY <1>1, <1>4 DEF DeleteAccountCommit, WorkspaceTyped
  <2>3. wsExists' \in BOOLEAN /\ personal' \in BOOLEAN
    BY <1>4, Zenon DEF DeleteAccountCommit
  <2>4. QED
    BY <2>1, <2>2, <2>3, CommitKeeps DEF TablesTyped
<1>5. CASE InviteCommit(j)
  <2>1. CASE Abort(j)
    BY <2>1, AbortKeeps
  <2>2. CASE ~Abort(j)
    <3>1. /\ invitation' = [invitation EXCEPT ![job[j].on] = job[j].to] /\ Commit(j)
          /\ wsExists' = wsExists /\ personal' = personal /\ role' = role /\ accounts' = accounts
          /\ job[j].op = "invite"
      BY <1>5, <2>2 DEF InviteCommit, AtStep
    <3>2. job[j].to \in InviteRoles \cup {"none"}
      BY <1>1, <3>1 DEF JobTyped
    <3>3. TablesTyped'
      BY <1>1, <3>1, <3>2 DEF TablesTyped, WorkspaceTyped
    <3>4. QED
      BY <3>1, <3>3, CommitKeeps
  <2>3. QED
    BY <2>1, <2>2
<1>6. QED
  BY <1>2, <1>3, <1>4, <1>5

LEMMA WorkspaceNextKeeps ==
    ASSUME WorkspaceInv, [WorkspaceNext]_workspaceVars
    PROVE  WorkspaceInv'
<1>1. ASSUME NEW u \in User, NEW v \in User, NEW to \in InviteRoles, CreateInvitation(u, v, to)
      PROVE  WorkspaceInv'
  <2>1. invitation' \in [User -> {"none", "expired"} \cup InviteRoles]
    BY <1>1 DEF CreateInvitation, WorkspaceInv, WorkspaceTyped
  <2>2. QED
    BY <1>1, <2>1, InvitationOnlyKeeps DEF CreateInvitation
<1>2. ASSUME NEW j \in Job, NEW u \in User, NEW v \in User, RemoveAuthorize(j, u, v)
      PROVE  WorkspaceInv'
  BY <1>2, StartKeeps DEF RemoveAuthorize
<1>3. ASSUME NEW j \in Job, NEW u \in User, NEW v \in User, NEW to \in MemberRoles,
             UpdateAuthorize(j, u, v, to)
      PROVE  WorkspaceInv'
  BY <1>3, StartKeeps DEF UpdateAuthorize
<1>4. ASSUME NEW j \in Job, NEW u \in User, NEW v \in User,
             NEW to \in InviteRoles \union {"none"}, InviteAuthorize(j, u, v, to)
      PROVE  WorkspaceInv'
  <2>1. to \in {"none"} \cup MemberRoles
    BY DEF MemberRoles
  <2>2. QED
    BY <1>4, <2>1, StartKeeps DEF InviteAuthorize
<1>5. ASSUME NEW j \in Job, NEW u \in User, DeleteAuthorize(j, u)
      PROVE  WorkspaceInv'
  BY <1>5, StartKeeps DEF DeleteAuthorize
<1>6. ASSUME UNCHANGED workspaceVars PROVE WorkspaceInv'
  BY <1>6, InvitationOnlyKeeps DEF workspaceVars, WorkspaceInv, WorkspaceTyped
<1>7. QED
  BY <1>1, <1>2, <1>3, <1>4, <1>5, <1>6, UserActionsKeep, CheckStepsKeep, CommitStepsKeep
     DEF WorkspaceNext

\* Of at least two owners one is left when one goes.
LEMMA SecondOwner ==
    ASSUME WorkspaceConstants, NEW v \in User, role[v] = "owner", KeepsAnOwner(v)
    PROVE  \E w \in Owners : w # v
<1>1. Owners \in SUBSET User /\ v \in Owners /\ Cardinality(Owners) > 1
  BY DEF Owners, KeepsAnOwner
<1>2. IsFiniteSet(Owners)
  BY <1>1, FS_Subset DEF WorkspaceConstants
<1>3. SUFFICES ASSUME Owners = {v} PROVE FALSE
  BY <1>1
<1>4. Cardinality({v}) = 1
  BY FS_Singleton
<1>5. QED
  BY <1>1, <1>3, <1>4

LEMMA LastOwnerStep ==
    ASSUME WorkspaceConstants, WorkspaceInv, [WorkspaceNext]_workspaceVars
    PROVE  LastOwnerLeavesOvertaken
<1> SUFFICES ASSUME wsExists', Owners # {}, {u \in User : role'[u] = "owner"} = {}
             PROVE  \E j \in overtaken : job'[j] = NoJob
  BY DEF LastOwnerLeavesOvertaken
<1>1. PICK o \in User : role[o] = "owner"
  BY DEF Owners
<1>2. \A u \in User : role'[u] # "owner"
  OBVIOUS
<1>3. role' # role
  BY <1>1, <1>2
<1>4. role \in [User -> {"none"} \cup MemberRoles] /\ job \in [Job -> JobRecord]
  BY DEF WorkspaceInv, WorkspaceTyped, JobsTyped
<1>5. ASSUME NEW u \in User, CreateWorkspace(u) PROVE FALSE
  BY <1>2, <1>4, <1>5 DEF CreateWorkspace
<1>6. ASSUME NEW u \in User, AcceptInvitation(u) PROVE FALSE
  <2>1. o # u /\ role' = [role EXCEPT ![u] = invitation[u]]
    BY <1>1, <1>6 DEF AcceptInvitation
  <2>2. QED
    BY <1>1, <1>2, <1>4, <2>1
<1>7. ASSUME NEW j \in Job, UpdateCommit(j) \/ RemoveCommit(j) \/ DeleteAccountCommit(j)
      PROVE  \E k \in overtaken : job'[k] = NoJob
  <2>1. job'[j] = NoJob
    BY <1>4, <1>7 DEF UpdateCommit, RemoveCommit, DeleteAccountCommit, Commit, EndJob
  <2>2. SUFFICES ASSUME j \notin overtaken PROVE FALSE
    BY <2>1
  <2>3. job[j].step = "checked"
    BY <1>7 DEF UpdateCommit, RemoveCommit, DeleteAccountCommit, AtStep
  <2>4. CheckHolds(j) /\ JobTyped(job[j])
    BY <2>2, <2>3 DEF WorkspaceInv, ChecksFresh, JobsTyped
  <2>5. CASE UpdateCommit(j)
    <3> DEFINE v == job[j].on
    <3>1. job[j].op = "update" /\ v \in User
      BY <2>4, <2>5 DEF UpdateCommit, AtStep, JobTyped
    <3>2. role[v] # "none" /\ role' = [role EXCEPT ![v] = job[j].to]
      BY <1>3, <2>5 DEF UpdateCommit
    <3>3. job[j].to # "owner" /\ v = o
      BY <1>1, <1>2, <1>4, <3>1, <3>2
    <3>4. PICK w \in Owners : w # v
      BY <1>1, <2>4, <3>1, <3>3, SecondOwner DEF CheckHolds
    <3>5. QED
      BY <1>2, <1>4, <3>2, <3>4 DEF Owners
  <2>6. CASE RemoveCommit(j)
    <3> DEFINE v == job[j].on
    <3>1. job[j].op = "remove" /\ v \in User /\ role' = [role EXCEPT ![v] = "none"]
      BY <2>4, <2>6 DEF RemoveCommit, AtStep, JobTyped
    <3>2. v = o
      BY <1>1, <1>2, <1>4, <3>1
    <3>3. PICK w \in Owners : w # v
      BY <1>1, <2>4, <3>1, <3>2, SecondOwner DEF CheckHolds
    <3>4. QED
      BY <1>2, <1>4, <3>1, <3>3 DEF Owners
  <2>7. CASE DeleteAccountCommit(j)
    <3> DEFINE u == job[j].by
    <3>1. job[j].op = "delete" /\ u \in User /\ role' = [role EXCEPT ![u] = "none"]
      BY <2>4, <2>7 DEF DeleteAccountCommit, AtStep, JobTyped
    <3>2. \A w \in User : w # u => role[w] # "owner"
      BY <1>2, <1>4, <3>1
    <3>3. role[u] = "owner" /\ Owners = {u}
      BY <1>1, <3>1, <3>2 DEF Owners
    <3>4. wsExists /\ ~(personal /\ Members = {u})
      BY <2>7, <3>3 DEF DeleteAccountCommit
    <3>5. DeletionBlocked(u)
      BY <3>3, <3>4 DEF DeletionBlocked
    <3>6. QED
      BY <2>4, <3>1, <3>5 DEF CheckHolds
  <2>8. QED
    BY <1>7, <2>5, <2>6, <2>7
<1>8. QED
  <2>1. \/ role' = role
        \/ \E u \in User : CreateWorkspace(u) \/ AcceptInvitation(u)
        \/ \E j \in Job : UpdateCommit(j) \/ RemoveCommit(j) \/ DeleteAccountCommit(j)
    BY DEF WorkspaceNext, workspaceVars, DeclineInvitation, InvitationExpires,
       DeleteExpiredInvitation, CreateInvitation, RemoveAuthorize, UpdateAuthorize,
       InviteAuthorize, DeleteAuthorize, StartJob, UpdateCheck, RemoveCheck, DeleteCheck,
       InviteCommit, PassCheck, Abort
  <2>2. QED
    BY <1>3, <1>5, <1>6, <1>7, <2>1

\* The tables and the requests keep their types, whatever commits between the
\* steps of a request.
THEOREM WorkspaceTypeCorrect == WorkspaceSpec => []WorkspaceTypeOK
<1>1. WorkspaceInit => WorkspaceInv
  BY WorkspaceStarts
<1>2. WorkspaceInv /\ [WorkspaceNext]_workspaceVars => WorkspaceInv'
  BY WorkspaceNextKeeps
<1>3. WorkspaceInv => WorkspaceTypeOK
  BY DEF WorkspaceInv, WorkspaceTyped, JobsTyped, JobRecord, WorkspaceTypeOK
<1>4. QED
  BY <1>1, <1>2, <1>3, PTL DEF WorkspaceSpec

\* For every set of users and of requests, a workspace that exists loses its
\* last owner only to a request that another one overtook between its check and
\* its commit.
THEOREM LastOwnerNeedsRace ==
    ASSUME WorkspaceConstants
    PROVE  WorkspaceSpec => LastOwnerNeedsOverlap
<1>1. WorkspaceInit => WorkspaceInv
  BY WorkspaceStarts
<1>2. WorkspaceInv /\ [WorkspaceNext]_workspaceVars => WorkspaceInv'
  BY WorkspaceNextKeeps
<1>3. WorkspaceInv /\ [WorkspaceNext]_workspaceVars => [LastOwnerLeavesOvertaken]_workspaceVars
  BY LastOwnerStep
<1>4. QED
  BY <1>1, <1>2, <1>3, PTL DEF WorkspaceSpec, LastOwnerNeedsOverlap

-----------------------------------------------------------------------------
(* The counters of checks: sums over days.                                 *)

\* What a day can count.
DayCounts == [Day -> 0..MaxDayChecks]

LEMMA NumberedPairs ==
    ASSUME NEW f, NEW S
    PROVE  /\ \A d, i : <<d, i>> \in Numbered(f, S) <=> d \in S /\ i \in 1..f[d]
           /\ \A x \in Numbered(f, S) : x = <<x[1], x[2]>> /\ x[1] \in S /\ x[2] \in 1..f[x[1]]
BY DEF Numbered

LEMMA NumberedFinite ==
    ASSUME CountsConstants, NEW f \in DayCounts, NEW S \in SUBSET Day
    PROVE  IsFiniteSet(Numbered(f, S)) /\ SumOver(f, S) \in Nat
<1>1. IsFiniteSet(Day) /\ IsFiniteSet(1..MaxDayChecks)
  BY FS_Interval DEF Day, CountsConstants
<1>2. IsFiniteSet(Day \X (1..MaxDayChecks))
  BY <1>1, FS_Product
<1>3. Numbered(f, S) \in SUBSET (Day \X (1..MaxDayChecks))
  <2>1. ASSUME NEW x \in Numbered(f, S) PROVE x \in Day \X (1..MaxDayChecks)
    <3>1. x = <<x[1], x[2]>> /\ x[1] \in Day /\ x[2] \in 1..f[x[1]]
      BY NumberedPairs
    <3>2. x[2] \in 1..MaxDayChecks
      BY <3>1 DEF DayCounts, CountsConstants
    <3>3. QED
      BY <3>1, <3>2
  <2>2. QED
    BY <2>1
<1>4. IsFiniteSet(Numbered(f, S))
  BY <1>2, <1>3, FS_Subset
<1>5. QED
  BY <1>4, FS_CardinalityType DEF SumOver

LEMMA SumMonotone ==
    ASSUME CountsConstants, NEW f \in DayCounts, NEW g \in DayCounts, NEW S \in SUBSET Day,
           \A d \in S : f[d] =< g[d]
    PROVE  SumOver(f, S) =< SumOver(g, S)
<1>1. Numbered(f, S) \in SUBSET Numbered(g, S)
  <2>1. ASSUME NEW x \in Numbered(f, S) PROVE x \in Numbered(g, S)
    <3>1. x = <<x[1], x[2]>> /\ x[1] \in S /\ x[2] \in 1..f[x[1]]
      BY NumberedPairs
    <3>2. x[2] \in 1..g[x[1]]
      BY <3>1 DEF DayCounts
    <3>3. QED
      BY <3>1, <3>2, NumberedPairs
  <2>2. QED
    BY <2>1
<1>2. QED
  BY <1>1, NumberedFinite, FS_Subset DEF SumOver

\* The sums over two functions add up: of the numbered checks of f + g those
\* above f[d] are as many as g has.
LEMMA SumAdds ==
    ASSUME CountsConstants, NEW f \in DayCounts, NEW g \in DayCounts, NEW h \in DayCounts,
           NEW S \in SUBSET Day, \A d \in S : h[d] = f[d] + g[d]
    PROVE  SumOver(h, S) = SumOver(f, S) + SumOver(g, S)
<1> DEFINE F == Numbered(f, S)
           G == Numbered(g, S)
           H == Numbered(h, S)
           up == [x \in G |-> <<x[1], f[x[1]] + x[2]>>]
<1>1. \A d \in S : f[d] \in Nat /\ g[d] \in Nat /\ h[d] \in Nat
  BY DEF DayCounts
<1>2. /\ \A d, i : <<d, i>> \in F <=> d \in S /\ i \in 1..f[d]
      /\ \A d, i : <<d, i>> \in G <=> d \in S /\ i \in 1..g[d]
      /\ \A d, i : <<d, i>> \in H <=> d \in S /\ i \in 1..h[d]
  BY NumberedPairs
<1>3. /\ \A x \in F : x = <<x[1], x[2]>> /\ x[1] \in S /\ x[2] \in 1..f[x[1]]
      /\ \A x \in G : x = <<x[1], x[2]>> /\ x[1] \in S /\ x[2] \in 1..g[x[1]]
      /\ \A x \in H : x = <<x[1], x[2]>> /\ x[1] \in S /\ x[2] \in 1..h[x[1]]
  BY NumberedPairs
<1>4. IsFiniteSet(F) /\ IsFiniteSet(G) /\ IsFiniteSet(H)
  BY NumberedFinite
<1> HIDE DEF F, G, H
<1>5. F \subseteq H
  <2>1. ASSUME NEW x \in F PROVE x \in H
    <3>1. x = <<x[1], x[2]>> /\ x[1] \in S /\ x[2] \in 1..f[x[1]]
      BY <1>3
    <3>2. x[2] \in 1..h[x[1]]
      BY <1>1, <3>1
    <3>3. QED
      BY <1>2, <3>1, <3>2
  <2>2. QED
    BY <2>1
<1>6. up \in [G -> H \ F]
  <2>1. ASSUME NEW x \in G PROVE <<x[1], f[x[1]] + x[2]>> \in H \ F
    <3>1. x[1] \in S /\ x[2] \in 1..g[x[1]]
      BY <1>3
    <3>2. f[x[1]] + x[2] \in 1..h[x[1]] /\ f[x[1]] + x[2] \notin 1..f[x[1]]
      BY <1>1, <3>1
    <3>3. QED
      BY <1>2, <3>1, <3>2
  <2>2. QED
    BY <2>1
<1>7. \A x, y \in G : up[x] = up[y] => x = y
  <2>1. SUFFICES ASSUME NEW x \in G, NEW y \in G, up[x] = up[y] PROVE x = y
    OBVIOUS
  <2>2. x[1] = y[1] /\ f[x[1]] + x[2] = f[y[1]] + y[2]
    BY <2>1
  <2>3. /\ x = <<x[1], x[2]>> /\ x[1] \in S /\ x[2] \in 1..g[x[1]]
        /\ y = <<y[1], y[2]>> /\ y[1] \in S /\ y[2] \in 1..g[y[1]]
    BY <1>3
  <2>4. x[2] = y[2]
    BY <1>1, <2>2, <2>3
  <2>5. QED
    BY <2>2, <2>3, <2>4
<1>8. \A z \in H \ F : \E x \in G : up[x] = z
  <2>1. SUFFICES ASSUME NEW z \in H \ F PROVE \E x \in G : up[x] = z
    OBVIOUS
  <2>2. z = <<z[1], z[2]>> /\ z[1] \in S /\ z[2] \in 1..h[z[1]]
    BY <1>3
  <2>3. z[2] \notin 1..f[z[1]]
    BY <1>2, <2>1, <2>2
  <2> DEFINE i == z[2] - f[z[1]]
             x == <<z[1], i>>
  <2>4. i \in 1..g[z[1]] /\ f[z[1]] + i = z[2]
    BY <1>1, <2>2, <2>3
  <2> HIDE DEF i
  <2>5. x \in G /\ x[1] = z[1] /\ x[2] = i
    BY <1>2, <2>2, <2>4
  <2>6. up[x] = <<x[1], f[x[1]] + x[2]>>
    BY <2>5
  <2>7. QED
    BY <2>2, <2>4, <2>5, <2>6
<1> HIDE DEF up
<1>9. ExistsBijection(G, H \ F)
  BY <1>6, <1>7, <1>8 DEF ExistsBijection, Bijection, Injection, Surjection, IsInjective
<1>10. Cardinality(H \ F) = Cardinality(G)
  BY <1>4, <1>9, FS_Bijection
<1>11. Cardinality(H \ F) = Cardinality(H) - Cardinality(H \cap F)
  BY <1>4, FS_Difference
<1>12. H \cap F = F
  BY <1>5
<1>13. Cardinality(F) \in Nat /\ Cardinality(G) \in Nat /\ Cardinality(H) \in Nat
  BY <1>4, FS_CardinalityType
<1>14. Cardinality(H) = Cardinality(F) + Cardinality(G)
  BY <1>10, <1>11, <1>12, <1>13
<1>15. QED
  BY <1>14 DEF SumOver, F, G, H

\* The sum over some days is that of the function which is 0 elsewhere.
LEMMA SumRestricted ==
    ASSUME CountsConstants, NEW f \in DayCounts, NEW S \in SUBSET Day
    PROVE  LET g == [d \in Day |-> IF d \in S THEN f[d] ELSE 0]
           IN  g \in DayCounts /\ SumOver(g, Day) = SumOver(f, S)
<1> DEFINE g == [d \in Day |-> IF d \in S THEN f[d] ELSE 0]
<1>1. g \in DayCounts /\ \A d \in Day : g[d] = IF d \in S THEN f[d] ELSE 0
  BY DEF DayCounts, CountsConstants
<1> HIDE DEF g
<1>2. Numbered(g, Day) = Numbered(f, S)
  <2>1. ASSUME NEW x \in Numbered(g, Day) PROVE x \in Numbered(f, S)
    <3>1. x = <<x[1], x[2]>> /\ x[1] \in Day /\ x[2] \in 1..g[x[1]]
      BY NumberedPairs
    <3>2. x[1] \in S /\ x[2] \in 1..f[x[1]]
      BY <1>1, <3>1
    <3>3. QED
      BY <3>1, <3>2, NumberedPairs
  <2>2. ASSUME NEW x \in Numbered(f, S) PROVE x \in Numbered(g, Day)
    <3>1. x = <<x[1], x[2]>> /\ x[1] \in S /\ x[2] \in 1..f[x[1]]
      BY NumberedPairs
    <3>2. x[1] \in Day /\ x[2] \in 1..g[x[1]]
      BY <1>1, <3>1
    <3>3. QED
      BY <3>1, <3>2, NumberedPairs
  <2>3. QED
    BY <2>1, <2>2
<1>3. QED
  BY <1>1, <1>2 DEF SumOver, g

\* A function that is n on day 1 and 0 later has the sum n.
LEMMA SumOfFirstDay ==
    ASSUME CountsConstants, NEW n \in 0..MaxDayChecks
    PROVE  LET g == [d \in Day |-> IF d = 1 THEN n ELSE 0]
           IN  g \in DayCounts /\ SumOver(g, Day) = n
<1> DEFINE g == [d \in Day |-> IF d = 1 THEN n ELSE 0]
           pair == [i \in 1..n |-> <<1, i>>]
<1>1. g \in DayCounts /\ \A d \in Day : g[d] = IF d = 1 THEN n ELSE 0
  BY DEF DayCounts, CountsConstants
<1>2. 1 \in Day
  BY DEF Day, CountsConstants
<1> DEFINE G == Numbered(g, Day)
<1>3. /\ \A d, i : <<d, i>> \in G <=> d \in Day /\ i \in 1..g[d]
      /\ \A x \in G : x = <<x[1], x[2]>> /\ x[1] \in Day /\ x[2] \in 1..g[x[1]]
  BY NumberedPairs
<1> HIDE DEF g, G
<1>4. pair \in [1..n -> G]
  BY <1>1, <1>2, <1>3
<1>5. \A i, j \in 1..n : pair[i] = pair[j] => i = j
  OBVIOUS
<1>6. ASSUME NEW x \in G PROVE \E i \in 1..n : pair[i] = x
  <2>1. x = <<x[1], x[2]>> /\ x[1] \in Day /\ x[2] \in 1..g[x[1]]
    BY <1>3
  <2>2. x[1] = 1 /\ x[2] \in 1..n
    BY <1>1, <2>1
  <2>3. pair[x[2]] = <<1, x[2]>>
    BY <2>2
  <2>4. QED
    BY <2>1, <2>2, <2>3
<1> HIDE DEF pair
<1>7. ExistsBijection(1..n, G)
  BY <1>4, <1>5, <1>6 DEF ExistsBijection, Bijection, Injection, Surjection, IsInjective
<1>8. IsFiniteSet(1..n) /\ Cardinality(1..n) = n
  BY FS_Interval DEF CountsConstants
<1>9. Cardinality(G) = n
  BY <1>7, <1>8, FS_Bijection
<1>10. QED
  BY <1>1, <1>9 DEF SumOver, G, g

\* The greatest of some days.
LEMMA LatestExists ==
    ASSUME CountsConstants, NEW S \in SUBSET Day, S # {}
    PROVE  Max(S) \in S /\ \A d \in S : d =< Max(S)
<1> DEFINE above == {n \in Nat : \A d \in S : d =< n}
<1>1. LastDay \in above /\ above \in SUBSET Nat
  BY DEF Day, CountsConstants
<1>2. PICK m \in above : \A n \in above : ~(<<n, m>> \in OpToRel(<, Nat))
  BY <1>1, NatLessThanWellFounded, WFMin
<1>3. ASSUME NEW n \in above PROVE m =< n
  <2>1. ~(n < m)
    BY <1>2 DEF OpToRel
  <2>2. QED
    BY <2>1
<1>4. m \in S
  <2>1. SUFFICES ASSUME m \notin S PROVE FALSE
    OBVIOUS
  <2>2. \A d \in S : d \in Nat /\ d >= 1 /\ d =< m - 1
    BY <2>1 DEF Day
  <2>3. m - 1 \in above
    BY <2>2
  <2>4. QED
    BY <1>3, <2>3
<1>5. \E x \in S : \A y \in S : x >= y
  BY <1>4 DEF Day
<1>6. Max(S) \in S /\ \A d \in S : Max(S) >= d
  BY <1>5 DEF Max
<1>7. QED
  BY <1>6 DEF Day

\* fold is a share of the total: what each day has put into it.
\* The rows that are older than the counters are of the first day.
Older(d) == IF d = 1 THEN inherited ELSE 0

DayCounted(fold, d) ==
    /\ fold[d] + counter[d] =< checked[d]
    /\ checked[d] =< fold[d] + counter[d] + Older(d)
    /\ rows[d] =< checked[d] /\ (d >= today => rows[d] = checked[d])
    /\ d >= foldedTo \/ d + KeepCounters >= today => fold[d] = 0
    /\ countJob.saw[d] =< checked[d]
    /\ countJob.saw[d] > 0 => d >= foldedTo

Folded(fold) == total = SumOver(fold, Day) /\ \A d \in Day : DayCounted(fold, d)

CountsTyped ==
    /\ today \in Day /\ foldedTo \in 0..LastDay /\ total \in Nat
    /\ inherited \in 0..MaxDayChecks /\ backfilled \in BOOLEAN
    /\ checked \in DayCounts /\ rows \in DayCounts /\ counter \in DayCounts
    /\ countJob \in [step : {"idle", "backfill", "compact"}, saw : DayCounts]

CountsInv == CountsTyped /\ \E fold \in DayCounts : Folded(fold)

LEMMA ZeroCounts ==
    ASSUME CountsConstants
    PROVE  Zero \in DayCounts /\ SumOver(Zero, Day) = 0 /\ \A d \in Day : Zero[d] = 0
<1>1. Zero = [d \in Day |-> IF d = 1 THEN 0 ELSE 0]
  BY DEF Zero
<1>2. 0 \in 0..MaxDayChecks
  BY DEF CountsConstants
<1>3. QED
  BY <1>1, <1>2, SumOfFirstDay DEF Zero

LEMMA CountsStart == ASSUME CountsConstants, CountsInit PROVE CountsInv
<1>1. Zero \in DayCounts /\ SumOver(Zero, Day) = 0 /\ \A d \in Day : Zero[d] = 0
  BY ZeroCounts
<1>2. 1 \in Day /\ \A d \in Day : d \in Nat /\ d >= 1
  BY DEF Day, CountsConstants
<1>3. rows \in DayCounts
  BY DEF CountsInit, DayCounts, CountsConstants
<1>4. countJob \in [step : {"idle", "backfill", "compact"}, saw : DayCounts] /\ countJob.saw = Zero
  BY <1>1 DEF CountsInit, NoPass
<1>5. CountsTyped
  <2>1. rows[1] \in 0..MaxDayChecks
    BY <1>2, <1>3 DEF DayCounts
  <2>2. today \in Day /\ foldedTo \in 0..LastDay /\ total \in Nat /\ inherited \in 0..MaxDayChecks
    BY <1>2, <2>1 DEF CountsInit, CountsConstants
  <2>3. backfilled \in BOOLEAN
    BY Zenon DEF CountsInit
  <2>4. checked \in DayCounts /\ counter \in DayCounts
    BY <1>1, <1>3 DEF CountsInit
  <2>5. QED
    BY <1>3, <1>4, <2>2, <2>3, <2>4 DEF CountsTyped
<1>6. ASSUME NEW d \in Day PROVE DayCounted(Zero, d)
  <2>1. rows[d] \in Nat /\ (d # 1 => rows[d] = 0) /\ rows[1] \in Nat
    BY <1>2, <1>3 DEF CountsInit, DayCounts
  <2>2. /\ counter[d] = 0 /\ Zero[d] = 0 /\ countJob.saw[d] = 0 /\ checked[d] = rows[d]
        /\ inherited = rows[1]
    BY <1>1, <1>4 DEF CountsInit
  <2>3. QED
    BY <2>1, <2>2 DEF DayCounted, Older
<1>7. Folded(Zero)
  BY <1>1, <1>6 DEF Folded, CountsInit
<1>8. QED
  BY <1>1, <1>5, <1>7 DEF CountsInv

\* The facts about one day that the steps below use.
LEMMA DayTypes ==
    ASSUME CountsConstants, CountsTyped, NEW d \in Day
    PROVE  /\ d \in Nat /\ d >= 1 /\ d =< LastDay /\ today \in Nat /\ foldedTo \in Nat
           /\ KeepCounters \in Nat /\ KeepCounters > 0 /\ KeepRows \in Nat /\ KeepRows > 0
           /\ MaxDayChecks \in Nat /\ inherited \in Nat
           /\ checked[d] \in 0..MaxDayChecks /\ rows[d] \in 0..MaxDayChecks
           /\ counter[d] \in 0..MaxDayChecks /\ countJob.saw[d] \in 0..MaxDayChecks
BY DEF CountsTyped, CountsConstants, DayCounts, Day

\* What raising the counters by the rows read can make of them.
LEMMA RaisedWithin ==
    ASSUME CountsConstants, CountsTyped, NEW fold \in DayCounts, Folded(fold), NEW d \in Day
    PROVE  /\ Raised(d) \in Nat /\ Raised(d) >= counter[d]
           /\ fold[d] + Raised(d) =< checked[d]
<1>1. fold[d] \in Nat /\ DayCounted(fold, d)
  BY DEF DayCounts, Folded
<1>2. QED
  BY <1>1, DayTypes DEF Raised, DayCounted

LEMMA RaisedType ==
    ASSUME CountsConstants, CountsTyped, NEW fold \in DayCounts, Folded(fold)
    PROVE  RaisedCounters \in DayCounts /\ \A d \in Day : RaisedCounters[d] = Raised(d)
<1>1. ASSUME NEW d \in Day PROVE Raised(d) \in 0..MaxDayChecks
  <2>1. fold[d] \in Nat
    BY DEF DayCounts
  <2>2. QED
    BY <2>1, RaisedWithin, DayTypes
<1>2. QED
  BY <1>1 DEF RaisedCounters, DayCounts

LEMMA InsertKeeps ==
    ASSUME CountsConstants, CountsInv, NEW d \in Day, InsertStatistic(d)
    PROVE  CountsInv'
<1>1. CountsTyped
  BY DEF CountsInv
<1>2. PICK fold \in DayCounts : Folded(fold)
  BY DEF CountsInv
<1>3. /\ d =< today /\ checked[d] < MaxDayChecks
      /\ rows' = [rows EXCEPT ![d] = @ + 1]
      /\ counter' = [counter EXCEPT ![d] = @ + 1]
      /\ checked' = [checked EXCEPT ![d] = @ + 1]
      /\ today' = today /\ inherited' = inherited /\ total' = total /\ foldedTo' = foldedTo
      /\ backfilled' = backfilled /\ countJob' = countJob
  BY DEF InsertStatistic
<1>4. DayCounted(fold, d) /\ fold[d] \in Nat
  BY <1>2 DEF Folded, DayCounts
<1>5. /\ rows[d] + 1 \in 0..MaxDayChecks /\ counter[d] + 1 \in 0..MaxDayChecks
      /\ checked[d] + 1 \in 0..MaxDayChecks
  BY <1>1, <1>3, <1>4, DayTypes DEF DayCounted
<1>6. CountsTyped'
  BY <1>1, <1>3, <1>5 DEF CountsTyped, DayCounts
<1>7. ASSUME NEW e \in Day PROVE DayCounted(fold, e)'
  <2>1. DayCounted(fold, e) /\ fold[e] \in Nat
    BY <1>2 DEF Folded, DayCounts
  <2>2. CASE e = d
    <3>1. rows'[e] = rows[e] + 1 /\ counter'[e] = counter[e] + 1 /\ checked'[e] = checked[e] + 1
      BY <1>1, <1>3, <2>2 DEF CountsTyped, DayCounts
    <3>2. QED
      BY <1>1, <1>3, <2>1, <3>1, DayTypes DEF DayCounted, Older
  <2>3. CASE e # d
    <3>1. rows'[e] = rows[e] /\ counter'[e] = counter[e] /\ checked'[e] = checked[e]
      BY <1>1, <1>3, <2>3 DEF CountsTyped, DayCounts
    <3>2. QED
      BY <1>1, <1>3, <2>1, <3>1, DayTypes DEF DayCounted, Older
  <2>4. QED
    BY <2>2, <2>3
<1>8. Folded(fold)'
  BY <1>2, <1>3, <1>7 DEF Folded
<1>9. QED
  BY <1>6, <1>8 DEF CountsInv

LEMMA DeleteKeeps ==
    ASSUME CountsConstants, CountsInv, NEW d \in Day, NEW n, DeleteRows(d, n)
    PROVE  CountsInv'
<1>1. CountsTyped
  BY DEF CountsInv
<1>2. PICK fold \in DayCounts : Folded(fold)
  BY DEF CountsInv
<1>3. /\ d + KeepRows =< today /\ n \in 1..rows[d]
      /\ rows' = [rows EXCEPT ![d] = @ - n]
      /\ counter' = counter /\ checked' = checked
      /\ today' = today /\ inherited' = inherited /\ total' = total /\ foldedTo' = foldedTo
      /\ backfilled' = backfilled /\ countJob' = countJob
  BY DEF DeleteRows
<1>4. rows[d] - n \in 0..MaxDayChecks
  BY <1>1, <1>3, DayTypes
<1>5. CountsTyped'
  BY <1>1, <1>3, <1>4 DEF CountsTyped, DayCounts
<1>6. ASSUME NEW e \in Day PROVE DayCounted(fold, e)'
  <2>1. DayCounted(fold, e) /\ fold[e] \in Nat
    BY <1>2 DEF Folded, DayCounts
  <2>2. CASE e = d
    <3>1. rows'[e] = rows[e] - n
      BY <1>1, <1>3, <2>2 DEF CountsTyped, DayCounts
    <3>2. QED
      BY <1>1, <1>3, <2>1, <2>2, <3>1, DayTypes DEF DayCounted, Older
  <2>3. CASE e # d
    <3>1. rows'[e] = rows[e]
      BY <1>1, <1>3, <2>3 DEF CountsTyped, DayCounts
    <3>2. QED
      BY <1>1, <1>3, <2>1, <3>1, DayTypes DEF DayCounted, Older
  <2>4. QED
    BY <2>2, <2>3
<1>7. Folded(fold)'
  BY <1>2, <1>3, <1>6 DEF Folded
<1>8. QED
  BY <1>5, <1>7 DEF CountsInv

LEMMA DayPassesKeeps ==
    ASSUME CountsConstants, CountsInv, DayPasses
    PROVE  CountsInv'
<1>1. CountsTyped
  BY DEF CountsInv
<1>2. PICK fold \in DayCounts : Folded(fold)
  BY DEF CountsInv
<1>3. /\ today < LastDay /\ today' = today + 1
      /\ rows' = rows /\ counter' = counter /\ checked' = checked
      /\ inherited' = inherited /\ total' = total /\ foldedTo' = foldedTo
      /\ backfilled' = backfilled /\ countJob' = countJob
  BY DEF DayPasses
<1>4. CountsTyped'
  BY <1>1, <1>3 DEF CountsTyped, Day, CountsConstants
<1>5. ASSUME NEW e \in Day PROVE DayCounted(fold, e)'
  <2>1. DayCounted(fold, e) /\ fold[e] \in Nat
    BY <1>2 DEF Folded, DayCounts
  <2>2. QED
    BY <1>1, <1>3, <2>1, DayTypes DEF DayCounted, Older
<1>6. Folded(fold)'
  BY <1>2, <1>3, <1>5 DEF Folded
<1>7. QED
  BY <1>4, <1>6 DEF CountsInv

\* Only the job changes: what it read is within what was checked, and of days
\* that are not folded.
LEMMA JobKeeps ==
    ASSUME CountsConstants, CountsInv,
           UNCHANGED <<today, checked, inherited, rows, counter, total, foldedTo>>,
           backfilled' \in BOOLEAN,
           countJob' \in [step : {"idle", "backfill", "compact"}, saw : DayCounts],
           countJob'.saw \in {Zero, CountedRows}
    PROVE  CountsInv'
<1>1. CountsTyped
  BY DEF CountsInv
<1>2. PICK fold \in DayCounts : Folded(fold)
  BY DEF CountsInv
<1>3. CountsTyped'
  BY <1>1 DEF CountsTyped
<1>4. ASSUME NEW e \in Day PROVE DayCounted(fold, e)'
  <2>1. DayCounted(fold, e) /\ fold[e] \in Nat
    BY <1>2 DEF Folded, DayCounts
  <2>2. Zero[e] = 0 /\ CountedRows[e] = IF e < today /\ e >= foldedTo THEN rows[e] ELSE 0
    BY DEF Zero, CountedRows
  <2>3. countJob'.saw[e] = 0 \/ (countJob'.saw[e] = rows[e] /\ e >= foldedTo)
    BY <2>2
  <2>4. QED
    BY <1>1, <2>1, <2>3, DayTypes DEF DayCounted, Older
<1>5. Folded(fold)'
  BY <1>2, <1>4 DEF Folded
<1>6. QED
  BY <1>3, <1>5 DEF CountsInv

LEMMA JobStepsKeep ==
    ASSUME CountsConstants, CountsInv, BackfillReads \/ CompactReads \/ JobRollsBack
    PROVE  CountsInv'
<1>1. CountsTyped
  BY DEF CountsInv
<1>2. CountedRows \in DayCounts
  BY <1>1, DayTypes DEF CountedRows, DayCounts
<1>3. Zero \in DayCounts
  BY ZeroCounts
<1>4. NoPass \in [step : {"idle", "backfill", "compact"}, saw : DayCounts] /\ NoPass.saw = Zero
  BY <1>3 DEF NoPass
<1>5. /\ countJob' \in [step : {"idle", "backfill", "compact"}, saw : DayCounts]
      /\ countJob'.saw \in {Zero, CountedRows}
  BY <1>2, <1>3, <1>4 DEF BackfillReads, CompactReads, JobRollsBack
<1>6. /\ UNCHANGED <<today, checked, inherited, rows, counter, total, foldedTo>>
      /\ backfilled' = backfilled
  BY DEF BackfillReads, CompactReads, JobRollsBack
<1>7. QED
  BY <1>1, <1>5, <1>6, JobKeeps DEF CountsTyped

LEMMA BackfillKeeps ==
    ASSUME CountsConstants, CountsInv, BackfillCommits
    PROVE  CountsInv'
<1>1. CountsTyped
  BY DEF CountsInv
<1>2. PICK fold \in DayCounts : Folded(fold)
  BY DEF CountsInv
<1>3. /\ counter' = RaisedCounters /\ backfilled' = TRUE /\ countJob' = NoPass
      /\ rows' = rows /\ checked' = checked /\ today' = today
      /\ inherited' = inherited /\ total' = total /\ foldedTo' = foldedTo
  BY DEF BackfillCommits
<1>4. RaisedCounters \in DayCounts /\ \A d \in Day : RaisedCounters[d] = Raised(d)
  BY <1>1, <1>2, RaisedType
<1>5. /\ NoPass \in [step : {"idle", "backfill", "compact"}, saw : DayCounts]
      /\ \A d \in Day : NoPass.saw[d] = 0
  BY ZeroCounts DEF NoPass
<1>6. CountsTyped'
  BY <1>1, <1>3, <1>4, <1>5 DEF CountsTyped
<1>7. ASSUME NEW e \in Day PROVE DayCounted(fold, e)'
  <2>1. DayCounted(fold, e) /\ fold[e] \in Nat
    BY <1>2 DEF Folded, DayCounts
  <2>2. counter'[e] \in Nat /\ counter'[e] >= counter[e] /\ fold[e] + counter'[e] =< checked[e]
    BY <1>1, <1>2, <1>3, <1>4, RaisedWithin
  <2>3. countJob'.saw[e] = 0
    BY <1>3, <1>5
  <2>4. QED
    BY <1>1, <1>3, <2>1, <2>2, <2>3, DayTypes DEF DayCounted, Older
<1>8. Folded(fold)'
  BY <1>2, <1>3, <1>7 DEF Folded
<1>9. QED
  BY <1>6, <1>8 DEF CountsInv

\* Compaction moves the folded days' counters into the total.
LEMMA CompactKeeps ==
    ASSUME CountsConstants, CountsInv, NEW folded \in SUBSET Day, CompactCommits(folded)
    PROVE  CountsInv'
<1> DEFINE raised == RaisedCounters
<1>1. CountsTyped
  BY DEF CountsInv
<1>2. PICK fold \in DayCounts : Folded(fold)
  BY DEF CountsInv
<1>3. /\ folded \subseteq Foldable(raised)
      /\ counter' = [d \in Day |-> IF d \in folded THEN 0 ELSE raised[d]]
      /\ total' = total + SumOver(raised, folded)
      /\ foldedTo' = IF folded = {} THEN foldedTo
                     ELSE IF Max(folded) + 1 > foldedTo THEN Max(folded) + 1 ELSE foldedTo
      /\ backfilled' = TRUE /\ countJob' = NoPass
      /\ rows' = rows /\ checked' = checked /\ today' = today /\ inherited' = inherited
  BY DEF CompactCommits
<1>4. raised \in DayCounts /\ \A d \in Day : raised[d] = Raised(d)
  BY <1>1, <1>2, RaisedType
<1>5. \A d \in folded : d + KeepCounters < today
  BY <1>3 DEF Foldable
<1>6. /\ NoPass \in [step : {"idle", "backfill", "compact"}, saw : DayCounts]
      /\ \A d \in Day : NoPass.saw[d] = 0
  BY ZeroCounts DEF NoPass
<1> HIDE DEF raised
<1> DEFINE put == [d \in Day |-> IF d \in folded THEN raised[d] ELSE 0]
           more == [d \in Day |-> IF d \in folded THEN fold[d] + raised[d] ELSE fold[d]]
<1>7. put \in DayCounts /\ SumOver(put, Day) = SumOver(raised, folded)
  BY <1>4, SumRestricted
<1>8. \A d \in Day : /\ fold[d] \in Nat /\ raised[d] \in Nat /\ raised[d] >= counter[d]
                     /\ fold[d] + raised[d] =< checked[d]
  BY <1>1, <1>2, <1>4, RaisedWithin DEF DayCounts
<1>9. more \in DayCounts
  <2>1. ASSUME NEW d \in Day
        PROVE  (IF d \in folded THEN fold[d] + raised[d] ELSE fold[d]) \in 0..MaxDayChecks
    BY <1>1, <1>8, DayTypes DEF DayCounts
  <2>2. QED
    BY <2>1 DEF DayCounts
<1>10. \A d \in Day : more[d] = fold[d] + put[d]
  BY <1>8
<1>11. \A d \in Day : more[d] = IF d \in folded THEN fold[d] + raised[d] ELSE fold[d]
  OBVIOUS
<1>11a. PICK g \in DayCounts : g = more
  BY <1>9
<1> HIDE DEF put, more
<1>12. SumOver(g, Day) = SumOver(fold, Day) + SumOver(put, Day)
  BY <1>7, <1>10, <1>11a, SumAdds
<1>13. total' = SumOver(g, Day)
  BY <1>2, <1>3, <1>7, <1>12 DEF Folded
<1>14. /\ foldedTo' \in 0..LastDay /\ foldedTo' >= foldedTo
       /\ \A d \in folded : d < foldedTo'
  <2>1. CASE folded = {}
    BY <1>1, <1>3, <2>1 DEF CountsTyped, CountsConstants
  <2>2. CASE folded # {}
    <3>1. Max(folded) \in folded /\ \A d \in folded : d =< Max(folded)
      BY <2>2, LatestExists
    <3>2. Max(folded) \in Nat /\ Max(folded) + 1 =< LastDay /\ \A d \in folded : d \in Nat
      <4>1. today \in 1..LastDay /\ LastDay \in Nat /\ KeepCounters \in Nat
        BY <1>1 DEF Day, CountsTyped, CountsConstants
      <4>2. \A d \in folded : d \in Nat /\ d + 1 =< LastDay
        BY <1>5, <4>1 DEF Day
      <4>3. QED
        BY <3>1, <4>2
    <3>3. QED
      BY <1>1, <1>3, <2>2, <3>1, <3>2 DEF CountsTyped, CountsConstants
  <2>3. QED
    BY <2>1, <2>2
<1>15. counter' \in DayCounts
  BY <1>3, <1>4 DEF DayCounts, CountsConstants
<1>16. CountsTyped'
  <2>1. total' \in Nat
    BY <1>13, NumberedFinite
  <2>2. QED
    BY <1>1, <1>3, <1>6, <1>14, <1>15, <2>1 DEF CountsTyped
<1>17. ASSUME NEW e \in Day PROVE DayCounted(g, e)'
  <2>1. DayCounted(fold, e)
    BY <1>2 DEF Folded
  <2>2. counter'[e] = (IF e \in folded THEN 0 ELSE raised[e]) /\ countJob'.saw[e] = 0
    BY <1>3, <1>6
  <2>2a. g[e] = IF e \in folded THEN fold[e] + raised[e] ELSE fold[e]
    BY <1>11, <1>11a
  <2>3. CASE e \in folded
    BY <1>1, <1>3, <1>5, <1>8, <1>14, <2>1, <2>2a, <2>2, <2>3, DayTypes DEF DayCounted, Older
  <2>4. CASE e \notin folded
    BY <1>1, <1>3, <1>8, <1>14, <2>1, <2>2a, <2>2, <2>4, DayTypes DEF DayCounted, Older
  <2>5. QED
    BY <2>3, <2>4
<1>18. Folded(g)'
  BY <1>13, <1>17 DEF Folded
<1>19. QED
  BY <1>16, <1>18 DEF CountsInv

LEMMA CountsNextKeeps ==
    ASSUME CountsConstants, CountsInv, [CountsNext]_countVars
    PROVE  CountsInv'
<1>1. CASE UNCHANGED countVars
  BY <1>1 DEF countVars, CountsInv, CountsTyped, Folded, DayCounted, Older
<1>2. QED
  BY <1>1, InsertKeeps, DeleteKeeps, DayPassesKeeps, JobStepsKeep, BackfillKeeps, CompactKeeps
     DEF CountsNext

\* Day by day, what the dashboard adds is what was checked, up to the older rows.
LEMMA SumsAgree ==
    ASSUME CountsConstants, CountsInv
    PROVE  ChecksCountedOnce
<1>1. CountsTyped
  BY DEF CountsInv
<1>2. PICK fold \in DayCounts : Folded(fold)
  BY DEF CountsInv
<1> DEFINE past == [d \in Day |-> IF d \in Past THEN counter[d] ELSE 0]
           open == [d \in Day |-> IF d \in Day \ Past THEN rows[d] ELSE 0]
           old == [d \in Day |-> IF d = 1 THEN inherited ELSE 0]
           both == [d \in Day |-> IF d \in Past THEN counter[d] ELSE rows[d]]
           seen == [d \in Day |-> fold[d] + both[d]]
           missed == [d \in Day |-> checked[d] - seen[d]]
<1>3. counter \in DayCounts /\ rows \in DayCounts /\ checked \in DayCounts
      /\ Past \in SUBSET Day /\ (Day \ Past) \in SUBSET Day /\ inherited \in 0..MaxDayChecks
  BY <1>1 DEF CountsTyped, Past
<1>4. past \in DayCounts /\ SumOver(past, Day) = SumOver(counter, Past)
  BY <1>3, SumRestricted
<1>5. open \in DayCounts /\ SumOver(open, Day) = SumOver(rows, Day \ Past)
  BY <1>3, SumRestricted
<1>6. old \in DayCounts /\ SumOver(old, Day) = inherited
  BY <1>3, SumOfFirstDay
<1>7. ASSUME NEW d \in Day
      PROVE  /\ both[d] \in 0..MaxDayChecks /\ both[d] = past[d] + open[d]
             /\ seen[d] \in 0..MaxDayChecks /\ seen[d] = fold[d] + both[d]
             /\ missed[d] \in 0..MaxDayChecks /\ checked[d] = seen[d] + missed[d]
             /\ missed[d] =< old[d]
  <2>1. DayCounted(fold, d) /\ fold[d] \in Nat
    BY <1>2 DEF Folded, DayCounts
  <2>2. d \in Past <=> d < today
    BY DEF Past
  <2>3. CASE d < today
    BY <1>1, <2>1, <2>2, <2>3, DayTypes DEF DayCounted, Older
  <2>4. CASE d >= today
    <3>1. fold[d] = 0 /\ rows[d] = checked[d]
      BY <1>1, <2>1, <2>4, DayTypes DEF DayCounted
    <3>2. ~(d \in Past)
      BY <1>1, <2>2, <2>4, DayTypes
    <3>3. QED
      BY <1>1, <2>1, <3>1, <3>2, DayTypes
  <2>5. QED
    BY <1>1, <2>3, <2>4, DayTypes
<1>8. both \in DayCounts /\ seen \in DayCounts /\ missed \in DayCounts
  <2>1. both = [d \in Day |-> both[d]] /\ seen = [d \in Day |-> seen[d]]
        /\ missed = [d \in Day |-> missed[d]]
    OBVIOUS
  <2> HIDE DEF both, seen, missed
  <2>2. QED
    BY <1>7, <2>1 DEF DayCounts
<1> HIDE DEF past, open, old, both, seen, missed
<1>9. SumOver(both, Day) = SumOver(past, Day) + SumOver(open, Day)
  BY <1>4, <1>5, <1>7, <1>8, SumAdds
<1>10. SumOver(seen, Day) = SumOver(fold, Day) + SumOver(both, Day)
  BY <1>7, <1>8, SumAdds
<1>11. SumOver(checked, Day) = SumOver(seen, Day) + SumOver(missed, Day)
  BY <1>3, <1>7, <1>8, SumAdds
<1>12. SumOver(missed, Day) =< SumOver(old, Day)
  BY <1>6, <1>7, <1>8, SumMonotone
<1>13. /\ SumOver(fold, Day) \in Nat /\ SumOver(past, Day) \in Nat /\ SumOver(open, Day) \in Nat
       /\ SumOver(seen, Day) \in Nat /\ SumOver(missed, Day) \in Nat /\ SumOver(checked, Day) \in Nat
       /\ SumOver(old, Day) \in Nat
  BY <1>3, <1>4, <1>5, <1>6, <1>8, NumberedFinite
<1>14. DashboardChecks = SumOver(seen, Day)
  BY <1>2, <1>4, <1>5, <1>9, <1>10, <1>13 DEF DashboardChecks, Folded
<1>15. QED
  BY <1>6, <1>11, <1>12, <1>13, <1>14 DEF ChecksCountedOnce, AllChecks

\* Every result recorded since there are counters is in the dashboard's number
\* exactly once, and only rows older than the counters can be missing, for
\* every number of days, results and retention: whatever the backfill read
\* before a late result, and whatever compaction and retention removed.
THEOREM CountsAreExact ==
    ASSUME CountsConstants
    PROVE  CountsSpec => []ChecksCountedOnce
<1>1. CountsInit => CountsInv
  BY CountsStart
<1>2. CountsInv /\ [CountsNext]_countVars => CountsInv'
  BY CountsNextKeeps
<1>3. CountsInv => ChecksCountedOnce
  BY SumsAgree
<1>4. QED
  BY <1>1, <1>2, <1>3, PTL DEF CountsSpec

-----------------------------------------------------------------------------
(* The blacklist's merged ranges.                                          *)

Holds(s, a) == s.start =< a /\ a =< s.end

\* The merged spans are apart and in order; so is what is still to come.
RangesInv ==
    /\ listed \subseteq Prefix /\ pending \subseteq listed
    /\ merged \in Seq(Span)
    /\ \A i \in 1..Len(merged) : SpanOfFamily(merged[i])
    /\ \A i, j \in 1..Len(merged) : i < j => merged[i].end < merged[j].start
    /\ \A i \in 1..Len(merged) : \A p \in pending : merged[i].start =< p.start
    /\ \A a \in Nat : (\E i \in 1..Len(merged) : Holds(merged[i], a))
                        <=> \E p \in listed \ pending : Holds(p, a)

LEMMA RangesStart == ASSUME RangesInit PROVE RangesInv
BY DEF RangesInit, RangesInv

LEMMA ListPrefixKeeps ==
    ASSUME RangesInv, NEW p \in Prefix, ListPrefix(p)
    PROVE  RangesInv'
<1>1. /\ merged = <<>> /\ merged' = merged
      /\ listed' = listed \cup {p} /\ pending' = pending \cup {p}
  BY DEF ListPrefix
<1>2. Len(merged) = 0 /\ Len(merged') = 0
  BY <1>1
<1>3. \A q \in listed \ pending : \A a \in Nat : ~Holds(q, a)
  <2>1. 1..Len(merged) = {}
    BY <1>2
  <2>2. \A a \in Nat : (\E i \in 1..Len(merged) : Holds(merged[i], a))
                        <=> \E q \in listed \ pending : Holds(q, a)
    BY DEF RangesInv
  <2>3. QED
    BY <2>1, <2>2, Zenon
<1>4. listed' \ pending' \subseteq listed \ pending
  BY <1>1
<1>5. QED
  BY <1>1, <1>2, <1>3, <1>4 DEF RangesInv

LEMMA PrefixFits ==
    ASSUME RangesConstants, NEW p \in Prefix
    PROVE  p \in Span /\ p.start \in Nat /\ p.end \in Nat /\ SpanOfFamily(p)
BY DEF RangesConstants, SpanOfFamily, Span

LEMMA MergeNextKeeps ==
    ASSUME RangesConstants, RangesInv, NEW span \in Prefix, MergeNext(span)
    PROVE  RangesInv'
<1> DEFINE n == Len(merged)
           last == merged[n]
           end == IF span.end > last.end THEN span.end ELSE last.end
           longer == [last EXCEPT !.end = end]
<1>1. /\ span \in pending /\ merged' = MergeSpan(merged, span)
      /\ pending' = pending \ {span} /\ listed' = listed
      /\ \A q \in pending \ {span} : SpanBefore(span, q)
  BY DEF MergeNext
<1>2. /\ listed \subseteq Prefix /\ pending \subseteq listed /\ merged \in Seq(Span) /\ n \in Nat
      /\ \A i \in 1..n : SpanOfFamily(merged[i])
      /\ \A i, j \in 1..n : i < j => merged[i].end < merged[j].start
      /\ \A i \in 1..n : \A p \in pending : merged[i].start =< p.start
      /\ \A a \in Nat : (\E i \in 1..n : Holds(merged[i], a))
                          <=> \E p \in listed \ pending : Holds(p, a)
  BY DEF RangesInv
<1>3. /\ span \in Span /\ span.start \in Nat /\ span.end \in Nat /\ span.start =< span.end
      /\ SameFamily(span.start, span.end) /\ SpanOfFamily(span)
  BY PrefixFits DEF SpanOfFamily
<1>4. \A i \in 1..n : /\ merged[i] \in Span /\ merged[i].start \in Nat /\ merged[i].end \in Nat
                      /\ merged[i].start =< merged[i].end
                      /\ SameFamily(merged[i].start, merged[i].end)
                      /\ merged[i].start =< span.start
  BY <1>1, <1>2 DEF SpanOfFamily, Span
<1>5. \A p \in pending' : p \in pending /\ p.start \in Nat /\ span.start =< p.start
  <2>1. SUFFICES ASSUME NEW p \in pending' PROVE p \in pending /\ p.start \in Nat /\ span.start =< p.start
    OBVIOUS
  <2>2. p \in Prefix /\ p \in pending /\ SpanBefore(span, p)
    BY <1>1, <1>2
  <2>3. QED
    BY <1>3, <2>2, PrefixFits DEF SpanBefore
<1>6. \A a \in Nat : (\E p \in listed' \ pending' : Holds(p, a))
                       <=> (\E p \in listed \ pending : Holds(p, a)) \/ Holds(span, a)
  BY <1>1, <1>2
<1>7. listed' \subseteq Prefix /\ pending' \subseteq listed'
  BY <1>1, <1>2
<1>8. CASE merged # <<>> /\ SameFamily(last.start, span.start) /\ span.start =< last.end
  <2>1. n \in 1..n
    BY <1>2, <1>8
  <2>2. last \in Span /\ end \in Nat /\ end >= last.end /\ end >= span.end
        /\ (end = last.end \/ end = span.end)
    BY <1>3, <1>4, <2>1
  <2> HIDE DEF end
  <2>3. longer \in Span /\ longer.start = last.start /\ longer.end = end
    BY <2>2 DEF Span
  <2>4. merged' = [merged EXCEPT ![n] = longer]
    BY <1>1, <1>8 DEF MergeSpan, ExtendLast, Last, end
  <2> HIDE DEF longer
  <2>5. /\ merged' \in Seq(Span) /\ Len(merged') = n
        /\ \A i \in 1..n : merged'[i] = IF i = n THEN longer ELSE merged[i]
    BY <1>2, <2>1, <2>3, <2>4
  <2>6. SpanOfFamily(longer)
    BY <1>3, <1>4, <1>8, <2>1, <2>2, <2>3 DEF SpanOfFamily, SameFamily
  <2>7. \A i \in 1..n : merged'[i].start = merged[i].start
    BY <2>3, <2>5
  <2>8. \A i, j \in 1..n : i < j => merged'[i].end < merged'[j].start
    BY <1>2, <2>5, <2>7
  <2>9. ASSUME NEW a \in Nat
        PROVE  (\E i \in 1..n : Holds(merged'[i], a))
                 <=> (\E i \in 1..n : Holds(merged[i], a)) \/ Holds(span, a)
    <3>1. Holds(longer, a) <=> Holds(last, a) \/ Holds(span, a)
      BY <1>3, <1>4, <1>8, <2>1, <2>2, <2>3 DEF Holds
    <3>2. QED
      BY <2>1, <2>5, <3>1
  <2>10. \A i \in 1..n : SpanOfFamily(merged'[i])
    BY <1>2, <2>5, <2>6
  <2>11. \A i \in 1..n : \A p \in pending' : merged'[i].start =< p.start
    BY <1>2, <1>5, <2>7
  <2>12. \A a \in Nat : (\E i \in 1..n : Holds(merged'[i], a))
                          <=> \E p \in listed' \ pending' : Holds(p, a)
    BY <1>2, <1>6, <2>9
  <2>13. QED
    BY <1>7, <2>5, <2>8, <2>10, <2>11, <2>12 DEF RangesInv
<1>9. CASE ~(merged # <<>> /\ SameFamily(last.start, span.start) /\ span.start =< last.end)
  <2>1. merged' = Append(merged, span)
    BY <1>1, <1>9 DEF MergeSpan, Last
  <2>2. /\ merged' \in Seq(Span) /\ Len(merged') = n + 1 /\ merged'[n + 1] = span
        /\ \A i \in 1..n : merged'[i] = merged[i]
    BY <1>2, <1>3, <2>1
  <2>3. ASSUME NEW i \in 1..n PROVE merged[i].end < span.start
    <3>1. n \in 1..n /\ merged # <<>>
      BY <1>2
    <3>2. last.end < span.start
      BY <1>3, <1>4, <1>9, <3>1 DEF SameFamily, RangesConstants
    <3>3. CASE i = n
      BY <3>2, <3>3
    <3>4. CASE i < n
      <4>1. merged[i].end < last.start /\ last.start =< last.end
        BY <1>2, <1>4, <3>1, <3>4
      <4>2. QED
        BY <1>3, <1>4, <3>1, <3>2, <4>1
    <3>5. QED
      BY <1>2, <3>3, <3>4
  <2>4. \A i, j \in 1..(n + 1) : i < j => merged'[i].end < merged'[j].start
    <3>1. SUFFICES ASSUME NEW i \in 1..(n + 1), NEW j \in 1..(n + 1), i < j
                   PROVE  merged'[i].end < merged'[j].start
      OBVIOUS
    <3>2. i \in 1..n /\ (j \in 1..n \/ j = n + 1)
      BY <1>2, <3>1
    <3>3. QED
      BY <1>2, <2>2, <2>3, <3>1, <3>2
  <2>5. \A i \in 1..(n + 1) : SpanOfFamily(merged'[i])
    BY <1>2, <1>3, <2>2
  <2>6. \A i \in 1..(n + 1) : \A p \in pending' : merged'[i].start =< p.start
    BY <1>2, <1>5, <2>2
  <2>7. ASSUME NEW a \in Nat
        PROVE  (\E i \in 1..(n + 1) : Holds(merged'[i], a))
                 <=> (\E i \in 1..n : Holds(merged[i], a)) \/ Holds(span, a)
    <3>1. \A i \in 1..(n + 1) : i \in 1..n \/ i = n + 1
      BY <1>2
    <3>2. n + 1 \in 1..(n + 1) /\ \A i \in 1..n : i \in 1..(n + 1)
      BY <1>2
    <3>3. QED
      BY <2>2, <3>1, <3>2
  <2>8. \A a \in Nat : (\E i \in 1..(n + 1) : Holds(merged'[i], a))
                         <=> \E p \in listed' \ pending' : Holds(p, a)
    BY <1>2, <1>6, <2>7
  <2>9. QED
    BY <1>7, <2>2, <2>4, <2>5, <2>6, <2>8 DEF RangesInv
<1>10. QED
  BY <1>8, <1>9

LEMMA RangesNextKeeps ==
    ASSUME RangesConstants, RangesInv, [RangesNext]_rangeVars
    PROVE  RangesInv'
<1>1. CASE UNCHANGED rangeVars
  BY <1>1 DEF rangeVars, RangesInv
<1>2. QED
  BY <1>1, ListPrefixKeeps, MergeNextKeeps DEF RangesNext

\* The binary search has a result in spans that are in order.
LEMMA SearchFinds ==
    ASSUME RangesInv, NEW a \in Nat
    PROVE  LET i == SearchIndex(merged, a)
           IN  /\ i \in 0..Len(merged)
               /\ \A j \in 1..i : merged[j].start =< a
               /\ \A j \in (i + 1)..Len(merged) : merged[j].start > a
<1> DEFINE n == Len(merged)
           behind == {i \in Nat : i =< n /\ \A j \in (i + 1)..n : merged[j].start > a}
<1>1. n \in Nat /\ \A i \in 1..n : merged[i].start \in Nat /\ merged[i].end \in Nat
                                   /\ merged[i].start =< merged[i].end
  BY DEF RangesInv, SpanOfFamily, Span
<1>2. n \in behind /\ behind \subseteq Nat
  BY <1>1
<1>3. PICK i \in behind : \A k \in behind : ~(<<k, i>> \in OpToRel(<, Nat))
  BY <1>2, NatLessThanWellFounded, WFMin
<1>4. ASSUME NEW k \in behind PROVE i =< k
  <2>1. ~(k < i)
    BY <1>3 DEF OpToRel
  <2>2. QED
    BY <2>1
<1>5a. i \in Nat /\ i =< n /\ \A j \in (i + 1)..n : merged[j].start > a
  BY <1>3, Zenon
<1>5. i \in 0..n /\ \A j \in (i + 1)..n : merged[j].start > a
  BY <1>1, <1>5a
<1>6. ASSUME NEW j \in 1..i PROVE merged[j].start =< a
  <2>1. i \in 1..n /\ i - 1 \notin behind /\ i - 1 \in Nat
    <3>1. i \in 1..n /\ i - 1 \in Nat /\ ~(i =< i - 1)
      BY <1>5a, <1>6
    <3>2. i - 1 \notin behind
      BY <1>4, <3>1, Zenon
    <3>3. QED
      BY <3>1, <3>2
  <2>2. PICK k \in i..n : ~(merged[k].start > a)
    BY <1>1, <2>1
  <2>3. k = i
    BY <1>1, <1>5, <2>1, <2>2
  <2>4. merged[i].start =< a
    BY <1>1, <2>1, <2>2, <2>3
  <2>5. CASE j = i
    BY <2>4, <2>5
  <2>6. CASE j < i
    <3>1. j \in 1..n /\ merged[j].end < merged[i].start
      BY <1>1, <2>1, <2>6 DEF RangesInv
    <3>2. QED
      BY <1>1, <2>1, <2>4, <3>1
  <2>7. QED
    BY <2>1, <2>5, <2>6
<1> HIDE DEF behind
<1>7. \E m \in 0..n : /\ \A j \in 1..m : merged[j].start =< a
                      /\ \A j \in (m + 1)..n : merged[j].start > a
  BY <1>5, <1>6
<1>8. QED
  BY <1>7 DEF SearchIndex

LEMMA SearchExact ==
    ASSUME RangesConstants, RangesInv
    PROVE  LookupExact
<1> SUFFICES ASSUME NEW a \in Address
             PROVE  InRange(a, merged) <=> \E p \in listed \ pending : a \in p.start .. p.end
  BY DEF LookupExact
<1> DEFINE n == Len(merged)
<1>1. a \in Nat /\ FamilySize \in Nat
  BY DEF Address, RangesConstants
<1>2. PICK i : i = SearchIndex(merged, a)
  OBVIOUS
<1>3. /\ i \in 0..n
      /\ \A j \in 1..i : merged[j].start =< a
      /\ \A j \in (i + 1)..n : merged[j].start > a
  BY <1>1, <1>2, SearchFinds
<1>4. /\ n \in Nat
      /\ \A j \in 1..n : /\ merged[j].start \in Nat /\ merged[j].end \in Nat
                         /\ merged[j].start =< merged[j].end
                         /\ SameFamily(merged[j].start, merged[j].end)
      /\ \A j, k \in 1..n : j < k => merged[j].end < merged[k].start
  <2>1. merged \in Seq(Span) /\ n \in Nat
    BY DEF RangesInv
  <2>2. \A j \in 1..n : SpanOfFamily(merged[j])
    BY DEF RangesInv
  <2>3. \A j \in 1..n : /\ merged[j].start \in Nat /\ merged[j].end \in Nat
                         /\ merged[j].start =< merged[j].end
                         /\ SameFamily(merged[j].start, merged[j].end)
    BY <2>2 DEF SpanOfFamily, Span
  <2>4. QED
    BY <2>1, <2>3 DEF RangesInv
<1>5. InRange(a, merged) <=> i > 0 /\ SameFamily(merged[i].start, a) /\ a =< merged[i].end
  BY <1>2 DEF InRange
<1>6. ASSUME i > 0, a =< merged[i].end
      PROVE  Holds(merged[i], a) /\ i \in 1..n /\ SameFamily(merged[i].start, a)
  <2>1. i \in 1..n /\ merged[i].start =< a
    BY <1>3, <1>4, <1>6
  <2>2. QED
    BY <1>1, <1>4, <1>6, <2>1 DEF Holds, SameFamily
<1>7. ASSUME NEW k \in 1..n, Holds(merged[k], a) PROVE k = i
  <2>1. merged[k].start =< a /\ a =< merged[k].end
    BY <1>7 DEF Holds
  <2>2. k =< i
    BY <1>1, <1>3, <1>4, <2>1
  <2>3. ASSUME k < i PROVE FALSE
    <3>1. i \in 1..n /\ merged[i].start =< a
      BY <1>3, <1>4, <2>3
    <3>2. merged[k].end < merged[i].start
      BY <1>4, <2>3, <3>1
    <3>3. QED
      BY <1>1, <1>4, <2>1, <3>1, <3>2
  <2>4. QED
    BY <1>3, <1>4, <2>2, <2>3
<1>8. InRange(a, merged) <=> \E k \in 1..n : Holds(merged[k], a)
  <2>1. ASSUME InRange(a, merged) PROVE \E k \in 1..n : Holds(merged[k], a)
    BY <1>5, <1>6, <2>1
  <2>2. ASSUME NEW k \in 1..n, Holds(merged[k], a) PROVE InRange(a, merged)
    <3>1. k = i /\ a =< merged[i].end /\ i > 0
      BY <1>4, <1>7, <2>2 DEF Holds
    <3>2. QED
      BY <1>5, <1>6, <3>1
  <2>3. QED
    BY <2>1, <2>2
<1>9. ASSUME NEW p \in listed \ pending PROVE Holds(p, a) <=> a \in p.start .. p.end
  <2>1. p.start \in Nat /\ p.end \in Nat
    BY PrefixFits DEF RangesInv
  <2>2. QED
    BY <1>1, <2>1 DEF Holds
<1>10. (\E k \in 1..n : Holds(merged[k], a)) <=> \E p \in listed \ pending : Holds(p, a)
  BY <1>1 DEF RangesInv
<1>11. QED
  BY <1>8, <1>9, <1>10

\* After every iteration of the loop that merges the sorted spans, the binary
\* search finds exactly the addresses of the blocks merged so far: for every
\* number of address bits and of listed blocks of either family.
THEOREM RangesFindExactly ==
    ASSUME RangesConstants
    PROVE  RangesSpec => []LookupExact
<1>1. RangesInit => RangesInv
  BY RangesStart
<1>2. RangesInv /\ [RangesNext]_rangeVars => RangesInv'
  BY RangesNextKeeps
<1>3. RangesInv => LookupExact
  BY SearchExact
<1>4. QED
  BY <1>1, <1>2, <1>3, PTL DEF RangesSpec

-----------------------------------------------------------------------------
(* Accounts.                                                               *)

Operations == {"idle", "register", "login", "refresh", "logout", "change", "forgot", "reset",
               "delete"}
CallSteps == {"idle", "counted", "checked", "validated", "revoked", "stored", "cut",
              "rollback", "seen", "read", "taken", "written", "answered", "refused", "stuck"}
CallRecord == [op : Operations, step : CallSteps, acct : Account \cup {NoOne},
               seen : Request \cup {NoOne, "admin", "user"},
               token : Request \cup {NoOne}, cut : SUBSET Request]
UserRecord == [role : {"admin", "user"}, hash : Request]

AccountRowsTyped ==
    /\ users \in [Account -> {NoOne} \cup UserRecord]
    /\ resetTokens \subseteq Request /\ sessions \subseteq Request
    /\ revokedIDs \subseteq sessions
    /\ revokedBefore \in [Account -> SUBSET Request]
    /\ \A a \in Account : revokedBefore[a] \subseteq sessions
    /\ everStored \in [Account -> SUBSET Request]
AccountTyped == AccountRowsTyped /\ call \in [Request -> CallRecord]

\* What a handler has read fits its operation, and outlives its steps.
CallFits(r) ==
    /\ call[r] # NoCall => call[r].acct \in Account
    /\ call[r].op = "register" => call[r].seen \in {"admin", "user"}
    /\ call[r].op = "change" => call[r].seen \in Request
    /\ call[r].op = "refresh" => call[r].token \in sessions
    /\ call[r].step = "cut" => call[r].cut \subseteq sessions

\* Where the handler is whose session, reset token or password is in the tables.
Issued(c) == c.op = "forgot" /\ c.step \in {"stored", "answered", "refused"}
SessionIssued(c) == c.op \in {"register", "login", "refresh"} /\ c.step = "answered"
PasswordStored(c) ==
    \/ c.op = "register" /\ c.step = "answered"
    \/ c.op = "change" /\ c.step \in {"stored", "cut", "rollback", "answered", "refused", "stuck"}
    \/ c.op = "reset" /\ c.step = "answered"
RowsFit(r) ==
    /\ r \in resetTokens => Issued(call[r])
    /\ r \in sessions => SessionIssued(call[r])
    /\ \A a \in Account : r \in everStored[a] => PasswordStored(call[r])

\* A reset works on an issued token of its account, which is gone when it has
\* committed; while it holds the user's row, the account exists.
ResetFits(r) ==
    call[r].op = "reset" =>
      /\ call[r].token \in Request /\ Issued(call[call[r].token])
      /\ call[call[r].token].acct = call[r].acct
      /\ call[r].step \in {"written", "cut"} => Registered(call[r].acct)
      /\ call[r].step = "answered" => call[r].token \notin resetTokens

\* Of the resets with one token, one at most gets past the row lock.
Spends(r, k) ==
    /\ call[r].op = "reset" /\ call[r].token = k
    /\ call[r].step \in {"taken", "written", "cut", "answered"}
TokensExclusive ==
    \A r, q, k \in Request : Spends(r, k) /\ Spends(q, k) => r = q

AccountInv ==
    /\ AccountTyped /\ TokensExclusive
    /\ \A r \in Request : CallFits(r) /\ RowsFit(r) /\ ResetFits(r)

LEMMA NoCallIs == NoCall \in CallRecord /\ NoCall.op = "idle" /\ NoCall.step = "idle"
BY DEF NoCall, CallRecord, Operations, CallSteps

\* The handler of the founder's registration, which has answered.
FoundingCall(a) ==
    [NoCall EXCEPT !.op = "register", !.step = "answered", !.acct = a, !.seen = "admin"]

LEMMA FoundingCallIs ==
    ASSUME NEW a \in Account
    PROVE  /\ FoundingCall(a) \in CallRecord
           /\ FoundingCall(a).op = "register" /\ FoundingCall(a).step = "answered"
           /\ FoundingCall(a).acct = a /\ FoundingCall(a).seen = "admin"
BY DEF NoCall, CallRecord, Operations, CallSteps, FoundingCall

LEMMA AccountStarts == ASSUME AccountConstants, AccountInit PROVE AccountInv
<1>1. PICK x0 : x0 = CHOOSE x \in Account : TRUE
  OBVIOUS
<1>a. Account # {}
  BY DEF AccountConstants
<1>2. x0 \in Account
  BY <1>1, <1>a
<1> DEFINE c0 == FoundingCall(x0)
<1>3. /\ c0 \in CallRecord /\ c0.op = "register" /\ c0.step = "answered" /\ c0.acct = x0
      /\ c0.seen = "admin"
  BY <1>2, FoundingCallIs
<1>4. PICK founded \in BOOLEAN :
       /\ users = [a \in Account |-> IF founded /\ a = x0 THEN Row("admin", Founder) ELSE NoOne]
       /\ sessions = IF founded THEN {Founder} ELSE {}
       /\ call = [r \in Request |-> IF founded /\ r = Founder THEN c0 ELSE NoCall]
       /\ everStored = [a \in Account |-> IF founded /\ a = x0 THEN {Founder} ELSE {}]
  BY <1>1, Zenon DEF AccountInit, FoundingCall
<1> HIDE DEF c0
<1>5. resetTokens = {} /\ revokedIDs = {} /\ revokedBefore = [a \in Account |-> {}]
  BY DEF AccountInit
<1>6. Founder \in Request
  BY DEF AccountConstants
<1> USE NoCallIs
<1>7. \A r \in Request : call[r] = c0 \/ call[r] = NoCall
  BY <1>4
<1>8. AccountTyped
  BY <1>2, <1>3, <1>4, <1>5, <1>6, <1>7 DEF AccountTyped, AccountRowsTyped, UserRecord, Row
<1>9. TokensExclusive
  BY <1>2, <1>3, <1>7 DEF TokensExclusive, Spends
<1>10. \A r \in Request : CallFits(r) /\ RowsFit(r) /\ ResetFits(r)
  BY <1>2, <1>3, <1>4, <1>5, <1>6, <1>7
     DEF CallFits, RowsFit, ResetFits, PasswordStored, SessionIssued
<1> QED
  BY <1>8, <1>9, <1>10 DEF AccountInv

-----------------------------------------------------------------------------
\* How a step changes the calls: it begins one, or moves one.
Elsewhere(r) == \A q \in Request \ {r} : call'[q] = call[q]
Begun(r, op, step, a) ==
    /\ call' \in [Request -> CallRecord] /\ Elsewhere(r)
    /\ call'[r].op = op /\ call'[r].step = step /\ call'[r].acct = a /\ call'[r] # NoCall
Moved(r, step) ==
    /\ call' \in [Request -> CallRecord] /\ Elsewhere(r)
    /\ call'[r].step = step
    /\ call'[r].op = call[r].op /\ call'[r].acct = call[r].acct /\ call'[r].seen = call[r].seen
    /\ call'[r].token = call[r].token

LEMMA BeginCallIs ==
    ASSUME AccountTyped, NEW r \in Request, NEW op \in Operations, NEW step \in CallSteps,
           NEW a \in Account, NEW seen \in Request \cup {NoOne, "admin", "user"},
           NEW token \in Request \cup {NoOne}, op # "idle",
           BeginCall(r, op, step, a, seen, token)
    PROVE  /\ Begun(r, op, step, a)
           /\ call'[r].seen = seen /\ call'[r].token = token /\ call'[r].cut = {}
<1> DEFINE c == [op |-> op, step |-> step, acct |-> a, seen |-> seen, token |-> token, cut |-> {}]
<1>1. c \in CallRecord /\ c # NoCall
  BY DEF CallRecord, NoCall
<1>2. call' = [call EXCEPT ![r] = c] /\ call \in [Request -> CallRecord]
  BY DEF BeginCall, AccountTyped
<1> QED
  BY <1>1, <1>2 DEF Begun, Elsewhere

LEMMA MoveToIs ==
    ASSUME AccountTyped, NEW r \in Request, NEW step \in CallSteps, MoveTo(r, step)
    PROVE  Moved(r, step) /\ call'[r].cut = call[r].cut
<1>1. call' = [call EXCEPT ![r].step = step] /\ call \in [Request -> CallRecord]
  BY DEF MoveTo, AccountTyped
<1>2. call' = [call EXCEPT ![r] = [call[r] EXCEPT !.step = step]]
  BY <1>1
<1> DEFINE c == [call[r] EXCEPT !.step = step]
<1>3. /\ c \in CallRecord /\ c.step = step /\ c.op = call[r].op /\ c.acct = call[r].acct
      /\ c.seen = call[r].seen /\ c.token = call[r].token /\ c.cut = call[r].cut
  BY <1>1 DEF CallRecord
<1> HIDE DEF c
<1>4. call' = [call EXCEPT ![r] = c]
  BY <1>2 DEF c
<1> QED
  BY <1>1, <1>3, <1>4 DEF Moved, Elsewhere

LEMMA BeginKeeps ==
    ASSUME AccountInv, NEW r \in Request, call[r] = NoCall,
           NEW op \in Operations, NEW step \in CallSteps, NEW a \in Account,
           Begun(r, op, step, a), step # "cut", op # "idle",
           op = "register" => call'[r].seen \in {"admin", "user"},
           op = "change" => call'[r].seen \in Request,
           op = "refresh" => call'[r].token \in sessions,
           op = "reset" => /\ step = "read" /\ call'[r].token \in resetTokens
                           /\ call[call'[r].token].acct = a,
           UNCHANGED <<users, resetTokens, sessions, revokedBefore, everStored>>,
           revokedIDs' \subseteq sessions
    PROVE  AccountInv'
<1>1. AccountTyped'
  BY DEF AccountInv, AccountTyped, AccountRowsTyped, Begun
<1>2. /\ r \notin resetTokens /\ r \notin sessions /\ \A x \in Account : r \notin everStored[x]
      /\ ~Issued(call[r])
  BY NoCallIs DEF AccountInv, RowsFit, Issued, SessionIssued, PasswordStored
<1>3. \A q \in Request \ {r} : call'[q] = call[q]
  BY DEF Begun, Elsewhere
<1>4. call'[r].op = op /\ call'[r].step = step /\ call'[r].acct = a
  BY DEF Begun
<1>5. \A q \in Request : (CallFits(q) /\ RowsFit(q))'
  <2>1. (CallFits(r) /\ RowsFit(r))'
    BY <1>2, <1>4 DEF CallFits, RowsFit
  <2>2. ASSUME NEW q \in Request \ {r} PROVE (CallFits(q) /\ RowsFit(q))'
    BY <1>3 DEF AccountInv, CallFits, RowsFit
  <2>3. QED
    BY <2>1, <2>2
<1>6. \A q \in Request : ResetFits(q)'
  <2>1. ResetFits(r)'
    <3>1. CASE op = "reset"
      <4>1. call'[r].token \in Request /\ call'[r].token # r
        BY <1>2, <3>1 DEF AccountInv, AccountTyped, AccountRowsTyped
      <4>2. Issued(call[call'[r].token])
        BY <4>1, <3>1 DEF AccountInv, RowsFit
      <4>3. QED
        BY <1>3, <1>4, <3>1, <4>1, <4>2 DEF ResetFits
    <3>2. CASE op # "reset"
      BY <1>4, <3>2 DEF ResetFits
    <3>3. QED
      BY <3>1, <3>2
  <2>2. ASSUME NEW q \in Request \ {r} PROVE ResetFits(q)'
    <3>1. ResetFits(q)
      BY DEF AccountInv
    <3>2. call[q].op = "reset" => call[q].token # r
      BY <1>2, <3>1 DEF ResetFits
    <3>3. QED
      BY <1>3, <3>1, <3>2 DEF ResetFits, Registered
  <2>3. QED
    BY <2>1, <2>2
<1>7. TokensExclusive'
  BY <1>3, <1>4 DEF AccountInv, TokensExclusive, Spends
<1> QED
  BY <1>1, <1>5, <1>6, <1>7 DEF AccountInv

\* What a step of a handler that has begun must see to.
GoodMove(r) ==
    /\ AccountRowsTyped'
    /\ sessions \subseteq sessions' /\ sessions' \subseteq sessions \cup {r}
    /\ resetTokens' \subseteq resetTokens \cup {r}
    /\ \A a \in Account : everStored'[a] \subseteq everStored[a] \cup {r}
    /\ r \in resetTokens' \ resetTokens => ~Issued(call[r])
    /\ Issued(call[r]) => Issued(call'[r])
    /\ RowsFit(r)' /\ ResetFits(r)'
    /\ call[r].op = "refresh" => call[r].token \in sessions
    /\ call[r] # NoCall
    /\ call'[r].step = "cut" => call'[r].cut \subseteq sessions
    /\ \A q \in Request, a \in Account :
          HoldsUser(q, a) /\ q # r /\ Registered(a) => Registered(a)'
    /\ \A k \in Request :
          Spends(r, k)' => Spends(r, k) \/ \A q \in Request \ {r} : ~Spends(q, k)

LEMMA MoveKeeps ==
    ASSUME AccountInv, NEW r \in Request, NEW step \in CallSteps, Moved(r, step), GoodMove(r)
    PROVE  AccountInv'
<1>1. AccountTyped'
  BY DEF AccountTyped, GoodMove, Moved
<1>3. \A q \in Request \ {r} : call'[q] = call[q]
  BY DEF Moved, Elsewhere
<1>4. /\ call'[r].op = call[r].op /\ call'[r].step = step /\ call'[r].acct = call[r].acct
      /\ call'[r].seen = call[r].seen /\ call'[r].token = call[r].token
  BY DEF Moved
<1>5. \A q \in Request : (CallFits(q) /\ RowsFit(q))'
  <2>1. RowsFit(r)'
    BY DEF GoodMove
  <2>2. CallFits(r)'
    <3>1. CallFits(r)
      BY DEF AccountInv
    <3>2. QED
      BY <3>1, <1>4 DEF CallFits, GoodMove
  <2>3. ASSUME NEW q \in Request \ {r} PROVE (CallFits(q) /\ RowsFit(q))'
    <3>1. CallFits(q) /\ RowsFit(q)
      BY DEF AccountInv
    <3>2. CallFits(q)'
      BY <1>3, <3>1 DEF CallFits, GoodMove
    <3>3. RowsFit(q)'
      BY <1>3, <3>1 DEF RowsFit, GoodMove
    <3>4. QED
      BY <3>2, <3>3
  <2>4. QED
    BY <2>1, <2>2, <2>3
<1>6. \A q \in Request : ResetFits(q)'
  <2>1. ResetFits(r)'
    BY DEF GoodMove
  <2>2. ASSUME NEW q \in Request \ {r}, call[q].op = "reset" PROVE ResetFits(q)'
    <3>1. PICK k : k = call[q].token
      OBVIOUS
    <3>2. /\ k \in Request /\ Issued(call[k]) /\ call[k].acct = call[q].acct
          /\ call[q].step \in {"written", "cut"} => Registered(call[q].acct)
          /\ call[q].step = "answered" => k \notin resetTokens
      BY <2>2, <3>1 DEF AccountInv, ResetFits
    <3>3. Issued(call'[k]) /\ call'[k].acct = call[k].acct
      BY <1>3, <1>4, <3>2 DEF GoodMove
    <3>4. call[q].step = "answered" => k \notin resetTokens'
      BY <3>2 DEF GoodMove
    <3>5. PICK a \in Account : a = call[q].acct
      BY <2>2, NoCallIs DEF AccountInv, CallFits
    <3>6. call[q].step \in {"written", "cut"} => Registered(a)'
      BY <2>2, <3>2, <3>5 DEF GoodMove, HoldsUser
    <3>7. call'[q] = call[q]
      BY <1>3
    <3>8. QED
      BY <3>1, <3>2, <3>3, <3>4, <3>5, <3>6, <3>7 DEF ResetFits, Registered
  <2>3. ASSUME NEW q \in Request \ {r}, call[q].op # "reset" PROVE ResetFits(q)'
    BY <1>3, <2>3 DEF ResetFits
  <2>4. QED
    BY <2>1, <2>2, <2>3
<1>7. TokensExclusive'
  <2>1. \A q \in Request \ {r}, k \in Request : Spends(q, k)' <=> Spends(q, k)
    BY <1>3 DEF Spends
  <2>2. \A k \in Request : Spends(r, k)' => \A q \in Request \ {r} : ~Spends(q, k)
    BY DEF AccountInv, TokensExclusive, GoodMove
  <2>3. QED
    BY <2>1, <2>2 DEF AccountInv, TokensExclusive
<1> QED
  BY <1>1, <1>5, <1>6, <1>7 DEF AccountInv

-----------------------------------------------------------------------------
\* Each handler's first step.
BeginsCall(r) ==
    \/ \E a \in Account : RegisterCount(r, a) \/ LoginRead(r, a) \/ ForgotRead(r, a)
    \/ \E t \in sessions : RefreshValidate(r, t) \/ Logout(r, t) \/ ChangeRead(r, t) \/ DeleteRead(r, t)
    \/ \E k \in resetTokens : ResetRead(r, k)

LEMMA BeginsKeep ==
    ASSUME AccountInv, NEW r \in Request, BeginsCall(r)
    PROVE  AccountInv'
<1>0. /\ AccountTyped /\ AccountRowsTyped /\ sessions \subseteq Request /\ resetTokens \subseteq Request
      /\ revokedIDs \subseteq sessions
      /\ \A q \in Request : CallFits(q) /\ RowsFit(q)
  BY DEF AccountInv, AccountTyped, AccountRowsTyped
<1>1. \A t \in sessions : call[t].acct \in Account
  BY <1>0, NoCallIs DEF CallFits, RowsFit, SessionIssued
<1>2. \A k \in resetTokens : call[k].acct \in Account
  BY <1>0, NoCallIs DEF CallFits, RowsFit, Issued
<1>3. \A a \in Account : Registered(a) => users[a].hash \in Request
  BY <1>0 DEF AccountRowsTyped, Registered, UserRecord
<1>4. ASSUME NEW a \in Account, RegisterCount(r, a) PROVE AccountInv'
  <2>1. PICK kept \in {"admin", "user"} : BeginCall(r, "register", "counted", a, kept, NoOne)
    BY <1>4 DEF RegisterCount, RoleForNewUser
  <2>2. Begun(r, "register", "counted", a) /\ call'[r].seen = kept
    <3>1. "register" \in Operations /\ "counted" \in CallSteps /\ "register" # "idle"
      BY DEF Operations, CallSteps
    <3>2. QED
      BY <1>0, <2>1, <3>1, BeginCallIs, Zenon
  <2>3. QED
    BY <1>0, <1>4, <2>2, BeginKeeps DEF RegisterCount, Operations, CallSteps
<1>5. ASSUME NEW a \in Account, LoginRead(r, a) PROVE AccountInv'
  <2>1. Begun(r, "login", "checked", a)
    BY <1>0, <1>3, <1>5, BeginCallIs DEF LoginRead, Operations, CallSteps
  <2>2. QED
    BY <1>0, <1>5, <2>1, BeginKeeps DEF LoginRead, Operations, CallSteps
<1>6. ASSUME NEW a \in Account, ForgotRead(r, a) PROVE AccountInv'
  <2> DEFINE c == [NoCall EXCEPT !.op = "forgot", !.step = "seen", !.acct = a, !.cut = TokensOf(a)]
  <2>1. /\ c \in CallRecord /\ c.op = "forgot" /\ c.step = "seen" /\ c.acct = a
        /\ c.cut = TokensOf(a)
    BY <1>0 DEF NoCall, CallRecord, Operations, CallSteps, TokensOf
  <2>2. call' = [call EXCEPT ![r] = c]
    BY <1>6 DEF ForgotRead
  <2> HIDE DEF c
  <2>3. Begun(r, "forgot", "seen", a)
    BY <1>0, <2>1, <2>2, NoCallIs DEF AccountTyped, Begun, Elsewhere
  <2>4. QED
    BY <1>0, <1>6, <2>3, BeginKeeps DEF ForgotRead, Operations, CallSteps
<1>7. ASSUME NEW t \in sessions, RefreshValidate(r, t) PROVE AccountInv'
  <2>1. PICK a \in Account : a = call[t].acct
    BY <1>1
  <2>2. Begun(r, "refresh", "validated", a) /\ call'[r].token = t
    <3>1. "refresh" \in Operations /\ "validated" \in CallSteps /\ "refresh" # "idle"
      BY DEF Operations, CallSteps
    <3>2. BeginCall(r, "refresh", "validated", a, NoOne, t) /\ t \in Request
      BY <1>0, <1>7, <2>1 DEF RefreshValidate
    <3>3. QED
      BY <1>0, <3>1, <3>2, BeginCallIs, Zenon
  <2>3. QED
    BY <1>0, <1>7, <2>2, BeginKeeps DEF RefreshValidate, Operations, CallSteps
<1>8. ASSUME NEW t \in sessions, Logout(r, t) PROVE AccountInv'
  <2>1. PICK a \in Account : a = call[t].acct
    BY <1>1
  <2>2. Begun(r, "logout", "answered", a)
    <3>1. "logout" \in Operations /\ "answered" \in CallSteps /\ "logout" # "idle"
      BY DEF Operations, CallSteps
    <3>2. BeginCall(r, "logout", "answered", a, NoOne, t) /\ t \in Request
      BY <1>0, <1>8, <2>1 DEF Logout
    <3>3. QED
      BY <1>0, <3>1, <3>2, BeginCallIs, Zenon
  <2>3. QED
    BY <1>0, <1>8, <2>2, BeginKeeps DEF Logout, Operations, CallSteps
<1>9. ASSUME NEW t \in sessions, ChangeRead(r, t) PROVE AccountInv'
  <2>1. PICK a \in Account : a = call[t].acct
    BY <1>1
  <2>2. users[a].hash \in Request
    BY <1>3, <1>9, <2>1 DEF ChangeRead
  <2>3. Begun(r, "change", "checked", a) /\ call'[r].seen = users[a].hash
    BY <1>0, <1>9, <2>1, <2>2, BeginCallIs DEF ChangeRead, Operations, CallSteps
  <2>4. QED
    BY <1>0, <1>9, <2>2, <2>3, BeginKeeps DEF ChangeRead, Operations, CallSteps
<1>10. ASSUME NEW t \in sessions, DeleteRead(r, t) PROVE AccountInv'
  <2>1. PICK a \in Account : a = call[t].acct
    BY <1>1
  <2>2. users[a].hash \in Request
    BY <1>3, <1>10, <2>1 DEF DeleteRead
  <2>3. Begun(r, "delete", "checked", a)
    BY <1>0, <1>10, <2>1, <2>2, BeginCallIs DEF DeleteRead, Operations, CallSteps
  <2>4. QED
    BY <1>0, <1>10, <2>3, BeginKeeps DEF DeleteRead, Operations, CallSteps
<1>11. ASSUME NEW k \in resetTokens, ResetRead(r, k) PROVE AccountInv'
  <2>1. PICK a \in Account : a = call[k].acct
    BY <1>2
  <2>2. Begun(r, "reset", "read", a) /\ call'[r].token = k
    <3>1. "reset" \in Operations /\ "read" \in CallSteps /\ "reset" # "idle"
      BY DEF Operations, CallSteps
    <3>2. BeginCall(r, "reset", "read", a, NoOne, k) /\ k \in Request
      BY <1>0, <1>11, <2>1 DEF ResetRead
    <3>3. QED
      BY <1>0, <3>1, <3>2, BeginCallIs, Zenon
  <2>3. QED
    BY <1>0, <1>11, <2>1, <2>2, BeginKeeps DEF ResetRead, Operations, CallSteps
<1> QED
  BY <1>4, <1>5, <1>6, <1>7, <1>8, <1>9, <1>10, <1>11 DEF BeginsCall

-----------------------------------------------------------------------------
\* The handlers' later steps, by the tables they write.

LEMMA AccountFacts ==
    ASSUME AccountInv, NEW r \in Request
    PROVE  /\ AccountTyped /\ AccountRowsTyped /\ CallFits(r) /\ RowsFit(r) /\ ResetFits(r)
           /\ call[r].op # "idle" => call[r] # NoCall /\ call[r].acct \in Account
           /\ call[r].op = "refresh" => call[r].token \in sessions
BY NoCallIs DEF AccountInv, AccountTyped, CallFits

\* No table is written.
LEMMA StepsKeep ==
    ASSUME AccountInv, NEW r \in Request,
           \/ RegisterRefuse(r) \/ RefreshFails(r) \/ RollbackFails(r) \/ ForgotMailed(r)
           \/ ResetTake(r) \/ ResetWrite(r) \/ ResetWriteFails(r)
    PROVE  AccountInv'
<1> USE AccountFacts
<1>0. UNCHANGED <<users, resetTokens, sessions, revokedIDs, revokedBefore, everStored>>
  BY DEF RegisterRefuse, RefreshFails, RollbackFails, ForgotMailed, ResetTake, ResetWrite,
         ResetWriteFails, StepOnly
<1>1. AccountRowsTyped'
  BY <1>0 DEF AccountRowsTyped
<1>2. \A a \in Account : Registered(a)' <=> Registered(a)
  BY <1>0 DEF Registered
<1>3. ASSUME NEW step \in CallSteps, StepOnly(r, step), call[r].op # "idle", step # "cut",
             Issued(call[r]) => step \in {"stored", "answered", "refused"},
             SessionIssued(call[r]) => step = "answered",
             call[r].op = "register" => ~PasswordStored(call[r]),
             call[r].op = "change" =>
                 step \in {"stored", "cut", "rollback", "answered", "refused", "stuck"},
             call[r].op = "reset" => /\ step \in {"taken", "written", "refused"}
                                     /\ call[r].step # "answered"
                                     /\ step = "written" => Registered(call[r].acct),
             \A k \in Request : call[r].op = "reset" /\ call[r].token = k /\ step # "refused" =>
                 Spends(r, k) \/ \A q \in Request \ {r} : ~Spends(q, k)
      PROVE  AccountInv'
  <2>1. Moved(r, step) /\ call'[r].cut = call[r].cut
    BY <1>3, MoveToIs DEF StepOnly
  <2>2. RowsFit(r)'
    BY <1>0, <1>3, <2>1 DEF RowsFit, Moved, Issued, SessionIssued, PasswordStored
  <2>3. ResetFits(r)'
    <3>1. CASE call[r].op = "reset"
      <4>1. PICK k, a : k = call[r].token /\ a = call[r].acct
        OBVIOUS
      <4>2. k \in Request /\ Issued(call[k]) /\ call[k].acct = a /\ a \in Account
        BY <3>1, <4>1 DEF ResetFits
      <4>3. k # r
        BY <3>1, <4>2 DEF Issued
      <4>4. /\ call'[r].token = k /\ call'[r].acct = a /\ call'[k] = call[k]
            /\ call'[r].step = step
        BY <2>1, <4>1, <4>2, <4>3 DEF Moved, Elsewhere
      <4>5. step \in {"written", "cut"} => Registered(a)'
        BY <1>2, <1>3, <3>1, <4>1, <4>2
      <4>6. QED
        BY <1>3, <3>1, <4>2, <4>4, <4>5 DEF ResetFits, Registered
    <3>2. CASE call[r].op # "reset"
      BY <2>1, <3>2 DEF Moved, ResetFits
    <3>3. QED
      BY <3>1, <3>2
  <2>4. Issued(call[r]) => Issued(call'[r])
    BY <1>3, <2>1 DEF Moved, Issued
  <2>5. \A k \in Request :
          Spends(r, k)' => Spends(r, k) \/ \A q \in Request \ {r} : ~Spends(q, k)
    BY <1>3, <2>1 DEF Moved, Spends
  <2>6. GoodMove(r)
    BY <1>0, <1>1, <1>2, <1>3, <2>1, <2>2, <2>3, <2>4, <2>5 DEF GoodMove, Moved
  <2>7. QED
    BY <2>1, <2>6, MoveKeeps
<1>4. CASE RegisterRefuse(r)
  BY <1>3, <1>4 DEF RegisterRefuse, At, Issued, SessionIssued, PasswordStored, CallSteps
<1>5. CASE RefreshFails(r)
  BY <1>3, <1>5 DEF RefreshFails, At, Issued, SessionIssued, PasswordStored, CallSteps
<1>6. CASE RollbackFails(r)
  BY <1>3, <1>6 DEF RollbackFails, At, Issued, SessionIssued, PasswordStored, CallSteps
<1>7. CASE ForgotMailed(r)
  BY <1>3, <1>7 DEF ForgotMailed, At, Issued, SessionIssued, PasswordStored, CallSteps
<1>8. CASE ResetTake(r)
  <2>1. CASE TokenTaken(call[r].token)
    <3>1. ASSUME NEW q \in Request \ {r}, Spends(q, call[r].token) PROVE FALSE
      <4>1. ~HoldsToken(q, call[r].token)
        BY <1>8 DEF ResetTake, TokenLocked
      <4>2. call[q].step = "answered" /\ call[q].op = "reset" /\ call[q].token = call[r].token
        BY <3>1, <4>1 DEF Spends, HoldsToken
      <4>3. ResetFits(q)
        OBVIOUS
      <4>4. QED
        BY <2>1, <4>2, <4>3 DEF TokenTaken, ResetFits
    <3>2. StepOnly(r, "taken") /\ "taken" \in CallSteps
      BY <1>8, <2>1 DEF ResetTake, CallSteps
    <3>3. QED
      BY <1>3, <1>8, <3>1, <3>2 DEF ResetTake, At, Issued, SessionIssued, PasswordStored
  <2>2. CASE ~TokenTaken(call[r].token)
    <3>1. StepOnly(r, "refused") /\ "refused" \in CallSteps
      BY <1>8, <2>2 DEF ResetTake, CallSteps
    <3>2. QED
      BY <1>3, <1>8, <3>1 DEF ResetTake, At, Issued, SessionIssued, PasswordStored
  <2>3. QED
    BY <2>1, <2>2
<1>9. CASE ResetWrite(r)
  <2>1. \A k \in Request : call[r].token = k => Spends(r, k)
    BY <1>9 DEF ResetWrite, At, Spends
  <2>2. CASE Registered(call[r].acct)
    <3>1. StepOnly(r, "written") /\ "written" \in CallSteps
      BY <1>9, <2>2 DEF ResetWrite, CallSteps
    <3>2. QED
      BY <1>3, <1>9, <2>1, <2>2, <3>1 DEF ResetWrite, At, Issued, SessionIssued, PasswordStored
  <2>3. CASE ~Registered(call[r].acct)
    <3>1. StepOnly(r, "refused") /\ "refused" \in CallSteps
      BY <1>9, <2>3 DEF ResetWrite, CallSteps
    <3>2. QED
      BY <1>3, <1>9, <3>1 DEF ResetWrite, At, Issued, SessionIssued, PasswordStored
  <2>4. QED
    BY <2>2, <2>3
<1>10. CASE ResetWriteFails(r)
  BY <1>3, <1>10 DEF ResetWriteFails, At, Issued, SessionIssued, PasswordStored, CallSteps
<1> QED
  BY <1>4, <1>5, <1>6, <1>7, <1>8, <1>9, <1>10

\* A handler that is no reset writes a table.
LEMMA WritesKeep ==
    ASSUME AccountInv, NEW r \in Request, NEW step \in CallSteps, Moved(r, step),
           call[r].op \notin {"idle", "reset"}, AccountRowsTyped',
           step = "cut" => call'[r].cut \subseteq sessions,
           sessions \subseteq sessions', sessions' \subseteq sessions \cup {r},
           r \in sessions' => SessionIssued(call'[r]),
           resetTokens' \subseteq resetTokens \cup {r},
           r \in resetTokens' => Issued(call'[r]),
           r \in resetTokens' \ resetTokens => ~Issued(call[r]),
           Issued(call[r]) => Issued(call'[r]),
           \A a \in Account : everStored'[a] \subseteq everStored[a] \cup {r},
           \A a \in Account : r \in everStored'[a] => PasswordStored(call'[r]),
           \A q \in Request, a \in Account :
              HoldsUser(q, a) /\ Registered(a) => Registered(a)'
    PROVE  AccountInv'
<1> USE AccountFacts
<1>1. RowsFit(r)'
  BY DEF RowsFit
<1>2. ResetFits(r)'
  BY DEF ResetFits, Moved
<1>3. \A k \in Request : ~Spends(r, k)'
  BY DEF Spends, Moved
<1>4. GoodMove(r)
  BY <1>1, <1>2, <1>3 DEF GoodMove, Moved
<1> QED
  BY <1>4, MoveKeeps

LEMMA RegisterCommitKeeps ==
    ASSUME AccountConstants, AccountInv, NEW r \in Request, RegisterCommit(r)
    PROVE  AccountInv'
<1> USE AccountFacts
<1>1. PICK a \in Account : a = call[r].acct
  BY DEF RegisterCommit, At
<1>2. PICK kept \in {"admin", "user"} : kept = call[r].seen
  BY DEF RegisterCommit, At, CallFits
<1>3. /\ call[r].op = "register" /\ ~Registered(a)
      /\ users' = [users EXCEPT ![a] = Row(kept, r)]
      /\ everStored' = [everStored EXCEPT ![a] = @ \cup {r}]
      /\ sessions' = sessions \cup {r} /\ MoveTo(r, "answered")
      /\ UNCHANGED <<resetTokens, revokedIDs, revokedBefore>>
  BY <1>1, <1>2 DEF RegisterCommit, At
<1>4. "answered" \in CallSteps
  BY DEF CallSteps
<1>5. Moved(r, "answered")
  BY <1>3, <1>4, MoveToIs
<1>6. AccountRowsTyped'
  BY <1>3 DEF AccountRowsTyped, UserRecord, Row
<1>7. \A x \in Account : Registered(x) => Registered(x)'
  BY <1>3 DEF AccountRowsTyped, Registered
<1>8. r \notin resetTokens /\ ~Issued(call[r])
  BY <1>3 DEF RowsFit, Issued
<1>9. SessionIssued(call'[r]) /\ PasswordStored(call'[r])
  BY <1>3, <1>5 DEF Moved, SessionIssued, PasswordStored
<1>10. \A x \in Account : everStored'[x] \subseteq everStored[x] \cup {r}
  BY <1>3 DEF AccountRowsTyped
<1> QED
  BY <1>3, <1>4, <1>5, <1>6, <1>7, <1>8, <1>9, <1>10, WritesKeep

LEMMA SessionStepsKeep ==
    ASSUME AccountInv, NEW r \in Request, GenerateJWT(r) \/ RevokeJWTClaims(r)
    PROVE  AccountInv'
<1> USE AccountFacts
<1>1. CASE GenerateJWT(r)
  <2>1. /\ call[r].op \in {"login", "refresh"} /\ call[r].step # "answered"
        /\ sessions' = sessions \cup {r} /\ MoveTo(r, "answered")
        /\ UNCHANGED <<users, resetTokens, revokedIDs, revokedBefore, everStored>>
    BY <1>1 DEF GenerateJWT, At
  <2>2. "answered" \in CallSteps
    BY DEF CallSteps
  <2>3. Moved(r, "answered")
    BY <2>1, <2>2, MoveToIs
  <2>4. AccountRowsTyped'
    BY <2>1 DEF AccountRowsTyped
  <2>5. \A a \in Account : Registered(a) => Registered(a)'
    BY <2>1 DEF Registered
  <2>6. /\ r \notin resetTokens /\ ~Issued(call[r]) /\ SessionIssued(call'[r])
        /\ \A a \in Account : r \notin everStored[a]
    BY <2>1, <2>3 DEF Moved, RowsFit, Issued, SessionIssued, PasswordStored
  <2>7. QED
    BY <2>1, <2>2, <2>3, <2>4, <2>5, <2>6, WritesKeep
<1>2. CASE RevokeJWTClaims(r)
  <2>1. /\ call[r].op = "refresh" /\ call[r].step = "validated"
        /\ revokedIDs' = revokedIDs \cup {call[r].token} /\ MoveTo(r, "revoked")
        /\ UNCHANGED <<users, resetTokens, sessions, revokedBefore, everStored>>
    BY <1>2 DEF RevokeJWTClaims, At
  <2>2. "revoked" \in CallSteps
    BY DEF CallSteps
  <2>3. Moved(r, "revoked")
    BY <2>1, <2>2, MoveToIs
  <2>4. AccountRowsTyped'
    BY <2>1 DEF AccountRowsTyped
  <2>5. \A a \in Account : Registered(a) => Registered(a)'
    BY <2>1 DEF Registered
  <2>6. /\ r \notin resetTokens /\ ~Issued(call[r]) /\ r \notin sessions
        /\ \A a \in Account : r \notin everStored[a]
    BY <2>1 DEF RowsFit, Issued, SessionIssued, PasswordStored
  <2>7. QED
    BY <2>1, <2>2, <2>3, <2>4, <2>5, <2>6, WritesKeep
<1> QED
  BY <1>1, <1>2

CutAt(c, d, cut) ==
    /\ c \in CallRecord /\ c.step = "cut" /\ c.cut = cut /\ c.op = d.op
    /\ c.acct = d.acct /\ c.seen = d.seen /\ c.token = d.token
LEMMA CutIsCall ==
    ASSUME NEW d \in CallRecord, NEW cut \in SUBSET Request
    PROVE  CutAt([d EXCEPT !.step = "cut", !.cut = cut], d, cut)
BY DEF CutAt, CallRecord, CallSteps

LEMMA TakeInstantKeeps ==
    ASSUME AccountInv, NEW r \in Request, TakeInstant(r)
    PROVE  AccountInv'
<1> USE AccountFacts
<1>1. PICK cut : cut = {s \in sessions : call[s].acct = call[r].acct}
  OBVIOUS
<1>2. cut \subseteq sessions /\ cut \in SUBSET Request
  BY <1>1 DEF AccountRowsTyped
<1>3. /\ call' = [call EXCEPT ![r] = [call[r] EXCEPT !.step = "cut", !.cut = cut]]
      /\ UNCHANGED <<users, resetTokens, sessions, revokedIDs, revokedBefore, everStored>>
  BY <1>1 DEF TakeInstant
<1>c. PICK c : c = [call[r] EXCEPT !.step = "cut", !.cut = cut]
  OBVIOUS
<1>4. /\ c \in CallRecord /\ c.step = "cut" /\ c.cut = cut /\ c.op = call[r].op
      /\ c.acct = call[r].acct /\ c.seen = call[r].seen /\ c.token = call[r].token
  <2>1. call[r] \in CallRecord
    BY DEF AccountTyped
  <2>2. QED
    <3>1. CutAt([call[r] EXCEPT !.step = "cut", !.cut = cut], call[r], cut)
      BY <1>2, <2>1, CutIsCall, Zenon
    <3>2. CutAt(c, call[r], cut)
      BY <1>c, <3>1, Zenon
    <3>3. QED
      BY <3>2, Zenon DEF CutAt
<1>5. call' = [call EXCEPT ![r] = c]
  BY <1>c, <1>3
<1>6. Moved(r, "cut") /\ call'[r].cut = cut
  BY <1>4, <1>5 DEF AccountTyped, Moved, Elsewhere
<1>7. "cut" \in CallSteps
  BY DEF CallSteps
<1>8. AccountRowsTyped'
  BY <1>3 DEF AccountRowsTyped
<1>9. \A a \in Account : Registered(a) <=> Registered(a)'
  BY <1>3 DEF Registered
<1>10. r \notin resetTokens /\ ~Issued(call[r]) /\ r \notin sessions
  BY DEF RowsFit, Issued, SessionIssued, TakeInstant, At
<1>11. \A a \in Account : r \in everStored[a] => PasswordStored(call'[r])
  BY <1>6 DEF RowsFit, PasswordStored, Moved, TakeInstant, At
<1>12. CASE call[r].op # "reset"
  <2>1. call[r].op \notin {"idle", "reset"}
    BY <1>12 DEF TakeInstant, At
  <2>2. QED
    BY <1>2, <1>3, <1>6, <1>7, <1>8, <1>9, <1>10, <1>11, <2>1, WritesKeep
<1>13. CASE call[r].op = "reset"
  <2>1. PICK k, a : k = call[r].token /\ a = call[r].acct
    OBVIOUS
  <2>2. call[r].step = "written"
    BY <1>13 DEF TakeInstant, At
  <2>3. /\ k \in Request /\ Issued(call[k]) /\ call[k].acct = a /\ a \in Account
        /\ Registered(a) /\ k # r
    BY <1>13, <2>1, <2>2 DEF ResetFits, Issued
  <2>4. /\ call'[r].token = k /\ call'[r].acct = a /\ call'[k] = call[k]
        /\ call'[r].step = "cut"
    BY <1>6, <2>1, <2>3 DEF Moved, Elsewhere
  <2>5. Registered(a)'
    BY <1>9, <2>3
  <2>6. ResetFits(r)'
    BY <2>3, <2>4, <2>5 DEF ResetFits, Registered
  <2>7. RowsFit(r)'
    BY <1>3, <1>10, <1>11 DEF RowsFit
  <2>8. \A x \in Request : Spends(r, x)' => Spends(r, x)
    BY <1>6, <2>2 DEF Spends, Moved
  <2>9. GoodMove(r)
    BY <1>2, <1>3, <1>6, <1>8, <1>9, <1>10, <1>13, <2>6, <2>7, <2>8 DEF GoodMove, Moved
  <2>10. QED
    BY <1>6, <1>7, <2>9, MoveKeeps
<1> QED
  BY <1>12, <1>13

LEMMA ChangesKeep ==
    ASSUME AccountConstants, AccountInv, NEW r \in Request,
           \/ ChangeStore(r) \/ ChangeRevoked(r) \/ ChangeRevokeFails(r) \/ ChangeRollback(r)
    PROVE  AccountInv'
<1>0. /\ AccountRowsTyped /\ CallFits(r) /\ RowsFit(r)
      /\ call[r].op = "change" /\ call[r].step \in {"checked", "cut", "rollback"}
  BY AccountFacts DEF ChangeStore, ChangeRevoked, ChangeRevokeFails, ChangeRollback, At
<1>1. PICK a \in Account : a = call[r].acct
  BY <1>0, AccountFacts
<1>2. PICK seen \in Request : seen = call[r].seen
  BY <1>0 DEF CallFits
<1>3. /\ UNCHANGED <<resetTokens, sessions, revokedIDs>>
      /\ revokedBefore' = revokedBefore \/ revokedBefore' = [revokedBefore EXCEPT ![a] = call[r].cut]
      /\ revokedBefore' # revokedBefore => call[r].step = "cut"
      /\ \/ users' = users /\ everStored' = everStored
         \/ /\ Registered(a) /\ users' = [users EXCEPT ![a].hash = r]
            /\ everStored' = [everStored EXCEPT ![a] = @ \cup {r}]
         \/ /\ Registered(a) /\ users' = [users EXCEPT ![a].hash = seen]
            /\ everStored' = everStored
  BY <1>0, <1>1, <1>2 DEF ChangeStore, ChangeRevoked, ChangeRevokeFails, ChangeRollback, At,
                          CutoffFails, StoreCutoff
<1>4. PICK step : /\ step \in {"stored", "answered", "rollback", "refused"}
                  /\ MoveTo(r, step)
  BY DEF ChangeStore, ChangeRevoked, ChangeRevokeFails, ChangeRollback
<1>5. step \in CallSteps
  BY <1>4 DEF CallSteps
<1>6. Moved(r, step)
  BY <1>4, <1>5, AccountFacts, MoveToIs
<1>7. /\ users' \in [Account -> {NoOne} \cup UserRecord]
      /\ \A x \in Account : Registered(x) => Registered(x)'
  <2>1. CASE users' = users
    BY <1>0, <2>1 DEF AccountRowsTyped, Registered
  <2>2. ASSUME NEW h \in Request, Registered(a), users' = [users EXCEPT ![a].hash = h]
        PROVE  /\ users' \in [Account -> {NoOne} \cup UserRecord]
               /\ \A x \in Account : Registered(x) => Registered(x)'
    <3>1. PICK kept \in {"admin", "user"} : users[a] = [role |-> kept, hash |-> users[a].hash]
      BY <1>0, <2>2 DEF AccountRowsTyped, Registered, UserRecord
    <3>2. [users[a] EXCEPT !.hash = h] = Row(kept, h)
      BY <3>1 DEF Row
    <3>3. users' = [users EXCEPT ![a] = Row(kept, h)]
      BY <2>2, <3>2
    <3>4. Row(kept, h) \in UserRecord /\ Row(kept, h) # NoOne
      BY DEF Row, UserRecord, AccountConstants
    <3>5. QED
      BY <1>0, <3>3, <3>4 DEF AccountRowsTyped, Registered
  <2>3. QED
    BY <1>3, <2>1, <2>2
<1>8. /\ revokedBefore' \in [Account -> SUBSET Request]
      /\ \A x \in Account : revokedBefore'[x] \subseteq sessions
  <2>1. call[r].step = "cut" => call[r].cut \subseteq sessions
    BY <1>0 DEF CallFits
  <2>2. QED
    BY <1>0, <1>3, <2>1 DEF AccountRowsTyped
<1>9. AccountRowsTyped'
  BY <1>0, <1>3, <1>7, <1>8 DEF AccountRowsTyped
<1>10. /\ r \notin resetTokens /\ r \notin sessions /\ ~Issued(call[r])
       /\ PasswordStored(call'[r])
  BY <1>0, <1>4, <1>6 DEF RowsFit, Issued, SessionIssued, PasswordStored, Moved
<1>11. \A x \in Account : everStored'[x] \subseteq everStored[x] \cup {r}
  BY <1>0, <1>3 DEF AccountRowsTyped
<1> QED
  BY <1>0, <1>3, <1>4, <1>5, <1>6, <1>7, <1>9, <1>10, <1>11, WritesKeep

\* No token of the account is locked by another request: it is safe to delete them.
LEMMA TokenTablesKeep ==
    ASSUME AccountInv, NEW r \in Request,
           \/ ForgotStore(r) \/ ForgotMailFails(r) \/ DeleteRevoked(r) \/ DeleteRevokeFails(r)
           \/ DeleteCommit(r)
    PROVE  AccountInv'
<1>0. /\ AccountRowsTyped /\ CallFits(r) /\ RowsFit(r)
      /\ \/ call[r].op = "forgot" /\ call[r].step \in {"seen", "stored"}
         \/ call[r].op = "delete"
  BY AccountFacts DEF ForgotStore, ForgotMailFails, DeleteRevoked, DeleteRevokeFails,
                      DeleteCommit, At
<1>1. PICK a \in Account : a = call[r].acct
  BY <1>0, AccountFacts
<1>2. PICK step : /\ step \in {"stored", "refused", "revoked", "answered"} /\ MoveTo(r, step)
                  /\ call[r].op = "forgot" => step \in {"stored", "refused"}
  BY DEF ForgotStore, ForgotMailFails, DeleteRevoked, DeleteRevokeFails, DeleteCommit, At
<1>3. step \in CallSteps
  BY <1>2 DEF CallSteps
<1>4. Moved(r, step)
  BY <1>2, <1>3, AccountFacts, MoveToIs
<1>5. /\ UNCHANGED <<sessions, revokedIDs, everStored>>
      /\ resetTokens' \subseteq resetTokens \cup {r}
      /\ r \in resetTokens' \ resetTokens => call[r].op = "forgot" /\ call[r].step = "seen"
      /\ \/ users' = users
         \/ users' = [users EXCEPT ![a] = NoOne] /\ ~UserLocked(a)
      /\ \/ revokedBefore' = revokedBefore
         \/ revokedBefore' = [revokedBefore EXCEPT ![a] = call[r].cut] /\ call[r].step = "cut"
  BY <1>1 DEF ForgotStore, ForgotMailFails, DeleteRevoked, DeleteRevokeFails, DeleteCommit, At,
              CutoffFails, StoreCutoff
<1>6. /\ users' \in [Account -> {NoOne} \cup UserRecord]
      /\ \A q \in Request, x \in Account :
            HoldsUser(q, x) /\ Registered(x) => Registered(x)'
  <2>1. users' \in [Account -> {NoOne} \cup UserRecord]
    BY <1>0, <1>5 DEF AccountRowsTyped
  <2>2. ASSUME NEW q \in Request, NEW x \in Account, HoldsUser(q, x), Registered(x)
        PROVE  Registered(x)'
    BY <1>0, <1>5, <2>2 DEF AccountRowsTyped, Registered, UserLocked
  <2>3. QED
    BY <2>1, <2>2
<1>7. /\ revokedBefore' \in [Account -> SUBSET Request]
      /\ \A x \in Account : revokedBefore'[x] \subseteq sessions
  <2>1. call[r].step = "cut" => call[r].cut \subseteq sessions
    BY <1>0 DEF CallFits
  <2>2. QED
    BY <1>0, <1>5, <2>1 DEF AccountRowsTyped
<1>8. AccountRowsTyped'
  BY <1>0, <1>5, <1>6, <1>7 DEF AccountRowsTyped
<1>9. /\ r \notin sessions /\ \A x \in Account : r \notin everStored[x]
      /\ Issued(call[r]) => call[r].op = "forgot" /\ call[r].step = "stored"
      /\ r \in resetTokens => Issued(call[r])
      /\ call[r].op = "forgot" => Issued(call'[r])
  BY <1>0, <1>2, <1>4 DEF RowsFit, Issued, SessionIssued, PasswordStored, Moved
<1>10. step # "cut" /\ call[r].op \notin {"idle", "reset"}
  BY <1>0, <1>2
<1> QED
  BY <1>3, <1>4, <1>5, <1>6, <1>8, <1>9, <1>10, WritesKeep

LEMMA ExpireTokenKeeps ==
    ASSUME AccountInv, NEW k \in resetTokens, ExpireToken(k)
    PROVE  AccountInv'
<1>1. /\ resetTokens' \subseteq resetTokens
      /\ UNCHANGED <<users, sessions, revokedIDs, revokedBefore, call, everStored>>
  BY DEF ExpireToken
<1>2. AccountTyped'
  BY <1>1 DEF AccountInv, AccountTyped, AccountRowsTyped
<1>3. TokensExclusive'
  BY <1>1 DEF AccountInv, TokensExclusive, Spends
<1>4. \A r \in Request : (CallFits(r) /\ RowsFit(r) /\ ResetFits(r))'
  BY <1>1 DEF AccountInv, CallFits, RowsFit, ResetFits, Registered
<1> QED
  BY <1>2, <1>3, <1>4 DEF AccountInv

LEMMA ResetEndsKeep ==
    ASSUME AccountConstants, AccountInv, NEW r \in Request,
           ResetRevoked(r) \/ ResetRevokeFails(r)
    PROVE  AccountInv'
<1>0. /\ AccountRowsTyped /\ CallFits(r) /\ RowsFit(r) /\ ResetFits(r)
      /\ call[r].op = "reset" /\ call[r].step = "cut"
  BY AccountFacts DEF ResetRevoked, ResetRevokeFails, At
<1>1. PICK a \in Account : a = call[r].acct
  BY <1>0, AccountFacts
<1>2. PICK k \in Request : k = call[r].token
  BY <1>0 DEF ResetFits
<1>3. Issued(call[k]) /\ call[k].acct = a /\ Registered(a) /\ k # r
  BY <1>0, <1>1, <1>2 DEF ResetFits, Issued
<1>4. PICK step \in {"answered", "refused"} :
        /\ MoveTo(r, step) /\ UNCHANGED <<sessions, revokedIDs>>
        /\ \/ revokedBefore' = revokedBefore
           \/ revokedBefore' = [revokedBefore EXCEPT ![a] = call[r].cut]
        /\ \/ /\ users' = [users EXCEPT ![a].hash = r]
              /\ everStored' = [everStored EXCEPT ![a] = @ \cup {r}]
              /\ resetTokens' = resetTokens \ TokensOf(a)
              /\ step = "answered"
           \/ UNCHANGED <<users, everStored, resetTokens>> /\ step = "refused"
  BY <1>1 DEF ResetRevoked, ResetRevokeFails, CutoffFails, StoreCutoff
<1>5. step \in CallSteps
  BY DEF CallSteps
<1>6. Moved(r, step)
  BY <1>4, <1>5, AccountFacts, MoveToIs
<1>7. /\ users' \in [Account -> {NoOne} \cup UserRecord]
      /\ \A x \in Account : Registered(x) => Registered(x)'
  <2>1. CASE users' = users
    BY <1>0, <2>1 DEF AccountRowsTyped, Registered
  <2>2. CASE users' = [users EXCEPT ![a].hash = r]
    <3>1. PICK kept \in {"admin", "user"} : users[a] = [role |-> kept, hash |-> users[a].hash]
      BY <1>0, <1>3 DEF AccountRowsTyped, Registered, UserRecord
    <3>2. [users[a] EXCEPT !.hash = r] = Row(kept, r)
      BY <3>1 DEF Row
    <3>3. users' = [users EXCEPT ![a] = Row(kept, r)]
      BY <2>2, <3>2
    <3>4. Row(kept, r) \in UserRecord /\ Row(kept, r) # NoOne
      BY DEF Row, UserRecord, AccountConstants
    <3>5. QED
      BY <1>0, <3>3, <3>4 DEF AccountRowsTyped, Registered
  <2>3. QED
    BY <1>4, <2>1, <2>2
<1>8. /\ revokedBefore' \in [Account -> SUBSET Request]
      /\ \A x \in Account : revokedBefore'[x] \subseteq sessions
  <2>1. call[r].cut \subseteq sessions
    BY <1>0 DEF CallFits
  <2>2. QED
    BY <1>0, <1>4, <2>1 DEF AccountRowsTyped
<1>9. AccountRowsTyped'
  BY <1>0, <1>4, <1>7, <1>8 DEF AccountRowsTyped
<1>10. r \notin resetTokens /\ r \notin sessions /\ ~Issued(call[r])
  BY <1>0 DEF RowsFit, Issued, SessionIssued
<1>11. \A x \in Account :
         /\ everStored'[x] \subseteq everStored[x] \cup {r}
         /\ r \in everStored'[x] => step = "answered"
  BY <1>0, <1>4 DEF AccountRowsTyped, RowsFit, PasswordStored
<1>12. RowsFit(r)'
  BY <1>0, <1>4, <1>6, <1>10, <1>11 DEF RowsFit, PasswordStored, Moved
<1>13. /\ call'[r].token = k /\ call'[r].acct = a /\ call'[k] = call[k]
       /\ call'[r].step = step
  BY <1>1, <1>2, <1>3, <1>6 DEF Moved, Elsewhere
<1>14. step = "answered" => k \notin resetTokens'
  BY <1>3, <1>4 DEF TokensOf
<1>15. ResetFits(r)'
  BY <1>3, <1>4, <1>13, <1>14 DEF ResetFits
<1>16. \A x \in Request : Spends(r, x)' => Spends(r, x)
  BY <1>0, <1>6 DEF Spends, Moved
<1>17. resetTokens' \subseteq resetTokens
  BY <1>4
<1>18. call[r] # NoCall
  BY <1>0, AccountFacts
<1>19. GoodMove(r)
  BY <1>0, <1>4, <1>6, <1>7, <1>9, <1>10, <1>11, <1>12, <1>15, <1>16, <1>17, <1>18
     DEF GoodMove, Moved
<1> QED
  BY <1>5, <1>6, <1>19, MoveKeeps

LEMMA AccountStepKeeps ==
    ASSUME AccountConstants, AccountInv, [AccountNext]_accountVars
    PROVE  AccountInv'
<1>1. CASE AccountNext
  <2>1. ASSUME NEW r \in Request, BeginsCall(r) PROVE AccountInv'
    BY <2>1, BeginsKeep
  <2>2. ASSUME NEW r \in Request,
               \/ RegisterRefuse(r) \/ RefreshFails(r) \/ RollbackFails(r) \/ ForgotMailed(r)
               \/ ResetTake(r) \/ ResetWrite(r) \/ ResetWriteFails(r)
        PROVE  AccountInv'
    BY <2>2, StepsKeep
  <2>3. ASSUME NEW r \in Request, RegisterCommit(r) PROVE AccountInv'
    BY <2>3, RegisterCommitKeeps
  <2>4. ASSUME NEW r \in Request, GenerateJWT(r) \/ RevokeJWTClaims(r) PROVE AccountInv'
    BY <2>4, SessionStepsKeep
  <2>5. ASSUME NEW r \in Request, TakeInstant(r) PROVE AccountInv'
    BY <2>5, TakeInstantKeeps
  <2>6. ASSUME NEW r \in Request,
               \/ ChangeStore(r) \/ ChangeRevoked(r) \/ ChangeRevokeFails(r) \/ ChangeRollback(r)
        PROVE  AccountInv'
    BY <2>6, ChangesKeep
  <2>7. ASSUME NEW r \in Request,
               \/ ForgotStore(r) \/ ForgotMailFails(r) \/ DeleteRevoked(r)
               \/ DeleteRevokeFails(r) \/ DeleteCommit(r)
        PROVE  AccountInv'
    BY <2>7, TokenTablesKeep
  <2>8. ASSUME NEW r \in Request, ResetRevoked(r) \/ ResetRevokeFails(r) PROVE AccountInv'
    BY <2>8, ResetEndsKeep
  <2>9. ASSUME NEW k \in resetTokens, ExpireToken(k) PROVE AccountInv'
    BY <2>9, ExpireTokenKeeps
  <2>10. QED
    BY <1>1, <2>1, <2>2, <2>3, <2>4, <2>5, <2>6, <2>7, <2>8, <2>9, Zenon
       DEF AccountNext, BeginsCall
<1>2. CASE UNCHANGED accountVars
  BY <1>2 DEF accountVars, AccountInv, AccountTyped, AccountRowsTyped, TokensExclusive, Spends,
              CallFits, RowsFit, ResetFits, Registered
<1> QED
  BY <1>1, <1>2

\* The tables name requests and accounts only, and what a handler has read fits
\* its operation (database_user_handler.go, password_reset_tokens.go).
THEOREM AccountTypeCorrect == ASSUME AccountConstants PROVE AccountSpec => []AccountTypeOK
<1>1. AccountInit => AccountInv
  BY AccountStarts
<1>2. AccountInv /\ [AccountNext]_accountVars => AccountInv'
  BY AccountStepKeeps
<1>3. AccountInv => AccountTypeOK
  BY DEF AccountInv, AccountTyped, AccountRowsTyped, CallRecord, CallSteps, RowsFit, Issued,
         SessionIssued, UserRecord, AccountTypeOK
<1> QED
  BY <1>1, <1>2, <1>3, PTL DEF AccountSpec

-----------------------------------------------------------------------------
LEMMA OneResetPerToken == ASSUME AccountInv PROVE ResetTokenSpentOnce
<1> SUFFICES ASSUME NEW k \in Request
             PROVE  Cardinality({r \in Request : call[r].op = "reset" /\ call[r].token = k
                                                   /\ call[r].step = "answered"}) =< 1
  BY DEF ResetTokenSpentOnce
<1> DEFINE S == {r \in Request : call[r].op = "reset" /\ call[r].token = k
                                   /\ call[r].step = "answered"}
<1>1. \A r, q \in S : r = q
  BY DEF AccountInv, TokensExclusive, Spends
<1> HIDE DEF S
<1>2. Cardinality(S) =< 1
  <2>1. CASE S = {}
    BY <2>1, FS_EmptySet
  <2>2. CASE S # {}
    <3>1. PICK r : S = {r}
      BY <1>1, <2>2
    <3>2. Cardinality({r}) = 1
      BY FS_Singleton, Zenon
    <3>3. QED
      BY <3>1, <3>2
  <2>3. QED
    BY <2>1, <2>2
<1> QED
  BY <1>2 DEF S

LEMMA RollbackOnlyOfFailed ==
    ASSUME AccountConstants, AccountInv, [AccountNext]_accountVars
    PROVE  [OnlyFailedChangesUndone]_accountVars
<1> SUFFICES ASSUME AccountNext, NEW a \in Account, Registered(a), users'[a] # NoOne,
                    users'[a].hash # users[a].hash, users'[a].hash \in everStored[a]
             PROVE  /\ call[users[a].hash].step = "rollback"
                    /\ users'[a].hash = call[users[a].hash].seen
  BY DEF OnlyFailedChangesUndone
<1>0. AccountRowsTyped
  BY DEF AccountInv, AccountTyped
<1>1. ASSUME NEW r \in Request, r \in everStored[a] PROVE PasswordStored(call[r])
  BY <1>1 DEF AccountInv, RowsFit
<1>2. ASSUME users' = users PROVE FALSE
  BY <1>2
<1>3. ASSUME NEW r \in Request, RegisterCommit(r) PROVE FALSE
  BY <1>0, <1>3 DEF RegisterCommit, AccountRowsTyped, Registered
<1>4. ASSUME NEW r \in Request, ChangeStore(r) PROVE FALSE
  <2>1. users' = [users EXCEPT ![call[r].acct].hash = r] /\ ~PasswordStored(call[r])
    BY <1>2, <1>4 DEF ChangeStore, At, PasswordStored
  <2>2. r \notin everStored[a]
    BY <1>1, <2>1
  <2>3. users'[a].hash = r \/ users'[a] = users[a]
    BY <1>0, <2>1 DEF AccountRowsTyped, Registered, UserRecord
  <2>4. QED
    BY <2>2, <2>3
<1>5. ASSUME NEW r \in Request, ResetRevoked(r) PROVE FALSE
  <2>1. users' = [users EXCEPT ![call[r].acct].hash = r] /\ ~PasswordStored(call[r])
    BY <1>5 DEF ResetRevoked, At, PasswordStored
  <2>2. r \notin everStored[a]
    BY <1>1, <2>1
  <2>3. users'[a].hash = r \/ users'[a] = users[a]
    BY <1>0, <2>1 DEF AccountRowsTyped, Registered, UserRecord
  <2>4. QED
    BY <2>2, <2>3
<1>6. ASSUME NEW r \in Request, ChangeRollback(r)
      PROVE  /\ call[users[a].hash].step = "rollback"
             /\ users'[a].hash = call[users[a].hash].seen
  <2>1. /\ users[call[r].acct].hash = r /\ call[r].step = "rollback"
        /\ users' = [users EXCEPT ![call[r].acct].hash = call[r].seen]
    BY <1>2, <1>6 DEF ChangeRollback, RollbackMatches, At
  <2>2. a = call[r].acct
    BY <1>0, <2>1 DEF AccountRowsTyped
  <2>3. users'[a].hash = call[r].seen
    BY <1>0, <2>1, <2>2 DEF AccountRowsTyped, Registered, UserRecord
  <2>4. QED
    BY <2>1, <2>2, <2>3
<1>7. ASSUME NEW r \in Request, DeleteCommit(r) PROVE FALSE
  BY <1>0, <1>7 DEF DeleteCommit, AccountRowsTyped
<1>8. ASSUME NEW r \in Request, BeginsCall(r) PROVE users' = users
  BY <1>8 DEF BeginsCall, RegisterCount, LoginRead, ForgotRead, RefreshValidate, Logout,
              ChangeRead, DeleteRead, ResetRead
<1>9. ASSUME NEW r \in Request,
             \/ RegisterRefuse(r) \/ RefreshFails(r) \/ RollbackFails(r) \/ ForgotMailed(r)
             \/ ResetTake(r) \/ ResetWrite(r) \/ ResetWriteFails(r)
             \/ GenerateJWT(r) \/ RevokeJWTClaims(r) \/ TakeInstant(r)
             \/ ChangeRevoked(r) \/ ChangeRevokeFails(r)
             \/ ForgotStore(r) \/ ForgotMailFails(r) \/ DeleteRevoked(r)
             \/ DeleteRevokeFails(r) \/ ResetRevokeFails(r)
      PROVE  users' = users
  BY <1>9 DEF RegisterRefuse, RefreshFails, RollbackFails, ForgotMailed, ResetTake, ResetWrite,
              ResetWriteFails, StepOnly, GenerateJWT, RevokeJWTClaims, TakeInstant,
              ChangeRevoked, ChangeRevokeFails, ForgotStore, ForgotMailFails, DeleteRevoked,
              DeleteRevokeFails, ResetRevokeFails
<1>10. ASSUME NEW k \in resetTokens, ExpireToken(k) PROVE users' = users
  BY <1>10 DEF ExpireToken
<1> QED
  BY <1>2, <1>3, <1>4, <1>5, <1>6, <1>7, <1>8, <1>9, <1>10, Zenon DEF AccountNext, BeginsCall

\* For every number of requests and accounts: of the resets that read the same
\* token, one at most commits (resetPasswordWithToken), and a rollback takes only
\* its own request's password back, for the one that request had read
\* (ChangePasswordIfCurrent).
THEOREM PasswordChangesAreExact == ASSUME AccountConstants PROVE AccountSpec => PasswordChangesExact
<1>1. AccountInit => AccountInv
  BY AccountStarts
<1>2. AccountInv /\ [AccountNext]_accountVars => AccountInv'
  BY AccountStepKeeps
<1>3. AccountInv => ResetTokenSpentOnce
  BY OneResetPerToken
<1>4. AccountInv /\ [AccountNext]_accountVars => [OnlyFailedChangesUndone]_accountVars
  BY RollbackOnlyOfFailed
<1> QED
  BY <1>1, <1>2, <1>3, <1>4, PTL DEF AccountSpec, PasswordChangesExact
=============================================================================
