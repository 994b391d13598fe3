----------------------------- MODULE RateLimiter -----------------------------
(***************************************************************************)
(* One fixedWindowLimiter of internal/app/server/auth_rate_limit.go.        *)
(*                                                                         *)
(* A key is counted in Redis (a script: INCR, PEXPIRE on the first count)   *)
(* while Redis answers, and in a bounded local map while it does not: a     *)
(* failed call keeps every caller away from Redis for LimiterBackoff.  The  *)
(* local map is purged through a heap of expiries; a reset deletes a        *)
(* counter and leaves its heap entry behind.                                *)
(***************************************************************************)
EXTENDS Naturals, FiniteSets, Functions

CONSTANTS Key, WindowLimit, Window, MaxLocalEntries, LimiterBackoff, LimiterHorizon

\* What newFixedWindowLimiter and the defaults guarantee of the constants.
LimiterConstants ==
  /\ WindowLimit \in Nat /\ Window \in Nat /\ MaxLocalEntries \in Nat
  /\ LimiterBackoff \in Nat /\ LimiterHorizon \in Nat

VARIABLES remote,    \* Redis: per key counted in this window, [count, expires]
          counters,  \* the local map, same shape
          expiries,  \* the heap: [key, expires], stale entries included
          redisUp, retryAt, instant

limiterVars == <<remote, counters, expiries, redisUp, retryAt, instant>>

Counter(n, e) == [count |-> n, expires |-> e]
LimiterNone == [k \in {} |-> Counter(0, 0)]

LimiterInit ==
  /\ remote = LimiterNone /\ counters = LimiterNone /\ expiries = {}
  /\ redisUp = TRUE /\ retryAt = 0 /\ instant = 0

Without(f, ks) == Restrict(f, DOMAIN f \ ks)
With(f, k, c) == [j \in DOMAIN f \union {k} |-> IF j = k THEN c ELSE f[j]]

\* authRedisAttemptAllowed
RedisAttemptAllowed == retryAt = 0 \/ instant > retryAt
CountedRemotely == RedisAttemptAllowed /\ redisUp

\* authRateLimitIncrementScript; no caller counts beyond one refusal here.
IncrementRemote(k) ==
  /\ CountedRemotely
  /\ k \in DOMAIN remote => remote[k].count =< WindowLimit
  /\ remote' = With(remote, k, IF k \in DOMAIN remote
                               THEN [remote[k] EXCEPT !.count = @ + 1]
                               ELSE Counter(1, instant + Window))
  /\ retryAt' = 0
  /\ UNCHANGED <<counters, expiries, redisUp, instant>>

\* Redis does not answer: markAuthRedisFailure, and the caller counts locally.
RedisFailure == RedisAttemptAllowed /\ ~redisUp
RetryAfterFailure == IF RedisFailure THEN instant + LimiterBackoff ELSE retryAt

\* purgeExpiredLocalLocked: a heap entry deletes the counter it was pushed for.
PurgeableAny(counted, heap) == {e.key : e \in {x \in heap : x.expires =< instant}} \intersect DOMAIN counted
Purgeable(counted, heap) ==
  {k \in DOMAIN counted : [key |-> k, expires |-> counted[k].expires] \in heap
                            /\ counted[k].expires =< instant}
PurgedHeap(heap) == {e \in heap : e.expires > instant}

\* incrementLocal, with enforceLocalCapacityLocked: the earliest live expiry goes.
Live(counted, heap) == {e \in heap : e.key \in DOMAIN counted /\ counted[e.key].expires = e.expires}
Earliest(entries) == {e \in entries : \A x \in entries : e.expires =< x.expires}
IncrementLocal(k) ==
  LET counted == Without(counters, Purgeable(counters, expiries))
      heap    == PurgedHeap(expiries) IN
  /\ ~CountedRemotely
  /\ \/ /\ k \in DOMAIN counted
        /\ counted[k].count =< WindowLimit
        /\ counters' = [counted EXCEPT ![k].count = @ + 1]
        /\ expiries' = heap
     \/ /\ k \notin DOMAIN counted
        /\ Cardinality(DOMAIN counted) < MaxLocalEntries
        /\ counters' = With(counted, k, Counter(1, instant + Window))
        /\ expiries' = heap \union {[key |-> k, expires |-> instant + Window]}
     \/ /\ k \notin DOMAIN counted
        /\ Cardinality(DOMAIN counted) >= MaxLocalEntries
        /\ \E e \in Earliest(Live(counted, heap)) :
             /\ counters' = With(Without(counted, {e.key}), k, Counter(1, instant + Window))
             /\ expiries' = {x \in heap : x.expires > e.expires \/ (x \in Live(counted, heap) /\ x # e)}
                              \union {[key |-> k, expires |-> instant + Window]}
  /\ retryAt' = RetryAfterFailure
  /\ UNCHANGED <<remote, redisUp, instant>>

\* current: a count is read; the local map is purged first.
CurrentLocal ==
  /\ ~CountedRemotely
  /\ counters' = Without(counters, Purgeable(counters, expiries))
  /\ expiries' = PurgedHeap(expiries)
  /\ retryAt' = RetryAfterFailure
  /\ UNCHANGED <<remote, redisUp, instant>>
\* Whether a key is over the limit in the store its next request would use.
BlockedLocally(k) == k \in DOMAIN counters /\ counters[k].expires > instant /\ counters[k].count >= WindowLimit

\* reset (a successful login): the Redis key and the local counter are deleted.
ResetCounter(k) ==
  /\ k \in DOMAIN remote \union DOMAIN counters
  /\ remote' = IF CountedRemotely THEN Without(remote, {k}) ELSE remote
  /\ counters' = Without(counters, {k})
  /\ retryAt' = IF CountedRemotely THEN 0 ELSE RetryAfterFailure
  /\ UNCHANGED <<expiries, redisUp, instant>>

RedisFlips == redisUp' = ~redisUp /\ UNCHANGED <<remote, counters, expiries, retryAt, instant>>
LimiterTick ==
  /\ instant < LimiterHorizon
  /\ instant' = instant + 1
  /\ remote' = Without(remote, {k \in DOMAIN remote : remote[k].expires =< instant'})
  /\ UNCHANGED <<counters, expiries, redisUp, retryAt>>

LimiterNext ==
  \/ \E k \in Key : IncrementRemote(k) \/ IncrementLocal(k) \/ ResetCounter(k)
  \/ CurrentLocal \/ RedisFlips \/ LimiterTick

LimiterSpec == LimiterInit /\ [][LimiterNext]_limiterVars

-----------------------------------------------------------------------------
LimiterTypeOK ==
  /\ DOMAIN remote \subseteq Key /\ DOMAIN counters \subseteq Key
  /\ Cardinality(DOMAIN counters) =< MaxLocalEntries
  /\ redisUp \in BOOLEAN /\ instant \in 0..LimiterHorizon
  /\ retryAt \in 0..(LimiterHorizon + LimiterBackoff)

\* A key blocked in the local map stays blocked until its window ends, a reset,
\* or an eviction from a full map in which no other counter expires earlier:
\* the heap entry that an earlier reset left behind must not end the window of
\* the counter that was started since.
BlockEnds ==
  \A k \in Key :
    BlockedLocally(k) /\ (k \notin DOMAIN counters' \/ counters'[k].count < WindowLimit)
    => \/ instant >= counters[k].expires
       \/ ResetCounter(k)
       \/ /\ Cardinality(DOMAIN counters) = MaxLocalEntries
          /\ \A j \in DOMAIN counters : counters[j].expires > instant => counters[k].expires =< counters[j].expires
BlockedUntilExpiry == [][BlockEnds]_limiterVars
=============================================================================
