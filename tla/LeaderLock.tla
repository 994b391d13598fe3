------------------------------ MODULE LeaderLock ------------------------------
(***************************************************************************)
(* The Redis lock under which one instance at a time runs a background     *)
(* routine (support/leadership.go): SET NX PX to acquire, a Lua            *)
(* compare-and-expire every third of the TTL to keep it, a Lua             *)
(* compare-and-delete to give it back.  The value is unique to the attempt *)
(* to become leader and reused by its retries.                             *)
(*                                                                         *)
(* A reply may get lost after the command was executed.  The timers are    *)
(* punctual: the clock does not pass a renewal that is due (a suspended    *)
(* process is outside the model).  run() gets a context that is cancelled  *)
(* when leadership is lost; it may take any time to return.                *)
(***************************************************************************)
EXTENDS Integers, FiniteSets

CONSTANTS
    Instance,       \* processes that want the lock, looping (RunWithLeader)
    OneShot,        \* the ones that try once (RunLeaderTaskOnce)
    LockTTL,        \* leadership TTL
    RenewEvery,     \* ttl/3, at least 1
    LockHorizon,    \* bound on the clock
    MaxSessions,    \* bound on the values generated
    MaxLostReplies  \* bound on lost replies and Redis errors

\* What the code guarantees of the constants.
LockConstants ==
    /\ OneShot \subseteq Instance
    /\ LockTTL \in Nat \ {0} /\ RenewEvery \in 1..(LockTTL - 1)
    /\ LockHorizon \in Nat /\ MaxSessions \in Nat /\ MaxLostReplies \in Nat

VARIABLES
    ltime,     \* clock
    lock,      \* the key: value and expiry
    member,    \* per instance: step, value, whether its context is cancelled, next renewal,
               \* and (history) whether Redis lost its lock
    sessionCount,  \* values generated so far
    mishaps    \* lost replies and errors so far

lockVars == <<ltime, lock, member, sessionCount, mishaps>>

Outside == [pc |-> "out", value |-> 0, cancelled |-> FALSE, renewAt |-> 0, robbed |-> FALSE]

Held == lock.until > ltime
Leads(i) == member[i].pc = "lead" /\ ~member[i].cancelled

Mishap == mishaps < MaxLostReplies /\ mishaps' = mishaps + 1
-----------------------------------------------------------------------------
\* generateLeaderID: a fresh value for the session about to be acquired.
StartSession(i) ==
    /\ member[i].pc = "out" /\ sessionCount < MaxSessions
    /\ sessionCount' = sessionCount + 1
    /\ member' = [member EXCEPT ![i] = [Outside EXCEPT !.pc = "acquire", !.value = sessionCount + 1]]
    /\ UNCHANGED <<ltime, lock, mishaps>>

\* acquireLeaderLock: SET key value NX PX ttl.
AcquireLeaderLock(i) ==
    /\ member[i].pc = "acquire" /\ ~Held
    /\ lock' = [value |-> member[i].value, until |-> ltime + LockTTL]
    /\ \/ /\ member' = [member EXCEPT ![i] = [@ EXCEPT !.pc = "lead", !.robbed = FALSE,
                                                       !.renewAt = ltime + RenewEvery]]
          /\ UNCHANGED mishaps
       \/ /\ Mishap   \* executed, but the reply is lost
          /\ member' = [member EXCEPT ![i].pc = IF i \in OneShot THEN "out" ELSE "acquire"]
    /\ UNCHANGED <<ltime, sessionCount>>

\* The lock is taken: RunLeaderTaskOnce reports ErrLeaderLockNotAcquired, the
\* looping acquireLeaderSession waits and tries the same value again.
NotAcquired(i) ==
    /\ member[i].pc = "acquire" /\ Held /\ i \in OneShot
    /\ member' = [member EXCEPT ![i] = Outside]
    /\ UNCHANGED <<ltime, lock, sessionCount, mishaps>>

\* Fault: a failed renewal is only logged.
RenewFailsLogged(i) == member' = [member EXCEPT ![i].renewAt = ltime + RenewEvery]

\* renewLoop gives up at the first failed renewal: the context is cancelled.
RenewFails(i) == member' = [member EXCEPT ![i].cancelled = TRUE]

\* renewLoop: renewScript extends the lock only while it holds our value.
RenewLock(i) ==
    /\ member[i].pc = "lead" /\ ~member[i].cancelled /\ member[i].renewAt =< ltime
    /\ LET mine == Held /\ lock.value = member[i].value IN
       \/ /\ mine
          /\ lock' = [lock EXCEPT !.until = ltime + LockTTL]
          /\ \/ /\ member' = [member EXCEPT ![i].renewAt = ltime + RenewEvery]
                /\ UNCHANGED mishaps
             \/ Mishap /\ RenewFails(i)
       \/ ~mine /\ RenewFails(i) /\ UNCHANGED <<lock, mishaps>>
       \/ Mishap /\ RenewFails(i) /\ UNCHANGED lock
    /\ UNCHANGED <<ltime, sessionCount>>

\* run() returns, on its own account or because its context was cancelled.
RunReturns(i) ==
    /\ member[i].pc = "lead"
    /\ member' = [member EXCEPT ![i].pc = "close", ![i].cancelled = TRUE]
    /\ UNCHANGED <<ltime, lock, sessionCount, mishaps>>

\* releaseScript.
ReleaseLock(value) ==
    lock' = IF Held /\ lock.value = value THEN [lock EXCEPT !.until = 0] ELSE lock

\* leaderSession.Close: renewal has stopped; a failed release leaves the lock
\* to its TTL.
CloseSession(i) ==
    /\ member[i].pc = "close"
    /\ \/ ReleaseLock(member[i].value) /\ UNCHANGED mishaps
       \/ Mishap /\ UNCHANGED lock
    /\ member' = [member EXCEPT ![i] = Outside]
    /\ UNCHANGED <<ltime, sessionCount>>

\* The process dies.
LeaderCrash(i) ==
    /\ member[i].pc # "out"
    /\ member' = [member EXCEPT ![i] = Outside]
    /\ UNCHANGED <<ltime, lock, sessionCount, mishaps>>

\* Redis loses the key; a session that held it learns of it at its next renewal.
LoseLock ==
    /\ Held /\ Mishap
    /\ lock' = [lock EXCEPT !.until = 0]
    /\ member' = [i \in Instance |-> IF member[i].value = lock.value
                                    THEN [member[i] EXCEPT !.robbed = TRUE] ELSE member[i]]
    /\ UNCHANGED <<ltime, sessionCount>>

LockTick ==
    /\ ltime < LockHorizon
    /\ \A i \in Instance : Leads(i) => ltime < member[i].renewAt
    /\ ltime' = ltime + 1
    /\ UNCHANGED <<lock, member, sessionCount, mishaps>>
-----------------------------------------------------------------------------
LockInit ==
    /\ ltime = 0 /\ lock = [value |-> 0, until |-> 0]
    /\ member = [i \in Instance |-> Outside]
    /\ sessionCount = 0 /\ mishaps = 0

LockNext ==
    \/ LockTick \/ LoseLock
    \/ \E i \in Instance :
          \/ StartSession(i) \/ AcquireLeaderLock(i) \/ NotAcquired(i) \/ RenewLock(i)
          \/ RunReturns(i) \/ CloseSession(i) \/ LeaderCrash(i)

LockSpec == LockInit /\ [][LockNext]_lockVars
-----------------------------------------------------------------------------
LockTypeOK ==
    /\ ltime \in 0..LockHorizon
    /\ lock \in [value : 0..MaxSessions, until : 0..(LockHorizon + LockTTL)]
    /\ member \in [Instance -> [pc : {"out", "acquire", "lead", "close"},
                                value : 0..MaxSessions, cancelled : BOOLEAN,
                                renewAt : 0..(LockHorizon + RenewEvery), robbed : BOOLEAN]]
    /\ sessionCount \in 0..MaxSessions /\ mishaps \in 0..MaxLostReplies

(***************************************************************************)
(* While timers are punctual, two instances never both believe they lead:  *)
(* whoever's lock ran out or was taken over has had its context cancelled  *)
(* before, whatever replies were lost, releases failed or leaders crashed. *)
(* Only a session whose key Redis lost, and that has not renewed since,    *)
(* leads beside another one.                                               *)
(***************************************************************************)
SoleActiveLeader ==
    \A i, j \in Instance : (Leads(i) /\ Leads(j) /\ i # j) => member[i].robbed \/ member[j].robbed
=============================================================================
