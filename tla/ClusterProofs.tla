---------------------------- MODULE ClusterProofs ----------------------------
(***************************************************************************)
(* Theorems about the instances of a cluster, however many there are: at   *)
(* most one of them believes that it leads (LeaderLock, for every TTL and  *)
(* every renewal interval shorter than it), those that were told of a      *)
(* GeoLite update read it (GeoLiteSync), and those that lost no message    *)
(* work with the configuration published last (ConfigSync).                *)
(***************************************************************************)
EXTENDS LeaderLock, GeoLiteSync, ConfigSync, SequenceTheorems, TLAPS

-----------------------------------------------------------------------------
(* Leadership.                                                             *)

Session ==
    [pc : {"out", "acquire", "lead", "close"}, value : 0..MaxSessions, cancelled : BOOLEAN,
     renewAt : 0..(LockHorizon + RenewEvery), robbed : BOOLEAN]

-----------------------------------------------------------------------------
(* Leadership: the inductive invariant.                                    *)

\* A session has a value that was generated, and no two sessions share one.
ValuesUnique ==
    /\ \A i \in Instance : member[i].pc # "out" => member[i].value \in 1..sessionCount
    /\ \A i, j \in Instance :
          i # j /\ member[i].pc # "out" /\ member[j].pc # "out" => member[i].value # member[j].value

\* A leader whose key was not lost holds the lock past its next renewal, which
\* is not overdue.
LeadersHoldLock ==
    \A i \in Instance :
        Leads(i) /\ ~member[i].robbed =>
            /\ lock.value = member[i].value
            /\ ltime <= member[i].renewAt
            /\ member[i].renewAt < lock.until

LockInv == LockTypeOK /\ ValuesUnique /\ LeadersHoldLock

\* What a step of one instance leaves to show: its new session state r is
\* typed, has a value of its own, and holds the lock if it leads; and the lock
\* was not taken away from another leader.
LEMMA OneSession ==
    ASSUME LockConstants, LockInv, NEW i \in Instance, NEW r \in Session,
           member' = [member EXCEPT ![i] = r],
           ltime' = ltime,
           sessionCount' \in sessionCount..MaxSessions, mishaps' \in 0..MaxLostReplies,
           lock' \in [value : 0..MaxSessions, until : 0..(LockHorizon + LockTTL)],
           r.pc # "out" => /\ r.value \in 1..sessionCount'
                           /\ \/ r.value = member[i].value /\ member[i].pc # "out"
                              \/ r.value > sessionCount,
           r.pc = "lead" /\ ~r.cancelled /\ ~r.robbed =>
               lock'.value = r.value /\ ltime <= r.renewAt /\ r.renewAt < lock'.until,
           \A j \in Instance : j # i /\ Leads(j) /\ ~member[j].robbed => lock' = lock
    PROVE  LockInv'
<1>t. /\ ltime \in Nat /\ sessionCount \in Nat /\ sessionCount' \in Nat
      /\ member \in [Instance -> Session]
      /\ lock.value \in Nat /\ lock.until \in Nat
      /\ MaxSessions \in Nat
  BY DEF LockInv, LockTypeOK, LockConstants, Session
<1>1. \A j \in Instance : member'[j] = IF j = i THEN r ELSE member[j]
  BY <1>t
<1>2. LockTypeOK'
  <2>1. member' \in [Instance -> Session]
    BY <1>t
  <2>2. sessionCount' \in 0..MaxSessions
    BY <1>t
  <2>3. QED
    BY <2>1, <2>2 DEF LockInv, LockTypeOK, Session
<1>3. ValuesUnique'
  <2>1. ASSUME NEW j \in Instance, member'[j].pc # "out" PROVE member'[j].value \in 1..sessionCount'
    BY <1>1, <1>t, <2>1 DEF LockInv, ValuesUnique
  <2>2. ASSUME NEW j \in Instance, j # i, r.pc # "out", member[j].pc # "out"
        PROVE  r.value # member[j].value
    <3>1. member[j].value \in 1..sessionCount
      BY <2>2 DEF LockInv, ValuesUnique
    <3>2. CASE r.value = member[i].value /\ member[i].pc # "out"
      BY <2>2, <3>2 DEF LockInv, ValuesUnique
    <3>3. CASE r.value > sessionCount
      BY <1>t, <3>1, <3>3
    <3>4. QED
      BY <2>2, <3>2, <3>3
  <2>3. ASSUME NEW j \in Instance, NEW k \in Instance, j # k,
               member'[j].pc # "out", member'[k].pc # "out"
        PROVE  member'[j].value # member'[k].value
    BY <1>1, <2>2, <2>3 DEF LockInv, ValuesUnique
  <2>4. QED
    BY <2>1, <2>3 DEF ValuesUnique
<1>4. LeadersHoldLock'
  <2>1. ASSUME NEW j \in Instance, member'[j].pc = "lead", ~member'[j].cancelled, ~member'[j].robbed
        PROVE  /\ lock'.value = member'[j].value
               /\ ltime' <= member'[j].renewAt /\ member'[j].renewAt < lock'.until
    <3>1. CASE j = i
      BY <1>1, <2>1, <3>1
    <3>2. CASE j # i
      <4>1. member'[j] = member[j] /\ Leads(j) /\ ~member[j].robbed
        BY <1>1, <2>1, <3>2 DEF Leads
      <4>2. QED
        BY <3>2, <4>1 DEF LockInv, LeadersHoldLock
    <3>3. QED
      BY <3>1, <3>2
  <2>2. QED
    BY <2>1 DEF LeadersHoldLock, Leads
<1>5. QED
  BY <1>2, <1>3, <1>4 DEF LockInv

-----------------------------------------------------------------------------
(* The actions.                                                            *)

LEMMA LockInvStep ==
    ASSUME LockConstants, LockInv, [LockNext]_lockVars
    PROVE  LockInv'
<1>c. /\ LockTTL \in Nat /\ RenewEvery \in Nat /\ 1 <= RenewEvery /\ RenewEvery < LockTTL
      /\ LockHorizon \in Nat /\ MaxSessions \in Nat /\ MaxLostReplies \in Nat
  BY DEF LockConstants
<1>t. /\ ltime \in Nat /\ ltime <= LockHorizon
      /\ sessionCount \in 0..MaxSessions /\ mishaps \in 0..MaxLostReplies
      /\ member \in [Instance -> Session]
      /\ lock \in [value : 0..MaxSessions, until : 0..(LockHorizon + LockTTL)]
  BY <1>c DEF LockInv, LockTypeOK, Session
<1>n. Mishap => mishaps' \in 0..MaxLostReplies
  BY <1>c, <1>t DEF Mishap
<1>s. sessionCount \in sessionCount..MaxSessions
  BY <1>c, <1>t
\* The new expiry is typed and lies behind the next renewal.
<1>u. /\ ltime + LockTTL \in 0..(LockHorizon + LockTTL)
      /\ ltime + RenewEvery \in 0..(LockHorizon + RenewEvery)
      /\ ltime <= ltime + RenewEvery /\ ltime + RenewEvery < ltime + LockTTL
  BY <1>c, <1>t
\* A leader that was not robbed holds the lock.
<1>h. ASSUME NEW j \in Instance, Leads(j), ~member[j].robbed
      PROVE  Held /\ lock.value = member[j].value
  <2>1. member[j].renewAt \in Nat /\ lock.until \in Nat
    BY <1>c, <1>t DEF Session
  <2>2. QED
    BY <1>h, <1>t, <2>1 DEF LockInv, LeadersHoldLock, Held
\* Whoever shares the lock's value with such a leader is that leader.
<1>v. ASSUME NEW i \in Instance, NEW j \in Instance, j # i, Leads(j), ~member[j].robbed,
             member[i].pc # "out"
      PROVE  lock.value # member[i].value
  BY <1>h, <1>v DEF LockInv, ValuesUnique, Leads
<1>1. CASE LockTick
  <2>1. ltime' = ltime + 1 /\ UNCHANGED <<lock, member, sessionCount, mishaps>>
        /\ ltime < LockHorizon
    BY <1>1 DEF LockTick
  <2>2. LockTypeOK'
    BY <1>c, <1>t, <2>1 DEF LockInv, LockTypeOK
  <2>3. ValuesUnique'
    BY <2>1 DEF LockInv, ValuesUnique
  <2>4. ASSUME NEW i \in Instance, Leads(i)', ~member'[i].robbed
        PROVE  /\ lock'.value = member'[i].value
               /\ ltime' <= member'[i].renewAt /\ member'[i].renewAt < lock'.until
    <3>1. Leads(i) /\ ~member[i].robbed
      BY <2>1, <2>4 DEF Leads
    <3>2. ltime < member[i].renewAt
      BY <1>1, <3>1 DEF LockTick
    <3>3. member[i].renewAt \in Nat
      BY <1>c, <1>t DEF Session
    <3>4. QED
      BY <1>t, <2>1, <3>1, <3>2, <3>3 DEF LockInv, LeadersHoldLock
  <2>5. QED
    BY <2>2, <2>3, <2>4 DEF LockInv, LeadersHoldLock
<1>2. CASE LoseLock
  <2>1. /\ lock' = [lock EXCEPT !.until = 0] /\ ltime' = ltime /\ sessionCount' = sessionCount
        /\ member' = [i \in Instance |-> IF member[i].value = lock.value
                                        THEN [member[i] EXCEPT !.robbed = TRUE] ELSE member[i]]
    BY <1>2 DEF LoseLock
  <2>2. lock' \in [value : 0..MaxSessions, until : 0..(LockHorizon + LockTTL)]
    BY <1>c, <1>t, <2>1
  <2>3. ASSUME NEW i \in Instance
        PROVE  /\ member'[i] \in Session
               /\ member'[i].pc = member[i].pc /\ member'[i].value = member[i].value
               /\ member'[i].cancelled = member[i].cancelled
               /\ ~member'[i].robbed => ~member[i].robbed /\ member[i].value # lock.value
    BY <1>t, <2>1 DEF Session
  <2>4. LockTypeOK'
    <3>1. member' \in [Instance -> Session]
      BY <2>1, <2>3
    <3>2. mishaps' \in 0..MaxLostReplies
      BY <1>2, <1>n DEF LoseLock
    <3>3. QED
      BY <1>t, <2>1, <2>2, <3>1, <3>2 DEF LockInv, LockTypeOK, Session
  <2>5. ValuesUnique'
    BY <2>1, <2>3 DEF LockInv, ValuesUnique
  <2>6. ASSUME NEW i \in Instance, Leads(i)', ~member'[i].robbed PROVE FALSE
    <3>1. Leads(i) /\ ~member[i].robbed /\ member[i].value # lock.value
      BY <2>3, <2>6 DEF Leads
    <3>2. QED
      BY <1>h, <3>1
  <2>7. QED
    BY <2>4, <2>5, <2>6 DEF LockInv, LeadersHoldLock
<1>3. ASSUME NEW i \in Instance, StartSession(i) PROVE LockInv'
  <2> DEFINE r == [Outside EXCEPT !.pc = "acquire", !.value = sessionCount + 1]
  <2>1. r \in Session /\ r.pc = "acquire" /\ r.value = sessionCount + 1
    <3>1. sessionCount + 1 \in 0..MaxSessions /\ 0 \in 0..(LockHorizon + RenewEvery)
      BY <1>3, <1>c, <1>t DEF StartSession
    <3>2. Outside \in Session
      BY <1>c, <3>1 DEF Outside, Session
    <3>3. QED
      BY <3>1, <3>2 DEF Session
  <2>2. /\ member' = [member EXCEPT ![i] = r] /\ sessionCount' = sessionCount + 1
        /\ ltime' = ltime /\ lock' = lock /\ mishaps' = mishaps
    BY <1>3 DEF StartSession
  <2>3. sessionCount' \in sessionCount..MaxSessions /\ r.value \in 1..sessionCount' /\ r.value > sessionCount
    BY <1>3, <1>c, <1>t, <2>1, <2>2 DEF StartSession
  <2> HIDE DEF r
  <2>4. QED
    BY <1>t, <2>1, <2>2, <2>3, OneSession
<1>4. ASSUME NEW i \in Instance, AcquireLeaderLock(i) PROVE LockInv'
  <2> DEFINE r == [member[i] EXCEPT !.pc = "lead", !.robbed = FALSE, !.renewAt = ltime + RenewEvery]
             q == [member[i] EXCEPT !.pc = IF i \in OneShot THEN "out" ELSE "acquire"]
  <2>1. /\ r \in Session /\ r.pc = "lead" /\ r.value = member[i].value /\ r.renewAt = ltime + RenewEvery
        /\ q \in Session /\ q.pc # "lead" /\ q.value = member[i].value
    BY <1>t, <1>u DEF Session
  <2>2. \/ member' = [member EXCEPT ![i] = r] /\ mishaps' = mishaps
        \/ member' = [member EXCEPT ![i] = q] /\ Mishap
    BY <1>4, <1>t DEF AcquireLeaderLock, Session
  <2>3. /\ lock' = [value |-> member[i].value, until |-> ltime + LockTTL]
        /\ ltime' = ltime /\ sessionCount' = sessionCount /\ ~Held /\ member[i].pc = "acquire"
    BY <1>4 DEF AcquireLeaderLock
  <2>4. lock' \in [value : 0..MaxSessions, until : 0..(LockHorizon + LockTTL)]
    BY <1>t, <1>u, <2>3 DEF Session
  <2>5. member[i].value \in 1..sessionCount'
    BY <2>3 DEF LockInv, ValuesUnique
  <2>6. \A j \in Instance : ~(Leads(j) /\ ~member[j].robbed)
    BY <1>h, <2>3
  <2>7. lock'.value = r.value /\ ltime <= r.renewAt /\ r.renewAt < lock'.until
    BY <1>u, <2>1, <2>3
  <2>8. mishaps' \in 0..MaxLostReplies
    BY <1>n, <1>t, <2>2
  <2> HIDE DEF r, q
  <2>9. CASE member' = [member EXCEPT ![i] = r]
    BY <1>s, <2>1, <2>3, <2>4, <2>5, <2>6, <2>7, <2>8, <2>9, OneSession
  <2>10. CASE member' = [member EXCEPT ![i] = q]
    BY <1>s, <2>1, <2>3, <2>4, <2>5, <2>6, <2>8, <2>10, OneSession
  <2>11. QED
    BY <2>2, <2>9, <2>10
<1>5. ASSUME NEW i \in Instance, NotAcquired(i) \/ LeaderCrash(i) PROVE LockInv'
  <2>1. Outside \in Session /\ Outside.pc = "out"
    BY <1>c DEF Outside, Session
  <2>2. /\ member' = [member EXCEPT ![i] = Outside] /\ sessionCount' = sessionCount
        /\ ltime' = ltime /\ lock' = lock /\ mishaps' = mishaps
    BY <1>5 DEF NotAcquired, LeaderCrash
  <2>3. QED
    BY <1>s, <1>t, <2>1, <2>2, OneSession
<1>6. ASSUME NEW i \in Instance, RenewLock(i) PROVE LockInv'
  <2> DEFINE r == [member[i] EXCEPT !.renewAt = ltime + RenewEvery]
             q == [member[i] EXCEPT !.cancelled = TRUE]
             mine == Held /\ lock.value = member[i].value
             longer == [lock EXCEPT !.until = ltime + LockTTL]
  <2>1. /\ r \in Session /\ r.pc = member[i].pc /\ r.value = member[i].value /\ r.renewAt = ltime + RenewEvery
        /\ q \in Session /\ q.pc = member[i].pc /\ q.value = member[i].value /\ q.cancelled
    BY <1>t, <1>u DEF Session
  <2>2. /\ longer \in [value : 0..MaxSessions, until : 0..(LockHorizon + LockTTL)]
        /\ longer.value = lock.value /\ longer.until = ltime + LockTTL
    BY <1>t, <1>u
  <2>3. member[i].pc = "lead" /\ ltime' = ltime /\ sessionCount' = sessionCount
    BY <1>6 DEF RenewLock
  <2>4. \/ /\ mine /\ lock' = longer
           /\ \/ member' = [member EXCEPT ![i] = r] /\ mishaps' = mishaps
              \/ member' = [member EXCEPT ![i] = q] /\ Mishap
        \/ /\ lock' = lock /\ member' = [member EXCEPT ![i] = q]
           /\ mishaps' = mishaps \/ Mishap
    BY <1>6, <1>t DEF RenewLock, RenewFails, Session
  <2>5. member[i].value \in 1..sessionCount'
    BY <2>3 DEF LockInv, ValuesUnique
  <2>6. ASSUME mine, NEW j \in Instance, j # i, Leads(j), ~member[j].robbed PROVE FALSE
    BY <1>v, <2>3, <2>6
  <2>7. mishaps' \in 0..MaxLostReplies
    BY <1>n, <1>t, <2>4
  <2> HIDE DEF r, q, mine, longer
  <2>8. ASSUME mine, lock' = longer, member' = [member EXCEPT ![i] = r] PROVE LockInv'
    <3>1. lock'.value = r.value /\ ltime <= r.renewAt /\ r.renewAt < lock'.until
      BY <1>u, <2>1, <2>2, <2>8 DEF mine
    <3>2. QED
      BY <1>s, <2>1, <2>2, <2>3, <2>5, <2>6, <2>7, <2>8, <3>1, OneSession
  <2>9. ASSUME mine, lock' = longer, member' = [member EXCEPT ![i] = q] PROVE LockInv'
    BY <1>s, <2>1, <2>2, <2>3, <2>5, <2>6, <2>7, <2>9, OneSession
  <2>10. ASSUME lock' = lock, member' = [member EXCEPT ![i] = q] PROVE LockInv'
    BY <1>s, <1>t, <2>1, <2>3, <2>5, <2>7, <2>10, OneSession
  <2>11. QED
    BY <2>4, <2>8, <2>9, <2>10
<1>7. ASSUME NEW i \in Instance, RunReturns(i) PROVE LockInv'
  <2> DEFINE q == [member[i] EXCEPT !.pc = "close", !.cancelled = TRUE]
  <2>1. q \in Session /\ q.pc = "close" /\ q.value = member[i].value
    BY <1>t DEF Session
  <2>2. /\ member' = [member EXCEPT ![i] = q] /\ sessionCount' = sessionCount
        /\ ltime' = ltime /\ lock' = lock /\ mishaps' = mishaps /\ member[i].pc = "lead"
    BY <1>7, <1>t DEF RunReturns, Session
  <2>3. member[i].value \in 1..sessionCount'
    BY <2>2 DEF LockInv, ValuesUnique
  <2> HIDE DEF q
  <2>4. QED
    BY <1>s, <1>t, <2>1, <2>2, <2>3, OneSession
<1>8. ASSUME NEW i \in Instance, CloseSession(i) PROVE LockInv'
  <2>1. Outside \in Session /\ Outside.pc = "out"
    BY <1>c DEF Outside, Session
  <2>2. /\ member' = [member EXCEPT ![i] = Outside] /\ member[i].pc = "close"
        /\ ltime' = ltime /\ sessionCount' = sessionCount
        /\ mishaps' = mishaps \/ Mishap
        /\ \/ lock' = lock
           \/ lock' = [lock EXCEPT !.until = 0] /\ lock.value = member[i].value
    BY <1>8 DEF CloseSession, ReleaseLock
  <2>3. [lock EXCEPT !.until = 0] \in [value : 0..MaxSessions, until : 0..(LockHorizon + LockTTL)]
    BY <1>c, <1>t
  <2>4. \A j \in Instance : j # i /\ Leads(j) /\ ~member[j].robbed => lock' = lock
    BY <1>v, <2>2
  <2>5. mishaps' \in 0..MaxLostReplies
    BY <1>n, <1>t, <2>2
  <2>6. QED
    BY <1>s, <1>t, <2>1, <2>2, <2>3, <2>4, <2>5, OneSession
<1>9. CASE UNCHANGED lockVars
  BY <1>9 DEF lockVars, LockInv, LockTypeOK, ValuesUnique, LeadersHoldLock, Leads
<1>10. QED
  BY <1>1, <1>2, <1>3, <1>4, <1>5, <1>6, <1>7, <1>8, <1>9 DEF LockNext

\* The types and the parts of the invariant hold in every state.
LEMMA LockInvHolds ==
    ASSUME LockConstants
    PROVE  LockSpec => []LockInv
<1>1. LockInit => LockInv
  <2> SUFFICES ASSUME LockInit PROVE LockInv
    OBVIOUS
  <2>1. \A i \in Instance : member[i] = Outside
    BY DEF LockInit
  <2>2. LockTypeOK
    BY DEF LockInit, LockTypeOK, Outside, LockConstants
  <2>3. ValuesUnique /\ LeadersHoldLock
    BY <2>1 DEF ValuesUnique, LeadersHoldLock, Leads, Outside
  <2>4. QED
    BY <2>2, <2>3 DEF LockInv
<1>2. LockInv /\ [LockNext]_lockVars => LockInv'
  BY LockInvStep
<1>3. QED
  BY <1>1, <1>2, PTL DEF LockSpec

\* Two instances never both believe they lead, through expiry, lost replies,
\* late releases and crashes, unless Redis itself lost the key of one of them
\* (acquireLeaderLock, renewLoop, leaderSession.Close).
THEOREM OnlyOneLeads ==
    ASSUME LockConstants
    PROVE  LockSpec => []SoleActiveLeader
<1>1. LockInv => SoleActiveLeader
  <2> SUFFICES ASSUME LockInv, NEW i \in Instance, NEW j \in Instance, i # j,
                      Leads(i), Leads(j), ~member[i].robbed, ~member[j].robbed
               PROVE  FALSE
    BY DEF SoleActiveLeader
  <2>1. lock.value = member[i].value /\ lock.value = member[j].value
    BY DEF LockInv, LeadersHoldLock
  <2>2. QED
    BY <2>1 DEF LockInv, ValuesUnique, Leads
<1>2. QED
  BY <1>1, LockInvHolds, PTL

-----------------------------------------------------------------------------
(* GeoLite databases: the inductive invariant.                             *)

GeoSteps == {"off", "idle", "get", "write", "reload", "reloading", "download", "read", "set", "publish"}
GeoProgress == [step : GeoSteps, file : Edition, data : Nat, updated : BOOLEAN]
CopySteps == {"off", "idle", "get", "write", "reload", "reloading"}
UpdateSteps == {"off", "idle", "download", "reload", "reloading", "read", "set", "publish"}

GeoTyped ==
    /\ geoDisk \in [GeoServer -> [Edition -> Nat]]
    /\ geoReaders \in [GeoServer -> [Edition -> Nat]]
    /\ geoStore \in [Edition -> Nat]
    /\ geoTask \in [GeoServer -> [GeoRoutine -> GeoProgress]]
    /\ geoPending \in [GeoServer -> Nat] /\ updates \in Nat
    /\ geoListening \subseteq GeoServer /\ geoInformed \subseteq GeoServer

\* What a goroutine r in state t hands on, on an instance with files D, is a
\* database: no version is 0 once it is about to be written, stored or
\* published.  S is what Redis holds, u the number of updates.
Whole(r, t, D, S, u) ==
    /\ t.step \in IF r = "update" THEN UpdateSteps ELSE CopySteps
    /\ t.step = "write" => t.data # 0
    /\ t.step = "reloading" /\ t.data # 0 => D["country"] # 0
    /\ t.step = "download" => u # 0
    /\ t.step \in {"read", "set", "publish"} => D["asn"] # 0 /\ D["country"] # 0
    /\ t.step = "set" => t.data # 0
    /\ t.step \in {"read", "set"} /\ t.file = "country" => S["asn"] # 0
    /\ t.step = "publish" => S["asn"] # 0 /\ S["country"] # 0

\* How far the handler h, which began after the last notification, has brought
\* the files D and the readers R to what Redis holds, S.
HandlerCurrent(h, D, R, S) ==
    /\ h.step = "idle" => R = S
    /\ h.step \in {"get", "write"} /\ h.file = "country" => D["asn"] = S["asn"]
    /\ h.step = "write" => h.data = S[h.file]
    /\ h.step \in {"reload", "reloading"} => D["asn"] = S["asn"] /\ D["country"] = S["country"]
    /\ h.step = "reloading" => h.data = S["country"]

\* On an instance that must be brought up to date only the handler runs, and it
\* is current unless another notification waits.
Follows(T, D, R, S, pending) ==
    /\ T["initial"].step = "idle" /\ T["update"].step = "idle" /\ T["handler"].step # "off"
    /\ S["asn"] # 0 /\ S["country"] # 0
    /\ pending = 0 => HandlerCurrent(T["handler"], D, R, S)

HearsUpdates(T) == T["initial"].step # "off" /\ T["handler"].step # "off"

InstanceInv(n) ==
    /\ \A r \in GeoRoutine : Whole(r, geoTask[n][r], geoDisk[n], geoStore, updates)
    /\ n \in geoListening => HearsUpdates(geoTask[n])
    /\ n \in geoInformed => Follows(geoTask[n], geoDisk[n], geoReaders[n], geoStore, geoPending[n])

GeoInv == GeoTyped /\ \A n \in GeoServer : InstanceInv(n)

-----------------------------------------------------------------------------
(* Lemmas.                                                                 *)

\* What a step of one instance n leaves to show about its new goroutines T,
\* files D, readers R and number p of notifications.
LEMMA OneInstance ==
    ASSUME GeoInv, NEW n \in GeoServer, NEW T \in [GeoRoutine -> GeoProgress],
           NEW D \in [Edition -> Nat], NEW R \in [Edition -> Nat], NEW p \in Nat,
           geoTask' = [geoTask EXCEPT ![n] = T], geoDisk' = [geoDisk EXCEPT ![n] = D],
           geoReaders' = [geoReaders EXCEPT ![n] = R], geoPending' = [geoPending EXCEPT ![n] = p],
           geoStore' = geoStore, updates' \in {updates, updates + 1},
           geoListening' \subseteq geoListening \cup {n}, geoInformed' \subseteq geoInformed,
           \A r \in GeoRoutine : Whole(r, T[r], D, geoStore, updates'),
           n \in geoListening' => HearsUpdates(T),
           n \in geoInformed' => Follows(T, D, R, geoStore, p)
    PROVE  GeoInv'
<1>1. GeoTyped' /\ (updates # 0 => updates' # 0)
  BY DEF GeoInv, GeoTyped
<1>2. ASSUME NEW k \in GeoServer PROVE InstanceInv(k)'
  <2>1. CASE k = n
    <3>1. geoTask'[k] = T /\ geoDisk'[k] = D /\ geoReaders'[k] = R /\ geoPending'[k] = p
      BY <2>1 DEF GeoInv, GeoTyped
    <3>2. QED
      BY <2>1, <3>1 DEF InstanceInv
  <2>2. CASE k # n
    <3>1. /\ geoTask'[k] = geoTask[k] /\ geoDisk'[k] = geoDisk[k]
          /\ geoReaders'[k] = geoReaders[k] /\ geoPending'[k] = geoPending[k]
      BY <2>2 DEF GeoInv, GeoTyped
    <3>2. InstanceInv(k) /\ (k \in geoListening' => k \in geoListening)
      BY <2>2 DEF GeoInv
    <3>3. ASSUME NEW r \in GeoRoutine PROVE Whole(r, geoTask[k][r], geoDisk[k], geoStore, updates')
      <4>1. Whole(r, geoTask[k][r], geoDisk[k], geoStore, updates)
        BY <3>2 DEF InstanceInv
      <4>2. QED
        BY <1>1, <4>1 DEF Whole
    <3>4. QED
      BY <3>1, <3>2, <3>3 DEF InstanceInv
  <2>3. QED
    BY <2>1, <2>2
<1>3. QED
  BY <1>1, <1>2 DEF GeoInv

\* One goroutine moves.
LEMMA OneRoutine ==
    ASSUME GeoTyped, NEW n \in GeoServer, NEW r \in GeoRoutine, NEW t \in GeoProgress, GeoGoto(n, r, t)
    PROVE  \E T \in [GeoRoutine -> GeoProgress] :
              /\ geoTask' = [geoTask EXCEPT ![n] = T]
              /\ T[r] = t /\ \A q \in GeoRoutine \ {r} : T[q] = geoTask[n][q]
<1> DEFINE T == [geoTask[n] EXCEPT ![r] = t]
<1>1. geoTask' = [geoTask EXCEPT ![n] = T] /\ T \in [GeoRoutine -> GeoProgress]
  BY DEF GeoTyped, GeoGoto
<1>2. T[r] = t /\ \A q \in GeoRoutine \ {r} : T[q] = geoTask[n][q]
  BY DEF GeoTyped
<1> HIDE DEF T
<1>3. QED
  BY <1>1, <1>2

\* The other goroutines stay whole when files are written and updates begin.
LEMMA OthersWhole ==
    ASSUME GeoInv, NEW n \in GeoServer, NEW r \in GeoRoutine, NEW T \in [GeoRoutine -> GeoProgress],
           NEW D \in [Edition -> Nat], NEW u \in Nat,
           \A q \in GeoRoutine \ {r} : T[q] = geoTask[n][q],
           geoDisk[n]["asn"] # 0 => D["asn"] # 0, geoDisk[n]["country"] # 0 => D["country"] # 0,
           updates # 0 => u # 0, Whole(r, T[r], D, geoStore, u)
    PROVE  \A q \in GeoRoutine : Whole(q, T[q], D, geoStore, u)
<1>1. ASSUME NEW q \in GeoRoutine, q # r PROVE Whole(q, T[q], D, geoStore, u)
  <2>1. Whole(q, geoTask[n][q], geoDisk[n], geoStore, updates) /\ T[q] = geoTask[n][q]
    BY <1>1 DEF GeoInv, InstanceInv
  <2>2. QED
    BY <2>1 DEF Whole
<1>2. QED
  BY <1>1

\* States of a goroutine.
LEMMA GeoStates ==
    /\ GeoOff \in GeoProgress /\ GeoOff.step = "off" /\ GeoIdle \in GeoProgress /\ GeoIdle.step = "idle"
    /\ \A step \in GeoSteps : LET t == [GeoOff EXCEPT !.step = step]
                              IN  t \in GeoProgress /\ t.step = step /\ t.file = "asn" /\ t.data = 0
    /\ \A step \in GeoSteps : LET t == [GeoIdle EXCEPT !.step = step]
                              IN  t \in GeoProgress /\ t.step = step /\ t.file = "asn" /\ t.data = 0
BY DEF GeoOff, GeoIdle, GeoProgress, GeoSteps, Edition

\* The loop over the editions.
LEMMA EditionLoop ==
    ASSUME NEW t \in GeoProgress, NEW again \in GeoSteps, NEW after \in GeoSteps
    PROVE  LET u == NextEdition(t, again, after)
           IN  /\ u \in GeoProgress /\ u.data = 0 /\ u.updated = t.updated
               /\ t.file = "asn" => u.step = again /\ u.file = "country"
               /\ t.file # "asn" => u.step = after /\ u.file = "asn"
BY DEF NextEdition, GeoProgress, Edition

\* Whoever must be brought up to date and has something to do is the handler.
LEMMA HandlerOnly ==
    ASSUME GeoInv, NEW n \in geoInformed, n \in GeoServer, NEW r \in GeoRoutine, geoTask[n][r].step # "idle"
    PROVE  r = "handler"
BY DEF GeoInv, InstanceInv, Follows, GeoRoutine

\* The handler h moves, with files D and readers R, and stays current.
LEMMA HandlerFollows ==
    ASSUME GeoInv, NEW n \in geoInformed, n \in GeoServer, NEW T \in [GeoRoutine -> GeoProgress],
           \A q \in GeoRoutine \ {"handler"} : T[q] = geoTask[n][q], T["handler"].step # "off",
           NEW D, NEW R, NEW p, p = 0 => HandlerCurrent(T["handler"], D, R, geoStore)
    PROVE  Follows(T, D, R, geoStore, p)
BY DEF GeoInv, InstanceInv, Follows, GeoRoutine

\* What is the same for every move of goroutine r that is not switched on or off.
LEMMA StaysSubscribed ==
    ASSUME GeoInv, NEW n \in GeoServer, NEW r \in GeoRoutine, NEW T \in [GeoRoutine -> GeoProgress],
           \A q \in GeoRoutine \ {r} : T[q] = geoTask[n][q], T[r].step # "off"
    PROVE  n \in geoListening => HearsUpdates(T)
BY DEF GeoInv, InstanceInv, HearsUpdates, GeoRoutine

\* Variables that a step of instance n does not touch, as updates at n.
LEMMA Untouched ==
    ASSUME GeoTyped, NEW n \in GeoServer
    PROVE  /\ geoDisk = [geoDisk EXCEPT ![n] = geoDisk[n]] /\ geoDisk[n] \in [Edition -> Nat]
           /\ geoReaders = [geoReaders EXCEPT ![n] = geoReaders[n]] /\ geoReaders[n] \in [Edition -> Nat]
           /\ geoPending = [geoPending EXCEPT ![n] = geoPending[n]] /\ geoPending[n] \in Nat
           /\ geoTask[n] \in [GeoRoutine -> GeoProgress] /\ updates \in Nat
           /\ \A r \in GeoRoutine : geoTask[n][r] \in GeoProgress
           /\ geoDisk[n]["asn"] \in Nat /\ geoDisk[n]["country"] \in Nat
BY DEF GeoTyped, Edition

\* What a step of goroutine r of instance n to state t leaves to show.
LEMMA RoutineMoves ==
    ASSUME GeoInv, NEW n \in GeoServer, NEW r \in GeoRoutine, NEW t \in GeoProgress, GeoGoto(n, r, t),
           t.step # "off", NEW D \in [Edition -> Nat], NEW R \in [Edition -> Nat], NEW p \in Nat,
           geoDisk' = [geoDisk EXCEPT ![n] = D], geoReaders' = [geoReaders EXCEPT ![n] = R],
           geoPending' = [geoPending EXCEPT ![n] = p],
           geoStore' = geoStore, updates' \in {updates, updates + 1},
           geoListening' \subseteq geoListening, geoInformed' \subseteq geoInformed,
           geoDisk[n]["asn"] # 0 => D["asn"] # 0, geoDisk[n]["country"] # 0 => D["country"] # 0,
           Whole(r, t, D, geoStore, updates'),
           n \in geoInformed' => r = "handler" /\ (p = 0 => HandlerCurrent(t, D, R, geoStore))
    PROVE  GeoInv'
<1>1. PICK T \in [GeoRoutine -> GeoProgress] :
          /\ geoTask' = [geoTask EXCEPT ![n] = T]
          /\ T[r] = t /\ \A q \in GeoRoutine \ {r} : T[q] = geoTask[n][q]
  BY OneRoutine DEF GeoInv
<1>2. updates' \in Nat /\ (updates # 0 => updates' # 0)
  BY DEF GeoInv, GeoTyped
<1>3. \A q \in GeoRoutine : Whole(q, T[q], D, geoStore, updates')
  BY <1>1, <1>2, OthersWhole
<1>4. n \in geoListening' => HearsUpdates(T)
  BY <1>1, StaysSubscribed
<1>5. ASSUME n \in geoInformed' PROVE Follows(T, D, R, geoStore, p)
  <2>1. n \in geoInformed /\ r = "handler" /\ T["handler"] = t
    BY <1>1, <1>5
  <2>2. QED
    BY <1>1, <1>5, <2>1, HandlerFollows
<1>6. QED
  BY <1>1, <1>3, <1>4, <1>5, OneInstance

\* The same for a step that changes nothing but the goroutine.
LEMMA OnlyRoutineMoves ==
    ASSUME GeoInv, NEW n \in GeoServer, NEW r \in GeoRoutine, NEW t \in GeoProgress, GeoGoto(n, r, t),
           t.step # "off", updates' \in {updates, updates + 1}, geoInformed' \subseteq geoInformed,
           UNCHANGED <<geoDisk, geoReaders, geoStore, geoPending, geoListening>>,
           Whole(r, t, geoDisk[n], geoStore, updates'),
           n \in geoInformed' => /\ r = "handler"
                                 /\ geoPending[n] = 0 =>
                                      HandlerCurrent(t, geoDisk[n], geoReaders[n], geoStore)
    PROVE  GeoInv'
<1>1. /\ geoDisk = [geoDisk EXCEPT ![n] = geoDisk[n]] /\ geoDisk[n] \in [Edition -> Nat]
      /\ geoReaders = [geoReaders EXCEPT ![n] = geoReaders[n]] /\ geoReaders[n] \in [Edition -> Nat]
      /\ geoPending = [geoPending EXCEPT ![n] = geoPending[n]] /\ geoPending[n] \in Nat
  BY Untouched DEF GeoInv
<1>2. QED
  BY <1>1, RoutineMoves

\* What the invariant says of an instance and of one goroutine.
LEMMA RoutineInv ==
    ASSUME GeoInv, NEW n \in GeoServer, NEW r \in GeoRoutine
    PROVE  /\ geoTask[n][r] \in GeoProgress
           /\ Whole(r, geoTask[n][r], geoDisk[n], geoStore, updates)
           /\ n \in geoInformed =>
                 /\ geoTask[n][r].step # "idle" => r = "handler"
                 /\ geoStore["asn"] # 0 /\ geoStore["country"] # 0
                 /\ r = "handler" /\ geoPending[n] = 0 =>
                      HandlerCurrent(geoTask[n][r], geoDisk[n], geoReaders[n], geoStore)
<1>1. geoTask[n][r] \in GeoProgress /\ InstanceInv(n)
  BY DEF GeoInv, GeoTyped
<1>2. QED
  BY <1>1 DEF InstanceInv, Follows, GeoRoutine

-----------------------------------------------------------------------------
(* Copying from Redis.                                                     *)

LEMMA EnableDistributionKeeps ==
    ASSUME GeoInv, NEW n \in GeoServer, EnableDistribution(n)
    PROVE  GeoInv'
<1> DEFINE T == [r \in GeoRoutine |-> IF r = "initial" THEN [GeoOff EXCEPT !.step = "get"]
                                      ELSE IF r = "update" THEN GeoIdle ELSE GeoOff]
<1>1. /\ geoTask[n]["initial"].step = "off" /\ geoTask' = [geoTask EXCEPT ![n] = T]
      /\ UNCHANGED <<geoDisk, geoReaders, geoStore, geoPending, geoListening, updates, geoInformed>>
  BY DEF EnableDistribution, GeoAt
<1>2. [GeoOff EXCEPT !.step = "get"] \in GeoProgress /\ [GeoOff EXCEPT !.step = "get"].step = "get"
  BY DEF GeoOff, GeoProgress, GeoSteps, Edition
<1>3. /\ T \in [GeoRoutine -> GeoProgress] /\ T["initial"].step = "get"
      /\ T["update"].step = "idle" /\ T["handler"].step = "off"
  BY <1>2, GeoStates DEF GeoRoutine
<1> HIDE DEF T
<1>4. n \notin geoListening /\ n \notin geoInformed
  BY <1>1 DEF GeoInv, InstanceInv, HearsUpdates, Follows
<1>5. ASSUME NEW r \in GeoRoutine PROVE Whole(r, T[r], geoDisk[n], geoStore, updates')
  BY <1>3 DEF Whole, GeoRoutine, CopySteps, UpdateSteps
<1>6. /\ geoDisk = [geoDisk EXCEPT ![n] = geoDisk[n]] /\ geoDisk[n] \in [Edition -> Nat]
      /\ geoReaders = [geoReaders EXCEPT ![n] = geoReaders[n]] /\ geoReaders[n] \in [Edition -> Nat]
      /\ geoPending = [geoPending EXCEPT ![n] = geoPending[n]] /\ geoPending[n] \in Nat
  BY Untouched DEF GeoInv
<1>7. QED
  BY <1>1, <1>3, <1>4, <1>5, <1>6, OneInstance

LEMMA SubscribeGeoKeeps ==
    ASSUME GeoInv, NEW n \in GeoServer, SubscribeGeo(n)
    PROVE  GeoInv'
<1>1. /\ geoTask[n]["initial"].step # "off" /\ geoTask[n]["handler"].step = "off"
      /\ GeoGoto(n, "handler", GeoIdle) /\ geoListening' = geoListening \cup {n} /\ "handler" \in GeoRoutine
      /\ UNCHANGED <<geoDisk, geoReaders, geoStore, geoPending, updates, geoInformed>>
  BY DEF SubscribeGeo, GeoAt, GeoRoutine
<1>2. PICK T \in [GeoRoutine -> GeoProgress] :
          /\ geoTask' = [geoTask EXCEPT ![n] = T]
          /\ T["handler"] = GeoIdle /\ \A q \in GeoRoutine \ {"handler"} : T[q] = geoTask[n][q]
  BY <1>1, GeoStates, OneRoutine DEF GeoInv
<1>3. n \notin geoInformed
  BY <1>1 DEF GeoInv, InstanceInv, Follows
<1>4. HearsUpdates(T)
  BY <1>1, <1>2, GeoStates DEF HearsUpdates, GeoRoutine
<1>5. /\ geoDisk = [geoDisk EXCEPT ![n] = geoDisk[n]] /\ geoDisk[n] \in [Edition -> Nat]
      /\ geoReaders = [geoReaders EXCEPT ![n] = geoReaders[n]] /\ geoReaders[n] \in [Edition -> Nat]
      /\ geoPending = [geoPending EXCEPT ![n] = geoPending[n]] /\ geoPending[n] \in Nat /\ updates \in Nat
  BY Untouched DEF GeoInv
<1>6. Whole("handler", T["handler"], geoDisk[n], geoStore, updates)
  BY <1>2, GeoStates DEF Whole, CopySteps
<1>7. \A q \in GeoRoutine : Whole(q, T[q], geoDisk[n], geoStore, updates)
  BY <1>1, <1>2, <1>5, <1>6, OthersWhole
<1>8. /\ updates' \in {updates, updates + 1} /\ geoInformed' \subseteq geoInformed /\ n \notin geoInformed'
      /\ geoListening' \subseteq geoListening \cup {n}
      /\ \A q \in GeoRoutine : Whole(q, T[q], geoDisk[n], geoStore, updates')
  BY <1>1, <1>3, <1>7
<1>9. /\ geoTask' = [geoTask EXCEPT ![n] = T] /\ geoDisk' = [geoDisk EXCEPT ![n] = geoDisk[n]]
      /\ geoReaders' = [geoReaders EXCEPT ![n] = geoReaders[n]]
      /\ geoPending' = [geoPending EXCEPT ![n] = geoPending[n]] /\ geoStore' = geoStore
      /\ geoDisk[n] \in [Edition -> Nat] /\ geoReaders[n] \in [Edition -> Nat] /\ geoPending[n] \in Nat
  BY <1>1, <1>2, <1>5
<1>10. QED
  BY <1>4, <1>8, <1>9, OneInstance

LEMMA ReceiveGeoKeeps ==
    ASSUME GeoInv, NEW n \in GeoServer, ReceiveGeo(n)
    PROVE  GeoInv'
<1> DEFINE t == [GeoOff EXCEPT !.step = "get"]
<1>1. /\ geoPending[n] > 0 /\ geoPending' = [geoPending EXCEPT ![n] = geoPending[n] - 1]
      /\ GeoGoto(n, "handler", t) /\ "handler" \in GeoRoutine
      /\ UNCHANGED <<geoDisk, geoReaders, geoStore, geoListening, updates, geoInformed>>
  BY DEF ReceiveGeo, GeoRoutine
<1>2. t \in GeoProgress /\ t.step = "get" /\ t.file = "asn"
  BY DEF GeoOff, GeoProgress, GeoSteps, Edition
<1> HIDE DEF t
<1>3. /\ geoDisk = [geoDisk EXCEPT ![n] = geoDisk[n]] /\ geoDisk[n] \in [Edition -> Nat]
      /\ geoReaders = [geoReaders EXCEPT ![n] = geoReaders[n]] /\ geoReaders[n] \in [Edition -> Nat]
      /\ geoPending[n] \in Nat
  BY Untouched DEF GeoInv
<1>4. geoPending[n] - 1 \in Nat
  BY <1>1, <1>3
<1>5. Whole("handler", t, geoDisk[n], geoStore, updates')
  BY <1>2 DEF Whole, CopySteps
<1>6. HandlerCurrent(t, geoDisk[n], geoReaders[n], geoStore)
  BY <1>2 DEF HandlerCurrent
<1>7. QED
  BY <1>1, <1>2, <1>3, <1>4, <1>5, <1>6, RoutineMoves

LEMMA FetchGeoKeeps ==
    ASSUME GeoInv, NEW n \in GeoServer, NEW r \in GeoRoutine, FetchGeo(n, r)
    PROVE  GeoInv'
<1> DEFINE t == geoTask[n][r]
           after == IF t.updated THEN "reload" ELSE "idle"
           next == NextEdition(t, "get", after)
           fetched == [t EXCEPT !.step = "write", !.data = geoStore[t.file]]
           u == IF geoStore[t.file] = 0 THEN next ELSE fetched
<1>1. /\ r # "update" /\ t.step = "get" /\ GeoGoto(n, r, u)
      /\ UNCHANGED <<geoDisk, geoReaders, geoStore, geoPending, geoListening, updates, geoInformed>>
  BY DEF FetchGeo, GeoAt
<1>2. /\ t \in GeoProgress /\ after \in {"reload", "idle"}
      /\ n \in geoInformed =>
            /\ r = "handler" /\ geoStore["asn"] # 0 /\ geoStore["country"] # 0
            /\ geoPending[n] = 0 => HandlerCurrent(t, geoDisk[n], geoReaders[n], geoStore)
  BY <1>1, RoutineInv
<1> HIDE DEF t, after
<1>3. t.file \in {"asn", "country"} /\ geoStore[t.file] \in Nat
  BY <1>2 DEF GeoProgress, Edition, GeoInv, GeoTyped
<1>4. CASE geoStore[t.file] = 0
  <2>1. /\ next \in GeoProgress
        /\ next.step \in {"get", "reload", "idle"} /\ next.step # "off"
    <3>1. "get" \in GeoSteps /\ after \in GeoSteps
      BY <1>2 DEF GeoSteps
    <3>2. QED
      BY <1>2, <3>1, EditionLoop
  <2>2. GeoGoto(n, r, next)
    BY <1>1, <1>4
  <2> HIDE DEF next
  <2>3. Whole(r, next, geoDisk[n], geoStore, updates')
    BY <1>1, <2>1 DEF Whole, CopySteps
  <2>4. n \notin geoInformed
    BY <1>2, <1>3, <1>4
  <2>5. QED
    BY <1>1, <2>1, <2>2, <2>3, <2>4, OnlyRoutineMoves
<1>5. CASE geoStore[t.file] # 0
  <2>1. /\ fetched \in GeoProgress /\ fetched.step = "write"
        /\ fetched.file = t.file /\ fetched.data = geoStore[t.file]
    BY <1>2, <1>3 DEF GeoProgress, GeoSteps
  <2>2. GeoGoto(n, r, fetched)
    BY <1>1, <1>5
  <2> HIDE DEF fetched
  <2>3. Whole(r, fetched, geoDisk[n], geoStore, updates')
    BY <1>1, <1>5, <2>1 DEF Whole, CopySteps
  <2>4. ASSUME n \in geoInformed, geoPending[n] = 0
        PROVE  HandlerCurrent(fetched, geoDisk[n], geoReaders[n], geoStore)
    BY <1>1, <1>2, <2>1, <2>4 DEF HandlerCurrent
  <2>5. QED
    BY <1>1, <1>2, <2>1, <2>2, <2>3, <2>4, OnlyRoutineMoves
<1>6. QED
  BY <1>4, <1>5

LEMMA WriteGeoKeeps ==
    ASSUME GeoInv, NEW n \in GeoServer, NEW r \in GeoRoutine, WriteGeo(n, r)
    PROVE  GeoInv'
<1> DEFINE t == geoTask[n][r]
           done == [t EXCEPT !.updated = TRUE]
           u == NextEdition(done, "get", "reload")
           D == [geoDisk[n] EXCEPT ![t.file] = t.data]
<1>1. /\ t.step = "write" /\ GeoGoto(n, r, u)
      /\ geoDisk' = [geoDisk EXCEPT ![n][t.file] = t.data]
      /\ UNCHANGED <<geoReaders, geoStore, geoPending, geoListening, updates, geoInformed>>
  BY DEF WriteGeo, GeoAt
<1>2. /\ t \in GeoProgress /\ Whole(r, t, geoDisk[n], geoStore, updates)
      /\ n \in geoInformed =>
            /\ r = "handler"
            /\ geoPending[n] = 0 => HandlerCurrent(t, geoDisk[n], geoReaders[n], geoStore)
  BY <1>1, RoutineInv
<1> HIDE DEF t
<1>3. /\ t.file \in {"asn", "country"} /\ t.data \in Nat /\ t.data # 0 /\ r # "update"
      /\ done \in GeoProgress /\ done.file = t.file
  BY <1>1, <1>2 DEF GeoProgress, Edition, Whole, UpdateSteps
<1> HIDE DEF done
<1>4. /\ u \in GeoProgress /\ u.step # "off"
      /\ t.file = "asn" => u.step = "get" /\ u.file = "country"
      /\ t.file # "asn" => u.step = "reload"
  <2>1. "get" \in GeoSteps /\ "reload" \in GeoSteps
    BY DEF GeoSteps
  <2>2. QED
    BY <1>3, <2>1, EditionLoop
<1> HIDE DEF u
<1>5. /\ geoReaders = [geoReaders EXCEPT ![n] = geoReaders[n]] /\ geoReaders[n] \in [Edition -> Nat]
      /\ geoPending = [geoPending EXCEPT ![n] = geoPending[n]] /\ geoPending[n] \in Nat
      /\ geoDisk[n] \in [Edition -> Nat]
  BY Untouched DEF GeoInv
<1>6. geoDisk' = [geoDisk EXCEPT ![n] = D] /\ D \in [Edition -> Nat]
  BY <1>1, <1>3, <1>5 DEF GeoInv, GeoTyped
<1>7. /\ D[t.file] = t.data /\ \A f \in Edition \ {t.file} : D[f] = geoDisk[n][f]
  BY <1>3, <1>5 DEF Edition
<1> HIDE DEF D
<1>8. /\ geoDisk[n]["asn"] # 0 => D["asn"] # 0
      /\ geoDisk[n]["country"] # 0 => D["country"] # 0
  BY <1>3, <1>7 DEF Edition
<1>9. Whole(r, u, D, geoStore, updates')
  BY <1>3, <1>4 DEF Whole, CopySteps
<1>10. ASSUME n \in geoInformed, geoPending[n] = 0 PROVE HandlerCurrent(u, D, geoReaders[n], geoStore)
  <2>1. t.data = geoStore[t.file] /\ (t.file = "country" => geoDisk[n]["asn"] = geoStore["asn"])
    BY <1>1, <1>2, <1>10 DEF HandlerCurrent
  <2>2. QED
    BY <1>3, <1>4, <1>7, <2>1 DEF HandlerCurrent, Edition
<1>11. /\ n \in geoInformed' => r = "handler" /\ (geoPending[n] = 0 => HandlerCurrent(u, D, geoReaders[n], geoStore))
       /\ updates' \in {updates, updates + 1} /\ geoInformed' \subseteq geoInformed
       /\ geoListening' \subseteq geoListening
  BY <1>1, <1>2, <1>10
<1>12. /\ GeoGoto(n, r, u) /\ geoStore' = geoStore
       /\ geoReaders' = [geoReaders EXCEPT ![n] = geoReaders[n]]
       /\ geoPending' = [geoPending EXCEPT ![n] = geoPending[n]]
       /\ geoReaders[n] \in [Edition -> Nat] /\ geoPending[n] \in Nat
  BY <1>1, <1>5
<1>13. QED
  BY <1>4, <1>6, <1>8, <1>9, <1>11, <1>12, RoutineMoves

\* A copy or an update that fails ends there, and its instance is no longer
\* expected to be current.
LEMMA GeoStepFailsKeeps ==
    ASSUME GeoInv, NEW n \in GeoServer, NEW r \in GeoRoutine, GeoStepFails(n, r)
    PROVE  GeoInv'
<1>1. /\ GeoGoto(n, r, GeoIdle) /\ geoInformed' = geoInformed \ {n} /\ updates' = updates
      /\ UNCHANGED <<geoDisk, geoReaders, geoStore, geoPending, geoListening>>
  BY DEF GeoStepFails
<1>2. Whole(r, GeoIdle, geoDisk[n], geoStore, updates')
  BY GeoStates DEF Whole, CopySteps, UpdateSteps
<1>3. QED
  BY <1>1, <1>2, GeoStates, OnlyRoutineMoves

LEMMA ReadCountryKeeps ==
    ASSUME GeoInv, NEW n \in GeoServer, NEW r \in GeoRoutine, ReadCountry(n, r)
    PROVE  GeoInv'
<1> DEFINE t == geoTask[n][r]
           u == [t EXCEPT !.step = "reloading", !.data = geoDisk[n]["country"]]
<1>1. /\ t.step = "reload" /\ GeoGoto(n, r, u)
      /\ UNCHANGED <<geoDisk, geoReaders, geoStore, geoPending, geoListening, updates, geoInformed>>
  BY DEF ReadCountry, GeoAt
<1>2. /\ t \in GeoProgress
      /\ n \in geoInformed =>
            /\ r = "handler"
            /\ geoPending[n] = 0 => HandlerCurrent(t, geoDisk[n], geoReaders[n], geoStore)
  BY <1>1, RoutineInv
<1> HIDE DEF t
<1>3. geoDisk[n]["country"] \in Nat
  BY Untouched DEF GeoInv
<1>4. u \in GeoProgress /\ u.step = "reloading" /\ u.data = geoDisk[n]["country"]
  BY <1>2, <1>3 DEF GeoProgress, GeoSteps
<1> HIDE DEF u
<1>5. Whole(r, u, geoDisk[n], geoStore, updates')
  BY <1>4 DEF Whole, CopySteps, UpdateSteps
<1>6. ASSUME n \in geoInformed, geoPending[n] = 0
      PROVE  HandlerCurrent(u, geoDisk[n], geoReaders[n], geoStore)
  BY <1>1, <1>2, <1>4, <1>6 DEF HandlerCurrent
<1>7. QED
  BY <1>1, <1>2, <1>4, <1>5, <1>6, OnlyRoutineMoves

LEMMA LoadReadersKeeps ==
    ASSUME GeoInv, NEW n \in GeoServer, NEW r \in GeoRoutine, LoadReaders(n, r)
    PROVE  GeoInv'
<1> DEFINE t == geoTask[n][r]
           asn == geoDisk[n]["asn"]
           complete == t.data # 0 /\ asn # 0
           pair == [f \in Edition |-> IF f = "asn" THEN asn ELSE t.data]
           R == IF complete THEN pair ELSE geoReaders[n]
           u == IF r = "update" /\ complete THEN [GeoIdle EXCEPT !.step = "read"] ELSE GeoIdle
<1>1. /\ t.step = "reloading" /\ GeoGoto(n, r, u)
      /\ geoReaders' = IF complete THEN [geoReaders EXCEPT ![n] = pair] ELSE geoReaders
      /\ UNCHANGED <<geoDisk, geoStore, geoPending, geoListening, updates, geoInformed>>
  BY DEF LoadReaders, GeoAt
<1>2. /\ t \in GeoProgress /\ Whole(r, t, geoDisk[n], geoStore, updates)
      /\ n \in geoInformed =>
            /\ r = "handler" /\ geoStore["asn"] # 0 /\ geoStore["country"] # 0
            /\ geoPending[n] = 0 => HandlerCurrent(t, geoDisk[n], geoReaders[n], geoStore)
  BY <1>1, RoutineInv
<1> HIDE DEF t
<1>3. /\ geoDisk = [geoDisk EXCEPT ![n] = geoDisk[n]] /\ geoDisk[n] \in [Edition -> Nat]
      /\ geoReaders = [geoReaders EXCEPT ![n] = geoReaders[n]] /\ geoReaders[n] \in [Edition -> Nat]
      /\ geoPending = [geoPending EXCEPT ![n] = geoPending[n]] /\ geoPending[n] \in Nat
      /\ asn \in Nat /\ t.data \in Nat
  BY <1>2, Untouched DEF GeoInv, GeoProgress
<1>4. geoReaders' = [geoReaders EXCEPT ![n] = R] /\ R \in [Edition -> Nat]
  BY <1>1, <1>3
<1>5. /\ u \in GeoProgress /\ u.file = "asn" /\ u.step \in {"read", "idle"}
      /\ u.step = "read" => r = "update" /\ complete
  <2>1. "read" \in GeoSteps /\ "idle" \in GeoSteps
    BY DEF GeoSteps
  <2>2. GeoIdle \in GeoProgress /\ GeoIdle.step = "idle" /\ GeoIdle.file = "asn"
    BY DEF GeoIdle, GeoOff, GeoProgress, GeoSteps, Edition
  <2>3. [GeoIdle EXCEPT !.step = "read"] \in GeoProgress /\ [GeoIdle EXCEPT !.step = "read"].step = "read"
        /\ [GeoIdle EXCEPT !.step = "read"].file = "asn"
    BY DEF GeoIdle, GeoOff, GeoProgress, GeoSteps, Edition
  <2>4. QED
    BY <2>2, <2>3
<1>6. Whole(r, u, geoDisk[n], geoStore, updates')
  BY <1>1, <1>2, <1>5 DEF Whole, CopySteps, UpdateSteps
<1>7. ASSUME n \in geoInformed, geoPending[n] = 0 PROVE HandlerCurrent(u, geoDisk[n], R, geoStore)
  <2>1. asn = geoStore["asn"] /\ t.data = geoStore["country"] /\ complete /\ u.step = "idle"
    BY <1>1, <1>2, <1>5, <1>7 DEF HandlerCurrent
  <2>2. pair = geoStore
    BY <2>1 DEF GeoInv, GeoTyped, Edition
  <2>3. QED
    BY <2>1, <2>2 DEF HandlerCurrent
<1>8. /\ n \in geoInformed' => r = "handler" /\ (geoPending[n] = 0 => HandlerCurrent(u, geoDisk[n], R, geoStore))
      /\ updates' \in {updates, updates + 1} /\ geoInformed' \subseteq geoInformed
      /\ geoListening' \subseteq geoListening /\ u.step # "off"
  BY <1>1, <1>2, <1>5, <1>7
<1> HIDE DEF u, R
<1>9. QED
  BY <1>1, <1>3, <1>4, <1>5, <1>6, <1>8, RoutineMoves

-----------------------------------------------------------------------------
(* An update.                                                              *)

LEMMA TriggerGeoUpdateKeeps ==
    ASSUME GeoInv, NEW n \in GeoServer, NEW force \in BOOLEAN, TriggerGeoUpdate(n, force)
    PROVE  GeoInv'
<1> DEFINE t == [GeoIdle EXCEPT !.step = "download"]
<1>1. /\ updates' = updates + 1 /\ GeoGoto(n, "update", t) /\ geoInformed' = geoInformed \ {n}
      /\ UNCHANGED <<geoDisk, geoReaders, geoStore, geoPending, geoListening>>
      /\ "update" \in GeoRoutine
  BY DEF TriggerGeoUpdate, GeoRoutine
<1>2. t \in GeoProgress /\ t.step = "download"
  BY DEF GeoIdle, GeoOff, GeoProgress, GeoSteps, Edition
<1> HIDE DEF t
<1>3. updates' # 0
  BY <1>1 DEF GeoInv, GeoTyped
<1>4. Whole("update", t, geoDisk[n], geoStore, updates')
  BY <1>2, <1>3 DEF Whole, UpdateSteps
<1>5. QED
  BY <1>1, <1>2, <1>4, OnlyRoutineMoves

LEMMA DownloadEditionKeeps ==
    ASSUME GeoInv, NEW n \in GeoServer, DownloadEdition(n)
    PROVE  GeoInv'
<1> DEFINE t == geoTask[n]["update"]
           u == NextEdition(t, "download", "reload")
           D == [geoDisk[n] EXCEPT ![t.file] = updates]
<1>1. /\ t.step = "download" /\ GeoGoto(n, "update", u) /\ "update" \in GeoRoutine
      /\ geoDisk' = [geoDisk EXCEPT ![n][t.file] = updates]
      /\ UNCHANGED <<geoReaders, geoStore, geoPending, geoListening, updates, geoInformed>>
  BY DEF DownloadEdition, GeoAt, GeoRoutine
<1>2. t \in GeoProgress /\ Whole("update", t, geoDisk[n], geoStore, updates) /\ n \notin geoInformed
  BY <1>1, RoutineInv
<1> HIDE DEF t
<1>3. t.file \in {"asn", "country"} /\ updates # 0 /\ updates \in Nat
  BY <1>1, <1>2 DEF GeoProgress, Edition, Whole, GeoInv, GeoTyped
<1>4. u \in GeoProgress /\ u.step \in {"download", "reload"}
  <2>1. "download" \in GeoSteps /\ "reload" \in GeoSteps
    BY DEF GeoSteps
  <2>2. QED
    BY <1>2, <2>1, EditionLoop
<1> HIDE DEF u
<1>5. /\ geoReaders = [geoReaders EXCEPT ![n] = geoReaders[n]] /\ geoReaders[n] \in [Edition -> Nat]
      /\ geoPending = [geoPending EXCEPT ![n] = geoPending[n]] /\ geoPending[n] \in Nat
      /\ geoDisk[n] \in [Edition -> Nat]
  BY Untouched DEF GeoInv
<1>6. geoDisk' = [geoDisk EXCEPT ![n] = D] /\ D \in [Edition -> Nat]
  BY <1>1, <1>3, <1>5 DEF GeoInv, GeoTyped
<1>7. /\ geoDisk[n]["asn"] # 0 => D["asn"] # 0
      /\ geoDisk[n]["country"] # 0 => D["country"] # 0
  BY <1>3, <1>5 DEF Edition
<1> HIDE DEF D
<1>8. Whole("update", u, D, geoStore, updates')
  BY <1>1, <1>3, <1>4 DEF Whole, UpdateSteps
<1>9. /\ updates' \in {updates, updates + 1} /\ geoInformed' \subseteq geoInformed /\ n \notin geoInformed'
      /\ geoListening' \subseteq geoListening /\ u.step # "off"
  BY <1>1, <1>2, <1>4
<1>10. /\ GeoGoto(n, "update", u) /\ "update" \in GeoRoutine /\ geoStore' = geoStore
       /\ geoReaders' = [geoReaders EXCEPT ![n] = geoReaders[n]]
       /\ geoPending' = [geoPending EXCEPT ![n] = geoPending[n]]
       /\ geoReaders[n] \in [Edition -> Nat] /\ geoPending[n] \in Nat
  BY <1>1, <1>5
<1>11. QED
  BY <1>4, <1>6, <1>7, <1>8, <1>9, <1>10, RoutineMoves

LEMMA ReadForPublishKeeps ==
    ASSUME GeoInv, NEW n \in GeoServer, ReadForPublish(n)
    PROVE  GeoInv'
<1> DEFINE t == geoTask[n]["update"]
           u == [t EXCEPT !.step = "set", !.data = geoDisk[n][t.file]]
<1>1. /\ t.step = "read" /\ GeoGoto(n, "update", u) /\ "update" \in GeoRoutine
      /\ UNCHANGED <<geoDisk, geoReaders, geoStore, geoPending, geoListening, updates, geoInformed>>
  BY DEF ReadForPublish, GeoAt, GeoRoutine
<1>2. t \in GeoProgress /\ Whole("update", t, geoDisk[n], geoStore, updates) /\ n \notin geoInformed
  BY <1>1, RoutineInv
<1> HIDE DEF t
<1>3. t.file \in {"asn", "country"} /\ geoDisk[n]["asn"] # 0 /\ geoDisk[n]["country"] # 0
  BY <1>1, <1>2 DEF GeoProgress, Edition, Whole
<1>4. geoDisk[n][t.file] \in Nat /\ geoDisk[n][t.file] # 0
  BY <1>3, Untouched DEF GeoInv
<1>5. u \in GeoProgress /\ u.step = "set" /\ u.data = geoDisk[n][t.file] /\ u.file = t.file
  BY <1>2, <1>4 DEF GeoProgress, GeoSteps
<1> HIDE DEF u
<1>6. Whole("update", u, geoDisk[n], geoStore, updates')
  BY <1>1, <1>2, <1>3, <1>4, <1>5 DEF Whole, UpdateSteps
<1>7. QED
  BY <1>1, <1>2, <1>5, <1>6, OnlyRoutineMoves

\* Redis is given a database; nobody is expected to be current until the next
\* notification.
LEMMA StoreGeoKeeps ==
    ASSUME GeoInv, NEW n \in GeoServer, StoreGeo(n)
    PROVE  GeoInv'
<1> DEFINE t == geoTask[n]["update"]
           u == NextEdition(t, "read", "publish")
<1>1. /\ t.step = "set" /\ GeoGoto(n, "update", u) /\ "update" \in GeoRoutine
      /\ geoStore' = [geoStore EXCEPT ![t.file] = t.data] /\ geoInformed' = {}
      /\ UNCHANGED <<geoDisk, geoReaders, geoPending, geoListening, updates>>
  BY DEF StoreGeo, GeoAt, GeoRoutine
<1>2. t \in GeoProgress /\ Whole("update", t, geoDisk[n], geoStore, updates)
  BY <1>1, RoutineInv
<1> HIDE DEF t
<1>3. t.file \in {"asn", "country"} /\ t.data \in Nat /\ t.data # 0 /\ (t.file = "country" => geoStore["asn"] # 0)
      /\ geoDisk[n]["asn"] # 0 /\ geoDisk[n]["country"] # 0
  BY <1>1, <1>2 DEF GeoProgress, Edition, Whole
<1>4. /\ u \in GeoProgress
      /\ t.file = "asn" => u.step = "read" /\ u.file = "country"
      /\ t.file # "asn" => u.step = "publish"
  <2>1. "read" \in GeoSteps /\ "publish" \in GeoSteps
    BY DEF GeoSteps
  <2>2. QED
    BY <1>2, <2>1, EditionLoop
<1> HIDE DEF u
<1>5. /\ geoStore' \in [Edition -> Nat] /\ geoStore'[t.file] # 0
      /\ geoStore["asn"] # 0 => geoStore'["asn"] # 0
      /\ geoStore["country"] # 0 => geoStore'["country"] # 0
  BY <1>1, <1>3 DEF GeoInv, GeoTyped, Edition
<1>6. PICK T \in [GeoRoutine -> GeoProgress] :
          /\ geoTask' = [geoTask EXCEPT ![n] = T]
          /\ T["update"] = u /\ \A q \in GeoRoutine \ {"update"} : T[q] = geoTask[n][q]
  BY <1>1, <1>4, OneRoutine DEF GeoInv
<1>7. GeoTyped'
  BY <1>1, <1>5, <1>6 DEF GeoInv, GeoTyped
<1>8. ASSUME NEW k \in GeoServer PROVE InstanceInv(k)'
  <2>1. InstanceInv(k) /\ geoTask'[k] = (IF k = n THEN T ELSE geoTask[k])
    BY <1>6 DEF GeoInv, GeoTyped
  <2>2. ASSUME NEW r \in GeoRoutine PROVE Whole(r, geoTask'[k][r], geoDisk[k], geoStore', updates)
    <3>1. Whole(r, geoTask[k][r], geoDisk[k], geoStore, updates)
      BY <2>1 DEF InstanceInv
    <3>2. CASE k = n /\ r = "update"
      BY <1>3, <1>4, <1>5, <1>6, <2>1, <3>2 DEF Whole, UpdateSteps
    <3>3. CASE ~(k = n /\ r = "update")
      <4>1. geoTask'[k][r] = geoTask[k][r]
        BY <1>6, <2>1, <3>3
      <4>2. QED
        BY <1>5, <3>1, <4>1 DEF Whole
    <3>4. QED
      BY <3>2, <3>3
  <2>3. k \in geoListening => HearsUpdates(geoTask'[k])
    BY <1>6, <2>1 DEF InstanceInv, HearsUpdates, GeoRoutine
  <2>4. QED
    BY <1>1, <2>2, <2>3 DEF InstanceInv
<1>9. QED
  BY <1>7, <1>8 DEF GeoInv

\* Whoever listens gets a notification, and will follow.
LEMMA PublishGeoKeeps ==
    ASSUME GeoInv, NEW n \in GeoServer, PublishGeo(n)
    PROVE  GeoInv'
<1>1. /\ geoTask[n]["update"].step = "publish" /\ GeoGoto(n, "update", GeoIdle) /\ "update" \in GeoRoutine
      /\ geoPending' = [k \in GeoServer |-> geoPending[k] + (IF k \in geoListening THEN 1 ELSE 0)]
      /\ geoInformed' = {k \in geoListening : /\ geoTask[k]["initial"].step = "idle"
                                              /\ k = n \/ geoTask[k]["update"].step = "idle"}
      /\ UNCHANGED <<geoDisk, geoReaders, geoStore, geoListening, updates>>
  BY DEF PublishGeo, NotifyInstances, GeoAt, GeoRoutine
<1>2. geoStore["asn"] # 0 /\ geoStore["country"] # 0
  BY <1>1, RoutineInv DEF Whole
<1>3. PICK T \in [GeoRoutine -> GeoProgress] :
          /\ geoTask' = [geoTask EXCEPT ![n] = T]
          /\ T["update"] = GeoIdle /\ \A q \in GeoRoutine \ {"update"} : T[q] = geoTask[n][q]
  BY <1>1, GeoStates, OneRoutine DEF GeoInv
<1>4. geoPending' \in [GeoServer -> Nat] /\ \A k \in GeoServer : k \in geoListening => geoPending'[k] # 0
  BY <1>1 DEF GeoInv, GeoTyped
<1>5. GeoTyped'
  BY <1>1, <1>3, <1>4 DEF GeoInv, GeoTyped
<1>6. ASSUME NEW k \in GeoServer PROVE InstanceInv(k)'
  <2>1. InstanceInv(k) /\ geoTask'[k] = (IF k = n THEN T ELSE geoTask[k])
    BY <1>3 DEF GeoInv, GeoTyped
  <2>2. ASSUME NEW r \in GeoRoutine PROVE Whole(r, geoTask'[k][r], geoDisk[k], geoStore, updates)
    <3>1. Whole(r, geoTask[k][r], geoDisk[k], geoStore, updates)
      BY <2>1 DEF InstanceInv
    <3>2. CASE k = n /\ r = "update"
      BY <1>3, <2>1, <3>2, GeoStates DEF Whole, UpdateSteps
    <3>3. CASE ~(k = n /\ r = "update")
      BY <1>3, <2>1, <3>1, <3>3
    <3>4. QED
      BY <3>2, <3>3
  <2>3. k \in geoListening => HearsUpdates(geoTask'[k])
    BY <1>3, <2>1 DEF InstanceInv, HearsUpdates, GeoRoutine
  <2>4. ASSUME k \in geoInformed'
        PROVE  Follows(geoTask'[k], geoDisk[k], geoReaders[k], geoStore, geoPending'[k])
    <3>1. k \in geoListening /\ geoTask[k]["initial"].step = "idle" /\ geoPending'[k] # 0
      BY <1>1, <1>4, <2>4
    <3>2. geoTask'[k]["update"].step = "idle" /\ geoTask'[k]["initial"].step = "idle"
      BY <1>1, <1>3, <2>1, <2>4, <3>1, GeoStates DEF GeoRoutine
    <3>3. geoTask'[k]["handler"].step # "off"
      BY <2>3, <3>1 DEF HearsUpdates
    <3>4. QED
      BY <1>2, <3>1, <3>2, <3>3 DEF Follows
  <2>5. QED
    BY <1>1, <2>2, <2>3, <2>4 DEF InstanceInv
<1>7. QED
  BY <1>5, <1>6 DEF GeoInv

-----------------------------------------------------------------------------
(* The surroundings.                                                       *)

LEMMA SubscriptionBreaksKeeps ==
    ASSUME GeoInv, NEW n \in GeoServer, GeoSubscriptionBreaks(n)
    PROVE  GeoInv'
<1>1. /\ geoPending' = [geoPending EXCEPT ![n] = 0] /\ geoInformed' = geoInformed \ {n}
      /\ UNCHANGED <<geoDisk, geoReaders, geoStore, geoTask, geoListening, updates>>
  BY DEF GeoSubscriptionBreaks
<1>2. GeoTyped'
  BY <1>1 DEF GeoInv, GeoTyped
<1>3. ASSUME NEW k \in GeoServer PROVE InstanceInv(k)'
  <2>1. InstanceInv(k) /\ (k # n => geoPending'[k] = geoPending[k])
    BY <1>1 DEF GeoInv, GeoTyped
  <2>2. QED
    BY <1>1, <2>1 DEF InstanceInv
<1>4. QED
  BY <1>2, <1>3 DEF GeoInv

LEMMA GeoServerRestartsKeeps ==
    ASSUME GeoInv, NEW n \in GeoServer, GeoServerRestarts(n)
    PROVE  GeoInv'
<1> DEFINE T == [r \in GeoRoutine |-> GeoOff]
<1>1. /\ geoTask' = [geoTask EXCEPT ![n] = T] /\ geoReaders' = [geoReaders EXCEPT ![n] = geoDisk[n]]
      /\ geoPending' = [geoPending EXCEPT ![n] = 0]
      /\ geoListening' = geoListening \ {n} /\ geoInformed' = geoInformed \ {n}
      /\ UNCHANGED <<geoDisk, geoStore, updates>>
  BY DEF GeoServerRestarts
<1>2. T \in [GeoRoutine -> GeoProgress] /\ \A r \in GeoRoutine : T[r].step = "off"
  BY GeoStates
<1> HIDE DEF T
<1>3. ASSUME NEW r \in GeoRoutine PROVE Whole(r, T[r], geoDisk[n], geoStore, updates')
  BY <1>2 DEF Whole, CopySteps, UpdateSteps
<1>4. geoDisk = [geoDisk EXCEPT ![n] = geoDisk[n]] /\ geoDisk[n] \in [Edition -> Nat] /\ 0 \in Nat
  BY Untouched DEF GeoInv
<1>5. /\ updates' \in {updates, updates + 1} /\ geoInformed' \subseteq geoInformed /\ n \notin geoInformed'
      /\ geoListening' \subseteq geoListening \cup {n} /\ n \notin geoListening'
  BY <1>1
<1>6. QED
  BY <1>1, <1>2, <1>3, <1>4, <1>5, OneInstance

-----------------------------------------------------------------------------
LEMMA GeoInvInit == GeoInit => GeoInv
<1> SUFFICES ASSUME GeoInit PROVE GeoInv
  OBVIOUS
<1>1. GeoTyped
  BY GeoStates DEF GeoInit, GeoTyped
<1>2. ASSUME NEW n \in GeoServer PROVE InstanceInv(n)
  <2>1. \A r \in GeoRoutine : geoTask[n][r].step = "idle"
    BY GeoStates DEF GeoInit
  <2>2. QED
    BY <2>1 DEF InstanceInv, Whole, HearsUpdates, GeoInit, CopySteps, UpdateSteps, GeoRoutine
<1>3. QED
  BY <1>1, <1>2 DEF GeoInv

LEMMA GeoInvStep ==
    ASSUME GeoInv, [GeoNext]_geoVars
    PROVE  GeoInv'
<1>1. CASE UNCHANGED geoVars
  BY <1>1 DEF geoVars, GeoInv, GeoTyped, InstanceInv
<1>2. ASSUME NEW n \in GeoServer,
             \/ EnableDistribution(n) \/ SubscribeGeo(n) \/ ReceiveGeo(n)
             \/ DownloadEdition(n) \/ ReadForPublish(n) \/ StoreGeo(n) \/ PublishGeo(n)
             \/ GeoSubscriptionBreaks(n) \/ GeoServerRestarts(n)
      PROVE  GeoInv'
  BY <1>2, EnableDistributionKeeps, SubscribeGeoKeeps, ReceiveGeoKeeps, DownloadEditionKeeps, ReadForPublishKeeps,
     StoreGeoKeeps, PublishGeoKeeps, SubscriptionBreaksKeeps, GeoServerRestartsKeeps
<1>3. ASSUME NEW n \in GeoServer, NEW r \in GeoRoutine,
             \/ FetchGeo(n, r) \/ WriteGeo(n, r) \/ GeoStepFails(n, r) \/ ReadCountry(n, r) \/ LoadReaders(n, r)
      PROVE  GeoInv'
  BY <1>3, FetchGeoKeeps, WriteGeoKeeps, GeoStepFailsKeeps, ReadCountryKeeps, LoadReadersKeeps
<1>4. ASSUME NEW n \in GeoServer, NEW force \in BOOLEAN, TriggerGeoUpdate(n, force) PROVE GeoInv'
  BY <1>4, TriggerGeoUpdateKeeps
<1>5. QED
  BY <1>1, <1>2, <1>3, <1>4 DEF GeoNext

\* For every number of instances and updates: an instance that was subscribed
\* when the last notification went out and has not failed, restarted or begun
\* an update since, answers lookups from the two editions that Redis holds once
\* it has worked off its notifications, whatever was copied, downloaded and
\* stored concurrently (subscribeToGeoLiteUpdates, PublishGeoLiteDatabases).
THEOREM InformedInstancesCurrent == GeoSpec => []InformedReadersCurrent
<1>1. GeoInv /\ [GeoNext]_geoVars => GeoInv'
  BY GeoInvStep
<1>2. GeoInv => InformedReadersCurrent
  BY DEF GeoInv, GeoTyped, InstanceInv, Follows, HandlerCurrent, InformedReadersCurrent, GeoAt
<1>3. GeoSpec => []GeoInv
  BY <1>1, GeoInvInit, PTL DEF GeoSpec
<1>4. QED
  BY <1>2, <1>3, PTL

-----------------------------------------------------------------------------
(* Configuration: the inductive invariant.                                 *)

Interval == {IntervalOf[c] : c \in Config}

LocalUpdate == [cfg : Config \cup {NoConfig}, step : {"none", "staged", "set", "published"}]

ServerState == {"down", "read", "unpublished", "announced", "loaded", "subscribed"}

ConfigTyped ==
    /\ redisConfig \in Config \cup {NoConfig}
    /\ file \in [Server -> Config] /\ config \in [Server -> Config]
    /\ inbox \in [Server -> Seq(Config)]
    /\ server \in [Server -> ServerState]
    /\ update \in [Server -> LocalUpdate]
    /\ \A n \in Server : update[n].step # "none" => update[n].cfg \in Config
    /\ offered \in [Server -> Seq(Interval)] /\ adopted \in [Server -> Interval]
    /\ heard \subseteq Server

\* An instance that is to hear of the last publication has it in memory, or as
\* the last message of its subscription; and while it has published but not yet
\* stored a configuration of its own, a message that repairs it is waiting.
Informed(n) ==
    n \in heard =>
        /\ server[n] = "subscribed"
        /\ inbox[n] = <<>> => config[n] = latest /\ update[n].step # "published"
        /\ inbox[n] # <<>> => inbox[n][Len(inbox[n])] = latest

\* The listener has, or will read, the interval of the configuration in memory.
ListenerCurrent(n) ==
    server[n] # "down" =>
        IF offered[n] = <<>> THEN adopted[n] = IntervalOf[config[n]]
                             ELSE offered[n] = <<IntervalOf[config[n]]>>

\* A process that is gone has no update under way.
NoneWhenDown(n) == server[n] = "down" => update[n].step = "none"

ConfigInv == ConfigTyped /\ \A n \in Server : Informed(n) /\ ListenerCurrent(n) /\ NoneWhenDown(n)

\* What a step of one instance leaves to show when nothing is published.
LEMMA OneServer ==
    ASSUME ConfigInv, NEW n \in Server, ConfigTyped', latest' = latest, heard' \subseteq heard,
           \A m \in Server \ {n} :
               /\ server'[m] = server[m] /\ config'[m] = config[m] /\ inbox'[m] = inbox[m]
               /\ update'[m] = update[m] /\ offered'[m] = offered[m] /\ adopted'[m] = adopted[m],
           Informed(n)', ListenerCurrent(n)', NoneWhenDown(n)'
    PROVE  ConfigInv'
<1>1. ASSUME NEW m \in Server \ {n} PROVE Informed(m)' /\ ListenerCurrent(m)' /\ NoneWhenDown(m)'
  BY <1>1 DEF ConfigInv, Informed, ListenerCurrent, NoneWhenDown
<1>2. QED
  BY <1>1 DEF ConfigInv

\* What a publication leaves to show: it reaches all subscriptions.
LEMMA PublishKeeps ==
    ASSUME ConfigInv, NEW c \in Config, Publish(c), ConfigTyped',
           config' = config, offered' = offered, adopted' = adopted,
           \A m \in Server : /\ server[m] = "subscribed" => server'[m] = "subscribed"
                             /\ server[m] = "down" => server'[m] = "down"
                             /\ NoneWhenDown(m)'
    PROVE  ConfigInv'
<1>1. ASSUME NEW m \in Server PROVE Informed(m)'
  <2>1. SUFFICES ASSUME m \in heard' PROVE Informed(m)'
    BY DEF Informed
  <2>2. m \in Subscribed /\ server[m] = "subscribed" /\ latest' = c
    BY <2>1 DEF Publish, Subscribed
  <2>3. inbox'[m] = Append(inbox[m], c) /\ inbox[m] \in Seq(Config)
    BY <1>1, <2>2 DEF Publish, ConfigInv, ConfigTyped
  <2>4. inbox'[m] # <<>> /\ inbox'[m][Len(inbox'[m])] = c
    BY <2>3, AppendProperties
  <2>5. QED
    BY <2>2, <2>4 DEF Informed
<1>2. ASSUME NEW m \in Server PROVE ListenerCurrent(m)'
  BY <1>2 DEF ConfigInv, ListenerCurrent, ConfigTyped
<1>3. QED
  BY <1>1, <1>2 DEF ConfigInv

\* Storing a configuration in memory offers its interval if that is new.
LEMMA ApplyOffers ==
    ASSUME ConfigInv, NEW n \in Server, NEW c \in Config, Apply(n, c), adopted' = adopted, server[n] # "down"
    PROVE  /\ file' \in [Server -> Config] /\ config' \in [Server -> Config]
           /\ offered' \in [Server -> Seq(Interval)]
           /\ config'[n] = c
           /\ \A m \in Server \ {n} : config'[m] = config[m] /\ offered'[m] = offered[m]
           /\ ListenerCurrent(n)'
<1>1. /\ file \in [Server -> Config] /\ config \in [Server -> Config]
      /\ offered \in [Server -> Seq(Interval)]
  BY DEF ConfigInv, ConfigTyped
<1>2. IntervalOf[c] \in Interval /\ <<IntervalOf[c]>> \in Seq(Interval) /\ <<IntervalOf[c]>> # <<>>
  BY DEF Interval
<1> DEFINE o == SendLatestInterval(n, IntervalOf[config[n]], IntervalOf[c])
<1>3. o \in Seq(Interval)
  BY <1>1, <1>2 DEF SendLatestInterval
<1>4. /\ file' = [file EXCEPT ![n] = c] /\ config' = [config EXCEPT ![n] = c]
      /\ offered' = [offered EXCEPT ![n] = o]
  BY DEF Apply
<1>5. ListenerCurrent(n)'
  <2>1. IF offered[n] = <<>> THEN adopted[n] = IntervalOf[config[n]]
                             ELSE offered[n] = <<IntervalOf[config[n]]>>
    BY DEF ConfigInv, ListenerCurrent
  <2>2. config'[n] = c /\ offered'[n] = o /\ adopted'[n] = adopted[n]
    BY <1>1, <1>4
  <2>3. CASE IntervalOf[c] = IntervalOf[config[n]]
    BY <2>1, <2>2, <2>3 DEF ListenerCurrent, SendLatestInterval
  <2>4. CASE IntervalOf[c] # IntervalOf[config[n]]
    BY <1>2, <2>2, <2>4 DEF ListenerCurrent, SendLatestInterval
  <2>5. QED
    BY <2>3, <2>4
<1> HIDE DEF o
<1>6. QED
  BY <1>1, <1>3, <1>4, <1>5

-----------------------------------------------------------------------------
(* Configuration: the actions.                                             *)

LEMMA ReadSettingsKeeps ==
    ASSUME ConfigInv, NEW n \in Server, ReadSettings(n) PROVE ConfigInv'
<1>1. /\ server[n] = "down" /\ server' = [server EXCEPT ![n] = "read"]
      /\ config' = [config EXCEPT ![n] = file[n]]
      /\ offered' = [offered EXCEPT ![n] = <<IntervalOf[file[n]]>>]
      /\ UNCHANGED <<redisConfig, file, inbox, update, adopted, latest, heard>>
  BY DEF ReadSettings
<1>2. /\ file[n] \in Config /\ <<IntervalOf[file[n]]>> \in Seq(Interval)
      /\ <<IntervalOf[file[n]]>> # <<>>
  BY DEF ConfigInv, ConfigTyped, Interval
<1>3. ConfigTyped'
  BY <1>1, <1>2 DEF ConfigInv, ConfigTyped, ServerState
<1>4. n \notin heard
  BY <1>1 DEF ConfigInv, Informed
<1>5. Informed(n)'
  BY <1>1, <1>4 DEF Informed
<1>6. /\ config'[n] = file[n] /\ offered'[n] = <<IntervalOf[file[n]]>>
      /\ \A m \in Server \ {n} : /\ server'[m] = server[m] /\ config'[m] = config[m]
                                 /\ offered'[m] = offered[m]
  BY <1>1 DEF ConfigInv, ConfigTyped
<1>7. ListenerCurrent(n)' /\ NoneWhenDown(n)'
  BY <1>1, <1>2, <1>6 DEF ListenerCurrent, NoneWhenDown, ConfigInv
<1>8. QED
  BY <1>1, <1>3, <1>5, <1>6, <1>7, OneServer

LEMMA LoadConfigFromRedisKeeps ==
    ASSUME ConfigInv, NEW n \in Server, LoadConfigFromRedis(n) PROVE ConfigInv'
<1>1. /\ server[n] = "read"
      /\ UNCHANGED <<redisConfig, inbox, update, adopted, latest, heard>>
  BY DEF LoadConfigFromRedis
<1>2. n \notin heard
  BY <1>1 DEF ConfigInv, Informed
<1>3. Informed(n)'
  BY <1>1, <1>2 DEF Informed
<1>4. CASE redisConfig # NoConfig /\ Apply(n, redisConfig) /\ server' = [server EXCEPT ![n] = "loaded"]
  <2>1. redisConfig \in Config
    BY <1>4 DEF ConfigInv, ConfigTyped
  <2>2. /\ file' \in [Server -> Config] /\ config' \in [Server -> Config]
        /\ offered' \in [Server -> Seq(Interval)]
        /\ \A m \in Server \ {n} : config'[m] = config[m] /\ offered'[m] = offered[m]
        /\ ListenerCurrent(n)'
    BY <1>1, <1>4, <2>1, ApplyOffers
  <2>3. /\ ConfigTyped' /\ NoneWhenDown(n)'
        /\ \A m \in Server \ {n} : server'[m] = server[m]
    BY <1>1, <1>4, <2>2 DEF ConfigInv, ConfigTyped, ServerState, NoneWhenDown
  <2>4. QED
    BY <1>1, <1>3, <2>2, <2>3, OneServer
<1>5. CASE server' = [server EXCEPT ![n] = "unpublished"] /\ UNCHANGED <<file, config, offered>>
  <2>1. ConfigTyped' /\ \A m \in Server \ {n} : server'[m] = server[m]
    BY <1>1, <1>5 DEF ConfigInv, ConfigTyped, ServerState
  <2>2. ListenerCurrent(n)' /\ NoneWhenDown(n)'
    BY <1>1, <1>5 DEF ConfigInv, ConfigTyped, ListenerCurrent, NoneWhenDown
  <2>3. QED
    BY <1>1, <1>3, <1>5, <2>1, <2>2, OneServer
<1>6. CASE server' = [server EXCEPT ![n] = "loaded"] /\ UNCHANGED <<file, config, offered>>
  <2>1. ConfigTyped' /\ \A m \in Server \ {n} : server'[m] = server[m]
    BY <1>1, <1>6 DEF ConfigInv, ConfigTyped, ServerState
  <2>2. ListenerCurrent(n)' /\ NoneWhenDown(n)'
    BY <1>1, <1>6 DEF ConfigInv, ConfigTyped, ListenerCurrent, NoneWhenDown
  <2>3. QED
    BY <1>1, <1>3, <1>6, <2>1, <2>2, OneServer
<1>7. QED
  BY <1>4, <1>5, <1>6 DEF LoadConfigFromRedis

\* Steps of an instance that starts and leave memory and messages alone.
LEMMA StartStepKeeps ==
    ASSUME ConfigInv, NEW n \in Server,
           PublishOwnSet(n) \/ PublishOwnFails(n) \/ SubscribeToConfigUpdates(n)
    PROVE  ConfigInv'
<1>1. PICK s \in ServerState \ {"down"} : server' = [server EXCEPT ![n] = s]
  BY DEF PublishOwnSet, PublishOwnFails, SubscribeToConfigUpdates, ServerState
<1>2. /\ server[n] \in {"unpublished", "announced", "loaded"}
      /\ redisConfig' \in {redisConfig, config[n]}
      /\ UNCHANGED <<file, config, inbox, update, offered, adopted, latest, heard>>
  BY DEF PublishOwnSet, PublishOwnFails, SubscribeToConfigUpdates
<1>3. ConfigTyped' /\ \A m \in Server \ {n} : server'[m] = server[m]
  BY <1>1, <1>2 DEF ConfigInv, ConfigTyped
<1>4. n \notin heard
  BY <1>2 DEF ConfigInv, Informed
<1>5. Informed(n)'
  BY <1>2, <1>4 DEF Informed
<1>6. ListenerCurrent(n)' /\ NoneWhenDown(n)'
  <2>1. server'[n] # "down" /\ server[n] # "down"
    BY <1>1, <1>2 DEF ConfigInv, ConfigTyped
  <2>2. QED
    BY <1>2, <2>1 DEF ConfigInv, ListenerCurrent, NoneWhenDown
<1>7. QED
  BY <1>2, <1>3, <1>5, <1>6, OneServer

LEMMA PublishOwnKeeps ==
    ASSUME ConfigInv, NEW n \in Server, PublishOwn(n) PROVE ConfigInv'
<1>1. /\ server[n] = "announced" /\ server' = [server EXCEPT ![n] = "loaded"]
      /\ Publish(config[n])
      /\ UNCHANGED <<redisConfig, file, config, update, offered, adopted>>
  BY DEF PublishOwn
<1>2. config[n] \in Config
  BY DEF ConfigInv, ConfigTyped
<1>3. inbox' \in [Server -> Seq(Config)]
  BY <1>1, <1>2, AppendProperties DEF ConfigInv, ConfigTyped, Publish
<1>4. ConfigTyped'
  BY <1>1, <1>3 DEF ConfigInv, ConfigTyped, ServerState, Publish, Subscribed
<1>5. \A m \in Server : /\ server[m] = "subscribed" => server'[m] = "subscribed"
                        /\ server[m] = "down" => server'[m] = "down"
                        /\ NoneWhenDown(m)'
  BY <1>1 DEF ConfigInv, ConfigTyped, NoneWhenDown
<1>6. QED
  BY <1>1, <1>2, <1>4, <1>5, PublishKeeps

\* The steps of a local update that neither publish nor store it.
LEMMA UpdateStepKeeps ==
    ASSUME ConfigInv, NEW n \in Server, NEW u \in LocalUpdate,
           u.step # "none" => u.cfg \in Config /\ server[n] # "down",
           update' = [update EXCEPT ![n] = u], u.step # "published",
           redisConfig' \in Config \cup {NoConfig},
           UNCHANGED <<file, config, inbox, server, offered, adopted, latest, heard>>
    PROVE  ConfigInv'
<1>1. update'[n] = u /\ \A m \in Server \ {n} : update'[m] = update[m]
  BY DEF ConfigInv, ConfigTyped
<1>2. ConfigTyped'
  BY <1>1 DEF ConfigInv, ConfigTyped
<1>3. Informed(n)' /\ ListenerCurrent(n)' /\ NoneWhenDown(n)'
  BY <1>1 DEF ConfigInv, Informed, ListenerCurrent, NoneWhenDown
<1>4. QED
  BY <1>1, <1>2, <1>3, OneServer

\* A publication by an instance whose update then goes on, or ends.
LEMMA UpdatePublishKeeps ==
    ASSUME ConfigInv, NEW n \in Server, NEW u \in LocalUpdate, NEW c \in Config,
           u.step # "none" => u.cfg \in Config /\ server[n] # "down",
           update' = [update EXCEPT ![n] = u], Publish(c),
           UNCHANGED <<redisConfig, file, config, server, offered, adopted>>
    PROVE  ConfigInv'
<1>1. inbox' \in [Server -> Seq(Config)]
  BY AppendProperties DEF ConfigInv, ConfigTyped, Publish
<1>2. ConfigTyped'
  BY <1>1 DEF ConfigInv, ConfigTyped, Publish, Subscribed
<1>3. \A m \in Server : NoneWhenDown(m)'
  BY DEF ConfigInv, ConfigTyped, NoneWhenDown
<1>4. QED
  BY <1>2, <1>3, PublishKeeps

LEMMA LocalUpdateKeeps ==
    ASSUME ConfigInv, NEW n \in Server,
           \/ \E c \in Config : StageConfig(n, c)
           \/ BroadcastSet(n) \/ BroadcastPublish(n) \/ BroadcastFails(n) \/ CommitFails(n)
    PROVE  ConfigInv'
<1>1. update \in [Server -> LocalUpdate] /\ redisConfig \in Config \cup {NoConfig}
  BY DEF ConfigInv, ConfigTyped
<1>2. update[n].step # "none" => update[n].cfg \in Config /\ server[n] # "down"
  BY DEF ConfigInv, ConfigTyped, NoneWhenDown
<1>3. NoUpdate \in LocalUpdate /\ NoUpdate.step = "none"
  BY DEF NoUpdate, LocalUpdate
<1>4. ASSUME NEW c \in Config, StageConfig(n, c) PROVE ConfigInv'
  <2> DEFINE u == [cfg |-> c, step |-> "staged"]
  <2>1. u \in LocalUpdate /\ u.step = "staged" /\ u.cfg \in Config
    BY DEF LocalUpdate
  <2>2. /\ update' = [update EXCEPT ![n] = u] /\ server[n] # "down"
        /\ UNCHANGED <<redisConfig, file, config, inbox, server, offered, adopted, latest, heard>>
    BY <1>4 DEF StageConfig
  <2> HIDE DEF u
  <2>3. QED
    BY <1>1, <2>1, <2>2, UpdateStepKeeps
<1>5. CASE BroadcastSet(n)
  <2> DEFINE u == [update[n] EXCEPT !.step = "set"]
  <2>1. update[n].step = "staged" /\ update[n] \in LocalUpdate
    BY <1>1, <1>5 DEF BroadcastSet, UpdateAt
  <2>2. u \in LocalUpdate /\ u.step = "set" /\ u.cfg \in Config /\ server[n] # "down"
    BY <1>2, <2>1 DEF LocalUpdate
  <2>3. /\ update' = [update EXCEPT ![n] = u] /\ redisConfig' = update[n].cfg
        /\ UNCHANGED <<file, config, inbox, server, offered, adopted, latest, heard>>
    BY <1>5 DEF BroadcastSet
  <2> HIDE DEF u
  <2>4. redisConfig' \in Config \cup {NoConfig}
    BY <1>2, <2>1, <2>3
  <2>5. QED
    BY <2>2, <2>3, <2>4, UpdateStepKeeps
<1>6. CASE BroadcastPublish(n)
  <2> DEFINE u == [update[n] EXCEPT !.step = "published"]
  <2>1. update[n].step = "set" /\ update[n] \in LocalUpdate
    BY <1>1, <1>6 DEF BroadcastPublish, UpdateAt
  <2>2. /\ u \in LocalUpdate /\ u.step = "published" /\ u.cfg \in Config
        /\ update[n].cfg \in Config /\ server[n] # "down"
    BY <1>2, <2>1 DEF LocalUpdate
  <2>3. /\ update' = [update EXCEPT ![n] = u] /\ Publish(update[n].cfg)
        /\ UNCHANGED <<redisConfig, file, config, server, offered, adopted>>
    BY <1>6 DEF BroadcastPublish
  <2> HIDE DEF u
  <2>4. QED
    BY <2>2, <2>3, UpdatePublishKeeps
<1>7. CASE BroadcastFails(n)
  <2>1. /\ update' = [update EXCEPT ![n] = NoUpdate]
        /\ UNCHANGED <<file, config, server, offered, adopted>>
    BY <1>7 DEF BroadcastFails, EndUpdate
  <2>2. CASE /\ UpdateAt(n, "staged") /\ redisConfig' \in {redisConfig, update[n].cfg}
             /\ UNCHANGED <<inbox, latest, heard>>
    <3>1. redisConfig' \in Config \cup {NoConfig}
      BY <1>1, <1>2, <2>2 DEF UpdateAt
    <3>2. QED
      BY <1>3, <2>1, <2>2, <3>1, UpdateStepKeeps
  <2>3. CASE UpdateAt(n, "set") /\ Publish(update[n].cfg) /\ UNCHANGED redisConfig
    <3>1. update[n].cfg \in Config
      BY <1>2, <2>3 DEF UpdateAt
    <3>2. QED
      BY <1>3, <2>1, <2>3, <3>1, UpdatePublishKeeps
  <2>4. CASE UNCHANGED <<redisConfig, inbox, latest, heard>>
    BY <1>1, <1>3, <2>1, <2>4, UpdateStepKeeps
  <2>5. QED
    BY <1>7, <2>2, <2>3, <2>4 DEF BroadcastFails
<1>8. CASE CommitFails(n)
  <2>1. /\ update' = [update EXCEPT ![n] = NoUpdate]
        /\ UNCHANGED <<redisConfig, file, config, inbox, server, offered, adopted, latest, heard>>
    BY <1>8 DEF CommitFails, EndUpdate
  <2>2. QED
    BY <1>1, <1>3, <2>1, UpdateStepKeeps
<1>9. QED
  BY <1>4, <1>5, <1>6, <1>7, <1>8

\* The publisher stores its configuration last; a message in its own inbox, its
\* own or a later one, will bring it back to the latest.
LEMMA CommitUpdateKeeps ==
    ASSUME ConfigInv, NEW n \in Server, CommitUpdate(n)
    PROVE  ConfigInv'
<1>1. /\ update[n].step = "published" /\ Apply(n, update[n].cfg)
      /\ update' = [update EXCEPT ![n] = NoUpdate]
      /\ UNCHANGED <<redisConfig, inbox, server, adopted, latest, heard>>
  BY DEF CommitUpdate, UpdateAt, EndUpdate
<1>2. update[n].cfg \in Config /\ server[n] # "down" /\ NoUpdate \in LocalUpdate /\ NoUpdate.step = "none"
  BY <1>1 DEF ConfigInv, ConfigTyped, NoneWhenDown, NoUpdate, LocalUpdate
<1>3. /\ file' \in [Server -> Config] /\ config' \in [Server -> Config]
      /\ offered' \in [Server -> Seq(Interval)]
      /\ \A m \in Server \ {n} : config'[m] = config[m] /\ offered'[m] = offered[m]
      /\ ListenerCurrent(n)'
  BY <1>1, <1>2, ApplyOffers
<1>4. \A m \in Server \ {n} : update'[m] = update[m]
  BY <1>1 DEF ConfigInv, ConfigTyped
<1>5. ConfigTyped'
  BY <1>1, <1>2, <1>3 DEF ConfigInv, ConfigTyped
<1>6. Informed(n)' /\ NoneWhenDown(n)'
  BY <1>1, <1>2 DEF ConfigInv, Informed, NoneWhenDown
<1>7. QED
  BY <1>1, <1>3, <1>4, <1>5, <1>6, OneServer

LEMMA ReceiveConfigKeeps ==
    ASSUME ConfigInv, NEW n \in Server, ReceiveConfig(n) PROVE ConfigInv'
<1>1. /\ server[n] = "subscribed" /\ inbox[n] # <<>> /\ update[n].step = "none"
      /\ Apply(n, inbox[n][1]) /\ inbox' = [inbox EXCEPT ![n] = Tail(inbox[n])]
      /\ UNCHANGED <<redisConfig, server, update, adopted, latest, heard>>
  BY DEF ReceiveConfig, UpdateAt
<1>2. inbox \in [Server -> Seq(Config)] /\ inbox[n] \in Seq(Config)
  BY DEF ConfigInv, ConfigTyped
<1>3. /\ inbox[n][1] \in Config /\ Tail(inbox[n]) \in Seq(Config)
      /\ Len(inbox[n]) \in Nat /\ Len(inbox[n]) # 0 /\ Len(Tail(inbox[n])) = Len(inbox[n]) - 1
      /\ \A i \in 1..Len(Tail(inbox[n])) : Tail(inbox[n])[i] = inbox[n][i + 1]
  BY <1>1, <1>2, HeadTailProperties, LenProperties, EmptySeq
<1>4. /\ file' \in [Server -> Config] /\ config' \in [Server -> Config]
      /\ offered' \in [Server -> Seq(Interval)] /\ config'[n] = inbox[n][1]
      /\ \A m \in Server \ {n} : config'[m] = config[m] /\ offered'[m] = offered[m]
      /\ ListenerCurrent(n)'
  BY <1>1, <1>3, ApplyOffers
<1>5. /\ inbox' \in [Server -> Seq(Config)] /\ inbox'[n] = Tail(inbox[n])
      /\ \A m \in Server \ {n} : inbox'[m] = inbox[m]
  BY <1>1, <1>2, <1>3
<1>6. ConfigTyped'
  BY <1>1, <1>4, <1>5 DEF ConfigInv, ConfigTyped
<1>7. Informed(n)'
  <2>1. SUFFICES ASSUME n \in heard PROVE Informed(n)'
    BY <1>1 DEF Informed
  <2>2. inbox[n][Len(inbox[n])] = latest
    BY <1>1, <2>1 DEF ConfigInv, Informed
  <2>3. CASE Tail(inbox[n]) = <<>>
    <3>1. Len(Tail(inbox[n])) = 0
      BY <2>3, EmptySeq
    <3>2. Len(inbox[n]) = 1
      BY <1>3, <3>1
    <3>3. config'[n] = latest
      BY <1>4, <2>2, <3>2
    <3>4. QED
      BY <1>1, <1>5, <2>3, <3>3 DEF Informed
  <2>4. CASE Tail(inbox[n]) # <<>>
    <3>1. Len(Tail(inbox[n])) \in Nat \ {0}
      BY <1>3, <2>4, EmptySeq
    <3>a. \A k \in Nat \ {0}, l \in Nat : k = l - 1 => k \in 1..k /\ k + 1 = l
      OBVIOUS
    <3>2. /\ Len(Tail(inbox[n])) \in 1..Len(Tail(inbox[n]))
          /\ Len(Tail(inbox[n])) + 1 = Len(inbox[n])
      BY <1>3, <3>1, <3>a, Zenon
    <3>3. Tail(inbox[n])[Len(Tail(inbox[n]))] = latest
      BY <1>3, <2>2, <3>2
    <3>4. QED
      BY <1>1, <1>5, <2>4, <3>3 DEF Informed
  <2>5. QED
    BY <2>3, <2>4
<1>8. NoneWhenDown(n)'
  BY <1>1 DEF NoneWhenDown
<1>9. QED
  BY <1>1, <1>4, <1>5, <1>6, <1>7, <1>8, OneServer

\* An instance that loses a message is no longer one that is to hear it.
LEMMA MessageLostKeeps ==
    ASSUME ConfigInv, NEW n \in Server, ReceiveFails(n) \/ SubscriptionBreaks(n) \/ ServerCrashes(n)
    PROVE  ConfigInv'
<1>1. inbox \in [Server -> Seq(Config)] /\ server[n] # "down"
  BY DEF ConfigInv, ConfigTyped, ReceiveFails, SubscriptionBreaks, ServerCrashes, Up
<1>2. PICK q \in {<<>>, Tail(inbox[n])} : inbox' = [inbox EXCEPT ![n] = q]
  BY DEF ReceiveFails, SubscriptionBreaks, ServerCrashes
<1>3. inbox[n] # <<>> \/ q = <<>>
  BY <1>1, <1>2 DEF ReceiveFails, SubscriptionBreaks, ServerCrashes
<1>4. q \in Seq(Config)
  <2>1. inbox[n] \in Seq(Config) /\ <<>> \in Seq(Config)
    BY <1>1
  <2>2. inbox[n] # <<>> => Tail(inbox[n]) \in Seq(Config)
    BY <2>1, HeadTailProperties
  <2>3. QED
    BY <1>2, <1>3, <2>1, <2>2
<1>5. PICK s \in ServerState : server' = [server EXCEPT ![n] = s]
  BY DEF ConfigInv, ConfigTyped, ServerState, ReceiveFails, SubscriptionBreaks, ServerCrashes
<1>6. PICK u \in {update[n], NoUpdate} : update' = [update EXCEPT ![n] = u]
  BY DEF ConfigInv, ConfigTyped, EndUpdate, ReceiveFails, SubscriptionBreaks, ServerCrashes
<1>7. heard' = heard \ {n} /\ UNCHANGED <<redisConfig, file, config, offered, adopted, latest>>
  BY DEF ReceiveFails, SubscriptionBreaks, ServerCrashes
<1>8. u \in LocalUpdate /\ (u.step # "none" => u.cfg \in Config)
  BY <1>6 DEF ConfigInv, ConfigTyped, NoUpdate, LocalUpdate
<1>9. ConfigTyped'
  BY <1>2, <1>4, <1>5, <1>6, <1>7, <1>8 DEF ConfigInv, ConfigTyped
<1>10. \A m \in Server \ {n} : server'[m] = server[m] /\ inbox'[m] = inbox[m] /\ update'[m] = update[m]
  BY <1>2, <1>5, <1>6 DEF ConfigInv, ConfigTyped
<1>11. Informed(n)'
  BY <1>7 DEF Informed
<1>12. ListenerCurrent(n)' /\ NoneWhenDown(n)'
  <2>1. ListenerCurrent(n)'
    BY <1>1, <1>7 DEF ConfigInv, ListenerCurrent
  <2>2. server'[n] = "down" => update'[n].step = "none"
    BY <1>1 DEF ConfigInv, ConfigTyped, NoUpdate, EndUpdate, ReceiveFails, SubscriptionBreaks, ServerCrashes
  <2>3. QED
    BY <2>1, <2>2 DEF NoneWhenDown
<1>13. QED
  BY <1>7, <1>9, <1>10, <1>11, <1>12, OneServer

LEMMA AdoptIntervalKeeps ==
    ASSUME ConfigInv, NEW n \in Server, AdoptInterval(n) PROVE ConfigInv'
<1>1. /\ server[n] # "down" /\ offered[n] # <<>>
      /\ adopted' = [adopted EXCEPT ![n] = offered[n][1]]
      /\ offered' = [offered EXCEPT ![n] = <<>>]
      /\ UNCHANGED <<redisConfig, file, config, inbox, server, update, latest, heard>>
  BY DEF AdoptInterval, Up
<1>2. offered[n] = <<IntervalOf[config[n]]>> /\ config[n] \in Config
  BY <1>1 DEF ConfigInv, ConfigTyped, ListenerCurrent
<1>3. offered[n][1] = IntervalOf[config[n]] /\ offered[n][1] \in Interval
  BY <1>2 DEF Interval
<1>4. /\ adopted'[n] = IntervalOf[config[n]] /\ offered'[n] = <<>>
      /\ \A m \in Server \ {n} : adopted'[m] = adopted[m] /\ offered'[m] = offered[m]
  BY <1>1, <1>3 DEF ConfigInv, ConfigTyped
<1>5. ConfigTyped'
  BY <1>1, <1>3 DEF ConfigInv, ConfigTyped
<1>6. ListenerCurrent(n)' /\ NoneWhenDown(n)'
  BY <1>1, <1>4 DEF ListenerCurrent, NoneWhenDown
<1>7. Informed(n)'
  BY <1>1 DEF ConfigInv, Informed
<1>8. QED
  BY <1>1, <1>4, <1>5, <1>6, <1>7, OneServer

-----------------------------------------------------------------------------
LEMMA ConfigInvInit == ASSUME ConfigConstants, ConfigInit PROVE ConfigInv
<1>1. Default \in Config /\ IntervalOf[Default] \in Interval
  BY DEF ConfigConstants, Interval
<1>2. NoUpdate \in LocalUpdate /\ NoUpdate.step = "none"
  BY DEF NoUpdate, LocalUpdate
<1>3. ConfigTyped
  BY <1>1, <1>2 DEF ConfigInit, ConfigTyped, ServerState
<1>4. \A n \in Server : Informed(n) /\ ListenerCurrent(n) /\ NoneWhenDown(n)
  BY <1>2 DEF ConfigInit, Informed, ListenerCurrent, NoneWhenDown
<1>5. QED
  BY <1>3, <1>4 DEF ConfigInv

LEMMA ConfigInvStep == ASSUME ConfigInv, [ConfigNext]_configVars PROVE ConfigInv'
<1>1. CASE UNCHANGED configVars
  BY <1>1 DEF configVars, ConfigInv, ConfigTyped, Informed, ListenerCurrent, NoneWhenDown
<1>2. ASSUME NEW n \in Server,
             \/ ReadSettings(n) \/ LoadConfigFromRedis(n) \/ PublishOwnSet(n) \/ PublishOwn(n)
             \/ PublishOwnFails(n) \/ SubscribeToConfigUpdates(n)
      PROVE  ConfigInv'
  BY <1>2, ReadSettingsKeeps, LoadConfigFromRedisKeeps, StartStepKeeps, PublishOwnKeeps
<1>3. ASSUME NEW n \in Server,
             \/ \E c \in Config : StageConfig(n, c)
             \/ BroadcastSet(n) \/ BroadcastPublish(n) \/ BroadcastFails(n)
             \/ CommitUpdate(n) \/ CommitFails(n)
      PROVE  ConfigInv'
  BY <1>3, LocalUpdateKeeps, CommitUpdateKeeps
<1>4. ASSUME NEW n \in Server,
             \/ ReceiveConfig(n) \/ ReceiveFails(n) \/ SubscriptionBreaks(n) \/ ServerCrashes(n)
             \/ AdoptInterval(n)
      PROVE  ConfigInv'
  BY <1>4, ReceiveConfigKeeps, MessageLostKeeps, AdoptIntervalKeeps
<1>5. QED
  BY <1>1, <1>2, <1>3, <1>4 DEF ConfigNext

\* For every number of instances, saves and faults: an instance that lost no
\* message of its subscription and has worked off what it received has the
\* configuration that was published last, in whatever order saves were set,
\* published and stored; and its interval listener has, or is about to read,
\* that configuration's interval (settings.go, redis_sync.go, time.go).
THEOREM ConfigurationReaches == ASSUME ConfigConstants PROVE ConfigSpec => []ConfigurationSpreads
<1>1. ConfigInit => ConfigInv
  BY ConfigInvInit
<1>2. ConfigInv /\ [ConfigNext]_configVars => ConfigInv'
  BY ConfigInvStep
<1>3. ASSUME ConfigInv PROVE ConfigurationSpreads
  <2>1. heard \subseteq Server => ConfigsAgree
    BY <1>3 DEF ConfigInv, Informed, ConfigsAgree, UpdateAt
  <2>2. IntervalReachesListener
    BY <1>3 DEF ConfigInv, ListenerCurrent, IntervalReachesListener, Up
  <2>3. heard \subseteq Server
    BY <1>3 DEF ConfigInv, ConfigTyped
  <2>4. QED
    BY <2>1, <2>2, <2>3 DEF ConfigurationSpreads
<1>4. QED
  BY <1>1, <1>2, <1>3, PTL DEF ConfigSpec

=============================================================================
