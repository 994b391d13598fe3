------------------------- MODULE ProxyQueueScripts -------------------------
(***************************************************************************)
(* The Redis side of the proxy queue: the Lua scripts of                   *)
(* internal/jobs/queue/proxy and internal/jobs/queue/heads.go, each as an  *)
(* operator from the store it finds to the store it leaves.  Redis runs a  *)
(* script atomically, so one application of an operator is one step.       *)
(*                                                                         *)
(* A store has three parts: the sorted set of every shard (a score per     *)
(* member, or NoScore), the head index proxy_queue_heads (one score per    *)
(* shard) and the payload keys.  Scores are counted in half milliseconds:  *)
(* a whole millisecond t is the due time 2t, and the half-millisecond mark *)
(* of a lease that expires at t is 2t + 1.                                 *)
(***************************************************************************)
EXTENDS Integers, FiniteSets

CONSTANTS
    Member,        \* sorted-set members: current hashes and hashes of old formats
    Shard,         \* sorted-set keys, the legacy queue included
    Legacy,        \* legacyQueueKey
    Config,        \* instances' queue configurations (PROXY_QUEUE_SHARDS)
    PopKeys,       \* configuration -> popQueueKeys
    Target,        \* configuration -> member -> queueKeyForMember
    Canonical,     \* member -> the hash its decoded payload has today
    Workspace,     \* workspaces that can manage a route
    NoPayload,     \* GET of a key that does not exist
    LeaseTime      \* processingLease

ASSUME ScriptAssumption ==
    /\ Legacy \in Shard
    /\ PopKeys \in [Config -> SUBSET Shard]
    /\ Target \in [Config -> [Member -> Shard]]
    /\ \A c \in Config : Legacy \in PopKeys[c]
    /\ \A c \in Config, m \in Member : Target[c][m] \in PopKeys[c]
    /\ Canonical \in [Member -> Member]
    /\ \A m \in Member : Canonical[Canonical[m]] = Canonical[m]
    /\ LeaseTime \in Nat \ {0}

NoScore == -1

Due(t) == 2 * t
LeaseScore(t) == 2 * t + 1
IsLease(score) == score # NoScore /\ score % 2 = 1
Floor(score) == score \div 2

(***************************************************************************)
(* A payload is what the scripts and the decoder tell apart: its owners    *)
(* and whether it is in today's format ("current", version 3 with its      *)
(* hash) or needs a rewrite ("old").  tag stands for the credential bytes, *)
(* which encryption makes different at every marshalling.                  *)
(***************************************************************************)
CONSTANT Tag

Payload == [owners : SUBSET Workspace, fmt : {"current", "old"}, tag : Tag]

ASSUME PayloadAssumption == NoPayload \notin Payload

Score == Nat \cup {NoScore}

Store == [zset    : [Shard -> [Member -> Score]],
          heads   : [Shard -> Score],
          payload : [Member -> Payload \cup {NoPayload}]]

EmptyStore == [zset    |-> [s \in Shard |-> [m \in Member |-> NoScore]],
               heads   |-> [s \in Shard |-> NoScore],
               payload |-> [m \in Member |-> NoPayload]]

-----------------------------------------------------------------------------
(* Redis commands.                                                         *)

ZScore(st, s, m) == st.zset[s][m]

ZSet(st, s, m, score) == [st EXCEPT !.zset[s][m] = score]
ZRem(st, s, m) == ZSet(st, s, m, NoScore)

SetPayload(st, m, p) == [st EXCEPT !.payload[m] = p]

Entries(st, s) == {m \in Member : ZScore(st, s, m) # NoScore}

\* ZRANGE s 0 0: the entry with the lowest score, ties in a fixed order.
FirstEntry(st, s) ==
    CHOOSE m \in Entries(st, s) :
        \A n \in Entries(st, s) : ZScore(st, s, m) <= ZScore(st, s, n)

IndexedShards(st) == {s \in Shard : st.heads[s] # NoScore}

\* Fault: the first key listed instead of the lowest head.
FirstShardListed(st) == CHOOSE s \in IndexedShards(st) : TRUE

\* ZRANGE proxy_queue_heads 0 0.
FirstShard(st) ==
    CHOOSE s \in IndexedShards(st) :
        \A r \in IndexedShards(st) : st.heads[s] <= st.heads[r]

\* Fault: ZADD heads XX LT, which never creates an index entry.
LowerHeadXX(st, s, score) ==
    IF st.heads[s] # NoScore /\ score < st.heads[s]
    THEN [st EXCEPT !.heads[s] = score]
    ELSE st

\* ZADD heads LT score s.
LowerHead(st, s, score) ==
    IF st.heads[s] = NoScore \/ score < st.heads[s]
    THEN [st EXCEPT !.heads[s] = score]
    ELSE st

\* The exact head of shard s, or its absence.
HeadOf(st, s) ==
    IF Entries(st, s) = {} THEN NoScore ELSE ZScore(st, s, FirstEntry(st, s))

\* Fault: a head that is in the index is taken to be right.
RefreshHeadOnce(st, s) ==
    IF st.heads[s] = NoScore THEN [st EXCEPT !.heads[s] = HeadOf(st, s)] ELSE st

RefreshHead(st, s) == [st EXCEPT !.heads[s] = HeadOf(st, s)]

RefreshHeads(st, keys) ==
    [st EXCEPT !.heads = [s \in Shard |-> IF s \in keys THEN HeadOf(st, s)
                                          ELSE st.heads[s]]]

-----------------------------------------------------------------------------
(* add.lua                                                                 *)

\* The shard whose lease add.lua preserves: KEYS lists the target first.
OwnedShards(st, c, m) == {s \in PopKeys[c] : IsLease(ZScore(st, s, m))}

\* Fault: publishing moves a leased route to its shard.
AddShardMoves(st, c, m) == Target[c][m]

AddShard(st, c, m) ==
    IF OwnedShards(st, c, m) = {} \/ Target[c][m] \in OwnedShards(st, c, m)
    THEN Target[c][m]
    ELSE CHOOSE s \in OwnedShards(st, c, m) : TRUE

AddScript(st, c, m, due, p) ==
    LET q == AddShard(st, c, m)
        kept == ZScore(st, q, m)
        zset == [s \in Shard |->
                    [st.zset[s] EXCEPT ![m] =
                        IF s = q THEN IF kept = NoScore THEN due ELSE kept
                        ELSE IF s \in PopKeys[c] THEN NoScore ELSE @]]
        placed == [st EXCEPT !.zset = zset, !.payload[m] = p]
    IN LowerHead(placed, q, IF IsLease(kept) THEN kept ELSE due)

-----------------------------------------------------------------------------
(* pop.lua.  A scan is the script's local state: the store so far, whether *)
(* it has returned, and the claim it returns (shard = Legacy, member and   *)
(* score are meaningless until found).                                     *)

Scan(st) == [st |-> st, done |-> FALSE, found |-> FALSE, shard |-> Legacy,
             member |-> CHOOSE m \in Member : TRUE, score |-> NoScore]

\* One iteration of the loop, at clock reading t.
PopPass(r, t) ==
    LET st == r.st
        s == FirstShard(st)
        m == FirstEntry(st, s)
        score == ZScore(st, s, m)
        claimed == RefreshHead(ZSet(st, s, m, LeaseScore(t + LeaseTime)), s)
    IN IF r.done \/ IndexedShards(st) = {} THEN [r EXCEPT !.done = TRUE]
       ELSE IF Entries(st, s) = {} THEN [r EXCEPT !.st.heads[s] = NoScore]
       ELSE IF score # st.heads[s] THEN [r EXCEPT !.st.heads[s] = score]
       ELSE IF score > Due(t) THEN [r EXCEPT !.done = TRUE]
       ELSE IF st.payload[m] = NoPayload
            THEN [r EXCEPT !.st = RefreshHead(ZRem(st, s, m), s)]
       ELSE [st |-> claimed, done |-> TRUE, found |-> TRUE,
             shard |-> s, member |-> m, score |-> score]

\* The scans that one and that two more iterations lead to.
Pass(scans, t) == {PopPass(r, t) : r \in scans}
PassTwice(scans, t) == Pass(Pass(scans, t), t)

\* What the script returns: it gives up after eight iterations.
PopScript(st, t) ==
    PassTwice(PassTwice(PassTwice(PassTwice({Scan(st)}, t), t), t), t)

-----------------------------------------------------------------------------
(* renew.lua, complete.lua and remove.lua: the worker's side of a lease    *)
(* [member, token, queue, payload], token the expiry it was told.          *)

LeaseHeld(st, l) == ZScore(st, l.queue, l.member) = LeaseScore(l.token)

Renewable(st, l, t) == LeaseHeld(st, l) /\ l.token > t

RenewScript(st, l, t) ==
    ZSet(st, l.queue, l.member, LeaseScore(t + LeaseTime))

\* Only the worker's ownership delta is applied to a payload that an import
\* replaced while the check was running.
MergeOwners(live, before, after) ==
    {w \in live : w \notin before \/ w \in after} \cup (after \ before)

CompletedPayload(current, before, after) ==
    IF current # NoPayload /\ current # before
    THEN [current EXCEPT !.owners = MergeOwners(@, before.owners, after.owners)]
    ELSE after

\* Fault: the route's earlier queues keep their entry.
CompleteKeepsOld(st, c, l, next, changed, after) ==
    LET q == Target[c][l.member]
        payload == IF changed
                   THEN CompletedPayload(st.payload[l.member], l.payload, after)
                   ELSE st.payload[l.member]
    IN LowerHead(ZSet(SetPayload(st, l.member, payload), q, l.member, next), q, next)

CompleteScript(st, c, l, next, changed, after) ==
    LET q == Target[c][l.member]
        payload == IF changed
                   THEN CompletedPayload(st.payload[l.member], l.payload, after)
                   ELSE st.payload[l.member]
        zset == [s \in Shard |->
                    [st.zset[s] EXCEPT ![l.member] =
                        IF s = q THEN next
                        ELSE IF s \in {l.queue, Legacy} THEN NoScore ELSE @]]
    IN LowerHead([st EXCEPT !.zset = zset, !.payload[l.member] = payload],
                 q, next)

Removable(st, l) == LeaseHeld(st, l) /\ st.payload[l.member] = l.payload

RemoveScript(st, l) ==
    ZRem(ZRem(SetPayload(st, l.member, NoPayload), l.queue, l.member),
         Legacy, l.member)

-----------------------------------------------------------------------------
(* migrate.lua, for a candidate lease l whose payload needs a rewrite.     *)

MigratedOwners(live, normalized) == live \cup normalized

\* Fault: a lease on the current hash is not looked at.
LiveLeaseIgnored(score, t) == FALSE

\* now > score in the script's milliseconds, for a lease mark.
LiveLease(score, t) == IsLease(score) /\ score > Due(t)

MigrateShards(c, l) == PopKeys[c] \cup {l.queue}

MigrateOwned(st, c, l, t) ==
    {s \in MigrateShards(c, l) : LiveLease(ZScore(st, s, Canonical[l.member]), t)}

\* The payload left under the current hash: owners of both, today's format.
MigratedPayload(current, normalized) ==
    IF current = NoPayload THEN normalized
    ELSE LET owners == MigratedOwners(current.owners, normalized.owners)
         IN IF current.fmt = "old" THEN [normalized EXCEPT !.owners = owners]
            ELSE [current EXCEPT !.owners = owners]

\* Fault: the released candidate is made overdue by one millisecond.
ReleaseOverdue(st, l, t) ==
    RefreshHead(ZSet(st, l.queue, l.member,
                     IF st.payload[l.member] = NoPayload THEN NoScore ELSE Due(t - 1)),
                l.queue)

\* The payload changed while the worker decoded it: release the candidate.
ReleaseCandidate(st, l, t) ==
    RefreshHead(ZSet(st, l.queue, l.member,
                     IF st.payload[l.member] = NoPayload THEN NoScore ELSE Due(t)),
                l.queue)

\* The alias is consumed; its lease moves to the current hash unless that
\* hash is already leased to another worker.
MoveAlias(st, c, l, t, normalized) ==
    LET m == Canonical[l.member]
        owned == MigrateOwned(st, c, l, t)
        q == IF owned = {} THEN Target[c][m] ELSE CHOOSE s \in owned : TRUE
        keys == MigrateShards(c, l)
        zset == [s \in Shard |->
                    IF s \notin keys THEN st.zset[s]
                    ELSE [st.zset[s] EXCEPT
                            ![l.member] = NoScore,
                            ![m] = IF s # q THEN NoScore
                                   ELSE IF owned = {} THEN LeaseScore(l.token)
                                   ELSE @]]
        payload == [st.payload EXCEPT
                        ![l.member] = NoPayload,
                        ![m] = MigratedPayload(@, normalized)]
        moved == [st EXCEPT !.zset = zset, !.payload = payload]
        dirty == {s \in keys : zset[s] # st.zset[s] \/ (owned = {} /\ s = q)}
    IN RefreshHeads(moved, dirty)

-----------------------------------------------------------------------------
(* requeue_all.lua: reschedule the listed members of shard s that are not  *)
(* leased.                                                                 *)

RequeueAllScript(st, s, due) ==
    LET zset == [m \in Member |->
                    IF m \in DOMAIN due /\ ZScore(st, s, m) # NoScore
                       /\ ~IsLease(ZScore(st, s, m))
                    THEN due[m] ELSE ZScore(st, s, m)]
    IN RefreshHead([st EXCEPT !.zset[s] = zset], s)

-----------------------------------------------------------------------------
(* RemoveFromQueue without a lease: a pipeline of plain commands, which    *)
(* other clients' commands may separate.                                   *)

DelPayload(st, m) == SetPayload(st, m, NoPayload)

ZRemMember(st, c, m) == ZRem(ZRem(st, Target[c][m], m), Legacy, m)
=============================================================================
