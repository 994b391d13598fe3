--------------------------- MODULE RouteLifecycle ---------------------------
(***************************************************************************)
(* One route, the workspaces that manage it, and everything that keeps the *)
(* Redis copy of it in step with PostgreSQL: checker workers with their    *)
(* failure actions and ownership checks, the HTTP handlers (and the        *)
(* scraper, which imports the same way), the bootstrap that reconstructs   *)
(* the queue, lease expiry and the loss of Redis.                          *)
(*                                                                         *)
(* The queue is seen as its users see it: the route is not scheduled, due, *)
(* or leased to one worker; ProxyQueue has the scripts behind this.  One   *)
(* step is one database transaction or query, or one Redis command.        *)
(***************************************************************************)
EXTENDS Naturals, FiniteSets

CONSTANTS
    Workspace,     \* workspaces that can manage the route
    Known,         \* workspaces whose settings the checker surely has compiled
    Worker,        \* checker goroutines
    Handler,       \* HTTP handlers and scraper workers
    Sealed,        \* encryptProxyQueueCredentials(), and the route has credentials
    Tag,           \* sealed credentials a marshalled payload may carry
    MaxFaults,     \* bound on crashes, errors, late workers and Redis losses
    MaxRequests    \* bound on requests and instance starts

ASSUME LifecycleAssumption ==
    /\ Known \subseteq Workspace
    /\ Sealed \in BOOLEAN
    /\ MaxFaults \in Nat
    /\ MaxRequests \in Nat
    /\ IsFiniteSet(Worker) /\ IsFiniteSet(Tag)
    /\ Cardinality(Tag) > Cardinality(Worker) + 1 /\ "bare" \notin Tag
    /\ Worker \cap {"none", "due"} = {}

VARIABLES
    managed,       \* user_proxies: workspace -> lifecycle state, or "none"
    payload,       \* proxy:<hash>
    slot,          \* the schedule entry: "none", "due" or the lease holder
    marker,        \* runtimeQueueBootstrapMarker exists
    snapshots,     \* workspaces compiled in the checker's settings snapshot
    wk,            \* worker -> where work() stands
    tracker,       \* failure actions whose submitter no longer waits
    req,           \* handler -> where its request stands
    boot,          \* where bootstrapStartupQueues stands
    fresh,         \* history: worker -> workspaces published since its claim
    faults,        \* faults so far
    requests       \* requests and instance starts so far

vars == <<managed, payload, slot, marker, snapshots, wk, tracker, req, boot,
          fresh, faults, requests>>

queue == <<payload, slot>>
budget == <<faults, requests>>

\* "paused" stands for archived as well: management that is kept, not active.
State == {"none", "active", "paused"}

Bare == "bare"
Payload == [owners : SUBSET Workspace, tag : Tag \cup {Bare}]
NoPayload == [tag |-> "none"]

\* What a worker carries: the payload its lease records, the owners it still
\* checks for, whether they differ from the payload's, the workspaces whose
\* streak reached the threshold, those it removed, whether the route was
\* reported inactive and, for the properties, those its batch ended in the
\* database while it waited for it.
WorkerState ==
    [pc : {"check", "track", "lookup", "orphan", "verify", "requeue", "drop"},
     snap : Payload, owners : SUBSET Workspace, changed : BOOLEAN,
     todo : SUBSET Workspace, removed : SUBSET Workspace, inactive : BOOLEAN,
     ended : SUBSET Workspace]
Idle == [pc |-> "idle"]

Pending ==
    [pc : {"load", "sync", "hydrate", "orphans", "publish", "remove", "unschedule"},
     owners : SUBSET Workspace]

Bootstrap == [pc : {"publish", "mark"}, owners : SUBSET Workspace]

Busy(w) == wk[w] # Idle
Fault == faults < MaxFaults /\ faults' = faults + 1
Active == {u \in Workspace : managed[u] = "active"}

TypeOK ==
    /\ managed \in [Workspace -> State]
    /\ payload \in Payload \cup {NoPayload}
    /\ slot \in {"none", "due"} \cup Worker
    /\ marker \in BOOLEAN
    /\ snapshots \in SUBSET Workspace
    /\ wk \in [Worker -> WorkerState \cup {Idle}]
    /\ tracker \in SUBSET Workspace
    /\ req \in [Handler -> Pending \cup {Idle}]
    /\ boot \in Bootstrap \cup {Idle}
    /\ fresh \in [Worker -> SUBSET Workspace]
    /\ faults \in Nat /\ requests \in Nat

\* A new installation, or one whose inventory Redis does not hold yet; the
\* workspaces that another instance just created are not compiled here.
Init ==
    /\ managed \in [Workspace -> {"none", "active"}]
    /\ payload = NoPayload
    /\ slot = "none"
    /\ marker = FALSE
    /\ snapshots \in {S \in SUBSET Workspace : Known \subseteq S}
    /\ wk = [w \in Worker |-> Idle]
    /\ tracker = {}
    /\ req = [h \in Handler |-> Idle]
    /\ boot = Idle
    /\ fresh = [w \in Worker |-> {}]
    /\ faults = 0
    /\ requests = 0

-----------------------------------------------------------------------------
(* Publishing.  A credential is sealed with a new nonce each time, so a    *)
(* marshalling never repeats bytes that anyone still holds.  Plaintext, or *)
(* a route without user name and password (an empty secret stays empty),   *)
(* gives equal bytes for equal owners; so does, here, a payload merged by  *)
(* complete.lua, although its fields may come in another order.            *)

Held == {wk[w].snap.tag : w \in {v \in Worker : Busy(v)}} \cup {payload.tag}

Marshalled == IF Sealed THEN Tag \ Held ELSE {Bare}

\* AddToQueue: nothing is published for a route without active workspaces,
\* and a lease or a due time already in the queue is kept.
AddToQueue(owners) ==
    \/ /\ owners = {}
       /\ UNCHANGED <<payload, slot, fresh>>
    \/ /\ owners # {}
       /\ \E t \in Marshalled : payload' = [owners |-> owners, tag |-> t]
       /\ slot' = IF slot = "none" THEN "due" ELSE slot
       /\ fresh' = [w \in Worker |-> IF Busy(w) THEN fresh[w] \cup owners ELSE {}]

-----------------------------------------------------------------------------
(* work(): one cycle of a checker worker.                                  *)

Go(w, pc) == wk' = [wk EXCEPT ![w].pc = pc]

\* GetNextProxyContext and refreshProxyWorkspaces: owners without a compiled
\* snapshot are dropped.
Claim(w) ==
    /\ ~Busy(w) /\ slot = "due" /\ payload # NoPayload
    /\ slot' = w
    /\ LET owners == payload.owners \cap snapshots
       IN wk' = [wk EXCEPT ![w] =
                    [pc |-> "check", snap |-> payload, owners |-> owners,
                     changed |-> owners # payload.owners,
                     todo |-> {}, removed |-> {}, inactive |-> FALSE, ended |-> {}]]
    /\ fresh' = [fresh EXCEPT ![w] = {}]
    /\ UNCHANGED <<managed, payload, marker, snapshots, tracker, req, boot, budget>>

\* pop.lua drops an entry whose payload is gone.
DropMissing(w) ==
    /\ ~Busy(w) /\ slot = "due" /\ payload = NoPayload
    /\ slot' = "none"
    /\ UNCHANGED <<managed, payload, marker, snapshots, wk, tracker, req, boot,
                   fresh, budget>>

\* The checks end and the streaks are written; the workspaces of todo have
\* reached their threshold.
Checked(w) ==
    /\ wk[w].pc = "check"
    /\ \E failing \in SUBSET wk[w].owners :
        wk' = [wk EXCEPT ![w].pc = "track", ![w].todo = failing]
    /\ UNCHANGED <<managed, queue, marker, snapshots, tracker, req, boot, fresh, budget>>

\* PauseManagedProxy or DeleteActiveManagedProxy: only active management.
FailureAction(u) ==
    IF managed[u] = "active"
    THEN \E s \in {"paused", "none"} : managed' = [managed EXCEPT ![u] = s]
    ELSE UNCHANGED managed

\* processBatch, one entry of this worker's request.
ProcessBatchEntry(w, u) ==
    /\ wk[w].pc = "track" /\ u \in wk[w].todo
    /\ FailureAction(u)
    /\ wk' = [wk EXCEPT
                ![w].todo = @ \ {u},
                ![w].removed = IF managed[u] = "active" THEN @ \cup {u} ELSE @,
                ![w].ended = IF managed[u] = "active" THEN @ \cup {u} ELSE @,
                ![w].pc = IF managed[u] = "active" THEN "lookup" ELSE @]
    /\ UNCHANGED <<queue, marker, snapshots, tracker, req, boot, fresh, budget>>

\* Fault: an error returns none of the results.
LookupDropsResults(w) ==
    /\ wk[w].pc = "lookup"
    /\ \/ wk' = [wk EXCEPT ![w].pc = "track", ![w].inactive = @ \/ Active = {}]
       \/ wk' = [wk EXCEPT ![w].pc = "track", ![w].todo = {}, ![w].removed = {}]
    /\ UNCHANGED <<managed, queue, marker, snapshots, tracker, req, boot, fresh, budget>>

\* proxiesWithoutActiveManagement, after the action committed.  An error ends
\* the batch with what it has done so far.
InactiveLookup(w) ==
    /\ wk[w].pc = "lookup"
    /\ \/ wk' = [wk EXCEPT ![w].pc = "track", ![w].inactive = @ \/ Active = {}]
       \/ wk' = [wk EXCEPT ![w].pc = "track", ![w].todo = {}]
    /\ UNCHANGED <<managed, queue, marker, snapshots, tracker, req, boot, fresh, budget>>

\* handleFailureTracking returns and the worker drops the removed workspaces.
Tracked(w) ==
    /\ wk[w].pc = "track" /\ wk[w].todo = {}
    /\ wk' = [wk EXCEPT ![w].pc = IF wk[w].inactive THEN "orphan" ELSE "verify",
                        ![w].owners = @ \ wk[w].removed,
                        ![w].changed = @ \/ wk[w].removed # {},
                        ![w].removed = {}, ![w].inactive = FALSE]
    /\ UNCHANGED <<managed, queue, marker, snapshots, tracker, req, boot, fresh, budget>>

\* Submit gives up waiting: its results are lost, the batch goes on.
TrackTimeout(w) ==
    /\ wk[w].pc \in {"track", "lookup"}
    /\ Fault
    /\ wk' = [wk EXCEPT ![w].pc = "verify", ![w].todo = {}, ![w].removed = {},
                        ![w].inactive = FALSE, ![w].ended = {}]
    /\ tracker' = tracker \cup wk[w].todo
    /\ UNCHANGED <<managed, queue, marker, snapshots, req, boot, fresh, requests>>

LateFailureAction(u) ==
    /\ u \in tracker
    /\ FailureAction(u)
    /\ tracker' = tracker \ {u}
    /\ UNCHANGED <<queue, marker, snapshots, wk, req, boot, fresh, budget>>

\* Fault: only the lease is compared.
RemoveLeasedBlindly(w) ==
    IF slot = w
    THEN slot' = "none" /\ payload' = NoPayload
    ELSE UNCHANGED queue

\* RemoveFromQueue with the worker's lease: refused when the lease is lost or
\* the payload is not the one that was claimed.
RemoveLeased(w) ==
    IF slot = w /\ payload = wk[w].snap
    THEN slot' = "none" /\ payload' = NoPayload
    ELSE UNCHANGED queue

RemoveOrphan(w) ==
    /\ wk[w].pc = "orphan"
    /\ RemoveLeased(w)
    /\ Go(w, "verify")
    /\ UNCHANGED <<managed, marker, snapshots, tracker, req, boot, fresh, budget>>

\* Fault: the answer of the verifier is not used.
VerifyIgnored(w) ==
    /\ wk[w].pc = "verify"
    /\ Go(w, "requeue")
    /\ UNCHANGED <<managed, queue, marker, snapshots, tracker, req, boot, fresh, budget>>

\* verifyProxyOwnership.
VerifyOwnership(w) ==
    /\ wk[w].pc = "verify"
    /\ Go(w, IF Active = {} THEN "drop" ELSE "requeue")
    /\ UNCHANGED <<managed, queue, marker, snapshots, tracker, req, boot, fresh, budget>>

\* Its lookup fails: ownership is unknown and the route stays scheduled.
VerifyFails(w) ==
    /\ wk[w].pc = "verify"
    /\ Fault
    /\ Go(w, "requeue")
    /\ UNCHANGED <<managed, queue, marker, snapshots, tracker, req, boot, fresh, requests>>

EndCycle(w) ==
    /\ wk' = [wk EXCEPT ![w] = Idle]
    /\ fresh' = [fresh EXCEPT ![w] = {}]
    /\ UNCHANGED <<managed, marker, snapshots, tracker, req, boot, requests>>

RemoveUnowned(w) ==
    /\ wk[w].pc = "drop"
    /\ RemoveLeased(w)
    /\ EndCycle(w)
    /\ UNCHANGED faults

\* complete.lua: the worker's delta on the payload of a concurrent import.
MergeOwners(live, before, after) ==
    {u \in live : u \notin before \/ u \in after} \cup (after \ before)

\* Fault: the worker's payload replaces whatever is there.
PayloadReplaced(w, t) == [owners |-> wk[w].owners, tag |-> t]

CompletedPayload(w, t) ==
    IF payload # NoPayload /\ payload # wk[w].snap
    THEN [payload EXCEPT !.owners = MergeOwners(@, wk[w].snap.owners, wk[w].owners)]
    ELSE [owners |-> wk[w].owners, tag |-> t]

\* requeueCheckedProxy: the payload is rewritten only when owners changed.
RequeueChecked(w) ==
    /\ wk[w].pc = "requeue"
    /\ IF slot = w
       THEN /\ slot' = "due"
            /\ \/ ~wk[w].changed /\ UNCHANGED payload
               \/ wk[w].changed /\ \E t \in Marshalled : payload' = CompletedPayload(w, t)
       ELSE UNCHANGED queue
    /\ EndCycle(w)
    /\ UNCHANGED faults

\* Lease lost, worker stopped, panic or crash: nothing is sent.
Abandon(w) ==
    /\ Busy(w)
    /\ EndCycle(w)
    /\ Fault
    /\ UNCHANGED queue

-----------------------------------------------------------------------------
(* HTTP handlers and the scraper.                                          *)

Start(h, pc) ==
    /\ req[h] = Idle
    /\ requests < MaxRequests
    /\ requests' = requests + 1
    /\ req' = [req EXCEPT ![h] = [pc |-> pc, owners |-> {}]]
    /\ UNCHANGED <<queue, marker, snapshots, wk, tracker, boot, fresh, faults>>

\* InsertAndGetProxiesWithWorkspace commits: new management is active or, at
\* the workspace's capacity, paused; existing management keeps its state.
Import(h, u) ==
    /\ Start(h, "load")
    /\ \/ managed[u] # "none" /\ UNCHANGED managed
       \/ /\ managed[u] = "none"
          /\ \E s \in {"active", "paused"} : managed' = [managed EXCEPT ![u] = s]

\* updateManagedProxyLifecycle: SetManagedProxyState commits.
SetManagedProxyState(h, u, s) ==
    /\ Start(h, "sync")
    /\ managed[u] # "none"
    /\ managed' = [managed EXCEPT ![u] = s]

\* requeueProxy finds the route among the workspace's active ones.
Requeue(h, u) ==
    /\ Start(h, "hydrate")
    /\ managed[u] = "active"
    /\ UNCHANGED managed

\* deleteProxies: DeleteProxyRelation commits.
Delete(h, u) ==
    /\ Start(h, "orphans")
    /\ managed[u] # "none"
    /\ managed' = [managed EXCEPT ![u] = "none"]

\* Where a request goes with the active owners (or the orphans) it reads.
Loaded(h) ==
    LET owners == Active
    IN  CASE req[h].pc = "load" ->
                IF owners = {} THEN Idle ELSE [pc |-> "publish", owners |-> owners]
          [] req[h].pc = "sync" ->
                [pc |-> IF owners = {} THEN "remove" ELSE "publish", owners |-> owners]
          [] req[h].pc = "hydrate" ->
                [pc |-> "remove", owners |-> owners]
          [] req[h].pc = "orphans" ->
                IF \A u \in Workspace : managed[u] = "none"
                THEN [pc |-> "remove", owners |-> {}] ELSE Idle

Load(h) ==
    /\ req[h].pc \in {"load", "sync", "hydrate", "orphans"}
    /\ req' = [req EXCEPT ![h] = Loaded(h)]
    /\ UNCHANGED <<managed, queue, marker, snapshots, wk, tracker, boot, fresh, budget>>

Publish(h) ==
    /\ req[h].pc = "publish"
    /\ AddToQueue(req[h].owners)
    /\ req' = [req EXCEPT ![h] = Idle]
    /\ UNCHANGED <<managed, marker, snapshots, wk, tracker, boot, budget>>

\* RemoveFromQueue without a lease: a pipeline of two commands.
RemovePayload(h) ==
    /\ req[h].pc = "remove"
    /\ payload' = NoPayload
    /\ req' = [req EXCEPT ![h].pc = "unschedule"]
    /\ UNCHANGED <<managed, slot, marker, snapshots, wk, tracker, boot, fresh, budget>>

\* Only requeueProxy goes on, with the owners it read before.
RemoveEntry(h) ==
    /\ req[h].pc = "unschedule"
    /\ slot' = "none"
    /\ req' = [req EXCEPT ![h] =
                  IF @.owners = {} THEN Idle ELSE [@ EXCEPT !.pc = "publish"]]
    /\ UNCHANGED <<managed, payload, marker, snapshots, wk, tracker, boot, fresh, budget>>

\* A query or a Redis command fails: the database change stays.
RequestFails(h) ==
    /\ req[h] # Idle
    /\ Fault
    /\ req' = [req EXCEPT ![h] = Idle]
    /\ UNCHANGED <<managed, queue, marker, snapshots, wk, tracker, boot, fresh, requests>>

-----------------------------------------------------------------------------
(* Startup and recovery.  The leader lock admits one bootstrap at a time.  *)

\* ForEachProxyBatch reads the active owners.
BootstrapLoad ==
    /\ boot = Idle
    /\ boot' = [pc |-> "publish", owners |-> Active]
    /\ UNCHANGED <<managed, queue, marker, snapshots, wk, tracker, req, fresh, faults>>

\* monitorQueueState finds no marker.
RecoverQueueState ==
    /\ ~marker
    /\ BootstrapLoad
    /\ UNCHANGED requests

\* Another instance starts: it refreshes the payloads whatever the marker.
InitializeRuntimeQueues ==
    /\ marker
    /\ requests < MaxRequests
    /\ BootstrapLoad
    /\ requests' = requests + 1

BootstrapPublish ==
    /\ boot.pc = "publish"
    /\ AddToQueue(boot.owners)
    /\ boot' = [boot EXCEPT !.pc = "mark"]
    /\ UNCHANGED <<managed, marker, snapshots, wk, tracker, req, budget>>

BootstrapMark ==
    /\ boot.pc = "mark"
    /\ marker' = TRUE
    /\ boot' = Idle
    /\ UNCHANGED <<managed, queue, snapshots, wk, tracker, req, fresh, budget>>

\* A step fails, or the leader lock is lost; the monitor tries again.
BootstrapFails ==
    /\ boot # Idle
    /\ Fault
    /\ boot' = Idle
    /\ UNCHANGED <<managed, queue, marker, snapshots, wk, tracker, req, fresh, requests>>

\* Reconciliation of the checker's settings snapshots.
Reconcile ==
    /\ snapshots # Workspace
    /\ snapshots' = Workspace
    /\ UNCHANGED <<managed, queue, marker, wk, tracker, req, boot, fresh, budget>>

\* A lease runs out: its worker is gone or has moved on, or is merely late.
Expire(w) ==
    /\ slot = w
    /\ slot' = "due"
    /\ IF Busy(w) THEN Fault ELSE UNCHANGED faults
    /\ UNCHANGED <<managed, payload, marker, snapshots, wk, tracker, req, boot,
                   fresh, requests>>

LoseRedis ==
    /\ payload # NoPayload
    /\ Fault
    /\ payload' = NoPayload /\ slot' = "none" /\ marker' = FALSE
    /\ UNCHANGED <<managed, snapshots, wk, tracker, req, boot, fresh, requests>>

-----------------------------------------------------------------------------
WorkerStep(w) ==
    \/ Claim(w) \/ DropMissing(w) \/ Checked(w)
    \/ \E u \in Workspace : ProcessBatchEntry(w, u)
    \/ InactiveLookup(w) \/ Tracked(w) \/ RemoveOrphan(w)
    \/ VerifyOwnership(w) \/ RemoveUnowned(w) \/ RequeueChecked(w)

HandlerStep(h) == Load(h) \/ Publish(h) \/ RemovePayload(h) \/ RemoveEntry(h)

StartRequest(h, u) ==
    \/ Import(h, u) \/ Requeue(h, u) \/ Delete(h, u)
    \/ \E s \in State \ {"none"} : SetManagedProxyState(h, u, s)

BootstrapStep == RecoverQueueState \/ BootstrapPublish \/ BootstrapMark

Next ==
    \/ \E w \in Worker : WorkerStep(w) \/ TrackTimeout(w) \/ VerifyFails(w) \/ Abandon(w) \/ Expire(w)
    \/ \E u \in Workspace : LateFailureAction(u)
    \/ \E h \in Handler : HandlerStep(h) \/ RequestFails(h)
    \/ \E h \in Handler, u \in Workspace : StartRequest(h, u)
    \/ BootstrapStep \/ InitializeRuntimeQueues \/ BootstrapFails
    \/ Reconcile
    \/ LoseRedis

Spec == Init /\ [][Next]_vars

\* Goroutines that have work go on with it, leases of workers that are gone
\* expire, and the monitor's ticker runs.  Nobody has to send a request.
Fairness ==
    /\ \A w \in Worker : WF_vars(WorkerStep(w)) /\ WF_vars(~Busy(w) /\ Expire(w))
    /\ \A h \in Handler : WF_vars(HandlerStep(h))
    /\ WF_vars(BootstrapStep)

FairSpec == Spec /\ Fairness

-----------------------------------------------------------------------------
(* Properties.                                                             *)

\* A worker that gives its claim back never drops a workspace it had not seen
\* when it claimed the route: complete.lua applies its ownership delta to the
\* payload an import published during the check.
Completes(w) == slot = w /\ slot' = "due" /\ wk'[w] # wk[w]

KeepsNewWorkspaces ==
    [][\A w \in Worker :
            Completes(w) /\ payload # NoPayload =>
                payload.owners \ wk[w].snap.owners \subseteq payload'.owners]_vars

\* The stronger reading of the same comment: an active workspace published
\* during the check stays, also when the worker had already seen it.
KeepsPublishedWorkspaces ==
    [][\A w \in Worker :
            Completes(w) /\ payload # NoPayload =>
                payload.owners \cap fresh[w] \cap Active \subseteq payload'.owners]_vars

\* What a worker that found no owner erases although an active workspace was
\* published after its claim is, byte for byte, the payload it claimed: only a
\* route without sealed credentials, republished for the very same workspaces,
\* passes the comparison of remove.lua.
RemovalSparesImports ==
    [][\A w \in Worker :
            Busy(w) /\ wk'[w] # wk[w] /\ payload # NoPayload /\ payload' = NoPayload
                => \/ fresh[w] \cap Active = {}
                   \/ payload = wk[w].snap /\ payload.tag = Bare]_vars

\* The stronger reading of the same comparison: such a workspace is never erased
\* ("it cannot erase a concurrent import", docs/architecture.md).
ImportsSurviveRemoval ==
    [][\A w \in Worker :
            Busy(w) /\ wk'[w] # wk[w] /\ payload # NoPayload /\ payload' = NoPayload
                => fresh[w] \cap Active = {}]_vars

\* A workspace that the worker's own batch ended leaves the payload when the
\* worker gives its claim back, unless it was published again meanwhile: also
\* when a later query of the batch failed (Submit's results "can accompany an
\* error") and when an import replaced the payload during the check.
EndedLeavesPayload ==
    [][\A w \in Worker :
            Completes(w) /\ payload' # NoPayload =>
                wk[w].ended \cap payload'.owners \subseteq fresh[w]]_vars

\* Once no workspace wants the route checked, it leaves the schedule for good,
\* although stale requests, bootstraps and late workers may still publish it.
InactiveLeaves == <>[](Active = {}) => <>[](slot = "none")

\* A recovered queue holds the active inventory: the marker says so, and
\* nothing is under way that could still put the route there.
Recovered ==
    /\ marker /\ boot = Idle
    /\ \A h \in Handler : req[h] = Idle
    /\ \A w \in Worker : ~Busy(w)

MarkerMeansQueued == Recovered /\ Active # {} => slot # "none"
=============================================================================
