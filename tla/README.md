# Magpie backend: specification and proofs

Magpie checks proxy routes on behalf of workspaces.  PostgreSQL holds what the
workspaces own; Redis holds the runtime copy that checker workers live from:
a schedule, leases, payloads and a stream of results.  Several instances of the
backend share both.  This directory specifies the parts whose correctness
depends on who does what in which order, checks them with TLC on small
instances, and proves the most important facts with TLAPS.

Line numbers below are those of `internal/`.

## 1. The system and its parts

| Part | State | Operations | What is hard |
| --- | --- | --- | --- |
| Proxy queue (`jobs/queue`) | sorted set per shard, head index, payload keys | publish, claim, renew, complete, remove, migrate, reschedule | workers, imports and administrators interleave; leases expire; scripts see old clocks and old payloads |
| Checker worker (`jobs/checker`) | lease, owners, results of one cycle | claim, check, track failures, verify ownership, give back | decides on data read minutes ago; may crash or be late |
| Failure tracker | batch channel, streaks, failure actions | submit, batch, pause or delete | submitter times out, batch goes on; batch fails half way |
| Ownership verifier | batch channel | lookup | a lookup may fail |
| Route lifecycle (`app/server`, `database`) | `user_proxies` rows | import, activate, pause, archive, requeue, delete | commits first, updates Redis afterwards with what it read |
| Bootstrap and recovery (`app/bootstrap`) | marker in Redis | reconstruct, mark, monitor | Redis may lose its data at any step |
| Statistics ingestion (`jobs/runtime`) | stream, pending entries, ledger, replay floor | append, consume, claim idle, insert, acknowledge, trim | exactly-once effect from at-least-once delivery |
| Admission of results (`jobs/runtime`, `app/bootstrap/lifecycle.go`) | stream length, memory queue, shutdown stage | admit, append, fall back, drain | the cap is checked before the append; producers and consumers stop in an order |
| Leader lock (`support/leadership.go`) | key with expiry | acquire, renew, release | lost replies; a leader that has not noticed its loss |
| Scrape-site queue and scraper (`jobs/queue/sites`, `jobs/scraper`) | schedule per mode, claim, lease, Retry-After, subscriptions | claim, fetch, force, renew, complete, add, remove | late completions carry news; pipelines are not atomic |
| Browser manager | slots, current browser, generation | acquire, launch, invalidate, close | pages of an old generation fail while a new one runs |
| Worker pools (`thread_handler.go`, twice) | counter, stop requests | launch, stop, panic, shut down | a stopping worker is still counted |
| Rotating proxies (`rotatingproxy`, `database`) | rows, listeners, tracked sockets, cursor | create, delete, reconcile, accept, dial, stop, select | stale lists, dials that outlive their client, qualification changing under the cursor |
| Alerts | rule state, incidents, events, delivery claims | observe, edit, claim, send, retry | passes overlap with edits and with senders |
| E-mail outbox | rows with attempts | enqueue, claim, send, mark, requeue, delete | marks compare no claim |
| Accounts (`app/server`, `auth`) | users, reset tokens, sessions, revocations | register, log in, refresh, change, forget, reset, delete | read, compute, write in separate steps over two stores |
| Authentication rate limits | counters in Redis, fall-back map and heap | allow, reset, evict | heap entries outlive their counter |
| Workspaces | memberships, invitations | create, invite, accept, change, remove, leave, delete account | checks read without a lock |
| Capacity and failure streaks | `user_proxies`, subscription row lock, streaks | import, activate, pause, delete, overflow clean-up | count and write are separate statements |
| Checker settings (`checkerconfig`) | settings, tags, revisions, change log, snapshots | save, tag, load, refresh, prune | snapshots catch up from a log that is pruned |
| Configuration (`config`) | Redis key, file, memory, interval channels | start, save, publish, adopt | two instances save at once; no versions |
| Instance heartbeats | keys, index | beat, list, prune, rebuild, leave | a list prunes whoever has just come back |
| Dashboard cache | cached values, flights, health version | get, load, invalidate, refresh | leaders fail; the version moves during a load |
| Traffic usage, daily counts | counters per month or day, totals | add, flush, prune; count, backfill, compact, retain | counters are read, written and removed in steps |
| Blacklist, GeoLite (`blacklist`, `geolite`) | tables or files, caches, readers | refresh, replace, notify, reload | caches loaded in between; notifications lost or overlapping |
| Evidence and reputation read models, judges, enrichment, HTTP/GraphQL, schema | derived rows, I/O | | not modelled (section 5) |

How they interact: handlers, the scraper and the bootstrap commit to PostgreSQL
and then call `AddToQueue` or `RemoveFromQueue`; workers claim from the queue,
submit to the tracker and the verifier, append results to the stream and give
the claim back; recovery re-publishes PostgreSQL's inventory into Redis.  The
leader lock decides who runs maintenance, alerts and refreshes; configuration,
checker settings, blacklist and GeoLite data spread from one instance to the
others through Redis messages that say no more than "look again".  Only Redis
scripts and single SQL statements are atomic, and SQL transactions as far as
their row locks reach.

What makes each part correct is listed, hazard by hazard and with its line, in
`PROJECT.json`.

## 2. Modules

`ProxyQueueScripts` has one operator per Lua script, from the store a script
finds to the store it leaves.  Scores are counted in half milliseconds, so the
due time *t* is `2t` and the lease mark *t* + 0.5 is `2t + 1`.  A payload is
reduced to its owners, its format and `tag`, the credential bytes.
`pop.lua`'s loop is eight applications of `PopPass`.

`ProxyQueue` runs them concurrently.  `lease[w]` is the claim a worker
remembers (`ProxyQueueLease` plus whether the payload still has to be
migrated), `removing` the removal pipelines between their two commands, and
`revoked` is history: workers whose entry was removed under them.  Every action
is one script or command with its caller's bookkeeping.  A script may use a
clock reading up to `Delay` old.

`RouteLifecycle` follows one route through PostgreSQL (`managed`), the queue as
its users see it (`payload`, `slot`), the steps of `work()` (`wk`), requests
between their commit and their last Redis command (`req`), the bootstrap
(`boot`) and failure actions nobody waits for any more (`tracker`).  `fresh`
is history: the workspaces published since a worker's claim; so is `ended`, those
whose management its batch ended while it waited.  "paused" stands
for archived as well.  `MaxFaults` bounds crashes, errors, time-outs and Redis
losses; `MaxRequests` requests and instance starts.

`MC*` modules give the constants their values.  `ProxyQueueProofs` and
`ProxyQueueLeaseProofs` hold the theorems.  Definitions commented "Fault:" or
"Mutant:" are wrong variants of the definition that follows them; they document
what the properties detect and no behaviour uses them.

`StatisticsStream` follows check results from the Redis stream to PostgreSQL.
`redis` is the stream with its consumer group (entries, position, owner of each
pending entry), `disk` the state that a failover or restart of Redis brings
back, `ledger` and `floor` are the replay protection in PostgreSQL, `worker[c]`
is the loop of a consumer (`pc` is the stage of `flushStreamStatisticsBuffer`),
`maint` the maintenance pass.  `counted` and `waived` are history: how often an
entry reached history and counters, and which entries fall under a documented
exclusion (malformed payload, deleted route, eviction, data lost by Redis).
IDs are numbers because `ProxyStatisticEventSortID` keeps Redis's order; they
grow even when Redis loses its data, that is, the clock of Redis does not go
back then.  A buffer is a set, so a page of the insert is any part of it.  Which
pending entries have been idle long enough is left open.  One maintenance leader
is assumed.  `MaxFaults` bounds stops, errors, lost replies, ambiguous commits
and failovers, `MaxSaves` the states Redis saves.
`StatisticsStreamProofs` holds its theorems.

`ResultLog` says what ingestion promises without streams, consumers or ledgers:
a result is accepted, counted at most once or excluded for a documented reason,
and forgotten only when settled.  `StatisticsStream` instantiates it (`Log`) and
`ImplementsLog` is the refinement.

The other components share no state that their properties depend on, so each
has a module of its own, named for it:

| Module | State (variable: code) | Actions, one per |
| --- | --- | --- |
| `StatisticsAdmission` | `streamed`, `queued`, `held`: stream, memory channel, writers' buffers; `producer`: step and policy of each check's submission; `stage`: the staged shutdown | step of `AddProxyStatisticForWorkspaces` and of the memory workers, stage of `lifecycle.go` |
| `LeaderLock` | `lock`: key, value and expiry; a session per instance; `robbed`: history, sessions whose key Redis lost | SET NX, renewal, release, their lost replies, errors, crash |
| `ScrapeQueue` | `site`: the Redis keys of one URL; `fetcher`: workers; `subs`, `result`: `user_scrape_site`; `deadline`, `lastCommit`: history | Lua script, pipeline command, step of `processScrapeSiteJob`, request handler |
| `BrowserPool` | current browser, launch in progress, pages with their generation | critical section of `browserManager` |
| `WorkerPool` | dispatcher, worker slots, counter, stop requests, load | dispatcher round, step of a worker, panic, shutdown |
| `RotatorListeners` | rows, listeners, the list Reconcile works on, API calls | step of `Reconcile`, `Add`, `Remove` and of the handlers |
| `RotatorTunnels` | sockets, owners, tracked set, slots, stopping | step of accept, dial, relay and `Stop` |
| `RotatorCursor` | evidence, state and settings of the routes, cursor; history of what was served | selection, change of qualification, deletion |
| `Alerts` | rule, incidents, deliveries, passes and senders | transaction of `applyAlertObservations`, edit, delivery claim, result |
| `EmailOutbox` | rows, what each courier carries | statement of `email_outbox.go`, send |
| `Accounts` | users, tokens, sessions, revocations, one `call` per request | step of a handler between two stores |
| `RateLimiter` | Redis counters, map, heap, back-off | `Allow`, `Reset`, loss and return of Redis, time |
| `Workspaces` | memberships, invitation, jobs; `overtaken`: history, requests during which another one committed | read, check and commit of each request |
| `RouteCapacity` | `userProxies`, the row lock, transactions | statement of import, activation, clean-up and failure batch |
| `CheckerPlans` | settings, tags, projection, change log, snapshots and plans | transaction of settings, tags and routes; load, refresh, prune |
| `ConfigSync` | Redis value, file, memory and inbox of each instance, interval channels | step of `applyConfigUpdate`, start-up, message |
| `InstanceHeartbeat` | key and index entry per instance as remaining time, the reader | pipeline command, step of listing, time |
| `DashboardCache` | health version, cached entry, flight, callers | step of `getDashboardComponent`, `run` and a refresh |
| `TrafficUsage` | meters per month, adders, flusher | lookup, add, flush step, prune |
| `DailyCounts` | rows, day counters, total, jobs | increment, backfill, compaction, retention |
| `BlacklistSync` | sources, tables, caches, notifications | step of a refresh, reload, request |
| `BlacklistRanges` | the listed prefixes, `pending`: those the merge has not reached; `merged`: its spans so far | listing one more; one iteration of the merge loop; the binary search is a definition |
| `GeoLiteSync` | files, readers, Redis, goroutines of each instance | file written, command, reload, notification |

Services do not interact, so exploring their product would only multiply states.
`MCServices` composes twelve of them with a variable `focus` that names the
service a behaviour is about, while the others rest in an initial state: its
reachable states are the disjoint union of the services' own, and its properties
are the modules' own definitions.  `MCTenants` does the same for the life of a
route (`RouteLifecycle`), the activation limit (`RouteCapacity`) and checker
plans, `MCMembers` for members (`Workspaces`), their accounts and the limiter of
authentication attempts, `MCServicesLive` for the six services with liveness
properties and `MCLive` for the liveness of a route and of the statistics
stream, each part under its own fairness.  Symmetry (`MCSymmetry`) permutes the
identities that are alike; the runs with liveness properties use none.

The theorems are in eight modules, each about one side of the system:
`ProxyQueueProofs` and `ProxyQueueLeaseProofs`, `StatisticsStreamProofs`,
`RouteProofs` (`RouteLifecycle`, `RouteCapacity`, `CheckerPlans`),
`ClusterProofs` (`LeaderLock`, `GeoLiteSync`, `ConfigSync`), `RotatorProofs`
(`RotatorTunnels`, `RotatorCursor`, `TrafficUsage`), `ServiceProofs` (`Alerts`,
`StatisticsAdmission`, `BrowserPool`, `ScrapeQueue`) and `TenantProofs`
(`RateLimiter`, `Workspaces`, `DailyCounts`, `BlacklistRanges`, `Accounts`).
They are about the modules' own specifications, and prove the definitions that
the runs check.

## 3. Runs

| Run | Shows | Bounds, and why they suffice |
| --- | --- | --- |
| `queue` | index, placement, fencing, order and lease protection of the queue | 2 workers, legacy queue and one shard, a route and an alias of it, clock 0..3, lease 2: expiry, reclaim, equal tokens, migration onto a leased hash and a removal between its commands all occur |
| `queue_live` | an overdue route is claimed | 2 workers, 1 route, 2 queues, clock 0..3; at the last tick the clock stops but every entry that is due by then must still be claimed |
| `tenants` | a worker's stale decisions against what is newer, with sealed and with plain payloads; one property per part (below) | 2 workspaces, 1 worker, 1 handler, 2 requests, 1 fault: enough for import and pause during a check, and a late batch; of a route whose payloads carry nothing sealed, 1 request; 2 of each actor of the other parts.  2.4 million states over all parts |
| `members` | one property per part (below) | 3 users, 4 requests, 3 keys; 581 thousand states over all parts |
| `live` | an inactive route leaves the schedule; every entry leaves the stream | 1 workspace, 1 worker, 1 handler; 1 entry, 2 consumers of which one may stay away for ever, 2 faults, deletion of the route between preparation and insert.  450 thousand states |
| `reactivated` | **violation**: completion drops a workspace published during the check | 1 request |
| `plaintext` | **violation**: a worker's removal erases a concurrent import when payloads carry no sealed credentials | 1 request, no fault |
| `recovery` | **violation**: the marker vouches for an empty queue | 1 fault |
| `stream` | exactly-once effect, nothing lost, floor behind open work, refinement of `ResultLog` | 2 consumers, 2 entries, one malformed and one whose route may be deleted, reads and pages of 1, claims of 2, retirement of 1, cap 1 (eviction of pending entries), 1 save and 1 fault: claim by the other consumer, replay after retirement, failover to a state older than the floor, a partly committed flush, a group lost before the first read and a repair of it that fails.  1.6 million states |
| `services` | one property per service (below) | 2 or 3 of each actor; 738 thousand states over all services |
| `services_live` | one liveness property per service (below) | 2 or 3 of each actor; `BlacklistsAgree`: 2 instances, an address and a range, 1 change of the sources, 1 fault, which is enough for two refreshes at once, an event lost or a cache loaded in between.  136 thousand states |
| `last_owner` | **violation**: a workspace loses its last owner | 3 users, 2 requests |

`services`:

| Property | Shows | Bounds |
| --- | --- | --- |
| `SoleActiveLeader` | no two routines run under the lock while both contexts are alive, unless Redis itself lost the key | 2 instances, TTL 3, 3 sessions, 2 lost replies |
| `NoLeakedBrowser` | every browser is current, starting, or about to be closed | 3 pages, 2 slots, 3 browsers |
| `IncidentsInOrder` | one open incident per rule, announced in order | 2 passes, 2 senders, 1 edit |
| `NoSocketOutlivesOwner` | every open socket has somebody who will close it | 2 clients, 2 tunnels, 1 SOCKS slot |
| `NoRouteServedTwiceFirst` | round robin in spite of changing qualification | 3 routes, 2 settings |
| `ConfigurationSpreads` | instances that have read everything agree; listeners learn the interval | 2 instances, 3 configurations, 1 fault |
| `AdmissionBounded` | an orderly exit loses nothing accepted; the cap is exceeded by producers in flight at most | 2 producers, 3 results, caps of 1, all policies |
| `InformedReadersCurrent` | a notified, idle instance serves the stored databases | 2 instances; 2 updates, or 1 update and 1 fault |
| `TrafficMetered` | bytes are recorded or still in a counter | 2 connections, 2 months, 1 error |
| `LookupExact` | after every iteration of the merge, the search answers as the prefixes merged so far do | 4 of the prefixes of two families of 4 addresses |
| `ChecksCountedOnce` | each check is in the totals once | 4 days, 2 checks a day, 1 legacy row |
| `RetriesAndProgress` | a Retry-After binds every later claim; a superseded claim overwrites no progress | 2 workers, 1 workspace, clock 1..3, 4 claims and requests together: a third claim after an expired one, or removal and re-adding |

`tenants`:

| Property | Shows | Bounds |
| --- | --- | --- |
| `KeepsNewWorkspaces` | a completion keeps every workspace that its claim had not seen | 2 workspaces, 1 worker |
| `RemovalSparesImports` | a worker that found no owner erases a later import only if that is, byte for byte, the unsealed payload it claimed | the same |
| `EndedLeavesPayload` | what a worker's batch ended leaves the payload when the worker completes, also after an error of the batch or an import, unless it was published again | the same |
| `ActivationsWithinLimit` | counting under the row lock keeps the limit | 2 routes, 2 transactions, limit 1, threshold 2 |
| `ProjectionExact` | snapshots and projection equal a full compilation, pruned log or not | 2 instances, 2 routes, 2 revisions, 2 generations, 1 load at a time |

`members`:

| Property | Shows | Bounds |
| --- | --- | --- |
| `LastOwnerNeedsOverlap` | an owner is only lost to overlapping requests | 3 users, 2 requests at a time |
| `PasswordChangesExact` | a reset token works once; a rollback undoes only its own request's change, to what that request had read | 4 requests, 2 accounts |
| `BlockedUntilExpiry` | a blocked key stays blocked until its window ends, it is reset or evicted | 3 keys, map of 2, window 2 |

Every module also has a type invariant (`...TypeOK`).  Those of the queue, the
stream, `RouteLifecycle`, `RateLimiter`, `Workspaces` and `Accounts` are
theorems; the other proofs establish the types they need as a part of their
inductive invariants.

The system may come to rest in the models (nothing is due, the clock is at its
bound, no request or result is left), so deadlock is not checked.

The violations are described under `findings`.  Each is a disagreement between
a sentence of the repository and what the code does, and needs only steps the
code takes; none needs a mixed deployment or a fault of the code's own making.

### Fairness

`queue_live` assumes that workers poll again (`work()` loops for ever), that a
check ends (requests have time-outs and every path completes or abandons), and
that time passes.  `live` assumes of a route that goroutines with work go on,
that the lease of a worker that is gone expires, and that the monitor's ticker
runs.  No request, fault, reconciliation or late failure action is fair.
Of the stream it assumes for one consumer that its process is started again, that
its loop goes on and its flush timer fires (the loop ends only when its context
is cancelled), and that pending entries become idle enough to be claimed.  The
other consumer, maintenance, deletion and faults are not fair.

`services_live`, where crashes, errors, slow senders, row changes and panics are
bounded and never fair:

* `MailDelivered`: retries become due, maintenance requeues a claim nobody
  carries, a courier goes on with what it carries.  A message that is claimable
  again and again is claimed (strong fairness): batches are taken in order of
  due time by every instance's loop.
* `ListenersFollow`: the sync loop's ticker runs and a request that began ends.
* `BlacklistsAgree`: the refresh loop runs on one instance, which is its leader,
  a refresh that began goes on wherever it runs, and subscribers receive.  A lost notification is made good by the next refresh.
* `PoolFitsLoad`: the dispatcher's loop runs, workers go on (checks have
  time-outs).
* `InstancesKnown`: time passes, running instances beat on time, readers go on.
* `DashboardAnswers`: a goroutine that is not blocked continues.

## 4. Proofs

For every set of shards, members, workers, workspaces and instances, and every
lease time, interval and clock delay of at most one unit:

* `TypeCorrect`: `Spec => []TypeOK`.
* `HeadIndexCorrect`: `Spec => []HeadIndexed`, without any assumption that the
  instances agree on their shards.  The inductive invariant is
  `Sound == TypeOK /\ HeadIndexed`.  Each script has a lemma that it keeps a
  store *good* (typed and indexed); `renew.lua`, which leaves the index alone,
  needs that a renewed mark is later than the one it replaces, and that in turn
  that the renewal margin is shorter than the lease.  `pop.lua` is proved from
  a loop invariant, `ScanOK`.
* `LeasesExclude` and `OnePlace`: `Spec => []LeaseExclusive` and
  `Spec => []OneShard`, assuming `UniformShards` (all instances read the same
  `PROXY_QUEUE_SHARDS`).  `LeaseExclusive` is not inductive: the proof adds
  `Placed` (a member is in at most one shard, which every instance knows) and
  `Fenced` (a claim that was not revoked is in the store, or its token is in the
  past).  A script writes only tokens that are not in the past, so an old claim
  never becomes valid again.  Without `UniformShards` the argument breaks at
  `add.lua`, which looks for leases only in the shards it knows.
* `LeasesAreKept`: `Spec => LeasesKept`, under the same assumption: a mark
  changes only when it has expired, by a step of the worker that holds it, or
  with an administrative removal or a loss of Redis.  Each script has a lemma
  about the marks it leaves alone.
* `EarliestIsClaimed`: `Spec => ClaimsEarliest`, for any agreement about shards
  and however stale the head index is.  The loop invariant of `pop.lua`
  (`LowestSoFar`, with `ScanOK`) says that until a pass claims, the entries that
  have a payload keep the scores of the store the script started from, and that
  the score of what it claims is the lowest of theirs.
* `StreamTypeCorrect`, `CountedAtMostOnce`, `NoEntryLost`, `FloorSafe` and
  `BuffersTracked`, for every set of consumers, number of entries, batch size
  and number of faults.  `CountedOnce` needs `Remembered`: what was counted is in
  the ledger or behind the floor, and what is in the ledger was counted.
  `NothingLost` needs `Delivery`: an ID that may be acknowledged is settled, and
  every entry a group delivered is settled or pending, in the live group as well
  as in the saved one; hence the lowest pending ID, or the ID after the last
  delivered, is a safe boundary when it is read, and stays one while the pass
  carries it, because settled entries stay settled.  A failover replaces the
  live group by the saved one, which is why the saved group is in the invariant.

* `StreamImplementsLog`: `Spec => ImplementsLog`, the refinement of `ResultLog`.
  The mapping (`Log`) takes an entry as accepted once its ID was handed out, as
  kept while the live stream has it, as counted by `counted`, and as excluded by
  `waived` or by being malformed.  Init maps to Init; every step is a step of
  the log or a stutter.  The steps that need the invariants are those that
  remove entries, which may forget only what is settled, and the insert, which
  may count only what was not counted.

About the services, each for any number of actors and any bound on their steps
(an inductive invariant was first checked with TLC as an invariant of the
instance of section 3, or of a smaller one, and then proved):

* `OnlyOneLeads` (`LeaderLock`), for every TTL and every renewal interval below
  it.  `SoleActiveLeader` only compares sessions, so the invariant says what
  separates them: values are unique (`ValuesUnique`), and a leader whose key
  Redis did not lose holds the key past its next renewal, which is not overdue
  (`LeadersHoldLock`).  A renewal that errs cancels the context before the key
  can expire, which is where the argument uses `RenewEvery < LockTTL`.
  `robbed` marks a session whose key Redis lost; a new acquisition clears it.
* `InformedInstancesCurrent` (`GeoLiteSync`), without an assumption.  Per
  instance: what a goroutine is about to write, store or publish is a database
  and not the lack of one (`Whole`), a subscribed instance has its goroutines
  (`HearsUpdates`), and on an informed one only the handler runs, and files,
  readers and what the handler carries are Redis's as far as it has come, or
  another notification is pending (`Follows`).
* `ConfigurationReaches` (`ConfigSync`).  `ConfigsAgree` speaks of idle
  instances; in between, the last message of the subscription is the latest
  configuration, and a publisher that has not stored its own configuration yet
  has a message waiting (`Informed`): storing late is repaired by it.  The
  interval half is nearly inductive (`ListenerCurrent`).
* `SocketsHaveOwners` (`RotatorTunnels`).  Per client: where its dial can be
  given the state of its handler (`DialsFit`), whose sockets are whose
  (`UpstreamOwned`, `ClientOwned`), and that a stop finds what is registered
  (`StopFinds`).  The tracked sets stay finite (`FiniteHoldings`).
* `RotationFair` (`RotatorCursor`).  Seen from a waiting route, what was served
  since it began to wait lies behind the cursor, going round
  (`ServedBehindCursor`); the route that is served next does not.
* `TrafficCountedOnce` (`TrafficUsage`).  The books balance because months do
  not share counters, an unused counter is zero (`MetersDistinct`), a connection
  under the read lock adds to a counter that is still in the map
  (`AddersMapped`), and a flush took from the counter that is still the month's.
* `RouteTypeCorrect`, `CompletionKeepsImports`, `RemovalKeepsImports` and
  `EndedManagementLeaves` (`RouteLifecycle`), the first an invariant and the
  others action properties.  `RemovalKeepsImports` holds with and without
  encryption and needs `ImportsVisible`: while the payload has the sealed
  credentials that a worker claimed, nothing was published since its claim,
  because sealing takes a new nonce each time.  Nothing is sealed when payloads
  are plaintext, the default, nor when a route has no user name and password
  (`EncryptProxySecret` leaves an empty secret empty): such a route's payload,
  published again for the same workspaces, has the same bytes, and the worker
  that claimed it erases it (run `plaintext`).  The theorem says that this is the
  only case.  `EndedManagementLeaves` needs `EndedKnown`: until the batch
  answers, what it ended is what it will report, error or not, and afterwards the
  worker's owners exclude it and count as changed.
* `ProjectionStaysExact` (`CheckerPlans`).  Refreshes merge only the routes
  recorded since their snapshot, so the invariant says what may be missing: a
  snapshot that the watermark of full changes does not exclude differs from a
  compilation of the present settings only in routes recorded since
  (`SnapshotsSound`, `ProjectionSound`), and a route with an override was
  recorded, so that its deletion is too (`OverridesRecorded`).  A first version of
  the property, that the projected overrides also have the headers of the
  projected default, was refuted by TLC; section 5 gives the behaviour.
* `ActivationsFit` (`RouteCapacity`), an action property.  Whoever has counted
  holds the row lock (`HoldersLocked`), and its plan fits the rows as they are
  now (`PlansFit`): others may only remove or pause meanwhile.
* `AdmittedResultsKept` (`StatisticsAdmission`).  `Drained` says stage by stage
  what has ended; `RoomKept` counts the producers between check and append:
  length plus these never exceeds the cap by more than the producers that
  passed the check together.
* `NoBrowserLeaks` and `ShutdownStopsBrowsers` (`BrowserPool`).  A launch is
  under way only while there is no browser it could displace
  (`LaunchDisplacesNone`), and shutdown begins when the workers are idle
  (`ShutdownQuiet`).
* `IncidentsAnnouncedInOrder` (`Alerts`).  With the types of the rows both
  properties are inductive.  The proof rests on `MessagesKeep`: a change of the
  messages keeps their order if one that becomes unfinished has no successor
  and one that is claimed has no unfinished predecessor; each statement of
  `alert_deliveries.go` is shown to be such a change.

* `BlocksHold` and `LimiterTypeCorrect` (`RateLimiter`).  Every counter of the
  map has its own heap entry (`InHeap`), so expired and evicted keys are found
  however many stale entries the heap has; hence a window ends only by its
  time, a reset, or an eviction that takes the one that ends first.
* `LastOwnerNeedsRace` and `WorkspaceTypeCorrect` (`Workspaces`).  The check of a
  request that nobody overtook still holds when it commits (`ChecksFresh`).
* `CountsAreExact` (`DailyCounts`), for every number of days and any retention.
  The total is a sum over days of shares that the state does not record, so the
  invariant asserts that such shares exist (`Folded`): for each day share and
  counter make up what was checked, up to rows older than the counters, and what
  a backfill read before is not more than that.
* `RangesFindExactly` (`BlacklistRanges`), for every address width.  The merge is
  modelled as the loop it is, one action per iteration, which turns what was
  an induction over the input into a loop invariant (`RangesInv`): the spans are
  sorted and disjoint, they cover exactly the blocks merged so far, and no block
  still to come starts before the last of them.
* `PasswordChangesAreExact` and `AccountTypeCorrect` (`Accounts`).  Of the resets that
  read one token at most one is past its row lock, and once one has been answered
  the token is gone (`TokensExclusive`).  A password counts as stored only
  when its request stored it (`RowsFit`), so a change of a hash back to an old one
  is a rollback, and that compares the stored hash with its own.
* `RetriesHonoured` (`ScrapeQueue`).  The committed deadline is never later than
  the retry time in the site's schedule (`GoodSite`), and what a worker owes is
  never later than the retry time it carries (`GoodJob`), because every script
  takes the later of two retry times; a claim is numbered by the sequence that it
  advances, so a completion that is let through is the newest.

Assumptions on the constants are `ScriptAssumption`, `PayloadAssumption` and
`QueueAssumption`, which TLC evaluates in every run of the queue,
`StreamAssumption`, which it evaluates in `stream`, `LifecycleAssumption` of
`RouteLifecycle`, and the `...Constants` of the other modules, which the theorems
about them name and which `MCServices` (`ServicesAssumption`), `MCTenants`
(`TenantsAssumption`) and `MCMembers` (`MembersAssumption`) assume, so that TLC
evaluates them.  They say that bounds are natural numbers, that NULL values are
not ordinary ones, that the routes of a workspace and the producers are finite sets,
and what the code makes sure of at start: at least one writer and a stream cap of
at least 1 (smaller settings are replaced by defaults), `RenewEvery` between 1
and `LockTTL - 1` (`ttl/3`).

Every safety property and action property of the passing runs is a theorem.
Only model-checked are

* liveness, in `queue_live`, `live` and `services_live`: the prover has no rule for fairness.  The
  modules that only `services_live` explores (`EmailOutbox`, `RotatorListeners`,
  `BlacklistSync`, `WorkerPool`, `InstanceHeartbeat`, `DashboardCache`) have no
  theorems for that reason;
* type invariants that are not named above, among them `ScrapeTypeOK`, whose
  bounds on times hold only on the instance.

The violated properties of the runs `reactivated`, `plaintext`, `recovery` and
`last_owner` have no theorems, naturally; the theorems nearest to them
(`CompletionKeepsImports`, `RemovalKeepsImports`, `LastOwnerNeedsRace`) say how
much of what the repository promises does hold.

## 5. Limits

Of the exactly-once result: a producer whose XADD was executed but not answered
in time appends the result again under another ID; the two are different entries
to everything downstream.  A memory result has no identity at all.  If Redis
loses the stream and its clock is behind the lost one, new IDs can fall below
the floor.

Of the queue: a token is a millisecond time, so a route that is removed, added
and claimed again within the millisecond of an earlier claim can carry the same
token.  Instances with different `PROXY_QUEUE_SHARDS` do not see each other's
shards.  The unconditional removal after a deletion can erase another
workspace's publication; it comes back with the next publisher.

Of checker plans: an instance that refreshes incrementally projects only the
routes recorded since its own snapshot.  If instance A has a snapshot with
headers h1, instance B projects all routes with headers h2 without raising the
watermark of full changes, and a later change lets A refresh, then A sets the
default's key to h1 while the overrides of routes it has not heard of keep h2.
The projected settings are exact all the same, which is what `ProjectionExact`
says; `docs/design/tag-checker-settings.md:69-71` promises for missed
notifications that no obsolete override stays active.  The next full load heals
it.

Of passwords: a rollback takes away no other request's password, but it can bring
back one that is older than an answered change.  A request reads the old password,
another change succeeds, the first stores over it without comparing, cannot revoke
the sessions and restores what it had read (`changePasswordWithSessionRevocation`,
`route_user_handler.go:528-553`).  Model and code agree in this, and no document
promises otherwise; `PasswordChangesExact` does not exclude it.

Of late failure actions: what a batch ends after its submitter stopped waiting, no
worker drops from the payload.  A route that no workspace wants any more leaves the
schedule all the same (`InactiveLeaves`); one that others still manage keeps the
workspace in its payload until the next publication.

Of intervals: `ConfigurationSpreads` is about the channel of the check and scrape
intervals.  The channels of the blacklist and GeoLite intervals drop what does not
fit (`config/time.go:160-165, 211-216, 253-258`), so a listener may keep an older
interval until the next change; they are not modelled.

Of merged payloads: `complete.lua` encodes with cjson, whose fields may come in
another order than Go's.  The model takes a merged plain payload and a marshalled
one for the same workspaces as equal, so it admits more removals than the code.

Left out of the modelled parts: outbound checks (an arbitrary outcome), tags and
credentials of routes, batching of several routes in the verifier, the readiness
flag, two maintenance leaders at once, rows of earlier releases without a sort
key.  `RouteLifecycle` lets any set of workspaces reach its failure threshold and
lets an import be paused; `RouteCapacity` has the arithmetic of both and is not
composed with it.  There, as in the code, a row that the increment does not
return counts as saturated, whether it is saturated or was deleted meanwhile.
`LeaderLock` has punctual
timers; a process suspended for longer than the TTL is outside it.

Not modelled at all: SQL that derives rows from rows (latest evidence, inventory,
reputation), outbound HTTP and judge resolution, enrichment clients, request
decoding and response formatting, DDL, seeding and exports.  They either
have no state between two statements, or consist of wording and network I/O.
`components` in `PROJECT.json` gives the reason for each part.

## 6. What could follow

1. `ProxyQueue` implements the queue that `RouteLifecycle` assumes: a refinement
   that would join the two largest models.
2. Safety properties, with theorems, of the services that have only liveness
   properties (`EmailOutbox`, `RotatorListeners`, `BlacklistSync`).
3. Mixed deployments (`UniformShards` false), two maintenance leaders.
