---------------------------- MODULE BlacklistSync ----------------------------
(***************************************************************************)
(* The blacklist across instances (internal/blacklist/manager.go,          *)
(* redis_sync.go, internal/database/blacklist_handler.go): a refresh        *)
(* downloads the configured sources, replaces the tables, reloads its own   *)
(* cache, removes the proxies that the new entries cover and tells the      *)
(* others, which reload theirs.  The leader refreshes on a ticker, and any  *)
(* instance once when it saves new sources: two refreshes may overlap.      *)
(*                                                                         *)
(* An entry is a listed address or, in Block, a range; a source is the set of *)
(* entries it serves.  The tables are emptied and filled by statements that *)
(* no transaction joins when a block is listed; a cache may be loaded       *)
(* between them.  The refresh interval (6 h unless configured) is taken to  *)
(* be longer than a refresh and the reloads it causes.                      *)
(***************************************************************************)
EXTENDS Naturals, FiniteSets

CONSTANTS Node, Refresher, Entry, Block, MaxSourceEdits, MaxFaults

ASSUME RefresherAssumption == Refresher \in Node /\ Block \subseteq Entry

VARIABLES source,     \* what the configured sources serve
          configured, \* the configuration names a source
          table,      \* blacklisted_ips and blacklisted_ranges
          cache,      \* per instance, the entries its cache was loaded with
          stored,     \* entries for which some workspace stores a proxy
          refresh,    \* per instance, refreshOnce: its step and what it holds for the next ones
          notified,   \* instances with an update event to receive
          edits, faults

blacklistVars == <<source, configured, table, cache, stored, refresh, notified, edits, faults>>

NoRefresh == [step |-> "none", fetched |-> {}, before |-> {}, added |-> {}]
RefreshAt(n, step) == refresh[n].step = step
RefreshTo(n, step) == refresh' = [refresh EXCEPT ![n].step = step]
EndRefresh(n) == refresh' = [refresh EXCEPT ![n] = NoRefresh]
Quiet == notified = {} /\ \A n \in Node : RefreshAt(n, "none")

\* The sources serve nothing or every entry at first, and the tables start empty.
BlacklistInit ==
  /\ source \in {{}, Entry} /\ configured \in BOOLEAN
  /\ table = {} /\ stored = {}
  /\ cache = [n \in Node |-> {}]
  /\ refresh = [n \in Node |-> NoRefresh] /\ notified = {}
  /\ edits = 0 /\ faults = 0

Edit == edits < MaxSourceEdits /\ edits' = edits + 1

\* The publishers of the lists change what they serve.
SourceChanges ==
  /\ Edit
  /\ source' \in SUBSET Entry \ {source}
  /\ UNCHANGED <<configured, table, cache, stored, refresh, notified, faults>>
\* saveSettings with new sources: RunRefresh on the instance that served it,
\* which joins a refresh that is under way there.
SaveSources(n) ==
  /\ Edit
  /\ configured' = TRUE
  /\ source' \in SUBSET Entry
  /\ refresh' = IF RefreshAt(n, "none") THEN [refresh EXCEPT ![n].step = "due"] ELSE refresh
  /\ UNCHANGED <<table, cache, stored, notified, faults>>
\* Sources are only taken away: nothing is triggered.
DropSources ==
  /\ Edit /\ configured
  /\ configured' = FALSE
  /\ UNCHANGED <<source, table, cache, stored, refresh, notified, faults>>

LoadCache(n) == cache' = [cache EXCEPT ![n] = table]

\* doRefresh, by request or on the leader's ticker (when, as assumed above, all
\* of the last refresh is over): sources are fetched; one that fails
\* contributes nothing.
RefreshStarts(n) == RefreshAt(n, "due") \/ (n = Refresher /\ Quiet)
FetchBlacklist(n) ==
  /\ RefreshStarts(n) /\ configured
  /\ \E part \in SUBSET source :
       /\ IF part = source THEN UNCHANGED faults ELSE faults < MaxFaults /\ faults' = faults + 1
       /\ refresh' = [refresh EXCEPT ![n] = [NoRefresh EXCEPT
                                            !.step = "fetched", !.fetched = part, !.before = cache[n]]]
  /\ UNCHANGED <<source, configured, table, cache, stored, notified, edits>>
\* Without sources the stored entries stay, and nobody else is told.
RefreshWithoutSources(n) ==
  /\ RefreshStarts(n) /\ ~configured
  /\ LoadCache(n)
  /\ EndRefresh(n)
  /\ UNCHANGED <<source, configured, table, stored, notified, edits, faults>>

Replaced(n) == refresh' = [refresh EXCEPT ![n].step = "replaced", ![n].fetched = {}]
\* ReplaceBlacklistData: COPY in one transaction, or TRUNCATE and then the inserts.
ReplaceWithCopy(n) ==
  /\ RefreshAt(n, "fetched")
  /\ table' = refresh[n].fetched
  /\ Replaced(n)
  /\ UNCHANGED <<source, configured, cache, stored, notified, edits, faults>>
TruncateTables(n) ==
  /\ RefreshAt(n, "fetched")
  /\ table' = {}
  /\ RefreshTo(n, "truncated")
  /\ UNCHANGED <<source, configured, cache, stored, notified, edits, faults>>
InsertBatches(n) ==
  /\ RefreshAt(n, "truncated") /\ table \cap refresh[n].fetched = {}
  /\ table' = table \union refresh[n].fetched
  /\ Replaced(n)
  /\ UNCHANGED <<source, configured, cache, stored, notified, edits, faults>>
\* Two refreshes insert the same entry: the unique index ends the later one,
\* and the batches before the conflict stay.
InsertConflicts(n) ==
  /\ RefreshAt(n, "truncated") /\ table \cap refresh[n].fetched # {}
  /\ \E batches \in SUBSET (refresh[n].fetched \ table) : table' = table \union batches
  /\ EndRefresh(n)
  /\ UNCHANGED <<source, configured, cache, stored, notified, edits, faults>>

\* diffSets, diffRanges: what is new to this instance's cache.
NewEntries(n) == table \ refresh[n].before
LoadOwnCache(n) ==
  /\ RefreshAt(n, "replaced")
  /\ LoadCache(n)
  /\ refresh' = [refresh EXCEPT ![n] = [NoRefresh EXCEPT !.step = "loaded", !.added = NewEntries(n)]]
  /\ UNCHANGED <<source, configured, table, stored, notified, edits, faults>>

\* The proxies that new entries cover are removed, with their queue entries.
RemoveProxiesByIPs(n) ==
  /\ RefreshAt(n, "loaded")
  /\ stored' = stored \ (refresh[n].added \ Block)
  /\ RefreshTo(n, "addresses")
  /\ UNCHANGED <<source, configured, table, cache, notified, edits, faults>>
RemoveProxiesByRanges(n) ==
  /\ RefreshAt(n, "addresses")
  /\ stored' = stored \ (refresh[n].added \cap Block)
  /\ refresh' = [refresh EXCEPT ![n] = [NoRefresh EXCEPT !.step = "removed"]]
  /\ UNCHANGED <<source, configured, table, cache, notified, edits, faults>>
\* A database error ends the refresh where it stands: nothing is published.
RefreshBreaks(n) ==
  /\ refresh[n].step \in {"fetched", "truncated", "replaced", "loaded", "addresses"}
  /\ faults < MaxFaults
  /\ faults' = faults + 1
  /\ EndRefresh(n)
  /\ UNCHANGED <<source, configured, table, cache, stored, notified, edits>>

\* broadcastRefreshUpdate; an event may be lost.
NotifyNobody(n) ==
  /\ RefreshAt(n, "removed")
  /\ EndRefresh(n)
  /\ UNCHANGED <<source, configured, table, cache, stored, notified, edits, faults>>
Broadcast(n) ==
  /\ RefreshAt(n, "removed")
  /\ \E told \in SUBSET (Node \ {n}) :
       /\ notified' = notified \union told
       /\ IF told = Node \ {n} THEN UNCHANGED faults ELSE faults < MaxFaults /\ faults' = faults + 1
  /\ EndRefresh(n)
  /\ UNCHANGED <<source, configured, table, cache, stored, edits>>
ReceiveUpdate(n) ==
  /\ n \in notified
  /\ LoadCache(n)
  /\ notified' = notified \ {n}
  /\ UNCHANGED <<source, configured, table, stored, refresh, edits, faults>>

\* An instance other than the leader's restarts: Initialize loads its cache from
\* whatever is stored.
NodeRestarts(n) ==
  /\ n # Refresher /\ faults < MaxFaults
  /\ faults' = faults + 1
  /\ LoadCache(n)
  /\ EndRefresh(n)
  /\ UNCHANGED <<source, configured, table, stored, notified, edits>>

\* FilterProxies: an import keeps what this instance's cache does not block.
ImportProxy(n, e) ==
  /\ e \notin cache[n] /\ e \notin stored
  /\ stored' = stored \union {e}
  /\ UNCHANGED <<source, configured, table, cache, refresh, notified, edits, faults>>

RefreshStep(n) ==
  \/ FetchBlacklist(n) \/ RefreshWithoutSources(n)
  \/ ReplaceWithCopy(n) \/ TruncateTables(n) \/ InsertBatches(n) \/ InsertConflicts(n)
  \/ LoadOwnCache(n) \/ RemoveProxiesByIPs(n) \/ RemoveProxiesByRanges(n) \/ Broadcast(n)

BlacklistNext ==
  \/ SourceChanges \/ DropSources
  \/ \E n \in Node :
       \/ SaveSources(n) \/ RefreshStep(n) \/ RefreshBreaks(n) \/ ReceiveUpdate(n) \/ NodeRestarts(n)
       \/ \E e \in Entry : ImportProxy(n, e)

\* The leader's ticker keeps refreshing, a refresh that began goes on, and a
\* subscribed instance receives.
BlacklistFairness ==
  \A n \in Node : WF_blacklistVars(RefreshStep(n)) /\ WF_blacklistVars(ReceiveUpdate(n))
BlacklistSpec == BlacklistInit /\ [][BlacklistNext]_blacklistVars /\ BlacklistFairness

-----------------------------------------------------------------------------
BlacklistTypeOK ==
  /\ source \subseteq Entry /\ table \subseteq Entry /\ stored \subseteq Entry
  /\ configured \in BOOLEAN
  /\ cache \in [Node -> SUBSET Entry] /\ notified \subseteq Node
  /\ \A n \in Node :
       /\ refresh[n].step \in {"none", "due", "fetched", "truncated", "replaced", "loaded",
                              "addresses", "removed"}
       /\ refresh[n].fetched \union refresh[n].before \union refresh[n].added \subseteq Entry

\* Once the sources stop changing and nothing fails any more, every instance's
\* cache comes to hold exactly what the sources serve, and keeps it: a cache
\* loaded between the truncation and the inserts, or after two refreshes mixed
\* their rows, is repaired by the leader's next one.  When no source is
\* configured any more, the leader's cache keeps what is stored.
CachesCatchUp ==
  <>[](IF configured THEN \A n \in Node : cache[n] = source ELSE cache[Refresher] = table)
=============================================================================
