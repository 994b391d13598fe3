---------------------------- MODULE CheckerPlans ----------------------------
(***************************************************************************)
(* The compiled checker settings of one workspace                          *)
(* (internal/database/checker_settings.go, internal/checkerconfig).        *)
(*                                                                         *)
(* Each instance keeps a snapshot: the default plan and, per route, the    *)
(* plan that differs from it.  PostgreSQL keeps the same as a projection   *)
(* (the workspace's default keys and proxy_checker_plans), by which health *)
(* reads select evidence.  A change increments the workspace's revision,   *)
(* and records the routes it touches, or raises the full revision when it  *)
(* touches all.  LoadCheckerWorkspace compiles everything, or only what    *)
(* was recorded since the revision of its instance's snapshot.             *)
(*                                                                         *)
(* One tag may carry a rule; a plan is identified by its settings and by   *)
(* the request headers of the instance that compiles it, which differ      *)
(* between instances while a change of the configuration spreads.  Every   *)
(* transaction here locks the workspace row, so each is one step.          *)
(***************************************************************************)
EXTENDS Naturals, FiniteSets

CONSTANTS Instances, Proxies, Settings, Headers, Nothing, MaxRevision, MaxGeneration, MaxLoading

VARIABLES ws,        \* the workspaces row
          owned,     \* user_proxies
          tagged,    \* proxy_tag_assignments of the tag
          changes,   \* checker_proxy_changes, per route
          plans,     \* proxy_checker_plans: the key of a route's override, or Nothing
          header,    \* per instance: the request headers it is configured with
          snapshot,  \* per instance: state.workspaces, or Nothing
          loading    \* per instance: snapshots loaded and not installed yet

planVars == <<ws, owned, tagged, changes, plans, header, snapshot, loading>>

PlanKey(setting, h) == <<setting, h>>
Plan == (Settings \X Headers) \union {Nothing}
Change == [revision : Nat, deleted : BOOLEAN]
Snapshot ==
  [generation : Nat, revision : Nat, base : Settings \X Headers,
   rule : Settings \union {Nothing}, plans : [Proxies -> Plan]]

PlansConstants ==
  /\ Headers # {}
  /\ Nothing \notin Settings \union (Settings \X Headers) \union Change \union Snapshot

NoPlans == [p \in Proxies |-> Nothing]

PlansInit ==
  /\ \E d \in Settings :
       ws = [revision |-> 0, full |-> 0, projected |-> 0, dirty |-> FALSE, generation |-> 0,
             defaults |-> d, rule |-> Nothing, key |-> Nothing]
  /\ owned = Proxies /\ tagged = {}
  /\ changes = NoPlans /\ plans = NoPlans
  /\ header \in [Instances -> {CHOOSE h \in Headers : TRUE}]
  /\ snapshot = [n \in Instances |-> Nothing]
  /\ loading = [n \in Instances |-> {}]

-----------------------------------------------------------------------------
(* Changes of the inputs.                                                  *)

Revised == ws.revision + 1
Record(ps, gone) ==
  changes' = [p \in Proxies |-> IF p \in ps THEN [revision |-> Revised, deleted |-> gone] ELSE changes[p]]
Marked == [ws EXCEPT !.revision = Revised, !.dirty = TRUE]

\* UpdateWorkspaceSettings: new defaults touch every route, a new rule those of its tag.
SaveDefaults(d) ==
  /\ Revised =< MaxRevision /\ d # ws.defaults
  /\ ws' = [Marked EXCEPT !.defaults = d, !.full = Revised]
  /\ UNCHANGED <<owned, tagged, changes, plans, header, snapshot, loading>>
SaveRule(r) ==
  /\ Revised =< MaxRevision /\ r # ws.rule
  /\ ws' = [Marked EXCEPT !.rule = r]
  /\ Record(tagged, FALSE)
  /\ UNCHANGED <<owned, tagged, plans, header, snapshot, loading>>

\* ReplaceProxyTags and AddProxyTagsToProxies, with markCheckerAssignmentsDirty:
\* a tag without a rule changes no plan.
ReplaceProxyTags(p) ==
  /\ p \in owned
  /\ tagged' = IF p \in tagged THEN tagged \ {p} ELSE tagged \union {p}
  /\ \/ ws.rule = Nothing /\ UNCHANGED <<ws, changes>>
     \/ ws.rule # Nothing /\ Revised =< MaxRevision /\ ws' = Marked /\ Record({p}, FALSE)
  /\ UNCHANGED <<owned, plans, header, snapshot, loading>>
\* DeleteProxyTag: the rule goes with it, and the cascade takes the assignments.
DeleteProxyTag ==
  /\ \/ ws.rule = Nothing /\ UNCHANGED <<ws, changes>>
     \/ ws.rule # Nothing /\ Revised =< MaxRevision
        /\ ws' = [Marked EXCEPT !.rule = Nothing] /\ Record(tagged, FALSE)
  /\ tagged' = {}
  /\ UNCHANGED <<owned, plans, header, snapshot, loading>>

\* deleteManagedRoutes: a tombstone for a route that had a plan or a change;
\* the cascade takes its assignments and its override.
DeleteManagedRoute(p) ==
  /\ p \in owned
  /\ owned' = owned \ {p} /\ tagged' = tagged \ {p}
  /\ plans' = [plans EXCEPT ![p] = Nothing]
  /\ \/ plans[p] = Nothing /\ changes[p] = Nothing /\ UNCHANGED <<ws, changes>>
     \/ (plans[p] # Nothing \/ changes[p] # Nothing) /\ Revised =< MaxRevision
        /\ ws' = Marked /\ Record({p}, TRUE)
  /\ UNCHANGED <<header, snapshot, loading>>
ImportRoute(p) ==
  /\ p \notin owned
  /\ owned' = owned \union {p}
  /\ UNCHANGED <<ws, tagged, changes, plans, header, snapshot, loading>>

\* PruneDeletedCheckerRoutes: an old tombstone of a route that is managed again
\* becomes an ordinary change; one that was projected goes, and the watermark
\* keeps older snapshots from missing it.
PruneWithoutWatermark(p) ==
  /\ changes[p] # Nothing /\ changes[p].deleted
  /\ \/ p \in owned /\ changes' = [changes EXCEPT ![p].deleted = FALSE] /\ UNCHANGED ws
     \/ p \notin owned /\ ~ws.dirty /\ changes[p].revision =< ws.projected
        /\ changes' = [changes EXCEPT ![p] = Nothing] /\ UNCHANGED ws
  /\ UNCHANGED <<owned, tagged, plans, header, snapshot, loading>>
PruneDeletedRoute(p) ==
  /\ changes[p] # Nothing /\ changes[p].deleted
  /\ \/ p \in owned /\ changes' = [changes EXCEPT ![p].deleted = FALSE] /\ UNCHANGED ws
     \/ p \notin owned /\ ~ws.dirty /\ changes[p].revision =< ws.projected
        /\ changes' = [changes EXCEPT ![p] = Nothing]
        /\ ws' = [ws EXCEPT !.full = IF changes[p].revision > @ THEN changes[p].revision ELSE @]
  /\ UNCHANGED <<owned, tagged, plans, header, snapshot, loading>>

\* The configuration with other headers reaches an instance.
HeaderChanges(n, h) ==
  /\ h # header[n]
  /\ header' = [header EXCEPT ![n] = h]
  /\ UNCHANGED <<ws, owned, tagged, changes, plans, snapshot, loading>>

-----------------------------------------------------------------------------
(* LoadCheckerWorkspace.                                                   *)

BaseOf(n) == PlanKey(ws.defaults, header[n])
\* Build: only overrides that differ from the default plan are kept.
Build(h) ==
  [p \in Proxies |-> IF p \in tagged /\ ws.rule \notin {Nothing, ws.defaults}
                     THEN PlanKey(ws.rule, h) ELSE Nothing]

UpToDate(n) ==
  /\ snapshot[n] # Nothing /\ ~ws.dirty
  /\ snapshot[n].generation = ws.generation /\ snapshot[n].revision = ws.revision
  /\ snapshot[n].base = BaseOf(n) /\ snapshot[n].rule = ws.rule

Incremental(n) ==
  /\ snapshot[n] # Nothing
  /\ snapshot[n].base = BaseOf(n)
  /\ snapshot[n].revision >= ws.full /\ snapshot[n].revision =< ws.revision
  /\ ~(ws.dirty /\ ws.revision =< ws.projected)
  /\ ~(snapshot[n].generation # ws.generation /\ snapshot[n].revision = ws.revision)
Affected(n) ==
  {p \in Proxies : changes[p] # Nothing /\ changes[p].revision > snapshot[n].revision
                     /\ changes[p].revision =< ws.revision}

\* Merge: the affected routes from the patch, the others from the snapshot.
Compiled(n) ==
  IF Incremental(n)
  THEN [p \in Proxies |-> IF p \in Affected(n) THEN Build(header[n])[p] ELSE snapshot[n].plans[p]]
  ELSE Build(header[n])

\* checkerProjectionDelta
Delta(n) ==
  {p \in (IF Incremental(n) THEN Affected(n) ELSE Proxies) : plans[p] # Compiled(n)[p]}
DefaultChanged(n) == ws.generation = 0 \/ ws.key # BaseOf(n)

\* An input outside the settings changed: a revision of its own, for all routes.
NewRevision(n) ==
  /\ ~Incremental(n) /\ ws.revision = ws.projected
  /\ \/ DefaultChanged(n) \/ Delta(n) # {}
     \/ snapshot[n] # Nothing /\ snapshot[n].base # BaseOf(n)
RowFor(n) ==
  IF NewRevision(n)
  THEN [ws EXCEPT !.revision = @ + 1, !.full = ws.revision + 1, !.dirty = TRUE] ELSE ws

SnapshotOf(n, row) ==
  [generation |-> row.generation, revision |-> row.revision, base |-> BaseOf(n),
   rule |-> row.rule, plans |-> Compiled(n)]
LoadedBy(n, s) == loading' = [loading EXCEPT ![n] = @ \union {s}]

LoadUnchanged(n) ==
  /\ Cardinality(loading[n]) < MaxLoading
  /\ \/ UpToDate(n) /\ LoadedBy(n, snapshot[n])
     \/ /\ ~UpToDate(n)
        /\ ~DefaultChanged(n) /\ Delta(n) = {} /\ ~RowFor(n).dirty
        /\ LoadedBy(n, SnapshotOf(n, ws))
  /\ UNCHANGED <<ws, owned, tagged, changes, plans, header, snapshot>>
LoadProject(n) ==
  /\ Cardinality(loading[n]) < MaxLoading /\ ws.generation < MaxGeneration
  /\ ~UpToDate(n)
  /\ DefaultChanged(n) \/ Delta(n) # {} \/ RowFor(n).dirty
  /\ LET row == [RowFor(n) EXCEPT !.generation = @ + 1, !.dirty = FALSE,
                                  !.projected = RowFor(n).revision, !.key = BaseOf(n)] IN
     /\ ws' = row
     /\ LoadedBy(n, SnapshotOf(n, row))
  /\ plans' = [p \in Proxies |-> IF p \in Delta(n) THEN Compiled(n)[p] ELSE plans[p]]
  /\ UNCHANGED <<owned, tagged, changes, header, snapshot>>

\* Refresh stores what was loaded unless a newer generation is there.
Install(n, s) ==
  /\ s \in loading[n]
  /\ loading' = [loading EXCEPT ![n] = @ \ {s}]
  /\ snapshot' = IF snapshot[n] = Nothing \/ snapshot[n].generation =< s.generation
                 THEN [snapshot EXCEPT ![n] = s] ELSE snapshot
  /\ UNCHANGED <<ws, owned, tagged, changes, plans, header>>
\* The instance restarts with no snapshot.
InstanceRestarts(n) ==
  /\ snapshot[n] # Nothing
  /\ snapshot' = [snapshot EXCEPT ![n] = Nothing]
  /\ loading' = [loading EXCEPT ![n] = {}]
  /\ UNCHANGED <<ws, owned, tagged, changes, plans, header>>

PlansNext ==
  \/ \E d \in Settings : SaveDefaults(d) \/ SaveRule(d)
  \/ SaveRule(Nothing) \/ DeleteProxyTag
  \/ \E p \in Proxies : ReplaceProxyTags(p) \/ DeleteManagedRoute(p) \/ ImportRoute(p) \/ PruneDeletedRoute(p)
  \/ \E n \in Instances :
       \/ LoadUnchanged(n) \/ LoadProject(n) \/ InstanceRestarts(n)
       \/ \E h \in Headers : HeaderChanges(n, h)
       \/ \E s \in loading[n] : Install(n, s)

PlansSpec == PlansInit /\ [][PlansNext]_planVars

-----------------------------------------------------------------------------
PlansTypeOK ==
  /\ ws.revision \in 0..(MaxRevision + MaxGeneration) /\ ws.projected =< ws.revision /\ ws.full =< ws.revision
  /\ ws.generation \in 0..MaxGeneration /\ ws.dirty \in BOOLEAN
  /\ tagged \subseteq owned /\ owned \subseteq Proxies
  /\ \A p \in Proxies : plans[p] # Nothing => p \in owned

SettingOf(plan) == IF plan = Nothing THEN Nothing ELSE plan[1]

\* While the workspace is not dirty, the projection has the default and exactly
\* the overrides that a full compilation of the current settings, rules and tags
\* gives, and a snapshot of the current generation is that compilation with the
\* headers of whoever projected last: recording routes, merging them into old
\* snapshots and pruning tombstones lose no change, whichever revisions an
\* instance has missed.  A projected override may have other headers than the
\* projected default: an instance that refreshes incrementally projects only the
\* routes recorded since its snapshot, also when another one projected all of
\* them with other headers in between.
ProjectionExact ==
  (ws.generation > 0 /\ ~ws.dirty) =>
    /\ ws.key = PlanKey(ws.defaults, ws.key[2])
    /\ \A p \in Proxies : SettingOf(plans[p]) = SettingOf(Build(ws.key[2])[p])
    /\ \A n \in Instances :
         (snapshot[n] # Nothing /\ snapshot[n].generation = ws.generation)
         => snapshot[n].plans = Build(ws.key[2]) /\ snapshot[n].base = ws.key
=============================================================================
