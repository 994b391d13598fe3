--------------------------- MODULE RotatorListeners ---------------------------
(***************************************************************************)
(* The listeners of one instance against the rotating_proxies rows that    *)
(* name it.  Rows come and go through this instance's API, whose handlers  *)
(* also start and stop the listener, or through another instance's, which  *)
(* only write the row.  The sync loop compares both: it loads the rows,    *)
(* stops what is not among them, and starts what is missing, each under a  *)
(* lock of its own, so that handlers run in between.                       *)
(***************************************************************************)
EXTENDS Integers, FiniteSets

CONSTANTS
    Rotator, Port,
    OwnPort,         \* ports of this instance's own range
    NoPort,
    ApiCall,         \* API requests of this instance
    MaxRowChanges,   \* bound on creations and deletions
    MaxStartFailures \* bound on listeners that cannot start for other reasons

ASSUME ListenerAssumption ==
    OwnPort \subseteq Port /\ NoPort \notin Port
    /\ MaxRowChanges \in Nat /\ MaxStartFailures \in Nat

VARIABLES
    rotatorRow,   \* listen_port of the row, or NoPort
    assigned,     \* IDs given to rows so far: they are never used again
    server,       \* port of the running listener, or NoPort
    api,          \* API requests under way
    sync,         \* the sync loop: its step, the rows it read, what is left to do
    rowChanges, startFailures

listenerVars == <<rotatorRow, assigned, server, api, sync, rowChanges, startFailures>>

IdleCall == [pc |-> "idle", rotator |-> {}, port |-> NoPort]
IdleSync == [pc |-> "idle", desired |-> [r \in Rotator |-> NoPort], todo |-> {}, starting |-> {}]

Occupied(ports) == {ports[r] : r \in Rotator} \ {NoPort}
-----------------------------------------------------------------------------
\* proxyServer.Start after the manager stopped and forgot the rotator's own
\* listener: it fails when another listener has the port, or for a reason of the
\* host's.
StartServer(r, port) ==
    \/ /\ port \notin {server[o] : o \in Rotator \ {r}}
       /\ server' = [server EXCEPT ![r] = port]
       /\ UNCHANGED startFailures
    \/ /\ port \in {server[o] : o \in Rotator \ {r}}
       /\ server' = [server EXCEPT ![r] = NoPort]
       /\ UNCHANGED startFailures
    \/ /\ startFailures < MaxStartFailures
       /\ startFailures' = startFailures + 1
       /\ server' = [server EXCEPT ![r] = NoPort]

RowChange == rowChanges < MaxRowChanges /\ rowChanges' = rowChanges + 1

\* CreateRotatingProxy: a port of the creator's range that no row of this
\* instance has.  Two creations that choose the same port meet in the unique
\* index, and one fails.
CreateRow(r, port) ==
    /\ RowChange
    /\ r \notin assigned /\ port \notin Occupied(rotatorRow)
    /\ assigned' = assigned \cup {r}
    /\ rotatorRow' = [rotatorRow EXCEPT ![r] = port]

\* DeleteRotatingProxy.
DeleteRow(r) == rotatorRow' = [rotatorRow EXCEPT ![r] = NoPort] /\ UNCHANGED assigned

\* createRotatingProxy on this instance.
CreateHere(a, r, port) ==
    /\ api[a].pc = "idle" /\ port \in OwnPort
    /\ CreateRow(r, port)
    /\ api' = [api EXCEPT ![a] = [pc |-> "add", rotator |-> {r}, port |-> NoPort]]
    /\ UNCHANGED <<server, sync, startFailures>>

\* Manager.Add: the row is read again ...
AddLoads(a) ==
    \E r \in api[a].rotator :
        /\ api[a].pc = "add"
        /\ api' = [api EXCEPT ![a].pc = IF rotatorRow[r] = NoPort THEN "undo" ELSE "start",
                              ![a].port = rotatorRow[r]]
        /\ UNCHANGED <<rotatorRow, assigned, server, sync, rowChanges, startFailures>>

\* ... and its listener started under the lock.
AddStarts(a) ==
    \E r \in api[a].rotator :
        /\ api[a].pc = "start"
        /\ StartServer(r, api[a].port)
        /\ api' = [api EXCEPT ![a] = IF server'[r] = NoPort THEN [@ EXCEPT !.pc = "undo"] ELSE IdleCall]
        /\ UNCHANGED <<rotatorRow, assigned, sync, rowChanges>>

\* A rotator whose listener does not start is deleted again.
UndoCreate(a) ==
    \E r \in api[a].rotator :
        /\ api[a].pc = "undo"
        /\ DeleteRow(r)
        /\ api' = [api EXCEPT ![a] = IdleCall]
        /\ UNCHANGED <<server, sync, rowChanges, startFailures>>

\* createRotatingProxy and deleteRotatingProxy on another instance: the row
\* only; the port is one of that instance's range.
CreateElsewhere(r, port) ==
    CreateRow(r, port) /\ UNCHANGED <<server, api, sync, startFailures>>

DeleteElsewhere(r) ==
    /\ RowChange /\ rotatorRow[r] # NoPort /\ DeleteRow(r)
    /\ UNCHANGED <<server, api, sync, startFailures>>

\* deleteRotatingProxy on this instance: the row, then Manager.Remove.
DeleteHere(a, r) ==
    /\ api[a].pc = "idle" /\ rotatorRow[r] # NoPort
    /\ RowChange /\ DeleteRow(r)
    /\ api' = [api EXCEPT ![a] = [pc |-> "remove", rotator |-> {r}, port |-> NoPort]]
    /\ UNCHANGED <<server, sync, startFailures>>

RemoveServer(a) ==
    \E r \in api[a].rotator :
        /\ api[a].pc = "remove"
        /\ server' = [server EXCEPT ![r] = NoPort]
        /\ api' = [api EXCEPT ![a] = IdleCall]
        /\ UNCHANGED <<rotatorRow, assigned, sync, rowChanges, startFailures>>
-----------------------------------------------------------------------------
(* Manager.Reconcile.                                                      *)

\* GetAllRotatingProxies, without the rows whose port is not this instance's.
ReconcileLoads ==
    LET desired == [r \in Rotator |-> IF rotatorRow[r] \in OwnPort THEN rotatorRow[r] ELSE NoPort]
    IN  /\ sync.pc = "idle"
        /\ sync' = [pc |-> "stop", desired |-> desired, todo |-> {r \in Rotator : desired[r] # NoPort}, starting |-> {}]
        /\ UNCHANGED <<rotatorRow, assigned, server, api, rowChanges, startFailures>>

\* Fault: listeners whose rotator is gone are kept.
ReconcileStopsNothing ==
    /\ sync.pc = "stop"
    /\ sync' = [sync EXCEPT !.pc = "check"]
    /\ UNCHANGED <<server, rotatorRow, assigned, api, rowChanges, startFailures>>

\* Listeners that are not wanted are stopped, under one lock.
ReconcileStops ==
    /\ sync.pc = "stop"
    /\ server' = [r \in Rotator |-> IF sync.desired[r] = NoPort THEN NoPort ELSE server[r]]
    /\ sync' = [sync EXCEPT !.pc = "check"]
    /\ UNCHANGED <<rotatorRow, assigned, api, rowChanges, startFailures>>

\* One wanted rotator after the other: is its listener running?
ReconcileChecks(r) ==
    /\ sync.pc = "check" /\ r \in sync.todo
    /\ sync' = IF server[r] # NoPort THEN [sync EXCEPT !.todo = @ \ {r}]
               ELSE [sync EXCEPT !.todo = @ \ {r}, !.pc = "start", !.starting = {r}]
    /\ UNCHANGED <<rotatorRow, assigned, server, api, rowChanges, startFailures>>

\* startServer with the row as it was loaded; an error is logged.
ReconcileStarts(r) ==
    /\ sync.pc = "start" /\ r \in sync.starting
    /\ StartServer(r, sync.desired[r])
    /\ sync' = [sync EXCEPT !.pc = "check", !.starting = {}]
    /\ UNCHANGED <<rotatorRow, assigned, api, rowChanges>>

ReconcileEnds ==
    /\ sync.pc = "check" /\ sync.todo = {}
    /\ sync' = IdleSync
    /\ UNCHANGED <<rotatorRow, assigned, server, api, rowChanges, startFailures>>
-----------------------------------------------------------------------------
ListenerInit ==
    /\ rotatorRow = [r \in Rotator |-> NoPort] /\ server = [r \in Rotator |-> NoPort]
    /\ assigned = {}
    /\ api = [a \in ApiCall |-> IdleCall] /\ sync = IdleSync
    /\ rowChanges = 0 /\ startFailures = 0

ApiStep(a) == AddLoads(a) \/ AddStarts(a) \/ UndoCreate(a) \/ RemoveServer(a)
SyncStep == \/ ReconcileLoads \/ ReconcileStops \/ ReconcileEnds
            \/ \E r \in Rotator : ReconcileChecks(r) \/ ReconcileStarts(r)

ListenerNext ==
    \/ SyncStep
    \/ \E a \in ApiCall : \/ ApiStep(a)
                          \/ \E r \in Rotator : \/ DeleteHere(a, r)
                                                \/ \E port \in Port : CreateHere(a, r, port)
    \/ \E r \in Rotator : DeleteElsewhere(r) \/ \E port \in Port : CreateElsewhere(r, port)

\* The loop ticks for as long as the process lives, and requests come to an end.
ListenerFairness == WF_listenerVars(SyncStep) /\ \A a \in ApiCall : WF_listenerVars(ApiStep(a))

ListenerSpec == ListenerInit /\ [][ListenerNext]_listenerVars /\ ListenerFairness
-----------------------------------------------------------------------------
ListenerTypeOK ==
    /\ rotatorRow \in [Rotator -> Port \cup {NoPort}] /\ server \in [Rotator -> OwnPort \cup {NoPort}]
    /\ assigned \subseteq Rotator
    /\ \A a \in ApiCall : /\ api[a].pc \in {"idle", "add", "start", "undo", "remove"}
                          /\ api[a].rotator \subseteq Rotator /\ api[a].port \in OwnPort \cup {NoPort}
    /\ sync.pc \in {"idle", "stop", "check", "start"} /\ sync.todo \subseteq Rotator /\ sync.starting \subseteq Rotator
    /\ sync.desired \in [Rotator -> OwnPort \cup {NoPort}]
    /\ rowChanges \in 0..MaxRowChanges /\ startFailures \in 0..MaxStartFailures

(***************************************************************************)
(* When rows stop changing, exactly the rotators with a port of this       *)
(* instance are listened for, each on its own port: neither a listener     *)
(* started from a stale list or a stale read of the row, nor one stopped   *)
(* by a pass that had not seen its row, nor a port still taken by another, *)
(* lasts.                                                                  *)
(***************************************************************************)
ListenersConverge ==
    <>[](\A r \in Rotator :
            server[r] = IF rotatorRow[r] \in OwnPort THEN rotatorRow[r] ELSE NoPort)
=============================================================================
