---------------------------- MODULE RotatorTunnels ----------------------------
(***************************************************************************)
(* The client connections of one rotator's listener while the listener is  *)
(* being stopped: accepted SOCKS clients and hijacked CONNECT requests,    *)
(* which http.Server cannot close, are tracked in rotatorConnections with  *)
(* their upstream sockets; plain HTTP requests belong to http.Server.  The *)
(* upstream is dialled by a goroutine of its own, which may finish after   *)
(* the handler stopped waiting for it.  Every read and write of the        *)
(* handshakes is abstracted to success or failure.                         *)
(***************************************************************************)
EXTENDS Integers, FiniteSets

CONSTANTS
    Client,       \* client connections
    TunnelLimit,  \* rotatorConnections.limit
    SocksSlots    \* capacity of socksWorkerSem

\* What the code guarantees of the constants.
TunnelConstants == TunnelLimit \in Nat \ {0} /\ SocksSlots \in Nat \ {0}

VARIABLES
    socksListener,\* the listener speaks SOCKS (TRUE) or HTTP
    tunnel,       \* the handler of each client: where it is
    dial,         \* the dial goroutine of each client
    clientOpen, upstreamOpen,   \* sockets
    tracked,      \* clients and upstreams registered: [clients, upstreams]
    slotsHeld,    \* clients that hold a SOCKS worker slot
    listenerState,\* "open", "closing" (connections.stop took its list) or "stopped"
    toClose       \* sockets that stop still has to close

tunnelVars == <<socksListener, tunnel, dial, clientOpen, upstreamOpen, tracked, slotsHeld,
                listenerState, toClose>>

NoSockets == [clients |-> {}, upstreams |-> {}]
\* Where a handler holds an upstream socket that is not registered yet.
BeforeRegistration == {"dialing", "gaveUp", "dialed"}
-----------------------------------------------------------------------------
\* Fault: the connection is registered although the listener was stopped.
AddAccepts(upstream) == upstream \/ Cardinality(tracked.clients) < TunnelLimit

\* rotatorConnections.add; a refused connection is closed.
Add(upstream) ==
    /\ listenerState = "open"
    /\ upstream \/ Cardinality(tracked.clients) < TunnelLimit

\* rotatorConnections.remove together with the deferred Close calls: the end of
\* a handler, whatever the way it got there.
FinishCall(c) ==
    /\ tunnel' = [tunnel EXCEPT ![c] = "done"]
    /\ clientOpen' = clientOpen \ {c} /\ upstreamOpen' = upstreamOpen \ {c}
    /\ tracked' = [clients |-> tracked.clients \ {c}, upstreams |-> tracked.upstreams \ {c}]
    /\ slotsHeld' = slotsHeld \ {c}

\* The handler returns before it has an upstream socket of its own: whatever the
\* dial goroutine still holds is not closed here.
Return(c) ==
    /\ tunnel' = [tunnel EXCEPT ![c] = "done"]
    /\ clientOpen' = clientOpen \ {c}
    /\ tracked' = [tracked EXCEPT !.clients = @ \ {c}]
    /\ slotsHeld' = slotsHeld \ {c}

\* The listener accepts a SOCKS client, or http.Server a request, until Stop
\* closes the listener, after the registered sockets.
Accept(c) ==
    /\ tunnel[c] = "none" /\ listenerState # "stopped"
    /\ tunnel' = [tunnel EXCEPT ![c] = "accepted"]
    /\ clientOpen' = clientOpen \cup {c}
    /\ UNCHANGED <<dial, upstreamOpen, tracked, slotsHeld, listenerState, toClose>>

\* handleConnect hijacks the connection and registers it.
RegisterConnect(c) ==
    /\ tunnel[c] = "accepted" /\ ~socksListener
    /\ \/ /\ Add(FALSE)
          /\ tunnel' = [tunnel EXCEPT ![c] = "registered"]
          /\ tracked' = [tracked EXCEPT !.clients = @ \cup {c}]
          /\ UNCHANGED <<clientOpen, slotsHeld>>
       \/ ~Add(FALSE) /\ Return(c)
    /\ UNCHANGED <<dial, upstreamOpen, listenerState, toClose>>

\* dispatchSocksConnection: a slot as well, or the client is dropped.
DispatchSocks(c) ==
    /\ tunnel[c] = "accepted" /\ socksListener
    /\ \/ /\ Add(FALSE) /\ Cardinality(slotsHeld) < SocksSlots
          /\ tunnel' = [tunnel EXCEPT ![c] = "registered"]
          /\ tracked' = [tracked EXCEPT !.clients = @ \cup {c}]
          /\ slotsHeld' = slotsHeld \cup {c}
          /\ UNCHANGED clientOpen
       \/ (~Add(FALSE) \/ Cardinality(slotsHeld) >= SocksSlots) /\ Return(c)
    /\ UNCHANGED <<dial, upstreamOpen, listenerState, toClose>>

\* ServeHTTP refuses the client: credentials, or the connection cannot be hijacked.
RefuseClient(c) ==
    /\ tunnel[c] = "accepted" /\ ~socksListener
    /\ Return(c)
    /\ UNCHANGED <<dial, upstreamOpen, listenerState, toClose>>

\* handleHTTP: a plain request, never registered; a closed client cancels it.
PlainRequest(c) ==
    /\ tunnel[c] = "accepted" /\ ~socksListener /\ c \in clientOpen
    /\ tunnel' = [tunnel EXCEPT ![c] = "plain"]
    /\ upstreamOpen' = upstreamOpen \cup {c}
    /\ UNCHANGED <<dial, clientOpen, tracked, slotsHeld, listenerState, toClose>>

\* The response was copied, the upstream failed or timed out, or the client's
\* connection was closed under it, which cancels the request.
PlainEnds(c) ==
    /\ tunnel[c] = "plain"
    /\ FinishCall(c)
    /\ UNCHANGED <<dial, listenerState, toClose>>

\* A SOCKS client's handshake fails: version, method, credentials or target.
HandshakeFails(c) ==
    /\ tunnel[c] = "registered" /\ socksListener
    /\ Return(c)
    /\ UNCHANGED <<dial, upstreamOpen, listenerState, toClose>>

\* No route qualifies, or its protocol is not supported.
NoRoute(c) ==
    /\ tunnel[c] = "registered"
    /\ Return(c)
    /\ UNCHANGED <<dial, upstreamOpen, listenerState, toClose>>

\* The handshake succeeds, GetNextRotatingProxy selected a route, and
\* connectThroughUpstreamWithContext starts its goroutine, unless the listener's
\* context was cancelled.
StartDial(c) ==
    /\ tunnel[c] = "registered" /\ c \in clientOpen /\ listenerState = "open"
    /\ tunnel' = [tunnel EXCEPT ![c] = "dialing"]
    /\ dial' = [dial EXCEPT ![c] = "running"]
    /\ UNCHANGED <<clientOpen, upstreamOpen, tracked, slotsHeld, listenerState, toClose>>

\* connectThroughUpstream: the TCP connection ...
DialUpstream(c) ==
    /\ dial[c] = "running"
    /\ \/ upstreamOpen' = upstreamOpen \cup {c} /\ dial' = [dial EXCEPT ![c] = "shaking"]
       \/ dial' = [dial EXCEPT ![c] = "failed"] /\ UNCHANGED upstreamOpen
    /\ UNCHANGED <<tunnel, clientOpen, tracked, slotsHeld, listenerState, toClose>>

\* ... and the handshake of the upstream's protocol, HTTP CONNECT, SOCKS5 or
\* SOCKS4: a failed one closes the socket.
UpstreamAccepts(c) ==
    /\ dial[c] = "shaking"
    /\ dial' = [dial EXCEPT ![c] = "connected"]
    /\ UNCHANGED <<tunnel, clientOpen, upstreamOpen, tracked, slotsHeld, listenerState, toClose>>
UpstreamRefuses(c) ==
    /\ dial[c] = "shaking"
    /\ dial' = [dial EXCEPT ![c] = "failed"]
    /\ upstreamOpen' = upstreamOpen \ {c}
    /\ UNCHANGED <<tunnel, clientOpen, tracked, slotsHeld, listenerState, toClose>>

\* The handler stops waiting because the listener's context was cancelled.
GiveUpDial(c) ==
    /\ tunnel[c] = "dialing" /\ listenerState # "open"
    /\ tunnel' = [tunnel EXCEPT ![c] = "gaveUp"]
    /\ UNCHANGED <<dial, clientOpen, upstreamOpen, tracked, slotsHeld, listenerState, toClose>>

\* The deferred calls after a failed or abandoned dial.
LeaveAfterDial(c) ==
    /\ tunnel[c] = "gaveUp" \/ (tunnel[c] = "dialing" /\ dial[c] = "failed")
    /\ Return(c)
    /\ dial' = [dial EXCEPT ![c] = IF @ = "failed" THEN "over" ELSE @]
    /\ UNCHANGED <<upstreamOpen, listenerState, toClose>>

\* The goroutine finds that nobody waits for its connection, and closes it.
OrphanDial(c) ==
    /\ dial[c] \in {"connected", "failed"} /\ tunnel[c] \in {"gaveUp", "done"}
    /\ dial' = [dial EXCEPT ![c] = "over"]
    /\ upstreamOpen' = upstreamOpen \ {c}
    /\ UNCHANGED <<tunnel, clientOpen, tracked, slotsHeld, listenerState, toClose>>

TakeConnection(c) ==
    /\ tunnel[c] = "dialing" /\ dial[c] = "connected"
    /\ tunnel' = [tunnel EXCEPT ![c] = "dialed"]
    /\ dial' = [dial EXCEPT ![c] = "over"]
    /\ UNCHANGED <<clientOpen, upstreamOpen, tracked, slotsHeld, listenerState, toClose>>

\* The upstream socket is registered and the pipe starts, or the handler ends.
RegisterUpstream(c) ==
    /\ tunnel[c] = "dialed"
    /\ \/ /\ Add(TRUE)
          /\ tunnel' = [tunnel EXCEPT ![c] = "piping"]
          /\ tracked' = [tracked EXCEPT !.upstreams = @ \cup {c}]
          /\ UNCHANGED <<clientOpen, upstreamOpen, slotsHeld>>
       \/ ~Add(TRUE) /\ FinishCall(c)
    /\ UNCHANGED <<dial, listenerState, toClose>>

\* pipeConnections: the first direction to end closes both sockets.
PipeEnds(c) ==
    /\ tunnel[c] = "piping"
    /\ FinishCall(c)
    /\ UNCHANGED <<dial, listenerState, toClose>>

\* proxyServer.Stop: no more registrations, the context is cancelled, and the
\* sockets registered by now are listed ...
BeginStop ==
    /\ listenerState = "open"
    /\ listenerState' = "closing"
    /\ toClose' = tracked
    /\ UNCHANGED <<tunnel, dial, clientOpen, upstreamOpen, tracked, slotsHeld>>

\* ... and closed one after the other, after the lock was given back.
CloseListed ==
    /\ listenerState = "closing" /\ toClose # NoSockets
    /\ \/ \E c \in toClose.clients : /\ clientOpen' = clientOpen \ {c}
                                     /\ toClose' = [toClose EXCEPT !.clients = @ \ {c}]
                                     /\ UNCHANGED upstreamOpen
       \/ \E c \in toClose.upstreams : /\ upstreamOpen' = upstreamOpen \ {c}
                                       /\ toClose' = [toClose EXCEPT !.upstreams = @ \ {c}]
                                       /\ UNCHANGED clientOpen
    /\ UNCHANGED <<tunnel, dial, tracked, slotsHeld, listenerState>>

\* http.Server.Shutdown waits five seconds for its requests, then Close ends the
\* connections that were not hijacked; the wait for the handlers ends as well.
EndStop ==
    /\ listenerState = "closing" /\ toClose = NoSockets
    /\ listenerState' = "stopped"
    /\ clientOpen' = IF socksListener THEN clientOpen
                     ELSE {c \in clientOpen : tunnel[c] \notin {"plain", "accepted"}}
    /\ UNCHANGED <<tunnel, dial, upstreamOpen, tracked, slotsHeld, toClose>>
-----------------------------------------------------------------------------
TunnelInit ==
    /\ socksListener \in BOOLEAN
    /\ tunnel = [c \in Client |-> "none"] /\ dial = [c \in Client |-> "no"]
    /\ clientOpen = {} /\ upstreamOpen = {} /\ tracked = NoSockets /\ slotsHeld = {}
    /\ listenerState = "open" /\ toClose = NoSockets

TunnelNext ==
    /\ UNCHANGED socksListener
    /\ \/ BeginStop \/ CloseListed \/ EndStop
       \/ \E c \in Client :
          \/ Accept(c) \/ RegisterConnect(c) \/ DispatchSocks(c) \/ PlainRequest(c) \/ PlainEnds(c)
          \/ RefuseClient(c) \/ HandshakeFails(c) \/ NoRoute(c) \/ StartDial(c) \/ DialUpstream(c)
          \/ UpstreamAccepts(c) \/ UpstreamRefuses(c) \/ GiveUpDial(c) \/ LeaveAfterDial(c)
          \/ OrphanDial(c) \/ TakeConnection(c) \/ RegisterUpstream(c) \/ PipeEnds(c)

TunnelSpec == TunnelInit /\ [][TunnelNext]_tunnelVars
-----------------------------------------------------------------------------
TunnelTypeOK ==
    /\ socksListener \in BOOLEAN
    /\ tunnel \in [Client -> {"none", "accepted", "registered", "plain", "piping", "done"}
                               \cup BeforeRegistration]
    /\ dial \in [Client -> {"no", "running", "shaking", "connected", "failed", "over"}]
    /\ clientOpen \subseteq Client /\ upstreamOpen \subseteq Client
    /\ tracked \in [clients : SUBSET Client, upstreams : SUBSET Client]
    /\ slotsHeld \subseteq Client /\ Cardinality(slotsHeld) =< SocksSlots
    /\ Cardinality(tracked.clients) =< TunnelLimit
    /\ listenerState \in {"open", "closing", "stopped"}
    /\ toClose \in [clients : SUBSET Client, upstreams : SUBSET Client]

(***************************************************************************)
(* No socket outlives its owner: once a handler and its dial goroutine are *)
(* over nothing of theirs is open, registered or occupies a slot; and once *)
(* the listener was stopped, the only sockets still open are those of a    *)
(* handler or goroutine that is about to find out and close them.  A       *)
(* tunnel whose dial races Stop therefore never keeps piping.              *)
(***************************************************************************)
NoSocketOutlivesOwner ==
    /\ \A c \in Client : (tunnel[c] = "done" /\ dial[c] \in {"no", "over"})
          => c \notin clientOpen \cup upstreamOpen \cup slotsHeld
                       \cup tracked.clients \cup tracked.upstreams
    /\ listenerState = "stopped" =>
          /\ \A c \in clientOpen : tunnel[c] = "accepted"
          /\ \A c \in upstreamOpen : \/ tunnel[c] \in BeforeRegistration \cup {"plain"}
                                     \/ tunnel[c] = "done" /\ dial[c] # "over"
=============================================================================
