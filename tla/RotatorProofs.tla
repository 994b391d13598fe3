---------------------------- MODULE RotatorProofs ----------------------------
(***************************************************************************)
(* Theorems about the rotators, for every number of clients, routes,       *)
(* connections and months: the sockets of their tunnels (RotatorTunnels),  *)
(* the routes they serve (RotatorCursor) and the traffic they meter        *)
(* (TrafficUsage).                                                         *)
(***************************************************************************)
EXTENDS RotatorTunnels, RotatorCursor, TrafficUsage, FiniteSetTheorems, TLAPS

-----------------------------------------------------------------------------
(* Rotator tunnels: the inductive invariant.                               *)

\* A handler that registered its client and has not ended.
Registered == {"registered", "dialing", "gaveUp", "dialed", "piping"}

\* Where a dial may be, by the state of its handler.
DialsFit(c) ==
    /\ tunnel[c] \in {"none", "accepted", "registered", "plain"} => dial[c] = "no"
    /\ tunnel[c] = "dialing" => dial[c] \notin {"no", "over"}
    /\ tunnel[c] = "gaveUp" => dial[c] # "no"
    /\ tunnel[c] \in {"dialed", "piping"} => dial[c] = "over"

\* Who has an upstream socket: a handler that took it over or asked for it
\* itself, or the dial goroutine.
UpstreamOwned(c) ==
    c \in upstreamOpen => tunnel[c] \in {"plain", "dialed", "piping"} \/ dial[c] \in {"shaking", "connected"}

\* Client sockets, registrations and slots have a handler that is not over.
ClientOwned(c) ==
    /\ c \in clientOpen => tunnel[c] \notin {"none", "done"}
    /\ c \in tracked.clients => tunnel[c] \in Registered
    /\ c \in tracked.upstreams => tunnel[c] = "piping"
    /\ c \in slotsHeld => tunnel[c] \in Registered
    /\ tunnel[c] = "plain" => ~socksListener

\* What Stop will find: while the listener is open, a registered handler's
\* sockets are in the list that Stop takes; then they are still to be closed;
\* then they are closed.
StopFinds(c) ==
    /\ c \in clientOpen /\ tunnel[c] \in Registered =>
          /\ listenerState = "open" => c \in tracked.clients
          /\ listenerState = "closing" => c \in toClose.clients
          /\ listenerState # "stopped"
    /\ c \in upstreamOpen /\ tunnel[c] = "piping" =>
          /\ listenerState = "open" => c \in tracked.upstreams
          /\ listenerState = "closing" => c \in toClose.upstreams
          /\ listenerState # "stopped"
    /\ c \in clientOpen /\ listenerState = "stopped" => tunnel[c] = "accepted" /\ socksListener

ClientInv(c) == DialsFit(c) /\ UpstreamOwned(c) /\ ClientOwned(c) /\ StopFinds(c)

FiniteHoldings == IsFiniteSet(tracked.clients) /\ IsFiniteSet(slotsHeld)

TunnelInv == TunnelTypeOK /\ FiniteHoldings /\ \A c \in Client : ClientInv(c)

HandlerStates == {"none", "accepted", "registered", "plain", "piping", "done"} \cup BeforeRegistration
DialStates == {"no", "running", "shaking", "connected", "failed", "over"}
Sockets == [clients : SUBSET Client, upstreams : SUBSET Client]

\* Registrations and slots are finite and within their limits.
Bounded ==
    /\ FiniteHoldings
    /\ Cardinality(tracked.clients) =< TunnelLimit /\ Cardinality(slotsHeld) =< SocksSlots

\* The rest of the type invariant.
Typed ==
    /\ socksListener \in BOOLEAN
    /\ tunnel \in [Client -> HandlerStates] /\ dial \in [Client -> DialStates]
    /\ clientOpen \subseteq Client /\ upstreamOpen \subseteq Client /\ slotsHeld \subseteq Client
    /\ tracked \in Sockets /\ toClose \in Sockets
    /\ listenerState \in {"open", "closing", "stopped"}

LEMMA TunnelInvParts == TunnelInv <=> Typed /\ Bounded /\ \A c \in Client : ClientInv(c)
BY DEF TunnelInv, TunnelTypeOK, Typed, Bounded, FiniteHoldings, HandlerStates, DialStates, Sockets

\* Client k is where it was.
Same(k) ==
    /\ tunnel'[k] = tunnel[k] /\ dial'[k] = dial[k]
    /\ k \in clientOpen' <=> k \in clientOpen
    /\ k \in upstreamOpen' <=> k \in upstreamOpen
    /\ k \in tracked.clients' <=> k \in tracked.clients
    /\ k \in tracked.upstreams' <=> k \in tracked.upstreams
    /\ k \in slotsHeld' <=> k \in slotsHeld

\* What a step of one client's handler or dial leaves to show.
LEMMA OneClient ==
    ASSUME TunnelInv, NEW c \in Client, Typed', Bounded', ClientInv(c)',
           UNCHANGED <<socksListener, listenerState, toClose>>,
           \A k \in Client \ {c} : Same(k)
    PROVE  TunnelInv'
<1>1. ASSUME NEW k \in Client, k # c PROVE ClientInv(k)'
  <2>1. ClientInv(k) /\ Same(k)
    BY <1>1 DEF TunnelInv
  <2>2. DialsFit(k)' /\ UpstreamOwned(k)'
    BY <2>1 DEF ClientInv, Same, DialsFit, UpstreamOwned
  <2>3. ClientOwned(k)'
    BY <2>1 DEF ClientInv, Same, ClientOwned
  <2>4. StopFinds(k)'
    BY <2>1 DEF ClientInv, Same, StopFinds
  <2>5. QED
    BY <2>2, <2>3, <2>4 DEF ClientInv
<1>2. \A k \in Client : ClientInv(k)'
  BY <1>1
<1>3. QED
  BY <1>2 DEF TunnelInv, TunnelTypeOK, Typed, Bounded, FiniteHoldings, HandlerStates, DialStates, Sockets

\* Giving up registrations and slots keeps them within the limits.
LEMMA BoundedShrinks ==
    ASSUME TunnelConstants, Bounded, tracked'.clients \subseteq tracked.clients, slotsHeld' \subseteq slotsHeld
    PROVE  Bounded'
<1>1. /\ IsFiniteSet(tracked'.clients) /\ Cardinality(tracked'.clients) <= Cardinality(tracked.clients)
      /\ IsFiniteSet(slotsHeld') /\ Cardinality(slotsHeld') <= Cardinality(slotsHeld)
  BY FS_Subset DEF Bounded, FiniteHoldings
<1>2. /\ Cardinality(tracked'.clients) \in Nat /\ Cardinality(tracked.clients) \in Nat
      /\ Cardinality(slotsHeld') \in Nat /\ Cardinality(slotsHeld) \in Nat
  BY <1>1, FS_CardinalityType DEF Bounded, FiniteHoldings
<1>3. QED
  BY <1>1, <1>2 DEF Bounded, FiniteHoldings, TunnelConstants

\* One more element stays within a limit that was not reached.
LEMMA OneMore ==
    ASSUME NEW S, NEW c, NEW n \in Nat, IsFiniteSet(S), Cardinality(S) < n
    PROVE  IsFiniteSet(S \cup {c}) /\ Cardinality(S \cup {c}) =< n
<1>1. Cardinality(S) \in Nat
  BY FS_CardinalityType
<1>2. /\ IsFiniteSet(S \cup {c})
      /\ Cardinality(S \cup {c}) = IF c \in S THEN Cardinality(S) ELSE Cardinality(S) + 1
  BY FS_AddElement
<1>3. QED
  BY <1>1, <1>2

-----------------------------------------------------------------------------
(* The steps of a handler.                                                 *)

\* The end of a handler that has an upstream socket.
LEMMA FinishCallKeeps ==
    ASSUME TunnelConstants, TunnelInv, NEW c \in Client, FinishCall(c),
           tunnel[c] \in {"plain", "piping", "dialed"},
           UNCHANGED <<socksListener, dial, listenerState, toClose>>
    PROVE  TunnelInv'
<1>1. Typed /\ Bounded /\ ClientInv(c)
  BY TunnelInvParts
<1>2. Typed'
  BY <1>1 DEF Typed, FinishCall, HandlerStates, Sockets
<1>3. Bounded'
  BY <1>1, BoundedShrinks DEF FinishCall
<1>4. /\ tunnel'[c] = "done" /\ c \notin clientOpen' /\ c \notin upstreamOpen'
      /\ c \notin tracked'.clients /\ c \notin tracked'.upstreams /\ c \notin slotsHeld'
  BY <1>1 DEF FinishCall, Typed
<1>5. ClientInv(c)'
  BY <1>4 DEF ClientInv, DialsFit, UpstreamOwned, ClientOwned, StopFinds, Registered
<1>6. ASSUME NEW k \in Client, k # c PROVE Same(k)
  BY <1>1, <1>6 DEF FinishCall, Same, Typed
<1>7. QED
  BY <1>2, <1>3, <1>5, <1>6, OneClient

\* The end of a handler that has none: the dial goroutine keeps what it has.
LEMMA ReturnKeeps ==
    ASSUME TunnelConstants, TunnelInv, NEW c \in Client, Return(c),
           tunnel[c] \in {"accepted", "registered", "dialing", "gaveUp"},
           dial' = dial \/ dial' = [dial EXCEPT ![c] = IF @ = "failed" THEN "over" ELSE @],
           UNCHANGED <<socksListener, upstreamOpen, listenerState, toClose>>
    PROVE  TunnelInv'
<1>1. Typed /\ Bounded /\ ClientInv(c)
  BY TunnelInvParts
<1>2. dial' \in [Client -> DialStates] /\ \A k \in Client \ {c} : dial'[k] = dial[k]
  BY <1>1 DEF Typed, DialStates
<1>3. Typed'
  BY <1>1, <1>2 DEF Typed, Return, HandlerStates, Sockets
<1>4. Bounded'
  BY <1>1, BoundedShrinks DEF Return, Typed, Sockets
<1>5. /\ tunnel'[c] = "done" /\ c \notin clientOpen'
      /\ c \notin tracked'.clients /\ c \notin tracked'.upstreams /\ c \notin slotsHeld'
  <2>1. c \notin tracked.upstreams
    BY <1>1 DEF ClientInv, ClientOwned
  <2>2. QED
    BY <1>1, <2>1 DEF Return, Typed, Sockets
<1>6. UpstreamOwned(c)'
  <2>1. c \in upstreamOpen => dial[c] \in {"shaking", "connected"}
    BY <1>1 DEF ClientInv, UpstreamOwned
  <2>2. dial[c] \in {"shaking", "connected"} => dial'[c] = dial[c]
    BY <1>1 DEF Typed
  <2>3. QED
    BY <2>1, <2>2 DEF UpstreamOwned
<1>7. ClientInv(c)'
  BY <1>5, <1>6 DEF ClientInv, DialsFit, ClientOwned, StopFinds, Registered
<1>8. ASSUME NEW k \in Client, k # c PROVE Same(k)
  BY <1>1, <1>2, <1>8 DEF Return, Same, Typed, Sockets
<1>9. QED
  BY <1>3, <1>4, <1>7, <1>8, OneClient

\* The first registration of a client.
LEMMA RegistersClient ==
    ASSUME TunnelConstants, TunnelInv, NEW c \in Client, tunnel[c] = "accepted", Add(FALSE),
           tunnel' = [tunnel EXCEPT ![c] = "registered"],
           tracked' = [tracked EXCEPT !.clients = @ \cup {c}],
           slotsHeld' = slotsHeld \/ (slotsHeld' = slotsHeld \cup {c} /\ Cardinality(slotsHeld) < SocksSlots),
           UNCHANGED <<socksListener, dial, clientOpen, upstreamOpen, listenerState, toClose>>
    PROVE  TunnelInv'
<1>1. Typed /\ Bounded /\ ClientInv(c)
  BY TunnelInvParts
<1>2. /\ tracked'.clients = tracked.clients \cup {c} /\ tracked'.upstreams = tracked.upstreams
      /\ tracked' \in Sockets /\ slotsHeld' \subseteq Client
  BY <1>1 DEF Typed, Sockets
<1>3. Typed'
  BY <1>1, <1>2 DEF Typed, HandlerStates
<1>4. Bounded'
  <2>1. Cardinality(tracked.clients) < TunnelLimit /\ TunnelLimit \in Nat /\ SocksSlots \in Nat
    BY DEF Add, TunnelConstants
  <2>2. IsFiniteSet(tracked'.clients) /\ Cardinality(tracked'.clients) =< TunnelLimit
    <3>1. IsFiniteSet(tracked.clients)
      BY <1>1 DEF Bounded, FiniteHoldings
    <3>2. /\ IsFiniteSet(tracked.clients \cup {c})
          /\ Cardinality(tracked.clients \cup {c}) =< TunnelLimit
      BY <2>1, <3>1, OneMore
    <3>3. QED
      BY <1>2, <3>2
  <2>3. IsFiniteSet(slotsHeld') /\ Cardinality(slotsHeld') =< SocksSlots
    BY <1>1, <2>1, OneMore DEF Bounded, FiniteHoldings
  <2>4. QED
    BY <2>2, <2>3 DEF Bounded, FiniteHoldings
<1>5. tunnel'[c] = "registered" /\ dial'[c] = "no" /\ c \in tracked'.clients /\ listenerState = "open"
  BY <1>1, <1>2 DEF Typed, ClientInv, DialsFit, Add
<1>6. c \notin upstreamOpen /\ c \notin tracked'.upstreams
  BY <1>1, <1>2 DEF ClientInv, DialsFit, UpstreamOwned, ClientOwned
<1>7. ClientInv(c)'
  BY <1>5, <1>6 DEF ClientInv, DialsFit, UpstreamOwned, ClientOwned, StopFinds, Registered
<1>8. ASSUME NEW k \in Client, k # c PROVE Same(k)
  BY <1>1, <1>2, <1>8 DEF Same, Typed
<1>9. QED
  BY <1>3, <1>4, <1>7, <1>8, OneClient

\* A step that changes neither registrations nor slots.
LEMMA HoldsWhatItHad ==
    ASSUME TunnelInv, NEW c \in Client, NEW t \in HandlerStates, NEW d \in DialStates,
           tunnel' = [tunnel EXCEPT ![c] = t], dial' = [dial EXCEPT ![c] = d],
           clientOpen' \in {clientOpen, clientOpen \cup {c}},
           upstreamOpen' \in {upstreamOpen, upstreamOpen \cup {c}, upstreamOpen \ {c}},
           UNCHANGED <<socksListener, tracked, slotsHeld, listenerState, toClose>>,
           (tunnel'[c] = t /\ dial'[c] = d) => ClientInv(c)'
    PROVE  TunnelInv'
<1>1. Typed /\ Bounded
  BY TunnelInvParts
<1>2. Typed'
  BY <1>1 DEF Typed
<1>3. Bounded'
  BY <1>1 DEF Bounded, FiniteHoldings
<1>4. ASSUME NEW k \in Client, k # c PROVE Same(k)
  BY <1>1, <1>4 DEF Same, Typed
<1>5. tunnel'[c] = t /\ dial'[c] = d
  BY <1>1 DEF Typed
<1>6. QED
  BY <1>2, <1>3, <1>4, <1>5, OneClient

LEMMA AcceptKeeps ==
    ASSUME TunnelInv, NEW c \in Client, Accept(c), UNCHANGED socksListener
    PROVE  TunnelInv'
<1>1. Typed /\ ClientInv(c)
  BY TunnelInvParts
<1>2. /\ tunnel' = [tunnel EXCEPT ![c] = "accepted"] /\ dial' = [dial EXCEPT ![c] = dial[c]]
      /\ clientOpen' \in {clientOpen, clientOpen \cup {c}}
      /\ upstreamOpen' \in {upstreamOpen, upstreamOpen \cup {c}, upstreamOpen \ {c}}
      /\ UNCHANGED <<socksListener, tracked, slotsHeld, listenerState, toClose>>
  BY <1>1 DEF Accept, Typed
<1>3. "accepted" \in HandlerStates /\ dial[c] \in DialStates
  BY <1>1 DEF Typed, HandlerStates, BeforeRegistration, DialStates
<1>4. ASSUME tunnel'[c] = "accepted", dial'[c] = dial[c] PROVE ClientInv(c)'
  BY <1>1, <1>4 DEF Accept, Typed, ClientInv, DialsFit, UpstreamOwned, ClientOwned, StopFinds, Registered
<1>5. QED
  BY <1>2, <1>3, <1>4, HoldsWhatItHad

LEMMA PlainRequestKeeps ==
    ASSUME TunnelInv, NEW c \in Client, PlainRequest(c), UNCHANGED socksListener
    PROVE  TunnelInv'
<1>1. Typed /\ ClientInv(c)
  BY TunnelInvParts
<1>2. /\ tunnel' = [tunnel EXCEPT ![c] = "plain"] /\ dial' = [dial EXCEPT ![c] = dial[c]]
      /\ clientOpen' \in {clientOpen, clientOpen \cup {c}}
      /\ upstreamOpen' \in {upstreamOpen, upstreamOpen \cup {c}, upstreamOpen \ {c}}
      /\ UNCHANGED <<socksListener, tracked, slotsHeld, listenerState, toClose>>
  BY <1>1 DEF PlainRequest, Typed
<1>3. "plain" \in HandlerStates /\ dial[c] \in DialStates
  BY <1>1 DEF Typed, HandlerStates, BeforeRegistration, DialStates
<1>4. ASSUME tunnel'[c] = "plain", dial'[c] = dial[c] PROVE ClientInv(c)'
  BY <1>1, <1>4 DEF PlainRequest, Typed, ClientInv, DialsFit, UpstreamOwned, ClientOwned, StopFinds, Registered
<1>5. QED
  BY <1>2, <1>3, <1>4, HoldsWhatItHad

LEMMA StartDialKeeps ==
    ASSUME TunnelInv, NEW c \in Client, StartDial(c), UNCHANGED socksListener
    PROVE  TunnelInv'
<1>1. Typed /\ ClientInv(c)
  BY TunnelInvParts
<1>2. /\ tunnel' = [tunnel EXCEPT ![c] = "dialing"] /\ dial' = [dial EXCEPT ![c] = "running"]
      /\ clientOpen' \in {clientOpen, clientOpen \cup {c}}
      /\ upstreamOpen' \in {upstreamOpen, upstreamOpen \cup {c}, upstreamOpen \ {c}}
      /\ UNCHANGED <<socksListener, tracked, slotsHeld, listenerState, toClose>>
  BY <1>1 DEF StartDial, Typed
<1>3. "dialing" \in HandlerStates /\ "running" \in DialStates
  BY <1>1 DEF Typed, HandlerStates, BeforeRegistration, DialStates
<1>4. ASSUME tunnel'[c] = "dialing", dial'[c] = "running" PROVE ClientInv(c)'
  BY <1>1, <1>4 DEF StartDial, Typed, ClientInv, DialsFit, UpstreamOwned, ClientOwned, StopFinds, Registered
<1>5. QED
  BY <1>2, <1>3, <1>4, HoldsWhatItHad

LEMMA UpstreamAcceptsKeeps ==
    ASSUME TunnelInv, NEW c \in Client, UpstreamAccepts(c), UNCHANGED socksListener
    PROVE  TunnelInv'
<1>1. Typed /\ ClientInv(c)
  BY TunnelInvParts
<1>2. /\ tunnel' = [tunnel EXCEPT ![c] = tunnel[c]] /\ dial' = [dial EXCEPT ![c] = "connected"]
      /\ clientOpen' \in {clientOpen, clientOpen \cup {c}}
      /\ upstreamOpen' \in {upstreamOpen, upstreamOpen \cup {c}, upstreamOpen \ {c}}
      /\ UNCHANGED <<socksListener, tracked, slotsHeld, listenerState, toClose>>
  BY <1>1 DEF UpstreamAccepts, Typed
<1>3. tunnel[c] \in HandlerStates /\ "connected" \in DialStates
  BY <1>1 DEF Typed, HandlerStates, BeforeRegistration, DialStates
<1>4. ASSUME tunnel'[c] = tunnel[c], dial'[c] = "connected" PROVE ClientInv(c)'
  BY <1>1, <1>4 DEF UpstreamAccepts, Typed, ClientInv, DialsFit, UpstreamOwned, ClientOwned, StopFinds, Registered
<1>5. QED
  BY <1>2, <1>3, <1>4, HoldsWhatItHad

LEMMA UpstreamRefusesKeeps ==
    ASSUME TunnelInv, NEW c \in Client, UpstreamRefuses(c), UNCHANGED socksListener
    PROVE  TunnelInv'
<1>1. Typed /\ ClientInv(c)
  BY TunnelInvParts
<1>2. /\ tunnel' = [tunnel EXCEPT ![c] = tunnel[c]] /\ dial' = [dial EXCEPT ![c] = "failed"]
      /\ clientOpen' \in {clientOpen, clientOpen \cup {c}}
      /\ upstreamOpen' \in {upstreamOpen, upstreamOpen \cup {c}, upstreamOpen \ {c}}
      /\ UNCHANGED <<socksListener, tracked, slotsHeld, listenerState, toClose>>
  BY <1>1 DEF UpstreamRefuses, Typed
<1>3. tunnel[c] \in HandlerStates /\ "failed" \in DialStates
  BY <1>1 DEF Typed, HandlerStates, BeforeRegistration, DialStates
<1>4. ASSUME tunnel'[c] = tunnel[c], dial'[c] = "failed" PROVE ClientInv(c)'
  BY <1>1, <1>4 DEF UpstreamRefuses, Typed, ClientInv, DialsFit, UpstreamOwned, ClientOwned, StopFinds, Registered
<1>5. QED
  BY <1>2, <1>3, <1>4, HoldsWhatItHad

LEMMA GiveUpDialKeeps ==
    ASSUME TunnelInv, NEW c \in Client, GiveUpDial(c), UNCHANGED socksListener
    PROVE  TunnelInv'
<1>1. Typed /\ ClientInv(c)
  BY TunnelInvParts
<1>2. /\ tunnel' = [tunnel EXCEPT ![c] = "gaveUp"] /\ dial' = [dial EXCEPT ![c] = dial[c]]
      /\ clientOpen' \in {clientOpen, clientOpen \cup {c}}
      /\ upstreamOpen' \in {upstreamOpen, upstreamOpen \cup {c}, upstreamOpen \ {c}}
      /\ UNCHANGED <<socksListener, tracked, slotsHeld, listenerState, toClose>>
  BY <1>1 DEF GiveUpDial, Typed
<1>3. "gaveUp" \in HandlerStates /\ dial[c] \in DialStates
  BY <1>1 DEF Typed, HandlerStates, BeforeRegistration, DialStates
<1>4. ASSUME tunnel'[c] = "gaveUp", dial'[c] = dial[c] PROVE ClientInv(c)'
  BY <1>1, <1>4 DEF GiveUpDial, Typed, ClientInv, DialsFit, UpstreamOwned, ClientOwned, StopFinds, Registered
<1>5. QED
  BY <1>2, <1>3, <1>4, HoldsWhatItHad

LEMMA OrphanDialKeeps ==
    ASSUME TunnelInv, NEW c \in Client, OrphanDial(c), UNCHANGED socksListener
    PROVE  TunnelInv'
<1>1. Typed /\ ClientInv(c)
  BY TunnelInvParts
<1>2. /\ tunnel' = [tunnel EXCEPT ![c] = tunnel[c]] /\ dial' = [dial EXCEPT ![c] = "over"]
      /\ clientOpen' \in {clientOpen, clientOpen \cup {c}}
      /\ upstreamOpen' \in {upstreamOpen, upstreamOpen \cup {c}, upstreamOpen \ {c}}
      /\ UNCHANGED <<socksListener, tracked, slotsHeld, listenerState, toClose>>
  BY <1>1 DEF OrphanDial, Typed
<1>3. tunnel[c] \in HandlerStates /\ "over" \in DialStates
  BY <1>1 DEF Typed, HandlerStates, BeforeRegistration, DialStates
<1>4. ASSUME tunnel'[c] = tunnel[c], dial'[c] = "over" PROVE ClientInv(c)'
  BY <1>1, <1>4 DEF OrphanDial, Typed, ClientInv, DialsFit, UpstreamOwned, ClientOwned, StopFinds, Registered
<1>5. QED
  BY <1>2, <1>3, <1>4, HoldsWhatItHad

LEMMA TakeConnectionKeeps ==
    ASSUME TunnelInv, NEW c \in Client, TakeConnection(c), UNCHANGED socksListener
    PROVE  TunnelInv'
<1>1. Typed /\ ClientInv(c)
  BY TunnelInvParts
<1>2. /\ tunnel' = [tunnel EXCEPT ![c] = "dialed"] /\ dial' = [dial EXCEPT ![c] = "over"]
      /\ clientOpen' \in {clientOpen, clientOpen \cup {c}}
      /\ upstreamOpen' \in {upstreamOpen, upstreamOpen \cup {c}, upstreamOpen \ {c}}
      /\ UNCHANGED <<socksListener, tracked, slotsHeld, listenerState, toClose>>
  BY <1>1 DEF TakeConnection, Typed
<1>3. "dialed" \in HandlerStates /\ "over" \in DialStates
  BY <1>1 DEF Typed, HandlerStates, BeforeRegistration, DialStates
<1>4. ASSUME tunnel'[c] = "dialed", dial'[c] = "over" PROVE ClientInv(c)'
  BY <1>1, <1>4 DEF TakeConnection, Typed, ClientInv, DialsFit, UpstreamOwned, ClientOwned, StopFinds, Registered
<1>5. QED
  BY <1>2, <1>3, <1>4, HoldsWhatItHad

LEMMA DialUpstreamKeeps ==
    ASSUME TunnelInv, NEW c \in Client, DialUpstream(c), UNCHANGED socksListener
    PROVE  TunnelInv'
<1>1. Typed /\ ClientInv(c) /\ dial[c] = "running" /\ tunnel[c] \in HandlerStates
  BY TunnelInvParts DEF DialUpstream, Typed
<1>2. tunnel' = [tunnel EXCEPT ![c] = tunnel[c]] /\ clientOpen' \in {clientOpen, clientOpen \cup {c}}
      /\ UNCHANGED <<socksListener, tracked, slotsHeld, listenerState, toClose>> /\ clientOpen' = clientOpen
  BY <1>1 DEF DialUpstream, Typed
<1>3. CASE upstreamOpen' = upstreamOpen \cup {c} /\ dial' = [dial EXCEPT ![c] = "shaking"]
  <2>1. ASSUME tunnel'[c] = tunnel[c], dial'[c] = "shaking" PROVE ClientInv(c)'
    BY <1>1, <1>2, <1>3, <2>1 DEF Typed, ClientInv, DialsFit, UpstreamOwned, ClientOwned, StopFinds, Registered
  <2>2. QED
    BY <1>1, <1>2, <1>3, <2>1, HoldsWhatItHad DEF DialStates
<1>4. CASE upstreamOpen' = upstreamOpen /\ dial' = [dial EXCEPT ![c] = "failed"]
  <2>1. ASSUME tunnel'[c] = tunnel[c], dial'[c] = "failed" PROVE ClientInv(c)'
    BY <1>1, <1>2, <1>4, <2>1 DEF Typed, ClientInv, DialsFit, UpstreamOwned, ClientOwned, StopFinds, Registered
  <2>2. QED
    BY <1>1, <1>2, <1>4, <2>1, HoldsWhatItHad DEF DialStates
<1>5. QED
  BY <1>3, <1>4 DEF DialUpstream

\* Only an open listener registers the upstream socket: Stop will find it.
LEMMA RegisterUpstreamKeeps ==
    ASSUME TunnelConstants, TunnelInv, NEW c \in Client, RegisterUpstream(c), UNCHANGED socksListener
    PROVE  TunnelInv'
<1>1. Typed /\ Bounded /\ ClientInv(c)
  BY TunnelInvParts
<1>2. CASE ~Add(TRUE) /\ FinishCall(c)
  BY <1>2, FinishCallKeeps DEF RegisterUpstream
<1>3. CASE /\ Add(TRUE) /\ tunnel' = [tunnel EXCEPT ![c] = "piping"]
           /\ tracked' = [tracked EXCEPT !.upstreams = @ \cup {c}]
           /\ UNCHANGED <<clientOpen, upstreamOpen, slotsHeld>>
  <2>1. tunnel[c] = "dialed" /\ UNCHANGED <<dial, socksListener, listenerState, toClose>>
    BY DEF RegisterUpstream
  <2>2. /\ tracked'.clients = tracked.clients /\ tracked'.upstreams = tracked.upstreams \cup {c}
        /\ tracked' \in Sockets
    BY <1>1, <1>3 DEF Typed, Sockets
  <2>3. Typed'
    BY <1>1, <1>3, <2>1, <2>2 DEF Typed, HandlerStates
  <2>4. Bounded'
    BY <1>1, <1>3, <2>2 DEF Bounded, FiniteHoldings
  <2>5. tunnel'[c] = "piping" /\ c \in tracked'.upstreams /\ listenerState = "open"
    BY <1>1, <1>3, <2>2 DEF Typed, Add
  <2>6. ClientInv(c)'
    BY <1>1, <1>3, <2>1, <2>2, <2>5 DEF ClientInv, DialsFit, UpstreamOwned, ClientOwned, StopFinds, Registered
  <2>7. ASSUME NEW k \in Client, k # c PROVE Same(k)
    BY <1>1, <1>3, <2>1, <2>2, <2>7 DEF Same, Typed
  <2>8. QED
    BY <2>1, <2>3, <2>4, <2>6, <2>7, OneClient
<1>4. QED
  BY <1>2, <1>3 DEF RegisterUpstream

\* The steps that end a handler or register a client.
LEMMA EndsAndRegistersKeep ==
    ASSUME TunnelConstants, TunnelInv, NEW c \in Client, UNCHANGED socksListener,
           \/ RegisterConnect(c) \/ DispatchSocks(c) \/ RefuseClient(c) \/ HandshakeFails(c) \/ NoRoute(c)
           \/ LeaveAfterDial(c) \/ PlainEnds(c) \/ PipeEnds(c)
    PROVE  TunnelInv'
<1>1. CASE RegisterConnect(c)
  <2>1. CASE ~Add(FALSE) /\ Return(c)
    BY <1>1, <2>1, ReturnKeeps DEF RegisterConnect
  <2>2. CASE ~(~Add(FALSE) /\ Return(c))
    BY <1>1, <2>2, RegistersClient DEF RegisterConnect
  <2>3. QED
    BY <2>1, <2>2
<1>2. CASE DispatchSocks(c)
  <2>1. CASE (~Add(FALSE) \/ Cardinality(slotsHeld) >= SocksSlots) /\ Return(c)
    BY <1>2, <2>1, ReturnKeeps DEF DispatchSocks
  <2>2. CASE ~((~Add(FALSE) \/ Cardinality(slotsHeld) >= SocksSlots) /\ Return(c))
    BY <1>2, <2>2, RegistersClient DEF DispatchSocks
  <2>3. QED
    BY <2>1, <2>2
<1>3. CASE RefuseClient(c) \/ HandshakeFails(c) \/ NoRoute(c)
  BY <1>3, ReturnKeeps DEF RefuseClient, HandshakeFails, NoRoute
<1>4. CASE LeaveAfterDial(c)
  BY <1>4, ReturnKeeps DEF LeaveAfterDial
<1>5. CASE PlainEnds(c) \/ PipeEnds(c)
  BY <1>5, FinishCallKeeps DEF PlainEnds, PipeEnds
<1>6. QED
  BY <1>1, <1>2, <1>3, <1>4, <1>5

-----------------------------------------------------------------------------
(* The steps of Stop.                                                      *)

LEMMA BeginStopKeeps ==
    ASSUME TunnelInv, BeginStop, UNCHANGED socksListener
    PROVE  TunnelInv'
<1>1. Typed /\ Bounded /\ \A c \in Client : ClientInv(c)
  BY TunnelInvParts
<1>2. Typed' /\ Bounded'
  BY <1>1 DEF BeginStop, Typed, Bounded, FiniteHoldings
<1>3. ASSUME NEW c \in Client PROVE ClientInv(c)'
  <2>1. ClientInv(c)
    BY <1>1
  <2>2. QED
    BY <2>1 DEF BeginStop, ClientInv, DialsFit, UpstreamOwned, ClientOwned, StopFinds
<1>4. QED
  BY <1>2, <1>3 DEF TunnelInv, TunnelTypeOK, Typed, Bounded, FiniteHoldings, HandlerStates, DialStates, Sockets

LEMMA CloseListedKeeps ==
    ASSUME TunnelInv, CloseListed, UNCHANGED socksListener
    PROVE  TunnelInv'
<1>1. Typed /\ Bounded /\ \A c \in Client : ClientInv(c)
  BY TunnelInvParts
<1>2. UNCHANGED <<socksListener, tunnel, dial, tracked, slotsHeld, listenerState>> /\ listenerState = "closing"
  BY DEF CloseListed
\* What is closed leaves the list, and nothing else does.
<1>3. /\ clientOpen' \subseteq clientOpen /\ upstreamOpen' \subseteq upstreamOpen
      /\ toClose' \in Sockets
      /\ \A c \in clientOpen' : c \in toClose.clients => c \in toClose'.clients
      /\ \A c \in upstreamOpen' : c \in toClose.upstreams => c \in toClose'.upstreams
  BY <1>1 DEF CloseListed, Typed, Sockets
<1>4. Typed' /\ Bounded'
  BY <1>1, <1>2, <1>3 DEF Typed, Bounded, FiniteHoldings
<1>5. ASSUME NEW c \in Client PROVE ClientInv(c)'
  <2>1. ClientInv(c)
    BY <1>1
  <2>2. DialsFit(c)' /\ UpstreamOwned(c)' /\ ClientOwned(c)'
    BY <1>2, <1>3, <2>1 DEF ClientInv, DialsFit, UpstreamOwned, ClientOwned
  <2>3. StopFinds(c)'
    BY <1>2, <1>3, <2>1 DEF ClientInv, StopFinds
  <2>4. QED
    BY <2>2, <2>3 DEF ClientInv
<1>6. QED
  BY <1>4, <1>5 DEF TunnelInv, TunnelTypeOK, Typed, Bounded, FiniteHoldings, HandlerStates, DialStates, Sockets

\* With nothing left on the list, no registered socket is open.
LEMMA EndStopKeeps ==
    ASSUME TunnelInv, EndStop, UNCHANGED socksListener
    PROVE  TunnelInv'
<1>1. Typed /\ Bounded /\ \A c \in Client : ClientInv(c)
  BY TunnelInvParts
<1>2. /\ UNCHANGED <<socksListener, tunnel, dial, upstreamOpen, tracked, slotsHeld, toClose>>
      /\ listenerState = "closing" /\ listenerState' = "stopped" /\ clientOpen' \subseteq clientOpen
      /\ toClose.clients = {} /\ toClose.upstreams = {}
      /\ ~socksListener => \A c \in clientOpen' : tunnel[c] \notin {"plain", "accepted"}
  BY DEF EndStop, NoSockets
<1>3. Typed' /\ Bounded'
  BY <1>1, <1>2 DEF Typed, Bounded, FiniteHoldings
<1>4. ASSUME NEW c \in Client PROVE ClientInv(c)'
  <2>1. ClientInv(c) /\ tunnel[c] \in HandlerStates
    BY <1>1 DEF Typed
  <2>2. DialsFit(c)' /\ UpstreamOwned(c)' /\ ClientOwned(c)'
    BY <1>2, <2>1 DEF ClientInv, DialsFit, UpstreamOwned, ClientOwned
  <2>3. c \in clientOpen => tunnel[c] \notin Registered \cup {"none", "done"}
    BY <1>2, <2>1 DEF ClientInv, StopFinds, ClientOwned
  <2>4. c \in clientOpen' => tunnel[c] = "accepted" /\ socksListener
    BY <1>2, <2>1, <2>3 DEF ClientInv, ClientOwned, HandlerStates, BeforeRegistration, Registered
  <2>5. c \in upstreamOpen => tunnel[c] # "piping"
    BY <1>2, <2>1 DEF ClientInv, StopFinds
  <2>6. StopFinds(c)'
    BY <1>2, <2>4, <2>5 DEF StopFinds, Registered
  <2>7. QED
    BY <2>2, <2>6 DEF ClientInv
<1>5. QED
  BY <1>3, <1>4 DEF TunnelInv, TunnelTypeOK, Typed, Bounded, FiniteHoldings, HandlerStates, DialStates, Sockets

-----------------------------------------------------------------------------
LEMMA TunnelInvInit ==
    ASSUME TunnelConstants, TunnelInit
    PROVE  TunnelInv
<1>1. Typed
  BY DEF TunnelInit, Typed, HandlerStates, DialStates, Sockets, NoSockets
<1>2. Bounded
  BY FS_EmptySet DEF TunnelInit, Bounded, FiniteHoldings, NoSockets, TunnelConstants
<1>3. ASSUME NEW c \in Client PROVE ClientInv(c)
  BY DEF TunnelInit, NoSockets, ClientInv, DialsFit, UpstreamOwned, ClientOwned, StopFinds, Registered
<1>4. QED
  BY <1>1, <1>2, <1>3, TunnelInvParts

LEMMA TunnelInvStep ==
    ASSUME TunnelConstants, TunnelInv, [TunnelNext]_tunnelVars
    PROVE  TunnelInv'
<1>1. CASE UNCHANGED tunnelVars
  BY <1>1 DEF tunnelVars, TunnelInv, TunnelTypeOK, FiniteHoldings, ClientInv, DialsFit, UpstreamOwned, ClientOwned, StopFinds
<1>2. CASE TunnelNext
  <2>1. UNCHANGED socksListener
    BY <1>2 DEF TunnelNext
  <2>2. CASE BeginStop \/ CloseListed \/ EndStop
    BY <2>1, <2>2, BeginStopKeeps, CloseListedKeeps, EndStopKeeps
  <2>3. ASSUME NEW c \in Client,
               \/ Accept(c) \/ PlainRequest(c) \/ StartDial(c) \/ DialUpstream(c) \/ UpstreamAccepts(c)
               \/ UpstreamRefuses(c) \/ GiveUpDial(c) \/ OrphanDial(c) \/ TakeConnection(c)
        PROVE  TunnelInv'
    BY <2>1, <2>3, AcceptKeeps, PlainRequestKeeps, StartDialKeeps, DialUpstreamKeeps, UpstreamAcceptsKeeps,
       UpstreamRefusesKeeps, GiveUpDialKeeps, OrphanDialKeeps, TakeConnectionKeeps
  <2>4. ASSUME NEW c \in Client,
               \/ RegisterConnect(c) \/ DispatchSocks(c) \/ RefuseClient(c) \/ HandshakeFails(c) \/ NoRoute(c)
               \/ LeaveAfterDial(c) \/ PlainEnds(c) \/ PipeEnds(c) \/ RegisterUpstream(c)
        PROVE  TunnelInv'
    BY <2>1, <2>4, EndsAndRegistersKeep, RegisterUpstreamKeeps
  <2>5. QED
    BY <1>2, <2>2, <2>3, <2>4 DEF TunnelNext
<1>3. QED
  BY <1>1, <1>2

\* For every set of clients and every limit: a socket, a registration or a slot
\* never outlasts its handler and its dial goroutine, and once Stop has ended
\* the only open sockets belong to a handler or goroutine that will close them,
\* whichever registrations and dials raced Stop (connections.go, handler.go).
THEOREM SocketsHaveOwners == ASSUME TunnelConstants PROVE TunnelSpec => []NoSocketOutlivesOwner
<1>1. TunnelInit => TunnelInv
  BY TunnelInvInit
<1>2. TunnelInv /\ [TunnelNext]_tunnelVars => TunnelInv'
  BY TunnelInvStep
<1>3. TunnelInv => NoSocketOutlivesOwner
  <2>1. SUFFICES ASSUME TunnelInv PROVE NoSocketOutlivesOwner
    OBVIOUS
  <2>2. ASSUME NEW c \in Client, tunnel[c] = "done", dial[c] \in {"no", "over"}
        PROVE  c \notin clientOpen \cup upstreamOpen \cup slotsHeld \cup tracked.clients \cup tracked.upstreams
    <3>1. ClientInv(c)
      BY <2>1 DEF TunnelInv
    <3>2. QED
      BY <2>2, <3>1 DEF ClientInv, UpstreamOwned, ClientOwned, Registered
  <2>3. ASSUME NEW c \in clientOpen, listenerState = "stopped" PROVE tunnel[c] = "accepted"
    <3>1. c \in Client
      BY <2>1 DEF TunnelInv, TunnelTypeOK
    <3>2. QED
      BY <2>1, <2>3, <3>1 DEF TunnelInv, ClientInv, StopFinds
  <2>4. ASSUME NEW c \in upstreamOpen, listenerState = "stopped"
        PROVE  \/ tunnel[c] \in BeforeRegistration \cup {"plain"}
               \/ tunnel[c] = "done" /\ dial[c] # "over"
    <3>1. c \in Client
      BY <2>1 DEF TunnelInv, TunnelTypeOK
    <3>2. ClientInv(c) /\ tunnel[c] \in HandlerStates
      BY <2>1, <3>1 DEF TunnelInv, TunnelTypeOK, HandlerStates
    <3>3. tunnel[c] # "piping"
      BY <2>4, <3>2 DEF ClientInv, StopFinds
    <3>4. QED
      BY <3>2, <3>3 DEF ClientInv, UpstreamOwned, DialsFit, HandlerStates, BeforeRegistration
  <2>5. QED
    BY <2>2, <2>3, <2>4 DEF NoSocketOutlivesOwner
<1>4. QED
  BY <1>1, <1>2, <1>3, PTL DEF TunnelSpec

-----------------------------------------------------------------------------
(* Rotation: the inductive invariant.                                      *)

\* Seen from a waiting route q, the routes served since it began to wait lie
\* behind the cursor: between q and the cursor, going round.
BehindCursor(q, p, at) ==
    /\ at # q
    /\ at > q => p > q /\ p =< at
    /\ at < q => p > q \/ p =< at

ServedBehindCursor ==
    \A q, p \in RouteID : passedOver[q][p] # 0 => passedOver[q][p] = 1 /\ BehindCursor(q, p, cursor)

CursorTyped == cursor \in 0..Routes /\ passedOver \in [RouteID -> [RouteID -> 0..2]]

CursorInv == CursorTyped /\ ServedBehindCursor

\* The ORDER BY id LIMIT 1 of nextAliveProxyForProtocol has a result.
LEMMA LowestExists ==
    ASSUME NEW ids \in SUBSET Nat, ids # {}
    PROVE  Lowest(ids) \in ids /\ \A q \in ids : Lowest(ids) =< q
<1>1. PICK p \in ids : \A q \in ids : ~(<<q, p>> \in OpToRel(<, Nat))
  BY NatLessThanWellFounded, WFMin
<1>2. ASSUME NEW q \in ids PROVE p =< q
  <2>1. <<q, p>> \notin OpToRel(<, Nat)
    BY <1>1
  <2>2. ~(q < p)
    BY <2>1 DEF OpToRel
  <2>3. QED
    BY <2>2
<1>3. QED
  BY <1>1, <1>2 DEF Lowest

\* The route that is served is past the cursor with no qualifying route in
\* between, or it is the first and none is past the cursor.
LEMMA NextServed ==
    ASSUME CursorConstants, CursorTyped, Qualifying # {}
    PROVE  /\ NextAliveProxy \in RouteID
           /\ \A q \in Qualifying :
                \/ cursor < NextAliveProxy /\ (q > cursor => NextAliveProxy =< q)
                \/ NextAliveProxy =< cursor /\ q =< cursor /\ NextAliveProxy =< q
<1> DEFINE after == {p \in Qualifying : p > cursor}
<1>1. Qualifying \in SUBSET RouteID /\ RouteID \in SUBSET Nat /\ cursor \in Nat
  BY DEF Qualifying, RouteID, CursorConstants, CursorTyped
<1>2. NextAliveProxy = Lowest(IF after # {} THEN after ELSE Qualifying)
  BY DEF NextAliveProxy
<1>3. CASE after # {}
  <2>1. after \in SUBSET Nat
    BY <1>1
  <2>2. Lowest(after) \in after /\ \A q \in after : Lowest(after) =< q
    BY <1>3, <2>1, LowestExists
  <2>3. QED
    BY <1>1, <1>2, <1>3, <2>2
<1>4. CASE after = {}
  <2>1. Qualifying \in SUBSET Nat
    BY <1>1
  <2>2. Lowest(Qualifying) \in Qualifying /\ \A q \in Qualifying : Lowest(Qualifying) =< q
    BY <2>1, LowestExists
  <2>3. \A q \in Qualifying : q =< cursor
    BY <1>1, <1>4
  <2>4. QED
    BY <1>1, <1>2, <1>4, <2>2, <2>3
<1>5. QED
  BY <1>3, <1>4

\* Serving a route keeps what was served behind the cursor.
LEMMA ServeKeeps ==
    ASSUME CursorConstants, CursorInv, GetNextRotatingProxy
    PROVE  CursorInv'
<1> DEFINE n == NextAliveProxy
<1>1. /\ cursor' = n
      /\ passedOver' = [q \in RouteID |->
             IF q = n \/ ~Qualifies(q) THEN Unpassed
             ELSE [passedOver[q] EXCEPT ![n] = IF @ = 2 THEN 2 ELSE @ + 1]]
      /\ Qualifying # {}
  BY DEF GetNextRotatingProxy
<1>2. /\ n \in RouteID
      /\ \A q \in Qualifying : \/ cursor < n /\ (q > cursor => n =< q)
                               \/ n =< cursor /\ q =< cursor /\ n =< q
  BY <1>1, NextServed DEF CursorInv
<1> HIDE DEF n
<1>3. RouteID = 1..Routes /\ Routes \in Nat /\ cursor \in 0..Routes
  BY DEF RouteID, CursorConstants, CursorInv, CursorTyped
<1>4. passedOver \in [RouteID -> [RouteID -> 0..2]]
  BY DEF CursorInv, CursorTyped
<1>5. cursor' \in 0..Routes
  BY <1>1, <1>2, <1>3
<1>6. Unpassed \in [RouteID -> 0..2] /\ \A p \in RouteID : Unpassed[p] = 0
  BY DEF Unpassed
<1>7. ASSUME NEW q \in RouteID, q # n, Qualifies(q)
      PROVE  /\ passedOver'[q] \in [RouteID -> 0..2]
             /\ \A p \in RouteID : passedOver'[q][p] # 0 =>
                    passedOver'[q][p] = 1 /\ BehindCursor(q, p, n)
  <2>1. passedOver'[q] = [passedOver[q] EXCEPT ![n] = IF @ = 2 THEN 2 ELSE @ + 1]
    BY <1>1, <1>7
  <2>2. passedOver[q] \in [RouteID -> 0..2]
    BY <1>4, <1>7
  <2>3. /\ passedOver'[q][n] = IF passedOver[q][n] = 2 THEN 2 ELSE passedOver[q][n] + 1
        /\ \A p \in RouteID : p # n => passedOver'[q][p] = passedOver[q][p]
    BY <1>2, <2>1, <2>2
  <2>4. q \in Qualifying
    BY <1>7 DEF Qualifying
  <2>5. \/ cursor < n /\ (q > cursor => n =< q)
        \/ n =< cursor /\ q =< cursor /\ n =< q
    BY <1>2, <2>4
  <2>6. \A p \in RouteID : passedOver[q][p] # 0 => passedOver[q][p] = 1 /\ BehindCursor(q, p, cursor)
    BY <1>7 DEF CursorInv, ServedBehindCursor
  <2>7. ~BehindCursor(q, n, cursor)
    BY <1>2, <1>3, <1>7, <2>5 DEF BehindCursor
  <2>8. passedOver[q][n] = 0
    BY <1>2, <2>6, <2>7
  <2>9. ASSUME NEW p \in RouteID, passedOver'[q][p] # 0
        PROVE  passedOver'[q][p] = 1 /\ BehindCursor(q, p, n)
    <3>1. CASE p = n
      <4>1. passedOver'[q][p] = 1
        BY <2>3, <2>8, <3>1
      <4>2. BehindCursor(q, n, n)
        BY <1>2, <1>3, <1>7 DEF BehindCursor
      <4>3. QED
        BY <3>1, <4>1, <4>2
    <3>2. CASE p # n
      <4>1. passedOver'[q][p] = 1 /\ BehindCursor(q, p, cursor)
        BY <2>3, <2>6, <2>9, <3>2
      <4>2. BehindCursor(q, p, n)
        BY <1>2, <1>3, <1>7, <2>5, <2>9, <4>1 DEF BehindCursor
      <4>3. QED
        BY <4>1, <4>2
    <3>3. QED
      BY <3>1, <3>2
  <2>10. passedOver'[q] \in [RouteID -> 0..2]
    BY <1>2, <2>1, <2>2, <2>8
  <2>11. QED
    BY <2>9, <2>10
<1>8. ASSUME NEW q \in RouteID, q = n \/ ~Qualifies(q)
      PROVE  passedOver'[q] = Unpassed
  BY <1>1, <1>8
<1>9. passedOver' \in [RouteID -> [RouteID -> 0..2]]
  <2>1. \A q \in RouteID : passedOver'[q] \in [RouteID -> 0..2]
    BY <1>6, <1>7, <1>8
  <2>2. passedOver' = [q \in RouteID |-> passedOver'[q]]
    BY <1>1
  <2>3. QED
    BY <2>1, <2>2
<1>10. ASSUME NEW q \in RouteID, NEW p \in RouteID, passedOver'[q][p] # 0
       PROVE  passedOver'[q][p] = 1 /\ BehindCursor(q, p, n)
  BY <1>6, <1>7, <1>8, <1>10
<1>11. QED
  BY <1>1, <1>5, <1>9, <1>10 DEF CursorInv, CursorTyped, ServedBehindCursor

\* Whatever joins, leaves or changes sides only makes routes wait anew.
LEMMA RequalifyKeeps ==
    ASSUME CursorInv, Requalify, cursor' = cursor PROVE CursorInv'
<1>1. Unpassed \in [RouteID -> 0..2] /\ \A p \in RouteID : Unpassed[p] = 0
  BY DEF Unpassed
<1>2. passedOver \in [RouteID -> [RouteID -> 0..2]]
  BY DEF CursorInv, CursorTyped
<1>3. \A q \in RouteID : passedOver'[q] = passedOver[q] \/ passedOver'[q] = Unpassed
  BY DEF Requalify
<1>4. passedOver' = [q \in RouteID |-> passedOver'[q]]
  BY DEF Requalify
<1>5. passedOver' \in [RouteID -> [RouteID -> 0..2]]
  BY <1>1, <1>2, <1>3, <1>4
<1>6. ASSUME NEW q \in RouteID, NEW p \in RouteID, passedOver'[q][p] # 0
      PROVE  passedOver'[q][p] = 1 /\ BehindCursor(q, p, cursor)
  <2>1. passedOver'[q] = passedOver[q]
    BY <1>1, <1>3, <1>6
  <2>2. QED
    BY <1>6, <2>1 DEF CursorInv, ServedBehindCursor
<1>7. QED
  BY <1>5, <1>6 DEF CursorInv, CursorTyped, ServedBehindCursor

\* For every number of routes: while a route qualifies without interruption, no
\* other is served twice before it, whatever results, settings, memberships and
\* scores change meanwhile (database_rotating_proxy_handler.go,
\* nextAliveProxyForProtocol).
THEOREM RotationFair ==
    ASSUME CursorConstants PROVE CursorSpec => []NoRouteServedTwiceFirst
<1>1. ASSUME CursorInit PROVE CursorInv
  <2>1. RouteID = 1..Routes /\ Routes \in Nat
    BY DEF RouteID, CursorConstants
  <2>2. cursor = 0 /\ passedOver = [p \in RouteID |-> [q \in RouteID |-> 0]]
    BY <1>1 DEF CursorInit, Unpassed
  <2>3. QED
    BY <2>1, <2>2 DEF CursorInv, CursorTyped, ServedBehindCursor
<1>2. ASSUME CursorInv, [CursorNext]_cursorVars PROVE CursorInv'
  <2>1. CASE UNCHANGED cursorVars
    BY <1>2, <2>1 DEF cursorVars, CursorInv, CursorTyped, ServedBehindCursor
  <2>2. CASE GetNextRotatingProxy
    BY <1>2, <2>2, ServeKeeps
  <2>3. CASE SaveSettings \/ ApplySettings
    BY <1>2, <2>3, RequalifyKeeps DEF SaveSettings, ApplySettings
  <2>4. ASSUME NEW p \in RouteID, ChangeMembership(p) \/ Rescore(p) PROVE CursorInv'
    BY <1>2, <2>4, RequalifyKeeps DEF ChangeMembership, Rescore
  <2>5. ASSUME NEW p \in RouteID, NEW key \in 0..settings.generation, CommitEvidence(p, key)
        PROVE  CursorInv'
    BY <1>2, <2>5, RequalifyKeeps DEF CommitEvidence
  <2>6. QED
    BY <1>2, <2>1, <2>2, <2>3, <2>4, <2>5 DEF CursorNext
<1>3. ASSUME CursorInv PROVE NoRouteServedTwiceFirst
  BY <1>3 DEF CursorInv, CursorTyped, ServedBehindCursor, NoRouteServedTwiceFirst
<1>4. QED
  BY <1>1, <1>2, <1>3, PTL DEF CursorSpec

-----------------------------------------------------------------------------
(* Traffic: the state of a connection and of a flush.                      *)

Adder == [step : {"idle", "keyed", "adding"}, key : Month, meter : Meter \cup {Unmetered}]

Flusher == [step : {"idle", "taking", "pruning"}, next : 1..MaxMonth + 1,
            taken : [Month -> Nat], from : [Month -> Meter \cup {Unmetered}]]

-----------------------------------------------------------------------------
(* Traffic: the inductive invariant.                                       *)

\* Months do not share counters, and a counter that was never handed out is
\* untouched.
MetersDistinct ==
    /\ \A m, n \in Month : m # n /\ meterOf[m] # Unmetered => meterOf[m] # meterOf[n]
    /\ \A m \in Month : meterOf[m] # Unmetered => meterOf[m] \in everUsed
    /\ \A x \in Meter \ everUsed : reading[x] = 0

\* A connection that holds the read lock adds to the counter in the map.
AddersMapped ==
    \A c \in Conn : adder[c].step = "adding" =>
        adder[c].meter # Unmetered /\ meterOf[adder[c].key] = adder[c].meter

\* What a flush took from a counter it took from the one that is still the
\* month's, and only from months it has visited.
FlushMapped ==
    /\ flusher.step # "taking" => \A m \in Month : flusher.from[m] = Unmetered
    /\ \A m \in Month :
          IF flusher.from[m] = Unmetered THEN flusher.taken[m] = 0
          ELSE meterOf[m] = flusher.from[m] /\ m < flusher.next

UsageInv ==
    UsageTypeOK /\ MetersDistinct /\ AddersMapped /\ FlushMapped /\ TrafficMetered

\* What the map's counter of a month holds.
InMeter(m) == IF meterOf[m] = Unmetered THEN 0 ELSE reading[meterOf[m]]

-----------------------------------------------------------------------------
(* Connections.                                                            *)

LEMMA ReadMonthKeeps ==
    ASSUME UsageConstants, UsageInv, NEW c \in Conn, ReadMonth(c)
    PROVE  UsageInv'
<1> DEFINE a == [step |-> "keyed", key |-> month, meter |-> Unmetered]
<1>t. adder \in [Conn -> Adder] /\ month \in Month
  BY DEF UsageInv, UsageTypeOK, Adder
<1>1. /\ adder' = [adder EXCEPT ![c] = a]
      /\ UNCHANGED <<month, meterOf, reading, everUsed, flusher, recorded, reported, repeated,
                     flushErrors, meterDown>>
  BY DEF ReadMonth
<1>2. a \in Adder /\ a.step # "adding"
  BY <1>t DEF Adder
<1> HIDE DEF a
<1>3. /\ adder' \in [Conn -> Adder]
      /\ \A d \in Conn : adder'[d] = IF d = c THEN a ELSE adder[d]
  BY <1>t, <1>1, <1>2
<1>4. UsageTypeOK'
  BY <1>1, <1>3 DEF UsageInv, UsageTypeOK, Adder
<1>5. AddersMapped'
  BY <1>1, <1>2, <1>3 DEF UsageInv, AddersMapped
<1>6. QED
  BY <1>1, <1>4, <1>5 DEF UsageInv, MetersDistinct, FlushMapped, TrafficMetered

LEMMA LoadMeterKeeps ==
    ASSUME UsageConstants, UsageInv, NEW c \in Conn, LoadMeter(c)
    PROVE  UsageInv'
<1> DEFINE k == adder[c].key
<1>t. /\ adder \in [Conn -> Adder] /\ meterOf \in [Month -> Meter \cup {Unmetered}]
      /\ reading \in [Meter -> Nat] /\ everUsed \subseteq Meter /\ flusher \in Flusher
  BY DEF UsageInv, UsageTypeOK, Adder, Flusher
<1>k. k \in Month /\ adder[c] \in Adder
  BY <1>t DEF Adder
<1>u. UNCHANGED <<month, reading, flusher, recorded, reported, repeated, flushErrors, meterDown>>
  BY DEF LoadMeter
\* In both cases the connection ends up with the counter that is the month's.
<1>a. ASSUME NEW x \in Meter, adder' = [adder EXCEPT ![c].step = "adding", ![c].meter = x]
      PROVE  /\ adder' \in [Conn -> Adder]
             /\ adder'[c].meter = x /\ adder'[c].key = k
             /\ \A d \in Conn : d # c => adder'[d] = adder[d]
  BY <1>a, <1>k, <1>t DEF Adder
<1>1. CASE meterOf[k] # Unmetered
  <2>1. meterOf[k] \in Meter
    BY <1>1, <1>k, <1>t
  <2>2. adder' = [adder EXCEPT ![c].step = "adding", ![c].meter = meterOf[k]] /\ UNCHANGED <<meterOf, everUsed>>
    BY <1>1 DEF LoadMeter
  <2>3. /\ adder' \in [Conn -> Adder]
        /\ adder'[c].meter = meterOf[k] /\ adder'[c].key = k
        /\ \A d \in Conn : d # c => adder'[d] = adder[d]
    BY <1>a, <2>1, <2>2
  <2>4. UsageTypeOK'
    BY <1>u, <2>2, <2>3 DEF UsageInv, UsageTypeOK, Adder
  <2>5. AddersMapped'
    BY <1>1, <2>2, <2>3 DEF UsageInv, AddersMapped
  <2>6. QED
    BY <1>u, <2>2, <2>4, <2>5 DEF UsageInv, MetersDistinct, FlushMapped, TrafficMetered
<1>2. CASE meterOf[k] = Unmetered
  <2>1. PICK x \in Meter \ everUsed :
            /\ meterOf' = [meterOf EXCEPT ![k] = x] /\ everUsed' = everUsed \cup {x}
            /\ adder' = [adder EXCEPT ![c].step = "adding", ![c].meter = x]
    BY <1>2 DEF LoadMeter
  <2>2. x # Unmetered /\ reading[x] = 0
    BY DEF UsageConstants, UsageInv, MetersDistinct
  <2>3. /\ adder' \in [Conn -> Adder]
        /\ adder'[c].meter = x /\ adder'[c].key = k
        /\ \A d \in Conn : d # c => adder'[d] = adder[d]
    BY <1>a, <2>1
  <2> HIDE DEF k
  <2>4. /\ meterOf' \in [Month -> Meter \cup {Unmetered}]
        /\ \A m \in Month : meterOf'[m] = IF m = k THEN x ELSE meterOf[m]
    BY <1>k, <1>t, <2>1
  <2>5. UsageTypeOK'
    <3>1. everUsed' \subseteq Meter
      BY <1>t, <2>1
    <3>2. QED
      BY <1>u, <2>3, <2>4, <3>1 DEF UsageInv, UsageTypeOK, Adder
  <2>6. MetersDistinct'
    BY <1>u, <2>1, <2>4 DEF UsageInv, MetersDistinct
  <2>7. AddersMapped'
    <3>1. ASSUME NEW d \in Conn, adder'[d].step = "adding"
          PROVE  adder'[d].meter # Unmetered /\ meterOf'[adder'[d].key] = adder'[d].meter
      <4>1. CASE d = c
        BY <1>k, <2>2, <2>3, <2>4, <4>1
      <4>2. CASE d # c
        <5>1. /\ adder[d].meter # Unmetered /\ meterOf[adder[d].key] = adder[d].meter
              /\ adder[d].key \in Month
          BY <1>t, <2>3, <3>1, <4>2 DEF UsageInv, AddersMapped, Adder
        <5>2. adder[d].key # k
          BY <1>2, <5>1 DEF k
        <5>3. QED
          BY <2>3, <2>4, <4>2, <5>1, <5>2
      <4>3. QED
        BY <4>1, <4>2
    <3>2. QED
      BY <3>1 DEF AddersMapped
  <2>8. FlushMapped'
    <3>1. meterOf[k] = Unmetered
      BY <1>2 DEF k
    <3>2. QED
      BY <1>k, <1>u, <2>4, <3>1 DEF UsageInv, FlushMapped
  <2>9. TrafficMetered'
    <3>1. meterOf[k] = Unmetered
      BY <1>2 DEF k
    <3>2. \A m \in Month : InMeter(m)' = InMeter(m)
      BY <1>k, <1>u, <2>2, <2>4, <3>1 DEF InMeter
    <3>3. QED
      BY <1>u, <3>2 DEF UsageInv, TrafficMetered, InMeter
  <2>10. QED
    BY <2>5, <2>6, <2>7, <2>8, <2>9 DEF UsageInv
<1>3. QED
  BY <1>1, <1>2

LEMMA AddTrafficKeeps ==
    ASSUME UsageConstants, UsageInv, NEW c \in Conn, AddTraffic(c)
    PROVE  UsageInv'
<1> DEFINE k == adder[c].key
           x == adder[c].meter
<1>t. /\ adder \in [Conn -> Adder] /\ meterOf \in [Month -> Meter \cup {Unmetered}]
      /\ reading \in [Meter -> Nat] /\ reported \in [Month -> Nat] /\ MaxMonth \in Nat \ {0}
      /\ recorded \in [Month -> Nat] /\ repeated \in [Month -> Nat] /\ flusher \in Flusher
  BY DEF UsageInv, UsageTypeOK, Adder, UsageConstants, Flusher
<1>k. k \in Month /\ x \in Meter /\ meterOf[k] = x /\ x # Unmetered
  BY <1>t DEF UsageInv, AddersMapped, Adder, AddTraffic
<1>1. /\ reading' = [reading EXCEPT ![x] = @ + 1] /\ reported' = [reported EXCEPT ![k] = @ + 1]
      /\ adder' = [adder EXCEPT ![c] = NotAdding]
      /\ UNCHANGED <<month, meterOf, everUsed, flusher, recorded, repeated, flushErrors, meterDown>>
  BY DEF AddTraffic
<1> HIDE DEF k, x
<1>2. /\ reading' \in [Meter -> Nat] /\ reading'[x] = reading[x] + 1
      /\ \A y \in Meter : y # x => reading'[y] = reading[y]
      /\ reported' \in [Month -> Nat] /\ reported'[k] = reported[k] + 1
      /\ \A m \in Month : m # k => reported'[m] = reported[m]
  BY <1>t, <1>k, <1>1
<1>3. NotAdding \in Adder /\ NotAdding.step # "adding"
  BY <1>t DEF NotAdding, Adder, Month
<1>4. /\ adder' \in [Conn -> Adder]
      /\ \A d \in Conn : adder'[d] = IF d = c THEN NotAdding ELSE adder[d]
  BY <1>t, <1>1, <1>3
<1>5. UsageTypeOK'
  BY <1>1, <1>2, <1>4 DEF UsageInv, UsageTypeOK, Adder
<1>6. MetersDistinct'
  BY <1>1, <1>2, <1>k DEF UsageInv, MetersDistinct
<1>7. AddersMapped' /\ FlushMapped'
  BY <1>1, <1>3, <1>4 DEF UsageInv, AddersMapped, FlushMapped
<1>8. ASSUME NEW m \in Month
      PROVE  recorded'[m] + flusher'.taken[m] + InMeter(m)' = reported'[m] + repeated'[m]
  <2>1. /\ recorded[m] \in Nat /\ flusher.taken[m] \in Nat /\ reported[m] \in Nat
        /\ repeated[m] \in Nat /\ InMeter(m) \in Nat
    BY <1>t DEF InMeter, Flusher
  <2>2. recorded[m] + flusher.taken[m] + InMeter(m) = reported[m] + repeated[m]
    BY DEF UsageInv, TrafficMetered, InMeter
  <2>3. CASE m = k
    <3>1. InMeter(m)' = InMeter(m) + 1 /\ reported'[m] = reported[m] + 1
      BY <1>1, <1>2, <1>k, <2>3 DEF InMeter
    <3>2. QED
      BY <1>1, <2>1, <2>2, <3>1
  <2>4. CASE m # k
    <3>1. meterOf[m] # x
      BY <1>k, <2>4 DEF UsageInv, MetersDistinct
    <3>2. InMeter(m)' = InMeter(m) /\ reported'[m] = reported[m]
      BY <1>1, <1>2, <1>t, <2>4, <3>1 DEF InMeter
    <3>3. QED
      BY <1>1, <2>2, <3>2
  <2>5. QED
    BY <2>3, <2>4
<1>9. QED
  BY <1>5, <1>6, <1>7, <1>8 DEF UsageInv, TrafficMetered, InMeter

-----------------------------------------------------------------------------
(* The flush.                                                              *)

\* A flush that has taken nothing.
LEMMA NothingInFlush ==
    ASSUME UsageConstants
    PROVE  /\ NotFlushing \in Flusher
           /\ [NotFlushing EXCEPT !.step = "taking"] \in Flusher
           /\ [NotFlushing EXCEPT !.step = "pruning"] \in Flusher
           /\ \A m \in Month :
                 /\ NotFlushing.taken[m] = 0 /\ NotFlushing.from[m] = Unmetered
                 /\ [NotFlushing EXCEPT !.step = "taking"].taken[m] = 0
                 /\ [NotFlushing EXCEPT !.step = "taking"].from[m] = Unmetered
                 /\ [NotFlushing EXCEPT !.step = "pruning"].taken[m] = 0
                 /\ [NotFlushing EXCEPT !.step = "pruning"].from[m] = Unmetered
<1>1. 1 \in 1..MaxMonth + 1
  BY DEF UsageConstants
<1>2. NothingTaken \in [Month -> Nat] /\ \A m \in Month : NothingTaken[m] = 0
  BY DEF NothingTaken
<1>3. NotFlushing \in Flusher /\ NotFlushing.taken = NothingTaken
      /\ \A m \in Month : NotFlushing.from[m] = Unmetered
  BY <1>1, <1>2 DEF NotFlushing, Flusher
<1>4. ASSUME NEW s \in {"taking", "pruning"}
      PROVE  /\ [NotFlushing EXCEPT !.step = s] \in Flusher
             /\ [NotFlushing EXCEPT !.step = s].taken = NotFlushing.taken
             /\ [NotFlushing EXCEPT !.step = s].from = NotFlushing.from
  BY <1>3, <1>4 DEF Flusher
<1>5. QED
  BY <1>2, <1>3, <1>4

LEMMA BeginFlushKeeps ==
    ASSUME UsageConstants, UsageInv, BeginFlush
    PROVE  UsageInv'
<1>1. /\ flusher.step = "idle" /\ flusher' = [NotFlushing EXCEPT !.step = "taking"]
      /\ UNCHANGED <<month, meterOf, reading, everUsed, adder, recorded, reported, repeated,
                     flushErrors, meterDown>>
  BY DEF BeginFlush
<1>2. flusher' \in Flusher /\ \A m \in Month : flusher'.taken[m] = 0 /\ flusher'.from[m] = Unmetered
  BY <1>1, NothingInFlush
<1>3. \A m \in Month : flusher.taken[m] = 0
  BY <1>1 DEF UsageInv, FlushMapped
<1>4. UsageTypeOK'
  BY <1>1, <1>2 DEF UsageInv, UsageTypeOK, Flusher
<1>5. FlushMapped'
  BY <1>2 DEF FlushMapped
<1>6. TrafficMetered'
  BY <1>1, <1>2, <1>3 DEF UsageInv, TrafficMetered
<1>7. QED
  BY <1>1, <1>4, <1>5, <1>6 DEF UsageInv, MetersDistinct, AddersMapped

LEMMA TakeMeterKeeps ==
    ASSUME UsageConstants, UsageInv, TakeMeter
    PROVE  UsageInv'
<1> DEFINE k == flusher.next
           x == meterOf[k]
<1>t. /\ meterOf \in [Month -> Meter \cup {Unmetered}] /\ MaxMonth \in Nat
      /\ reading \in [Meter -> Nat] /\ flusher \in Flusher
      /\ recorded \in [Month -> Nat] /\ repeated \in [Month -> Nat] /\ reported \in [Month -> Nat]
  BY DEF UsageInv, UsageTypeOK, Flusher, UsageConstants
<1>k. k \in Month /\ flusher.step = "taking" /\ k \in Nat /\ k + 1 \in 1..MaxMonth + 1
  BY <1>t DEF TakeMeter, Month
<1>u. UNCHANGED <<month, meterOf, everUsed, adder, recorded, reported, repeated, flushErrors, meterDown>>
  BY DEF TakeMeter
<1>n. \A m \in Month : m \in Nat /\ (m < k => m < k + 1) /\ ~(k < k)
  BY <1>k, <1>t DEF Month
<1>f. flusher.from[k] = Unmetered /\ flusher.taken[k] = 0
  BY <1>k, <1>n DEF UsageInv, FlushMapped
<1>1. CASE x = Unmetered
  <2>1. flusher' = [flusher EXCEPT !.next = k + 1] /\ reading' = reading
    BY <1>1 DEF TakeMeter
  <2>2. /\ flusher' \in Flusher /\ flusher'.step = flusher.step /\ flusher'.next = k + 1
        /\ flusher'.taken = flusher.taken /\ flusher'.from = flusher.from
    BY <1>k, <1>t, <2>1 DEF Flusher
  <2>3. UsageTypeOK'
    BY <1>u, <2>1, <2>2 DEF UsageInv, UsageTypeOK, Flusher
  <2>4. FlushMapped'
    BY <1>u, <1>n, <2>2 DEF UsageInv, FlushMapped
  <2>5. QED
    BY <1>u, <2>1, <2>2, <2>3, <2>4 DEF UsageInv, MetersDistinct, AddersMapped, TrafficMetered
<1>2. CASE x # Unmetered
  <2>1. /\ flusher' = [flusher EXCEPT !.next = k + 1, !.taken[k] = reading[x], !.from[k] = x]
        /\ reading' = [reading EXCEPT ![x] = 0]
    BY <1>2 DEF TakeMeter
  <2>2. x \in Meter /\ reading[x] \in Nat /\ meterOf[k] = x
    BY <1>2, <1>k, <1>t
  <2> HIDE DEF k, x
  <2>3. /\ flusher' \in Flusher /\ flusher'.step = flusher.step /\ flusher'.next = k + 1
        /\ flusher'.taken = [flusher.taken EXCEPT ![k] = reading[x]]
        /\ flusher'.from = [flusher.from EXCEPT ![k] = x]
    <3>1. /\ [flusher.taken EXCEPT ![k] = reading[x]] \in [Month -> Nat]
          /\ [flusher.from EXCEPT ![k] = x] \in [Month -> Meter \cup {Unmetered}]
      BY <1>t, <2>2 DEF Flusher
    <3>2. QED
      BY <1>k, <1>t, <2>1, <3>1 DEF Flusher
  <2>4. \A m \in Month : /\ flusher'.taken[m] = IF m = k THEN reading[x] ELSE flusher.taken[m]
                         /\ flusher'.from[m] = IF m = k THEN x ELSE flusher.from[m]
    BY <1>t, <2>3 DEF Flusher
  <2>5. reading' \in [Meter -> Nat] /\ \A y \in Meter : reading'[y] = IF y = x THEN 0 ELSE reading[y]
    BY <1>t, <2>1
  <2>6. UsageTypeOK'
    BY <1>u, <2>3, <2>5 DEF UsageInv, UsageTypeOK, Flusher
  <2>7. MetersDistinct'
    BY <1>u, <2>5 DEF UsageInv, MetersDistinct
  <2>8. FlushMapped'
    <3>1. k < k + 1
      BY <1>k
    <3>2. x # Unmetered
      BY <1>2 DEF x
    <3>3. ASSUME NEW m \in Month
          PROVE  IF flusher'.from[m] = Unmetered THEN flusher'.taken[m] = 0
                 ELSE meterOf'[m] = flusher'.from[m] /\ m < flusher'.next
      <4>1. CASE m = k
        BY <1>u, <2>2, <2>3, <2>4, <3>1, <3>2, <4>1
      <4>2. CASE m # k
        <5>1. flusher.from[m] # Unmetered => m < k
          BY DEF UsageInv, FlushMapped, k
        <5>2. QED
          BY <1>n, <1>u, <2>3, <2>4, <4>2, <5>1 DEF UsageInv, FlushMapped
      <4>3. QED
        BY <4>1, <4>2
    <3>4. QED
      BY <1>k, <2>3, <3>3 DEF FlushMapped
  <2>9. ASSUME NEW m \in Month
        PROVE  recorded'[m] + flusher'.taken[m] + InMeter(m)' = reported'[m] + repeated'[m]
    <3>1. /\ recorded[m] \in Nat /\ flusher.taken[m] \in Nat /\ InMeter(m) \in Nat
      BY <1>t DEF InMeter, Flusher
    <3>2. recorded[m] + flusher.taken[m] + InMeter(m) = reported[m] + repeated[m]
      BY DEF UsageInv, TrafficMetered, InMeter
    <3>3. CASE m = k
      <4>1. InMeter(m)' = 0 /\ InMeter(m) = reading[x]
        BY <1>2, <1>u, <2>2, <2>5, <3>3 DEF InMeter, x
      <4>2. flusher'.taken[m] = reading[x] /\ flusher.taken[m] = 0
        BY <1>f, <2>4, <3>3 DEF k
      <4>3. QED
        BY <1>u, <2>2, <3>1, <3>2, <4>1, <4>2
    <3>4. CASE m # k
      <4>1. meterOf[m] # x
        BY <1>2, <1>k, <2>2, <3>4 DEF UsageInv, MetersDistinct, k, x
      <4>2. InMeter(m)' = InMeter(m) /\ flusher'.taken[m] = flusher.taken[m]
        BY <1>t, <1>u, <2>4, <2>5, <3>4, <4>1 DEF InMeter
      <4>3. QED
        BY <1>u, <3>2, <4>2
    <3>5. QED
      BY <3>3, <3>4
  <2>10. QED
    BY <1>u, <2>6, <2>7, <2>8, <2>9 DEF UsageInv, AddersMapped, TrafficMetered, InMeter
<1>3. QED
  BY <1>1, <1>2

LEMMA RecordBatchKeeps ==
    ASSUME UsageConstants, UsageInv, RecordBatch
    PROVE  UsageInv'
<1>t. flusher \in Flusher /\ recorded \in [Month -> Nat] /\ reading \in [Meter -> Nat]
      /\ meterOf \in [Month -> Meter \cup {Unmetered}]
  BY DEF UsageInv, UsageTypeOK, Flusher
<1>1. /\ flusher' = [NotFlushing EXCEPT !.step = "pruning"]
      /\ recorded' = [m \in Month |-> recorded[m] + flusher.taken[m]]
      /\ UNCHANGED <<month, meterOf, reading, everUsed, adder, reported, repeated, flushErrors, meterDown>>
  BY DEF RecordBatch, RecordSamples
<1>2. flusher' \in Flusher /\ \A m \in Month : flusher'.taken[m] = 0 /\ flusher'.from[m] = Unmetered
  BY <1>1, NothingInFlush
<1>3. recorded' \in [Month -> Nat] /\ \A m \in Month : recorded'[m] = recorded[m] + flusher.taken[m]
  BY <1>1, <1>t DEF Flusher
<1>4. UsageTypeOK'
  BY <1>1, <1>2, <1>3 DEF UsageInv, UsageTypeOK, Flusher
<1>5. FlushMapped'
  BY <1>2 DEF FlushMapped
<1>6. ASSUME NEW m \in Month
      PROVE  recorded'[m] + flusher'.taken[m] + InMeter(m)' = reported'[m] + repeated'[m]
  <2>1. recorded[m] \in Nat /\ flusher.taken[m] \in Nat /\ InMeter(m) \in Nat /\ InMeter(m)' = InMeter(m)
    BY <1>1, <1>t DEF InMeter, Flusher
  <2>2. recorded[m] + flusher.taken[m] + InMeter(m) = reported[m] + repeated[m]
    BY DEF UsageInv, TrafficMetered, InMeter
  <2>3. QED
    BY <1>1, <1>2, <1>3, <2>1, <2>2
<1>7. QED
  BY <1>1, <1>4, <1>5, <1>6 DEF UsageInv, MetersDistinct, AddersMapped, TrafficMetered, InMeter

\* Putting a failed batch back returns to each month's counter what was taken
\* from it.
LEMMA PutBackValue ==
    ASSUME UsageConstants, UsageInv
    PROVE  /\ PutBack \in [Meter -> Nat]
           /\ \A m \in Month : meterOf[m] # Unmetered =>
                 PutBack[meterOf[m]] = reading[meterOf[m]] + flusher.taken[m]
           /\ \A x \in Meter \ everUsed : PutBack[x] = reading[x]
<1>t. /\ meterOf \in [Month -> Meter \cup {Unmetered}] /\ reading \in [Meter -> Nat]
      /\ flusher \in Flusher /\ everUsed \subseteq Meter /\ Unmetered \notin Meter
      /\ flusher.taken \in [Month -> Nat] /\ flusher.from \in [Month -> Meter \cup {Unmetered}]
  BY DEF UsageInv, UsageTypeOK, Flusher, UsageConstants
<1> DEFINE back(x) == IF \E m \in Month : flusher.from[m] = x
                      THEN flusher.taken[CHOOSE m \in Month : flusher.from[m] = x] ELSE 0
<1>1. ASSUME NEW x \in Meter PROVE back(x) \in Nat
  BY <1>t
<1>2. ASSUME NEW m \in Month, meterOf[m] # Unmetered PROVE back(meterOf[m]) = flusher.taken[m]
  <2>1. meterOf[m] \in Meter
    BY <1>2, <1>t
  <2>2. ASSUME NEW n \in Month, flusher.from[n] = meterOf[m] PROVE n = m
    <3>1. meterOf[n] = meterOf[m]
      BY <1>2, <2>2 DEF UsageInv, FlushMapped
    <3>2. QED
      BY <1>2, <3>1 DEF UsageInv, MetersDistinct
  <2>3. CASE flusher.from[m] = meterOf[m]
    <3>1. (CHOOSE n \in Month : flusher.from[n] = meterOf[m]) = m
      BY <2>2, <2>3
    <3>2. QED
      BY <2>3, <3>1
  <2>4. CASE flusher.from[m] # meterOf[m]
    <3>1. flusher.from[m] = Unmetered /\ flusher.taken[m] = 0
      BY <2>4 DEF UsageInv, FlushMapped
    <3>2. ~ \E n \in Month : flusher.from[n] = meterOf[m]
      BY <2>2, <2>4
    <3>3. QED
      BY <3>1, <3>2
  <2>5. QED
    BY <2>3, <2>4
<1>3. ASSUME NEW x \in Meter \ everUsed PROVE back(x) = 0
  <2>1. ASSUME NEW n \in Month, flusher.from[n] = x PROVE FALSE
    <3>1. x # Unmetered
      BY <1>t
    <3>2. meterOf[n] = x
      BY <2>1, <3>1 DEF UsageInv, FlushMapped
    <3>3. QED
      BY <1>3, <3>1, <3>2 DEF UsageInv, MetersDistinct
  <2>2. QED
    BY <2>1
<1>4. PutBack = [x \in Meter |-> reading[x] + back(x)]
  BY DEF PutBack
<1> HIDE DEF back
<1>5. \A x \in Meter : PutBack[x] = reading[x] + back(x) /\ reading[x] \in Nat /\ back(x) \in Nat
  BY <1>1, <1>4, <1>t
<1>6. QED
  BY <1>2, <1>3, <1>4, <1>5, <1>t

LEMMA RecordFailsKeeps ==
    ASSUME UsageConstants, UsageInv, RecordFails
    PROVE  UsageInv'
<1>t. /\ flusher \in Flusher /\ recorded \in [Month -> Nat] /\ repeated \in [Month -> Nat]
      /\ reading \in [Meter -> Nat] /\ meterOf \in [Month -> Meter \cup {Unmetered}]
      /\ reported \in [Month -> Nat]
  BY DEF UsageInv, UsageTypeOK, Flusher
<1>1. /\ flusher' = NotFlushing /\ reading' = PutBack
      /\ UNCHANGED <<month, meterOf, everUsed, adder, reported, meterDown>>
  BY DEF RecordFails
<1>2. flusher' \in Flusher /\ \A m \in Month : flusher'.taken[m] = 0 /\ flusher'.from[m] = Unmetered
  BY <1>1, NothingInFlush
<1>3. flushErrors' \in 0..MaxFlushErrors
  BY DEF RecordFails, UsageInv, UsageTypeOK, UsageConstants
<1>4. /\ reading' \in [Meter -> Nat]
      /\ \A m \in Month : meterOf[m] # Unmetered =>
            reading'[meterOf[m]] = reading[meterOf[m]] + flusher.taken[m]
      /\ \A x \in Meter \ everUsed : reading'[x] = reading[x]
  BY <1>1, PutBackValue
\* Nothing was recorded, or everything was, and then it is noted as repeated.
<1>5. /\ recorded' \in [Month -> Nat] /\ repeated' \in [Month -> Nat]
      /\ \/ \A m \in Month : recorded'[m] = recorded[m] /\ repeated'[m] = repeated[m]
         \/ \A m \in Month : /\ recorded'[m] = recorded[m] + flusher.taken[m]
                             /\ repeated'[m] = repeated[m] + flusher.taken[m]
  <2>1. CASE UNCHANGED <<recorded, repeated>>
    BY <1>t, <2>1
  <2>2. CASE RecordSamples /\ repeated' = [m \in Month |-> repeated[m] + flusher.taken[m]]
    BY <1>t, <2>2 DEF RecordSamples, Flusher
  <2>3. QED
    BY <2>1, <2>2 DEF RecordFails
<1>6. UsageTypeOK'
  BY <1>1, <1>2, <1>3, <1>4, <1>5 DEF UsageInv, UsageTypeOK, Flusher
<1>7. MetersDistinct'
  BY <1>1, <1>4 DEF UsageInv, MetersDistinct
<1>8. FlushMapped'
  BY <1>2 DEF FlushMapped
<1>9. ASSUME NEW m \in Month
      PROVE  recorded'[m] + flusher'.taken[m] + InMeter(m)' = reported'[m] + repeated'[m]
  <2>1. /\ recorded[m] \in Nat /\ flusher.taken[m] \in Nat /\ InMeter(m) \in Nat
        /\ repeated[m] \in Nat /\ reported[m] \in Nat
    BY <1>t DEF InMeter, Flusher
  <2>2. recorded[m] + flusher.taken[m] + InMeter(m) = reported[m] + repeated[m]
    BY DEF UsageInv, TrafficMetered, InMeter
  <2>3. InMeter(m)' = InMeter(m) + flusher.taken[m]
    <3>1. CASE meterOf[m] = Unmetered
      <4>1. flusher.taken[m] = 0
        BY <3>1 DEF UsageInv, FlushMapped
      <4>2. QED
        BY <1>1, <3>1, <4>1 DEF InMeter
    <3>2. CASE meterOf[m] # Unmetered
      BY <1>1, <1>4, <3>2 DEF InMeter
    <3>3. QED
      BY <3>1, <3>2
  <2>4. reported'[m] = reported[m] /\ flusher'.taken[m] = 0
    BY <1>1, <1>2
  <2>5. \/ recorded'[m] = recorded[m] /\ repeated'[m] = repeated[m]
        \/ /\ recorded'[m] = recorded[m] + flusher.taken[m]
           /\ repeated'[m] = repeated[m] + flusher.taken[m]
    BY <1>5
  <2>6. QED
    BY <2>1, <2>2, <2>3, <2>4, <2>5
<1>10. QED
  BY <1>1, <1>6, <1>7, <1>8, <1>9 DEF UsageInv, AddersMapped, TrafficMetered, InMeter

LEMMA PruneMetersKeeps ==
    ASSUME UsageConstants, UsageInv, PruneMeters
    PROVE  UsageInv'
<1>t. meterOf \in [Month -> Meter \cup {Unmetered}]
  BY DEF UsageInv, UsageTypeOK
<1>1. /\ flusher.step = "pruning" /\ NoAdd /\ flusher' = NotFlushing
      /\ meterOf' = [m \in Month |-> IF m < month /\ meterOf[m] # Unmetered /\ reading[meterOf[m]] = 0
                                     THEN Unmetered ELSE meterOf[m]]
      /\ UNCHANGED <<month, reading, everUsed, adder, recorded, reported, repeated, flushErrors, meterDown>>
  BY DEF PruneMeters
<1>2. flusher' \in Flusher /\ \A m \in Month : flusher'.taken[m] = 0 /\ flusher'.from[m] = Unmetered
  BY <1>1, NothingInFlush
<1>3. \A m \in Month : flusher.taken[m] = 0
  BY <1>1 DEF UsageInv, FlushMapped
<1>4. /\ meterOf' \in [Month -> Meter \cup {Unmetered}]
      /\ \A m \in Month : \/ meterOf'[m] = meterOf[m]
                          \/ /\ meterOf'[m] = Unmetered /\ meterOf[m] # Unmetered
                             /\ reading[meterOf[m]] = 0
  BY <1>1, <1>t
<1>5. UsageTypeOK'
  BY <1>1, <1>2, <1>4 DEF UsageInv, UsageTypeOK, Flusher
<1>6. MetersDistinct'
  BY <1>1, <1>4 DEF UsageInv, MetersDistinct
<1>7. AddersMapped' /\ FlushMapped'
  BY <1>1, <1>2 DEF AddersMapped, FlushMapped, NoAdd
<1>8. \A m \in Month : InMeter(m)' = InMeter(m)
  BY <1>1, <1>4 DEF InMeter
<1>9. TrafficMetered'
  BY <1>1, <1>2, <1>3, <1>8 DEF UsageInv, TrafficMetered, InMeter
<1>10. QED
  BY <1>5, <1>6, <1>7, <1>9 DEF UsageInv

-----------------------------------------------------------------------------
LEMMA UsageInvStep ==
    ASSUME UsageConstants, UsageInv, [UsageNext]_usageVars
    PROVE  UsageInv'
<1>1. CASE MonthPasses
  <2>1. /\ month' = month + 1 /\ month < MaxMonth
        /\ UNCHANGED <<meterOf, reading, everUsed, adder, flusher, recorded, reported, repeated,
                       flushErrors, meterDown>>
    BY <1>1 DEF MonthPasses
  <2>2. month' \in Month
    BY <2>1 DEF UsageInv, UsageTypeOK, UsageConstants, Month
  <2>3. QED
    BY <2>1, <2>2 DEF UsageInv, UsageTypeOK, MetersDistinct, AddersMapped, FlushMapped, TrafficMetered
<1>2. CASE RotatorsStopped \/ UNCHANGED usageVars
  <2>1. /\ meterDown' \in BOOLEAN
        /\ UNCHANGED <<month, meterOf, reading, everUsed, adder, flusher, recorded, reported, repeated,
                       flushErrors>>
    BY <1>2 DEF RotatorsStopped, usageVars, UsageInv, UsageTypeOK
  <2>2. QED
    BY <2>1 DEF UsageInv, UsageTypeOK, MetersDistinct, AddersMapped, FlushMapped, TrafficMetered
<1>3. QED
  BY <1>1, <1>2, ReadMonthKeeps, LoadMeterKeeps, AddTrafficKeeps, BeginFlushKeeps, TakeMeterKeeps,
     RecordBatchKeeps, RecordFailsKeeps, PruneMetersKeeps DEF UsageNext

\* The initial state: nothing is metered and nothing reported.
LEMMA UsageInvInit ==
    ASSUME UsageConstants, UsageInit
    PROVE  UsageInv
<1>c. MaxMonth \in Nat \ {0} /\ MaxFlushErrors \in Nat
  BY DEF UsageConstants
<1>1. 1 \in Month
  BY <1>c DEF Month
<1>2. NothingTaken \in [Month -> Nat] /\ \A m \in Month : NothingTaken[m] = 0
  BY DEF NothingTaken
<1>3. /\ flusher \in Flusher
      /\ \A m \in Month : flusher.taken[m] = 0 /\ flusher.from[m] = Unmetered
  BY NothingInFlush DEF UsageInit
<1>4. adder \in [Conn -> Adder] /\ \A c \in Conn : adder[c].step = "idle"
  BY <1>1 DEF UsageInit, NotAdding, Adder
<1>5. UsageTypeOK
  <2>1. month \in Month /\ everUsed \subseteq Meter /\ reading \in [Meter -> Nat]
    BY <1>1 DEF UsageInit
  <2>2. meterOf \in [Month -> Meter \cup {Unmetered}]
    BY DEF UsageInit
  <2>3. recorded \in [Month -> Nat] /\ reported \in [Month -> Nat] /\ repeated \in [Month -> Nat]
    BY <1>2 DEF UsageInit
  <2>4. flushErrors \in 0..MaxFlushErrors
    BY <1>c DEF UsageInit
  <2>5. meterDown \in BOOLEAN
    BY DEF UsageInit
  <2>6. QED
    BY <1>3, <1>4, <2>1, <2>2, <2>3, <2>4, <2>5 DEF UsageTypeOK, Adder, Flusher
<1>6. MetersDistinct /\ AddersMapped /\ FlushMapped
  BY <1>3, <1>4 DEF UsageInit, MetersDistinct, AddersMapped, FlushMapped
<1>7. TrafficMetered
  BY <1>2, <1>3 DEF UsageInit, TrafficMetered
<1>8. QED
  BY <1>5, <1>6, <1>7 DEF UsageInv

\* Every unit of traffic that a connection reported is in the month's row, in
\* the month's counter or in the flush under way, and in no two of them, through
\* failed batches, month ends and the removal of counters
\* (AddWorkspaceManagedTraffic, flushWorkspaceManagedTraffic,
\* pruneWorkspaceTrafficCounters).
THEOREM TrafficCountedOnce ==
    ASSUME UsageConstants
    PROVE  UsageSpec => []TrafficMetered
<1>1. UsageInit => UsageInv
  BY UsageInvInit
<1>2. UsageInv /\ [UsageNext]_usageVars => UsageInv'
  BY UsageInvStep
<1>3. UsageInv => TrafficMetered
  BY DEF UsageInv
<1>4. QED
  BY <1>1, <1>2, <1>3, PTL DEF UsageSpec
=============================================================================
