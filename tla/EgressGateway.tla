---------------------------- MODULE EgressGateway ----------------------------
(***************************************************************************)
(* The egress gateway of the isolated Browser (egressgateway/gateway.go):  *)
(* one proxied request after the other, since requests share only the HTTP *)
(* transport.  What a name resolves to may change from one lookup to the   *)
(* next; resolvers, destinations and the client are external.  A literal   *)
(* address is a name that resolves to itself.                              *)
(***************************************************************************)
EXTENDS Naturals, Sequences, FiniteSets

CONSTANTS
  Public, Private,  \* addresses: what IsBlockedIP lets pass and what it blocks
  MaxTunnelDials,   \* maxTunnelDialAddresses
  None

Addresses == Public \cup Private

\* What a lookup may answer: no address, or some in an order.
Lookups == {<<>>} \cup {<<a>> : a \in Addresses}
             \cup {s \in Addresses \X Addresses : s[1] # s[2]}

VARIABLES
  method,     \* of the request
  at,         \* how far the gateway is with it
  addresses,  \* what resolvePublic returned
  dials,      \* how many of them were tried
  dialled,    \* the destination last connected to, or None
  tunnel,     \* which of the two copies of a tunnel run
  reached     \* ghost: destinations that got bytes of this request

gatewayVars == <<method, at, addresses, dials, dialled, tunnel, reached>>

\* ServeHTTP: a health request is answered, and a request that is not for
\* port 80, or for port 443 by CONNECT, refused, and nothing else happens.
Receive ==
  /\ at = "idle"
  /\ method' \in {"CONNECT", "plain"}
  /\ at' = "received"
  /\ addresses' = <<>> /\ dials' = 0 /\ dialled' = None /\ reached' = {}
  /\ UNCHANGED tunnel

\* resolvePublic: one blocked address, and the name is blocked.
Resolved(answer) == answer # <<>> /\ \A i \in DOMAIN answer : answer[i] \in Public

Resolve ==
  /\ at = "received"
  /\ \E answer \in Lookups :
       IF Resolved(answer)
       THEN at' = "resolved" /\ addresses' = answer
       ELSE at' = "idle" /\ UNCHANGED addresses
  /\ UNCHANGED <<method, dials, dialled, tunnel, reached>>

\* The addresses dialled for a request: all that were validated up to a
\* bound, or, for plain HTTP, the first, to which the URL is pinned.
Attempts ==
  IF method = "plain" THEN 1
  ELSE IF Len(addresses) < MaxTunnelDials THEN Len(addresses) ELSE MaxTunnelDials

\* Mutant of Destinations: the name is looked up again to dial.
DestinationsByName == Addresses

\* What the next dial may connect to.
Destinations == {addresses[dials + 1]}

\* openTunnel, directly or through the upstream proxy, and RoundTrip.
Dial ==
  /\ at = "resolved" /\ dials < Attempts
  /\ \/ /\ dialled' \in Destinations
        /\ at' = "connected"
     \/ UNCHANGED <<dialled, at>>
  /\ dials' = dials + 1
  /\ UNCHANGED <<method, addresses, tunnel, reached>>

Unavailable ==
  /\ at = "resolved" /\ dials = Attempts
  /\ at' = "idle"
  /\ UNCHANGED <<method, addresses, dials, dialled, tunnel, reached>>

\* Plain HTTP: the request goes out, and fails or is answered.
RoundTrip ==
  /\ at = "connected" /\ method = "plain"
  /\ at' = "idle"
  /\ reached' = reached \cup {dialled}
  /\ UNCHANGED <<method, addresses, dials, dialled, tunnel>>

\* CONNECT: only now is the client told that the tunnel is established.
Hijack ==
  /\ at = "connected" /\ method = "CONNECT"
  /\ \/ at' = "tunnel" /\ tunnel' = {"up", "down"}
     \/ at' = "idle" /\ UNCHANGED tunnel
  /\ UNCHANGED <<method, addresses, dials, dialled, reached>>

CopyUp ==
  /\ at = "tunnel" /\ "up" \in tunnel /\ dialled \notin reached
  /\ reached' = reached \cup {dialled}
  /\ UNCHANGED <<method, at, addresses, dials, dialled, tunnel>>

\* One side ends; both connections are closed, which ends the other copy.
CopyEnds ==
  /\ at \in {"tunnel", "closing"}
  /\ \E copy \in tunnel : tunnel' = tunnel \ {copy}
  /\ at' = IF tunnel' = {} THEN "idle" ELSE "closing"
  /\ UNCHANGED <<method, addresses, dials, dialled, reached>>

GatewayInit ==
  /\ method = "plain" /\ at = "idle"
  /\ addresses = <<>> /\ dials = 0 /\ dialled = None
  /\ tunnel = {} /\ reached = {}

GatewayNext ==
  \/ Receive \/ Resolve \/ Dial \/ Unavailable \/ RoundTrip \/ Hijack
  \/ CopyUp \/ CopyEnds

GatewaySpec == GatewayInit /\ [][GatewayNext]_gatewayVars
-----------------------------------------------------------------------------
GatewayTypeOK ==
  /\ method \in {"CONNECT", "plain"}
  /\ at \in {"idle", "received", "resolved", "connected", "tunnel", "closing"}
  /\ addresses \in Lookups
  /\ dials \in 0..2 /\ dialled \in Addresses \cup {None}
  /\ tunnel \subseteq {"up", "down"} /\ reached \subseteq Addresses

\* Whatever names resolve to when, a request connects only to addresses that
\* were validated for it, and at most one destination gets bytes of it.
OneValidatedDestination ==
  /\ dialled # None => dialled \in Public /\ \E i \in 1..dials : dialled = addresses[i]
  /\ Cardinality(reached) <= 1
=============================================================================
