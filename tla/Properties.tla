----------------------------- MODULE Properties -----------------------------
(***************************************************************************)
(* What makes the simulated network correct: invariants, action properties  *)
(* and liveness properties of NetSim.                                       *)
(***************************************************************************)
EXTENDS NetSim

At(m) == {a \in Nodes : node_id[a] = m}

(* Between two rounds, nothing is on its way and no node has anything left  *)
(* to do but wait for a coordinate.                                         *)
Quiet ==
  /\ Between
  /\ \A n \in Nodes :
       /\ packet_map[n] = <<>>
       /\ \A i \in DOMAIN action_list[n] : Awaited(action_list[n][i])

-----------------------------------------------------------------------------
(* The internet *)

(* Only the node whose turn it is holds packets: those it wants sent, and   *)
(* the one handed to it until it has parsed it (what it unwraps from that   *)
(* comes by way of a traversed session).                                    *)
Acting(n) == turn <= Len(order) /\ order[turn] = n
Outbox == [n \in NetAddr |-> IF Acting(n) THEN outgoing ELSE <<>>]
Inbox ==
  [n \in NetAddr |->
     IF Acting(n) /\ rx # None /\ rx.via.kind = "Direct"
       THEN [src_addr |-> rx.via.net_addr, request |-> rx.request,
             encryption |-> rx.encryption]
       ELSE None]
Wire ==
  [n \in NetAddr |-> [i \in DOMAIN packet_map[n] |-> packet_map[n][i].packet]]

Net == INSTANCE Internet WITH
         outbox <- Outbox, wire <- Wire, inbox <- Inbox, dht <- route_coord_dht

(* NetSim and its router keep what Internet promises: no packet is made up, *)
(* delivered twice, misdirected or under a false address, however turns,    *)
(* latencies and commands fall; and each lookup sees the coordinate that    *)
(* was recorded last.                                                       *)
InternetPromise == Net!Spec

-----------------------------------------------------------------------------
(* Sessions *)

(* A packet hands on the id of the one handshake, acknowledgement or first  *)
(* packet back (ConnectionInit) in it, however often it is wrapped; it is   *)
(* in hand on its way, to be sent, being parsed, or still to be parsed.     *)
TokenOf(enc) ==
  IF enc = None THEN {}
  ELSE IF enc.core.type \in {"Handshake", "Acknowledge"}
    THEN {<<enc.core.type, enc.core.session_id>>}
  ELSE IF enc.core.type = "Session" /\ enc.core.packet.type = "ConnectionInit"
    THEN {<<"ConnectionInit", enc.core.packet.ping>>}
  ELSE {}
TokenIn(packet) ==
  IF packet.type = "Traverse" THEN TokenOf(packet.encryption)
  ELSE IF packet.type = "ConnectionInit"
    THEN {<<"ConnectionInit", packet.ping>>}
  ELSE {}
OnTheWay ==
  UNION {UNION {TokenOf(Wire[n][i].encryption) : i \in DOMAIN Wire[n]}
         : n \in NetAddr}
ToSend  == UNION {TokenOf(outgoing[i].encryption) : i \in DOMAIN outgoing}
ToRead  == IF rx = None THEN {} ELSE TokenOf(rx.encryption)
ToParse == UNION {TokenIn(work[i].packet) : i \in DOMAIN work}
Tokens == OnTheWay \cup ToSend \cup ToRead \cup ToParse
OfType(tokens, type) == {t[2] : t \in {u \in tokens : u[1] = type}}
InHand(type) == OfType(Tokens, type)

(* The id of a session, and whether it is taken for one both sides have.    *)
TunnelOf(s) ==
  IF s = None THEN None
  ELSE [id |-> s.session_id, open |-> s.ping_sent = None]
(* Rust's None is no tunnel.                                                *)
ASSUME TunnelAssumption == None \notin [id : SessionID, open : BOOLEAN]

Tunnels ==
  [n \in NetAddr |-> [m \in NodeID |->
     IF n \in Nodes THEN TunnelOf(session[n][m]) ELSE None]]

Tun == INSTANCE Tunnel WITH
  name <- node_id,
  offers <- minted,
  handshakes <- InHand("Handshake"),
  acknowledgements <- InHand("Acknowledge"),
  inits <- InHand("ConnectionInit"),
  tunnel <- Tunnels

(* Nodes keep what Tunnel promises, however packets overtake each other and *)
(* whoever is added, deleted or loaded meanwhile: no session is made from   *)
(* an acknowledgement nobody gave, used by one side before its time, or     *)
(* made twice of one handshake, and a ping is only taken for answered once  *)
(* both sides have had the session.                                         *)
TunnelPromise == Tun!Spec

(* The id of a session that a node holds with a remote, or looks the remote *)
(* up by, was drawn for a handshake between the two, by either: whatever    *)
(* the order in which handshakes and acknowledgements of several attempts   *)
(* arrive (parse_node_encryption), however far they travelled, and whoever  *)
(* now answers at an address, a node never files a session, nor takes a     *)
(* packet, as that of a remote which does not own the other end.            *)
SessionPairing ==
  \A n \in Nodes, m \in NodeID :
    \A id \in {sessions[n][m]}
                \cup IF session[n][m] = None THEN {}
                      ELSE {session[n][m].session_id} :
      id # None =>
        minted[id] \in {<<node_id[n], m>>, <<m, node_id[n]>>}

(* Every remote that a node's tables name - indexed, tested or a peer - has *)
(* a session: session()? does not fail in the middle of parse_node_packet,  *)
(* calculate-peers or a traversal, nor after net load has emptied what is   *)
(* not saved.                                                               *)
IndexedSessionExists ==
  \A n \in Nodes, m \in NodeID :
    \/ sessions[n][m] # None
    \/ peer_list[n][m] # None
    \/ \E e \in direct_sorted[n] : e[2] = m
    => session[n][m] # None

(* "When the original party receives the Acknowledge, that tunnel may now   *)
(* be used for 2-way packet transfer" (packet.rs): once the network is      *)
(* quiet, the two ends of a session agree on its id.  Two nodes that shake  *)
(* hands with each other at once must settle on one of the two sessions.    *)
TunnelAgreement ==
  Quiet =>
    \A n \in Nodes, m \in NodeID :
      session[n][m] # None =>
        \E k \in At(m) :
          LET back == session[k][node_id[n]]
          IN  back # None /\ back.session_id = session[n][m].session_id

(* When two nodes that shake hands at once do settle: while nobody else     *)
(* answers for them,                                                        *)
NamesUnique == \A a, b \in Nodes : node_id[a] = node_id[b] => a = b
(* their handshakes go straight to where the other is,                      *)
HandshakesAddressed ==
  \A n \in Nodes, m \in NodeID :
    LET p == pending_session[n][m]
    IN  p # None =>
          /\ IsDirect(p)
          /\ p.session_type.net_addr \in At(m)
(* no packet overtakes another of the same sender,                          *)
InOrder ==
  \A n \in NetAddr : \A i, j \in DOMAIN packet_map[n] :
    i < j /\ packet_map[n][i].packet.src_addr = packet_map[n][j].packet.src_addr
      => packet_map[n][i].latency <= packet_map[n][j].latency
(* and neither offers the other a second session while a first offer, or    *)
(* its acceptance, is under way.                                            *)
UnderWay == InHand("Handshake") \cup InHand("Acknowledge")
OneAtATime == \A i, j \in UnderWay : minted[i] = minted[j] => i = j
Orderly == NamesUnique /\ HandshakesAddressed /\ InOrder /\ OneAtATime

(* Once the network is quiet no handshake is half done: no session is       *)
(* pending, and the ping of every session has been acknowledged.  There is  *)
(* no timeout to clear either.                                              *)
HandshakesFinish ==
  Quiet =>
    \A n \in Nodes, m \in NodeID :
      /\ pending_session[n][m] = None
      /\ session[n][m] # None => session[n][m].ping_sent = None

(* A direct session's address is where the remote is: the address a         *)
(* handshake came from, or was sent to and acknowledged from.               *)
AddressCorrect ==
  \A n \in Nodes, m \in NodeID :
    IsDirect(session[n][m]) =>
      node_id[session[n][m].session_type.net_addr] = m

-----------------------------------------------------------------------------
(* Peers and coordinates *)

(* "All nodes that have been tested, sorted by lowest value" (node.rs, at   *)
(* direct_sorted): a remote whose ping was acknowledged is among them.      *)
TestedListed ==
  \A n \in Nodes, m \in NodeID :
    session[n][m] # None /\ session[n][m].ping_sent = None =>
      \E e \in direct_sorted[n] : e[2] = m

(* A session flagged Outgoing is one of a current peer: CalculatePeers sets *)
(* flags and list together, and neither a later session nor a PeerNotify    *)
(* sets the flag without the list.                                          *)
OutgoingIsPeer ==
  \A n \in Nodes, m \in NodeID :
    IsPeer(session[n][m]) => peer_list[n][m] # None

(* What the flags follow the list by (see AddressProofs): CalculatePeers    *)
(* comes to every session flagged Outgoing in its loop over the tested      *)
(* nodes, so that it can take the flag back.  It may fail if a later test   *)
(* puts another node in a peer's place, or if a session through the         *)
(* network, at which the loop ends, is nearer than a peer's.                *)
PeersVisited ==
  \A n \in Nodes, m \in NodeID :
    IsPeer(session[n][m]) => \E e \in Visited(n) : e[2] = m

(* "If have enough peers & want to host node as public, write RouteCoord to *)
(* DHT" (node.rs, at CalculatePeers): once the network is quiet, the DHT has *)
(* the coordinate of every node whose peer list is full.                    *)
Full(n) ==
  Cardinality({m \in NodeID : peer_list[n][m] # None}) >= TARGET_PEER_COUNT
PublishedWhenFull ==
  Quiet => \A n \in Nodes :
             Full(n) => route_coord_dht[node_id[n]] = route_coord[n]

(* A coordinate learned of a remote is not lost again: no message sent      *)
(* before the remote had one (ExchangeInfo, its response, RequestPings)     *)
(* overwrites what a later message or the DHT told.                         *)
CoordNeverForgotten ==
  [][\A n \in Nodes, m \in NodeID :
       remote_coord[n][m] # None => remote_coord'[n][m] # None]_vars

JustBecamePeer(n, m) ==
  ~IsPeer(session[n][m]) /\ IsPeer(session'[n][m])
(* "Notify Peers if just became peer" (node.rs): the step that makes a      *)
(* remote a peer sends it a PeerNotify that says so.                        *)
PeerNotifiedOnChange ==
  [][\A n \in Nodes, m \in NodeID :
       JustBecamePeer(n, m) =>
         \E i \in DOMAIN outgoing' :
           LET e == outgoing'[i].encryption
           IN  /\ i > Len(outgoing) /\ e # None
               /\ e.core.type = "Session"
               /\ e.core.session_id = session[n][m].session_id
               /\ e.core.packet.type = "PeerNotify" /\ e.core.packet.peered]_vars

(* "Wait for RouteCoord DHT to resolve before re-running" (node.rs, at      *)
(* ConnectTraversed): once the network is quiet, an action still waits only *)
(* if the DHT still does not have the coordinate it waits for.              *)
LookupRetried ==
  Quiet => \A n \in Nodes : \A i \in DOMAIN action_list[n] :
             route_coord_dht[action_list[n][i].id] = None

(* "add a node to network" (main.rs, help): adding a node takes none away.  *)
AddKeepsNodes ==
  [][\A n \in Nodes : node_id'[n] \in {node_id[n], None}]_vars

-----------------------------------------------------------------------------
(* Liveness *)

(* The traffic that a command sets off dies out: no two nodes keep          *)
(* notifying each other of coordinates and peers for ever.                  *)
Settles == <>[]Quiet

Joined(n) == route_coord[n] # None /\ \E m \in NodeID : IsPeer(session[n][m])
(* A node told to bootstrap comes to have a coordinate and a peer.          *)
BootstrapJoins ==
  \A c \in Commands : c.type = "Bootstrap" => (c \in issued ~> Joined(c.at))

(* And so does every node that net gen has bootstrap, whatever the network  *)
(* was before: nothing of the old one, neither a packet nor an action, is   *)
(* left to disturb it.                                                      *)
GenJoins ==
  \A c \in Commands : c.type = "gen" =>
    (c \in issued ~> \A n \in 1 .. c.number - 1 : Joined(n))

(* Nodes that bootstrap onto one and the same node come to have sessions    *)
(* with each other for good, through RequestPings, WantPing and             *)
(* AcceptWantPing.                                                          *)
Introduced ==
  <>[](\A n \in Nodes : \A m \in NodeID \ {node_id[n]} :
         session[n][m] # None)

(* A node told to bootstrap onto an address where somebody else is gets no  *)
(* answer, and its pending session has no timeout; but told the right       *)
(* address as well, it comes to have a session with the remote after all,   *)
(* and the remote the same one.                                             *)
Retries(c, d) ==
  /\ c.type = "Bootstrap" /\ d.type = "Bootstrap"
  /\ c.at = d.at /\ c.id = d.id /\ c.addr # d.addr
  /\ Genesis[d.addr] = d.id
RetryConnects ==
  \A c, d \in Commands :
    Retries(c, d) =>
      ({c, d} \subseteq issued ~>
         LET s == session[d.at][d.id]
             t == session[d.addr][node_id[d.at]]
         IN  s # None /\ t # None /\ s.session_id = t.session_id)

(* node <addr> traverse <id>: the handshake finds its way from peer to      *)
(* peer, and so do its acknowledgement and the first packet back.           *)
TraverseConnects ==
  \A c \in Commands :
    c.type = "ConnectTraversed" =>
      (c \in issued ~> \E k \in At(c.id) :
         LET s == session[c.at][c.id]
             t == session[k][node_id[c.at]]
         IN  /\ s # None /\ t # None
             /\ s.session_id = t.session_id
             /\ t.ping_sent = None)

(* "Time Traversal 1 -> 19" (test, main.rs) is printed twice, once for each *)
(* way: when the first interval is over the session is one through the      *)
(* network, and when the second is, it is a direct one in its place.        *)
TestComparesWays ==
  \A c \in issued :
    c.type = "test" /\ agenda # <<>> =>
      LET s == session[c.at][c.id]
      IN  (Between /\ Head(agenda).round = round) =>
            /\ s # None
            /\ IsDirect(s) <=> Head(agenda).at = None
=============================================================================
