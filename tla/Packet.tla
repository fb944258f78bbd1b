------------------------------- MODULE Packet -------------------------------
(***************************************************************************)
(* The data that dbr-sim nodes exchange and keep: node packets and their    *)
(* encryptions (src/node/packet.rs), session types and sessions             *)
(* (src/node/session.rs), internet packets (src/internet/mod.rs), and the   *)
(* entries of a node's action list (NodeAction of src/node.rs).             *)
(*                                                                         *)
(* Rust's Option<T> is T \cup {None}.  A NodeIdx stands for the NodeID it   *)
(* is paired with in Node::ids: that map only grows and is one to one.      *)
(* Distances measured for Node::route_map (written, never read) and the     *)
(* payload of Data packets are left out of the packets that carry them.     *)
(***************************************************************************)
EXTENDS Integers, FiniteSets, Sequences

CONSTANTS
  NodeID,    \* names of nodes; ordered, the handshake compares them
  NetAddr,   \* addresses of the simulated internet
  None       \* Rust's None

Coord      == Int \X Int          \* RouteCoord = Point2<i64>
MaybeCoord == Coord \cup {None}
SessionID  == Nat                 \* drawn by rand::random(); see Node!minted

-----------------------------------------------------------------------------
(* Session types and sessions *)

DirectType(addr) ==
  [kind |-> "Direct", net_addr |-> addr, peer_status |-> {}]
TraversedType(coord) ==
  [kind |-> "Traversed", route_coord |-> coord]

SessionType ==
  [kind : {"Direct"}, net_addr : NetAddr,
   peer_status : SUBSET {"Outgoing", "Incoming"}]
    \cup [kind : {"Traversed"}, route_coord : Coord]

(* The packets whose last arrival decides what a node does.                 *)
Limited == {"RequestPings", "AcceptWantPing"}

(* RemoteSession with its tracker.  ping_sent is the one ping the tracker's *)
(* queue ever holds: gen_ping runs once per session, as it is created, so   *)
(* the session's id also names the ping.                                    *)
Session ==
  [session_id : SessionID, session_type : SessionType,
   ping_sent : Nat \cup {None}, last : [Limited -> Nat \cup {None}]]

Unpinged(id, type, ping) ==                                          \* mutant
  [session_id |-> id, session_type |-> type, ping_sent |-> None,
   last |-> [k \in Limited |-> None]]
NewSession(id, type, ping) ==
  [session_id |-> id, session_type |-> type, ping_sent |-> ping,
   last |-> [k \in Limited |-> None]]

IsDirect(s) == s # None /\ s.session_type.kind = "Direct"
IsPeer(s)   == IsDirect(s) /\ "Outgoing" \in s.session_type.peer_status

-----------------------------------------------------------------------------
(* Node packets other than Traverse *)

ExchangeInfo(coord, count) ==
  [type |-> "ExchangeInfo", coord |-> coord, count |-> count]
ExchangeInfoResponse(coord, count) ==
  [type |-> "ExchangeInfoResponse", coord |-> coord, count |-> count]
AcceptWantPing      == [type |-> "AcceptWantPing"]
Data                == [type |-> "Data"]
WantPing(id, addr)  == [type |-> "WantPing", id |-> id, addr |-> addr]
RequestPings(number, coord) ==
  [type |-> "RequestPings", number |-> number, coord |-> coord]
(* The rank is 0, or usize::MAX for "no longer a peer".                     *)
PeerNotify(peered, coord, count) ==
  [type |-> "PeerNotify", peered |-> peered, coord |-> coord, count |-> count]
ConnectionInit(ping, packets) ==
  [type |-> "ConnectionInit", ping |-> ping, packets |-> packets]

InitialPacket ==
  [type : {"ExchangeInfo"}, coord : MaybeCoord, count : Nat]
    \cup {AcceptWantPing}
PlainPacket ==
  InitialPacket
    \cup [type : {"ExchangeInfoResponse"}, coord : MaybeCoord, count : Nat]
    \cup {Data}
    \cup [type : {"WantPing"}, id : NodeID, addr : NetAddr]
    \cup [type : {"RequestPings"}, number : Nat, coord : MaybeCoord]
    \cup [type : {"PeerNotify"}, peered : BOOLEAN, coord : Coord, count : Nat]
    \cup [type : {"ConnectionInit"}, ping : SessionID,
          packets : Seq(InitialPacket)]

-----------------------------------------------------------------------------
(* NodeEncryption: a core wrapped in zero or more layers, outermost first.  *)
(* A layer is Session{session_id, Traverse{destination, _, origin}}.        *)

Hop == [session_id : SessionID, destination : Coord, origin : Coord]
Core ==
  [type : {"Handshake"}, recipient : NodeID, session_id : SessionID,
   signer : NodeID]
    \cup [type : {"Acknowledge"}, session_id : SessionID,
          acknowledger : NodeID]
    \cup [type : {"Session"}, session_id : SessionID, packet : PlainPacket]
    \cup [type : {"Notify"}, recipient : NodeID, sender : NodeID]
Encryption == [hops : Seq(Hop), core : Core]

Bare(core) == [hops |-> <<>>, core |-> core]
Handshake(recipient, id, signer) ==
  Bare([type |-> "Handshake", recipient |-> recipient, session_id |-> id,
        signer |-> signer])
Acknowledge(id, acknowledger) ==
  Bare([type |-> "Acknowledge", session_id |-> id,
        acknowledger |-> acknowledger])
Notify(recipient, sender) ==
  Bare([type |-> "Notify", recipient |-> recipient, sender |-> sender])

Traverse(destination, encryption, origin) ==
  [type |-> "Traverse", destination |-> destination,
   encryption |-> encryption, origin |-> origin]
NodePacket ==
  PlainPacket
    \cup [type : {"Traverse"}, destination : Coord, encryption : Encryption,
          origin : Coord]

(* RemoteSession::wrap_session *)
WrapSession(id, packet) ==
  IF packet.type = "Traverse"
    THEN [hops |-> <<[session_id |-> id, destination |-> packet.destination,
                      origin |-> packet.origin]>> \o packet.encryption.hops,
          core |-> packet.encryption.core]
    ELSE Bare([type |-> "Session", session_id |-> id, packet |-> packet])

(* The outermost NodeEncryption variant, and what a Session variant holds.  *)
IsSession(enc)  == enc.hops # <<>> \/ enc.core.type = "Session"
OuterID(enc)    == IF enc.hops # <<>> THEN enc.hops[1].session_id
                                      ELSE enc.core.session_id
OuterPacket(enc) ==
  IF enc.hops # <<>>
    THEN Traverse(enc.hops[1].destination,
                  [hops |-> Tail(enc.hops), core |-> enc.core],
                  enc.hops[1].origin)
    ELSE enc.core.packet

-----------------------------------------------------------------------------
(* Internet packets.  NodeEncryption::package leaves the source address to  *)
(* NetSim::tick, so an outgoing packet has none yet.                        *)

Request ==
  [type : {"RouteCoordDHTRead"}, id : NodeID]
    \cup [type : {"RouteCoordDHTWrite"}, id : NodeID, coord : Coord]
Response ==
  [type : {"RouteCoordDHTReadResponse"}, id : NodeID, coord : MaybeCoord]
    \cup [type : {"RouteCoordDHTWriteResponse"}]

Outgoing ==
  [dest_addr : NetAddr, request : {None}, encryption : Encryption]
    \cup [dest_addr : NetAddr, request : Request, encryption : {None}]
Incoming ==
  [src_addr : NetAddr, request : {None}, encryption : Encryption]
    \cup [src_addr : NetAddr, request : Response, encryption : {None}]

Package(addr, enc) ==
  [dest_addr |-> addr, request |-> None, encryption |-> enc]
GenRequest(addr, request) ==
  [dest_addr |-> addr, request |-> request, encryption |-> None]

-----------------------------------------------------------------------------
(* Node actions.  "waits" marks an action wrapped in                        *)
(* Condition(RemoteRouteCoord(id), _), the only condition the code builds.  *)

Awaitable == {"Notify", "ConnectTraversed", "ConnectRouted"}
Action ==
  [type : {"Bootstrap", "Connect"}, id : NodeID, addr : NetAddr]
    \cup [type : {"UpdateRemote"}, id : NodeID, coord : MaybeCoord,
          count : Nat]
    \cup [type : {"CalcRouteCoord", "CalculatePeers"}]
    \cup [type : {"RequestRouteCoord", "SendData"}, id : NodeID]
    \cup [type : Awaitable, id : NodeID, waits : BOOLEAN]

UpdateRemote(id, coord, count) ==
  [type |-> "UpdateRemote", id |-> id, coord |-> coord, count |-> count]
Await(type, id)        == [type |-> type, id |-> id, waits |-> TRUE]
RequestRouteCoord(id)  == [type |-> "RequestRouteCoord", id |-> id]
Simple(type)           == [type |-> type]

(* Rust's None is no value of the types it is joined to.                    *)
ASSUME NoneAssumption ==
  /\ None \notin Coord \cup Nat
  /\ None \notin Session
  /\ None \notin Encryption
  /\ None \notin Request \cup Response
  /\ None \notin Outgoing
(* NodeID is u32 and NetAddr u128.                                          *)
ASSUME NodeIDAssumption ==
  /\ NodeID \subseteq Nat /\ IsFiniteSet(NodeID)
  /\ NetAddr \subseteq Nat /\ IsFiniteSet(NetAddr)
=============================================================================
