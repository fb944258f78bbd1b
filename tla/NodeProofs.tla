----------------------------- MODULE NodeProofs -----------------------------
(***************************************************************************)
(* What the constructors and selectors of module Packet return, and what    *)
(* every step of a node keeps: the types of what it holds, and that a       *)
(* remote its tables name has a session.                                    *)
(***************************************************************************)
EXTENDS Node, TLAPS, FiniteSetTheorems, SequenceTheorems

-----------------------------------------------------------------------------
(* Packets, sessions and actions                                            *)

(* None is no value of the types it is joined to.                           *)
LEMMA NoneIsNoValue ==
  /\ None \notin Coord /\ None \notin Nat /\ None \notin Session
  /\ None \notin Encryption /\ None \notin Request /\ None \notin Response
  /\ None \notin Outgoing
BY NoneAssumption

(* RemoteSession::new on a session type made by SessionType::direct or      *)
(* SessionType::traversed is a session.                                     *)
LEMMA DirectTypeIsType ==
  ASSUME NEW addr \in NetAddr
  PROVE  DirectType(addr) \in SessionType
BY DEF DirectType, SessionType

(* SessionType::traversed, likewise, for a coordinate.                      *)
LEMMA TraversedTypeIsType ==
  ASSUME NEW coord \in Coord
  PROVE  TraversedType(coord) \in SessionType
BY DEF TraversedType, SessionType

(* A session as parse_node_encryption makes it, with or without a ping.     *)
LEMMA NewSessionIsSession ==
  ASSUME NEW id \in SessionID, NEW type \in SessionType,
         NEW ping \in Nat \cup {None}
  PROVE  NewSession(id, type, ping) \in Session
BY DEF NewSession, Session

(* A direct session has an address, any other a coordinate.                 *)
LEMMA SessionTypeFields ==
  ASSUME NEW s \in Session
  PROVE  /\ IsDirect(s) => /\ s.session_type.net_addr \in NetAddr
                           /\ s.session_type.peer_status
                                \in SUBSET {"Outgoing", "Incoming"}
         /\ ~IsDirect(s) => s.session_type.route_coord \in Coord
         /\ s.session_id \in SessionID
         /\ s.ping_sent \in Nat \cup {None}
         /\ s.session_type \in SessionType
BY NoneIsNoValue DEF IsDirect, Session, SessionType

-----------------------------------------------------------------------------
(* Node packets                                                             *)

(* What a ConnectionInit carries are node packets.                          *)
LEMMA InitialPacketIsPacket == InitialPacket \subseteq NodePacket
BY DEF NodePacket, PlainPacket

(* The fields of a node packet by its type.                                 *)
LEMMA PacketFields ==
  ASSUME NEW p \in NodePacket
  PROVE  /\ p.type \in {"ExchangeInfo", "ExchangeInfoResponse"} =>
              p.coord \in MaybeCoord /\ p.count \in Nat
         /\ p.type = "RequestPings" =>
              p.number \in Nat /\ p.coord \in MaybeCoord
         /\ p.type = "WantPing" => p.id \in NodeID /\ p.addr \in NetAddr
         /\ p.type = "PeerNotify" =>
              p.peered \in BOOLEAN /\ p.coord \in Coord /\ p.count \in Nat
         /\ p.type = "ConnectionInit" =>
              p.ping \in SessionID /\ p.packets \in Seq(InitialPacket)
         /\ p.type = "Traverse" =>
              /\ p.destination \in Coord /\ p.encryption \in Encryption
              /\ p.origin \in Coord
         /\ p.type # "Traverse" => p \in PlainPacket
BY DEF NodePacket, PlainPacket, InitialPacket, AcceptWantPing, Data

(* The constructors of node packets.                                        *)
LEMMA PacketConstructors ==
  /\ \A coord \in MaybeCoord, count \in Nat :
       /\ ExchangeInfo(coord, count) \in InitialPacket
       /\ ExchangeInfoResponse(coord, count) \in PlainPacket
       /\ RequestPings(count, coord) \in PlainPacket
  /\ AcceptWantPing \in InitialPacket /\ Data \in PlainPacket
  /\ \A id \in NodeID, addr \in NetAddr : WantPing(id, addr) \in PlainPacket
  /\ \A peered \in BOOLEAN, coord \in Coord, count \in Nat :
       PeerNotify(peered, coord, count) \in PlainPacket
  /\ \A ping \in SessionID, packets \in Seq(InitialPacket) :
       ConnectionInit(ping, packets) \in PlainPacket
BY DEF InitialPacket, PlainPacket, ExchangeInfo, ExchangeInfoResponse,
       AcceptWantPing, Data, WantPing, RequestPings, PeerNotify,
       ConnectionInit

(* NodePacket::Traverse around an encryption is a packet and holds it.      *)
LEMMA TraverseIsPacket ==
  ASSUME NEW destination \in Coord, NEW enc \in Encryption,
         NEW origin \in Coord
  PROVE  /\ Traverse(destination, enc, origin) \in NodePacket
         /\ Traverse(destination, enc, origin).type = "Traverse"
         /\ Traverse(destination, enc, origin).encryption = enc
BY DEF NodePacket, Traverse

(* Any other packet is one too, and is no Traverse.                         *)
LEMMA PlainPacketIsPacket ==
  ASSUME NEW p \in PlainPacket
  PROVE  p \in NodePacket /\ p.type # "Traverse"
BY DEF NodePacket, PlainPacket, InitialPacket, AcceptWantPing, Data

-----------------------------------------------------------------------------
(* Encryptions                                                              *)

(* The fields of a NodeEncryption variant by its type.                      *)
LEMMA CoreFields ==
  ASSUME NEW core \in Core
  PROVE  /\ core.type \in {"Handshake", "Acknowledge", "Session", "Notify"}
         /\ core.type = "Handshake" =>
              /\ core.recipient \in NodeID /\ core.session_id \in SessionID
              /\ core.signer \in NodeID
         /\ core.type = "Acknowledge" =>
              core.session_id \in SessionID /\ core.acknowledger \in NodeID
         /\ core.type = "Session" =>
              core.session_id \in SessionID /\ core.packet \in PlainPacket
BY DEF Core

(* An encryption has a core, a sequence of hops, and is not None.           *)
LEMMA EncryptionFields ==
  ASSUME NEW enc \in Encryption
  PROVE  enc.core \in Core /\ enc.hops \in Seq(Hop) /\ enc # None
BY NoneIsNoValue DEF Encryption

(* The handshake, acknowledgement and notification that a node builds are   *)
(* encryptions with no hop.                                                 *)
LEMMA EncryptionConstructors ==
  ASSUME NEW m \in NodeID, NEW n \in NodeID, NEW id \in SessionID
  PROVE  /\ Handshake(m, id, n) \in Encryption
         /\ Acknowledge(id, n) \in Encryption
         /\ Notify(m, n) \in Encryption
BY DEF Handshake, Acknowledge, Notify, Bare, Encryption, Core

(* wrap_session gives an encryption.  One that wraps a Traverse keeps the   *)
(* core of what is traversed; any other is held in a Session core.          *)
LEMMA WrapSessionKeepsCore ==
  ASSUME NEW id \in SessionID, NEW p \in NodePacket
  PROVE  /\ WrapSession(id, p) \in Encryption
         /\ p.type = "Traverse" => WrapSession(id, p).core = p.encryption.core
         /\ p.type # "Traverse" => /\ WrapSession(id, p).core.type = "Session"
                                   /\ WrapSession(id, p).core.packet = p
<1>1. CASE p.type = "Traverse"
  <2>1. /\ p.destination \in Coord /\ p.encryption \in Encryption
        /\ p.origin \in Coord
    BY <1>1, PacketFields
  <2> DEFINE hop == [session_id |-> id, destination |-> p.destination,
                     origin |-> p.origin]
  <2>2. hop \in Hop
    BY <2>1 DEF Hop
  <2>3. <<hop>> \o p.encryption.hops \in Seq(Hop)
    BY <2>1, <2>2, EncryptionFields
  <2>4. WrapSession(id, p) = [hops |-> <<hop>> \o p.encryption.hops,
                              core |-> p.encryption.core]
    BY <1>1 DEF WrapSession
  <2>5. QED
    BY <1>1, <2>1, <2>3, <2>4, EncryptionFields DEF Encryption
<1>2. CASE p.type # "Traverse"
  <2>1. p \in PlainPacket
    BY <1>2, PacketFields
  <2>2. [type |-> "Session", session_id |-> id, packet |-> p] \in Core
    BY <2>1 DEF Core
  <2>3. QED
    BY <1>2, <2>2 DEF WrapSession, Bare, Encryption
<1>3. QED
  BY <1>1, <1>2

(* What is unwrapped from a session's encryption is a node packet; if it is *)
(* a Traverse, what it carries has the same core, else the core holds it.   *)
LEMMA OuterPacketKeepsCore ==
  ASSUME NEW enc \in Encryption, IsSession(enc)
  PROVE  /\ OuterID(enc) \in SessionID
         /\ OuterPacket(enc) \in NodePacket
         /\ OuterPacket(enc).type = "Traverse" =>
              OuterPacket(enc).encryption.core = enc.core
         /\ OuterPacket(enc).type # "Traverse" =>
              enc.core.type = "Session" /\ OuterPacket(enc) = enc.core.packet
<1>1. CASE enc.hops # <<>>
  <2>1. enc.hops[1] \in Hop /\ Tail(enc.hops) \in Seq(Hop)
    BY <1>1, EncryptionFields
  <2>2. [hops |-> Tail(enc.hops), core |-> enc.core] \in Encryption
    BY <2>1, EncryptionFields DEF Encryption
  <2>3. QED
    BY <1>1, <2>1, <2>2, TraverseIsPacket
       DEF OuterID, OuterPacket, Hop, Traverse
<1>2. CASE enc.hops = <<>>
  <2>1. enc.core.type = "Session"
    BY <1>2 DEF IsSession
  <2>2. enc.core.session_id \in SessionID /\ enc.core.packet \in PlainPacket
    BY <2>1, EncryptionFields, CoreFields
  <2>3. QED
    BY <1>2, <2>1, <2>2, PlainPacketIsPacket DEF OuterID, OuterPacket
<1>3. QED
  BY <1>1, <1>2

-----------------------------------------------------------------------------
(* Internet packets and actions                                             *)

(* NodeEncryption::package gives an outgoing packet that carries it.        *)
LEMMA PackageIsOutgoing ==
  ASSUME NEW addr \in NetAddr, NEW enc \in Encryption
  PROVE  /\ Package(addr, enc) \in Outgoing
         /\ Package(addr, enc).encryption = enc
BY DEF Package, Outgoing

(* A request to the DHT is an outgoing packet without an encryption.        *)
LEMMA GenRequestIsOutgoing ==
  ASSUME NEW addr \in NetAddr, NEW request \in Request
  PROVE  /\ GenRequest(addr, request) \in Outgoing
         /\ GenRequest(addr, request).encryption = None
BY DEF GenRequest, Outgoing

(* The fields of a response of the DHT by its type.                         *)
LEMMA ResponseFields ==
  ASSUME NEW r \in Response
  PROVE  /\ r # None
         /\ r.type = "RouteCoordDHTReadResponse" =>
              r.id \in NodeID /\ r.coord \in MaybeCoord
BY NoneIsNoValue DEF Response

(* The fields of a NodeAction by its type; an awaitable one stays an action *)
(* with its condition put on or taken off.                                  *)
LEMMA ActionFields ==
  ASSUME NEW a \in Action
  PROVE  /\ a.type \in {"Bootstrap", "Connect"} =>
              a.id \in NodeID /\ a.addr \in NetAddr
         /\ a.type = "UpdateRemote" =>
              a.id \in NodeID /\ a.coord \in MaybeCoord /\ a.count \in Nat
         /\ a.type \in {"RequestRouteCoord", "SendData"} => a.id \in NodeID
         /\ a.type \in Awaitable =>
              /\ a.id \in NodeID
              /\ \A w \in BOOLEAN : [a EXCEPT !.waits = w] \in Action
BY DEF Action, Awaitable

(* The actions that handlers and other actions list are actions.            *)
LEMMA ActionConstructors ==
  /\ \A id \in NodeID, coord \in MaybeCoord, count \in Nat :
       UpdateRemote(id, coord, count) \in Action
  /\ \A id \in NodeID, addr \in NetAddr :
       [type |-> "Connect", id |-> id, addr |-> addr] \in Action
  /\ \A id \in NodeID, type \in Awaitable : Await(type, id) \in Action
  /\ \A id \in NodeID : RequestRouteCoord(id) \in Action
  /\ Simple("CalcRouteCoord") \in Action
  /\ Simple("CalculatePeers") \in Action
BY DEF Action, UpdateRemote, Await, RequestRouteCoord, Simple

-----------------------------------------------------------------------------
(* The invariant                                                            *)

(* The inductive invariant, for the node n that ticks.  direct_sorted is    *)
(* finite, so its size is a number; the sender of a packet still to parse   *)
(* has a session; and a time compared with the clock is not after it, so a  *)
(* distance is a natural number.                                            *)
FiniteTests == \A a \in NetAddr : IsFiniteSet(direct_sorted[a])

Named(a, m) ==
  \/ sessions[a][m] # None
  \/ peer_list[a][m] # None
  \/ \E e \in direct_sorted[a] : e[2] = m
NamedHaveSession ==
  \A a \in NetAddr, m \in NodeID : Named(a, m) => session[a][m] # None

TimesInPast ==
  \A a \in NetAddr, m \in NodeID :
    /\ pending_session[a][m] # None => pending_session[a][m].sent <= ticks[a]
    /\ session[a][m] # None =>
         (session[a][m].ping_sent # None =>
            session[a][m].ping_sent <= ticks[a])

SendersHaveSession(n) ==
  \A i \in DOMAIN work : session[n][work[i].from] # None

TypeInv(n) ==
  /\ NodeTypeOK /\ StackTypeOK
  /\ FiniteTests /\ NamedHaveSession /\ TimesInPast /\ SendersHaveSession(n)

-----------------------------------------------------------------------------
(* Sending                                                                  *)

SelfType ==
  [coord : MaybeCoord, peers : [NodeID -> MaybeCoord],
   session : [NodeID -> Session \cup {None}]]

(* A packet made from an encryption, or none.                               *)
Carries(p, core) ==
  \/ p = None
  \/ p \in Outgoing /\ p.encryption \in Encryption /\ p.encryption.core = core

(* What sending reads of a node is well typed.                              *)
LEMMA SelfTypes ==
  ASSUME NodeTypeOK, NEW n \in NetAddr
  PROVE  Self(n) \in SelfType
BY DEF NodeTypeOK, Self, SelfType

(* RemoteSession::gen_packet keeps the core of what it is given, wrapped or *)
(* not.                                                                     *)
LEMMA GenPacketKeepsCore ==
  ASSUME NEW self \in SelfType, NEW s \in Session, NEW enc \in Encryption,
         NEW p \in GenPacket(self, s, enc)
  PROVE  Carries(p, enc.core)
<1>1. CASE IsDirect(s)
  BY <1>1, SessionTypeFields, PackageIsOutgoing DEF GenPacket, Carries
<1>2. CASE ~IsDirect(s)
  <2> DEFINE to == s.session_type.route_coord
             via == ClosestPeers(self.peers, to)
             Through(q) ==
               IF IsDirect(self.session[q]) /\ self.coord # None
                 THEN Package(self.session[q].session_type.net_addr,
                        WrapSession(self.session[q].session_id,
                                    Traverse(to, enc, self.coord)))
                 ELSE None
  <2>1. to \in Coord
    BY <1>2, SessionTypeFields
  <2>2. ASSUME NEW q \in NodeID, IsDirect(self.session[q]),
               self.coord # None
        PROVE  Carries(Through(q), enc.core)
    <3>1. self.session[q] \in Session
      BY <2>2 DEF SelfType, IsDirect
    <3>2. self.coord \in Coord
      BY <2>2 DEF SelfType, MaybeCoord
    <3>3. self.session[q].session_id \in SessionID
          /\ self.session[q].session_type.net_addr \in NetAddr
      BY <2>2, <3>1, SessionTypeFields
    <3> DEFINE traverse == Traverse(to, enc, self.coord)
               wrapped == WrapSession(self.session[q].session_id, traverse)
    <3>4. traverse \in NodePacket /\ traverse.type = "Traverse"
          /\ traverse.encryption = enc
      BY <2>1, <3>2, TraverseIsPacket
    <3>5. wrapped \in Encryption /\ wrapped.core = enc.core
      BY <3>3, <3>4, WrapSessionKeepsCore
    <3>6. QED
      BY <2>2, <3>3, <3>5, PackageIsOutgoing DEF Carries
  <2>3. p = None \/ \E q \in via : p = Through(q)
    BY <1>2 DEF GenPacket
  <2>4. via \subseteq NodeID
    BY DEF ClosestPeers
  <2>5. QED
    BY <2>2, <2>3, <2>4 DEF Carries
<1>3. QED
  BY <1>1, <1>2

(* What a node packet is sent in: its own core, if it is a Traverse, or a   *)
(* Session core that holds it.                                              *)
Sent(p, packet) ==
  \/ p = None
  \/ /\ p \in Outgoing /\ p.encryption \in Encryption
     /\ IF packet.type = "Traverse"
          THEN p.encryption.core = packet.encryption.core
          ELSE /\ p.encryption.core.type = "Session"
               /\ p.encryption.core.packet = packet

(* Node::send_packet wraps a Traverse in more layers and anything else in a *)
(* session: what it emits has the core of the former, or holds the latter.  *)
LEMMA SendPacketKeepsCore ==
  ASSUME NEW self \in SelfType, NEW m \in NodeID, NEW packet \in NodePacket,
         NEW p \in SendPacket(self, m, packet)
  PROVE  Sent(p, packet)
<1>1. CASE self.session[m] = None
  BY <1>1 DEF SendPacket, Sent
<1>2. CASE self.session[m] # None
  <2> DEFINE s == self.session[m]
             wrapped == WrapSession(s.session_id, packet)
  <2>1. s \in Session /\ s.session_id \in SessionID
    BY <1>2, SessionTypeFields DEF SelfType
  <2>2. /\ wrapped \in Encryption
        /\ packet.type = "Traverse" => wrapped.core = packet.encryption.core
        /\ packet.type # "Traverse" => /\ wrapped.core.type = "Session"
                                       /\ wrapped.core.packet = packet
    BY <2>1, WrapSessionKeepsCore
  <2>3. p \in GenPacket(self, s, wrapped)
    BY <1>2 DEF SendPacket
  <2>4. Carries(p, wrapped.core)
    BY <2>1, <2>2, <2>3, GenPacketKeepsCore
  <2>5. QED
    BY <2>2, <2>4 DEF Carries, Sent
<1>3. QED
  BY <1>1, <1>2

(* Sending entry by entry gives packets that were each sent; none of these  *)
(* is the first of a connection.                                            *)
Later == {p \in PlainPacket : p.type # "ConnectionInit"}
Entry == Int \X [to : NodeID, at : Nat, packet : Later]
Tunnelled(p) ==
  /\ p \in Outgoing /\ p.encryption \in Encryption
  /\ p.encryption.core.type = "Session"
  /\ p.encryption.core.packet \in Later

(* Packets sent in a loop (RequestPings, CalculatePeers) are all outgoing   *)
(* packets with a session's core.                                           *)
LEMMA SendAllKeepsCores ==
  ASSUME NEW self \in SelfType, NEW k \in Nat, NEW entries \in [1 .. k -> Entry],
         NEW sent \in SendAll(self, entries)
  PROVE  /\ sent.packets \in Seq(Outgoing) /\ sent.ok \in BOOLEAN
         /\ \A i \in DOMAIN sent.packets : Tunnelled(sent.packets[i])
<1> DEFINE Results ==
             {r \in [DOMAIN entries ->
                       UNION {SendPacket(self, entries[i][2].to,
                                         entries[i][2].packet)
                              : i \in DOMAIN entries}] :
                \A i \in DOMAIN entries :
                  r[i] \in SendPacket(self, entries[i][2].to,
                                      entries[i][2].packet)}
           Stops(r) == {j \in 0 .. Len(entries) :
                          /\ \A i \in 1 .. j : r[i] # None
                          /\ j < Len(entries) => r[j + 1] = None}
<1>0. PICK r \in Results : \E j \in Stops(r) :
        sent = [packets |-> SubSeq(r, 1, j), ok |-> j = Len(entries)]
  <2> HIDE DEF Results, Stops
  <2>1. sent \in UNION {{[packets |-> SubSeq(r, 1, j), ok |-> j = Len(entries)]
                         : j \in Stops(r)} : r \in Results}
    BY DEF SendAll, Results, Stops
  <2>2. QED
    BY <2>1
<1>1. PICK j \in Stops(r) :
        sent = [packets |-> SubSeq(r, 1, j), ok |-> j = Len(entries)]
  BY <1>0
<1>2. Len(entries) = k /\ DOMAIN entries = 1 .. k
  OBVIOUS
<1>3. ASSUME NEW i \in 1 .. j
      PROVE  Tunnelled(r[i])
  <2>1. i \in 1 .. k /\ r[i] # None
    BY <1>1, <1>2
  <2>2. r[i] \in SendPacket(self, entries[i][2].to, entries[i][2].packet)
    BY <1>1, <1>2, <2>1
  <2>3. entries[i][2].to \in NodeID /\ entries[i][2].packet \in Later
    BY <2>1 DEF Entry
  <2>4. /\ Sent(r[i], entries[i][2].packet)
        /\ entries[i][2].packet.type # "Traverse"
    BY <2>2, <2>3, PlainPacketIsPacket, SendPacketKeepsCore DEF Later
  <2>5. QED
    BY <2>1, <2>3, <2>4 DEF Sent, Tunnelled
<1>4. /\ SubSeq(r, 1, j) \in Seq(Outgoing)
      /\ Len(SubSeq(r, 1, j)) = j
      /\ \A i \in 1 .. j : SubSeq(r, 1, j)[i] = r[i]
  <2>1. j \in Nat
    BY <1>1, <1>2
  <2>2. \A i \in 1 .. j : r[i] \in Outgoing
    BY <1>3 DEF Tunnelled
  <2> HIDE DEF Results, Stops
  <2>3. QED
    BY <2>1, <2>2, SubSeqProperties
<1>5. QED
  BY <1>1, <1>3, <1>4

-----------------------------------------------------------------------------
(* Updates shared by the handlers                                           *)

Work == [from : NodeID, packet : NodePacket]

(* Outgoing packets stay well typed as one is added.                        *)
LEMMA EmitTypes ==
  ASSUME StackTypeOK, NEW p \in Outgoing \cup {None}, Emit(p)
  PROVE  outgoing' \in Seq(Outgoing)
BY AppendProperties DEF StackTypeOK, Emit

(* So does the action list as Node::action adds to it.                      *)
LEMMA PushActionTypes ==
  ASSUME NodeTypeOK, NEW n \in NetAddr, NEW a \in Action, PushAction(n, a)
  PROVE  action_list' \in [NetAddr -> Seq(Action)]
<1>1. Append(action_list[n], a) \in Seq(Action)
  BY AppendProperties DEF NodeTypeOK
<1>2. QED
  BY <1>1 DEF NodeTypeOK, PushAction

(* An entry of work names its sender and holds a node packet.               *)
LEMMA WorkTypes ==
  ASSUME StackTypeOK
  PROVE  \A i \in DOMAIN work :
           work[i].from \in NodeID /\ work[i].packet \in NodePacket
<1>1. work \in Seq(Work)
  BY DEF StackTypeOK, Work
<1>2. work \in [1 .. Len(work) -> Work]
  BY <1>1, LenProperties
<1>3. QED
  BY <1>2 DEF Work

(* A handler's end leaves a tail of work, or nothing.                       *)
LEMMA EndTypes ==
  ASSUME StackTypeOK, work # <<>>, NEW ok \in BOOLEAN, End(ok)
  PROVE  /\ work' \in Seq(Work) /\ rx' = rx
         /\ \A i \in DOMAIN work' : \E j \in DOMAIN work : work'[i] = work[j]
<1>1. work \in Seq(Work)
  BY DEF StackTypeOK, Work
<1>2. CASE ok
  BY <1>1, <1>2, HeadTailProperties, LenProperties DEF End
<1>3. CASE ~ok
  BY <1>3 DEF End
<1>4. QED
  BY <1>2, <1>3

(* An update of sessions that adds none, drops none and sets no ping.       *)
SessionsKept ==
  /\ session' \in [NetAddr -> [NodeID -> Session \cup {None}]]
  /\ \A a \in NetAddr, m \in NodeID :
       IF session[a][m] = None
         THEN session'[a][m] = None
         ELSE /\ session'[a][m] # None
              /\ session'[a][m].ping_sent \in {None, session[a][m].ping_sent}

(* check_packet_time notes the arrival in the session and nothing else.     *)
LEMMA ReceivedKeepsSessions ==
  ASSUME NodeTypeOK, NEW n \in NetAddr, NEW m \in NodeID,
         NEW type \in Limited, session[n][m] # None, Received(n, m, type)
  PROVE  SessionsKept
<1> DEFINE s == session[n][m]
           t == [s EXCEPT !.last[type] = ticks[n]]
<1>1. s \in Session /\ ticks[n] \in Nat
  BY DEF NodeTypeOK
<1>2. t \in Session /\ t.ping_sent = s.ping_sent
  BY <1>1 DEF Session
<1>3. session' = [session EXCEPT ![n][m] = t]
  BY DEF Received
<1> HIDE DEF s, t
<1>4. QED
  BY <1>1, <1>2, <1>3, NoneIsNoValue DEF NodeTypeOK, SessionsKept, s

(* set_peer and record_peer_notify keep a session a session, and its ping.  *)
LEMMA SetPeerKeepsSession ==
  ASSUME NEW s \in Session, IsDirect(s),
         NEW flag \in {"Outgoing", "Incoming"}, NEW toggle \in BOOLEAN
  PROVE  /\ SetPeer(s, flag, toggle) \in Session
         /\ SetPeer(s, flag, toggle).ping_sent = s.ping_sent
BY SessionTypeFields DEF SetPeer, Session, SessionType, IsDirect

(* Untouched sessions are kept.                                             *)
LEMMA UnchangedSessionsKept ==
  ASSUME NodeTypeOK, UNCHANGED session
  PROVE  SessionsKept
BY NoneIsNoValue DEF NodeTypeOK, SessionsKept

(* What is left to show of a handler that keeps sessions, pending sessions  *)
(* and tables.                                                              *)
LEMMA KeptSessionsKeepTypes ==
  ASSUME NEW n \in NetAddr, TypeInv(n), SessionsKept,
         UNCHANGED <<ticks, pending_session, sessions, direct_sorted,
                     peer_list>>,
         NodeTypeOK', StackTypeOK',
         \A i \in DOMAIN work' : \E j \in DOMAIN work : work'[i] = work[j]
  PROVE  TypeInv(n)'
<1> USE DEF TypeInv
<1>1. FiniteTests' /\ NamedHaveSession' /\ TimesInPast'
  BY DEF FiniteTests, NamedHaveSession, Named, TimesInPast, SessionsKept
<1>2. SendersHaveSession(n)'
  BY WorkTypes DEF SendersHaveSession, SessionsKept
<1>3. QED
  BY <1>1, <1>2

(* What the two tables name after an insertion.                             *)
LEMMA InsertDirectTypes ==
  ASSUME NodeTypeOK, FiniteTests, NEW n \in NetAddr, NEW d \in Nat,
         NEW m \in NodeID, InsertDirect(n, d, m)
  PROVE  /\ direct_sorted' \in [NetAddr -> SUBSET (Nat \X NodeID)]
         /\ FiniteTests'
         /\ \A a \in NetAddr, k \in NodeID :
              (\E e \in direct_sorted'[a] : e[2] = k) =>
                 (\E e \in direct_sorted[a] : e[2] = k) \/ (a = n /\ k = m)
<1> DEFINE kept == {e \in direct_sorted[n] : e[1] # d}
           D == kept \cup {<<d, m>>}
<1>1. direct_sorted' = [direct_sorted EXCEPT ![n] = D]
  BY DEF InsertDirect
<1>2. D \subseteq Nat \X NodeID /\ kept \subseteq direct_sorted[n]
  BY DEF NodeTypeOK
<1>3. IsFiniteSet(D)
  BY <1>2, FS_Subset, FS_AddElement DEF FiniteTests
<1>4. \A e \in D : e \in direct_sorted[n] \/ e[2] = m
  OBVIOUS
<1> HIDE DEF D
<1>5. QED
  BY <1>1, <1>2, <1>3, <1>4 DEF NodeTypeOK, FiniteTests

(* BiHashMap::insert indexes no remote but the one it is given.             *)
LEMMA InsertSessionTypes ==
  ASSUME NodeTypeOK, NEW n \in NetAddr, NEW m \in NodeID,
         NEW id \in SessionID, InsertSession(n, m, id)
  PROVE  /\ sessions' \in [NetAddr -> [NodeID -> SessionID \cup {None}]]
         /\ \A a \in NetAddr, k \in NodeID :
              sessions'[a][k] # None =>
                 sessions[a][k] # None \/ (a = n /\ k = m)
<1> DEFINE I == [k \in NodeID |-> IF k = m THEN id
                                  ELSE IF sessions[n][k] = id THEN None
                                  ELSE sessions[n][k]]
<1>1. sessions' = [sessions EXCEPT ![n] = I]
  BY DEF InsertSession
<1>2. /\ I \in [NodeID -> SessionID \cup {None}]
      /\ \A k \in NodeID : I[k] # None => sessions[n][k] # None \/ k = m
  BY DEF NodeTypeOK
<1> HIDE DEF I
<1>3. QED
  BY <1>1, <1>2 DEF NodeTypeOK

(* What is left to show of a handler that sets the session of m.            *)
LEMMA SetSessionKeepsTypes ==
  ASSUME NEW n \in NetAddr, TypeInv(n), NEW m \in NodeID, NEW s \in Session,
         s.ping_sent \in {None, ticks[n]},
         session' = [session EXCEPT ![n][m] = s],
         \A a \in NetAddr, k \in NodeID : \/ Named(a, k)' => Named(a, k)
                                          \/ a = n /\ k = m,
         \A a \in NetAddr, k \in NodeID :
           pending_session'[a][k] \in {None, pending_session[a][k]},
         UNCHANGED <<ticks, work>>,
         NodeTypeOK', StackTypeOK', FiniteTests'
  PROVE  TypeInv(n)'
<1> USE DEF TypeInv
<1>1. s # None /\ ticks[n] \in Nat
  BY NoneIsNoValue DEF NodeTypeOK
<1>2. \A a \in NetAddr, k \in NodeID :
        session'[a][k] = IF a = n /\ k = m THEN s ELSE session[a][k]
  BY DEF NodeTypeOK
<1>3. NamedHaveSession'
  BY <1>1, <1>2 DEF NamedHaveSession
<1>4. TimesInPast'
  BY <1>1, <1>2 DEF TimesInPast
<1>5. SendersHaveSession(n)'
  BY <1>1, <1>2, WorkTypes DEF SendersHaveSession
<1>6. QED
  BY <1>3, <1>4, <1>5

(* The sizes a node tells others of are numbers.                            *)
LEMMA CountTypes ==
  ASSUME NodeTypeOK, FiniteTests, NEW n \in NetAddr
  PROVE  /\ Cardinality(direct_sorted[n]) \in Nat
         /\ Cardinality(remotes[n]) \in Nat
<1>1. IsFiniteSet(remotes[n])
  BY FS_Subset, NodeIDAssumption DEF NodeTypeOK
<1>2. QED
  BY <1>1, FS_CardinalityType DEF FiniteTests

USE DEF selfVars, remoteVars, tableVars, routeVars, runVars, mintVars

-----------------------------------------------------------------------------
(* Packets                                                                  *)

(* A DHT response changes no session, and stores a found coordinate only.   *)
LEMMA ParseResponseKeepsTypes ==
  ASSUME NEW n \in NetAddr, TypeInv(n), node_id[n] \in NodeID, ParseResponse(n)
  PROVE  TypeInv(n)'
<1> USE DEF TypeInv
<1>1. rx \in Arrived /\ rx.request \in Response
  BY DEF ParseResponse, StackTypeOK, Arrived
<1>2. /\ remotes' \in [NetAddr -> SUBSET NodeID]
      /\ remote_coord' \in [NetAddr -> [NodeID -> MaybeCoord]]
  <2> DEFINE r == rx.request
             c == IF remote_coord[n][r.id] = None THEN r.coord
                                                  ELSE remote_coord[n][r.id]
  <2>1. CASE r.type = "RouteCoordDHTReadResponse" /\ r.coord # None
    <3>1. r.id \in NodeID /\ r.coord \in MaybeCoord
      BY <1>1, <2>1, ResponseFields
    <3>2. c \in MaybeCoord
      BY <3>1 DEF NodeTypeOK
    <3>3. /\ remotes' = [remotes EXCEPT ![n] = @ \cup {r.id}]
          /\ remote_coord' = [remote_coord EXCEPT ![n][r.id] = c]
      BY <2>1 DEF ParseResponse, AddRemote
    <3> HIDE DEF r, c
    <3>4. QED
      BY <3>1, <3>2, <3>3 DEF NodeTypeOK
  <2>2. CASE ~(r.type = "RouteCoordDHTReadResponse" /\ r.coord # None)
    BY <2>2 DEF ParseResponse, NodeTypeOK
  <2>3. QED
    BY <2>1, <2>2
<1>3. NodeTypeOK' /\ StackTypeOK'
  BY <1>2 DEF ParseResponse, NodeTypeOK, StackTypeOK
<1>4. /\ FiniteTests' /\ NamedHaveSession' /\ TimesInPast'
      /\ SendersHaveSession(n)'
  BY DEF ParseResponse, FiniteTests, NamedHaveSession, Named, TimesInPast,
         SendersHaveSession
<1>5. QED
  BY <1>3, <1>4

(* The packet in rx.                                                        *)
LEMMA ParsingFields ==
  ASSUME StackTypeOK, rx # None, rx.request = None
  PROVE  /\ rx.encryption \in Encryption /\ rx.via \in SessionType
         /\ rx.encryption.core \in Core
<1>1. rx \in Arrived
  BY DEF StackTypeOK
<1>2. rx.encryption \in Encryption /\ rx.via \in SessionType
  BY <1>1, ResponseFields DEF Arrived
<1>3. QED
  BY <1>2, EncryptionFields

(* The session that a handshake sets up comes with its index entry, and its *)
(* ping is sent now.                                                        *)
LEMMA ParseHandshakeKeepsTypes ==
  ASSUME NEW n \in NetAddr, TypeInv(n), node_id[n] \in NodeID, ParseHandshake(n)
  PROVE  TypeInv(n)'
<1> USE DEF TypeInv
<1> DEFINE c == rx.encryption.core
           s == NewSession(c.session_id, rx.via, ticks[n])
           m == c.signer
           ack == Acknowledge(c.session_id, node_id[n])
<1>1. Parsing("Handshake")
  BY DEF ParseHandshake
<1>2. /\ c.session_id \in SessionID /\ m \in NodeID /\ rx.via \in SessionType
  BY <1>1, ParsingFields, CoreFields DEF Parsing
<1>3. UNCHANGED <<node_id, deus_ex_data, ticks, remote_coord, direct_sorted,
                  route_coord, public_route, peer_list, action_list, work,
                  queue, new_actions, minted, panicked>>
      /\ rx' = None
  BY DEF ParseHandshake, Parsed
<1>4. ticks[n] \in Nat /\ s \in Session /\ s.ping_sent = ticks[n]
  BY <1>2, NewSessionIsSession DEF NodeTypeOK, NewSession
<1>5. CASE ~IsRecipient(n, c)
             /\ UNCHANGED <<remotes, pending_session, session, sessions,
                            outgoing>>
  <2>1. NodeTypeOK' /\ StackTypeOK'
    BY <1>3, <1>5 DEF NodeTypeOK, StackTypeOK
  <2>2. QED
    BY <1>3, <1>5, <2>1, UnchangedSessionsKept, KeptSessionsKeepTypes
<1>6. CASE IsRecipient(n, c)
  <2>1. PICK p \in GenPacket(Self(n), s, ack) :
          /\ Emit(p)
          /\ IF p = None
               THEN UNCHANGED <<session, sessions>>
               ELSE /\ session' = [session EXCEPT ![n][m] = s]
                    /\ InsertSession(n, m, c.session_id)
    BY <1>6 DEF ParseHandshake
  <2>2. /\ remotes' = [remotes EXCEPT ![n] = @ \cup {m}]
        /\ pending_session' = [pending_session EXCEPT ![n][m] =
                                  YieldPending(n, m)]
    BY <1>6 DEF ParseHandshake, AddRemote
  <2>3. ack \in Encryption
    BY <1>2, EncryptionConstructors
  <2> HIDE DEF c, s, m, ack
  <2>4. outgoing' \in Seq(Outgoing)
    BY <1>4, <2>1, <2>3, SelfTypes, GenPacketKeepsCore, EmitTypes DEF Carries
  <2>5. /\ remotes' \in [NetAddr -> SUBSET NodeID]
        /\ pending_session' \in
             [NetAddr -> [NodeID -> PendingSession \cup {None}]]
        /\ \A a \in NetAddr, k \in NodeID :
             pending_session'[a][k] \in {None, pending_session[a][k]}
    BY <1>2, <2>2 DEF NodeTypeOK, YieldPending
  <2>6. CASE p = None
    <3>1. NodeTypeOK' /\ StackTypeOK'
      BY <1>3, <2>1, <2>4, <2>5, <2>6 DEF NodeTypeOK, StackTypeOK
    <3>2. FiniteTests' /\ NamedHaveSession' /\ SendersHaveSession(n)'
      BY <1>3, <2>1, <2>6
         DEF FiniteTests, NamedHaveSession, Named, SendersHaveSession
    <3>3. TimesInPast'
      BY <1>3, <2>1, <2>5, <2>6 DEF TimesInPast
    <3>4. QED
      BY <3>1, <3>2, <3>3
  <2>7. CASE p # None
    <3>1. session' = [session EXCEPT ![n][m] = s]
          /\ InsertSession(n, m, c.session_id)
      BY <2>1, <2>7
    <3>2. session' \in [NetAddr -> [NodeID -> Session \cup {None}]]
      BY <1>2, <1>4, <3>1 DEF NodeTypeOK
    <3>3. /\ sessions' \in [NetAddr -> [NodeID -> SessionID \cup {None}]]
          /\ \A a \in NetAddr, k \in NodeID :
               sessions'[a][k] # None =>
                  sessions[a][k] # None \/ (a = n /\ k = m)
      BY <1>2, <3>1, InsertSessionTypes
    <3>4. NodeTypeOK' /\ StackTypeOK'
      BY <1>3, <2>4, <2>5, <3>2, <3>3 DEF NodeTypeOK, StackTypeOK
    <3>5. \A a \in NetAddr, k \in NodeID :
            (Named(a, k)' => Named(a, k)) \/ (a = n /\ k = m)
      BY <1>3, <3>3 DEF Named
    <3>6. FiniteTests'
      BY <1>3 DEF FiniteTests
    <3>7. QED
      BY <1>2, <1>3, <1>4, <2>5, <3>1, <3>4, <3>5, <3>6, SetSessionKeepsTypes
  <2>8. QED
    BY <2>6, <2>7
<1>7. QED
  BY <1>5, <1>6 DEF ParseHandshake

(* An acknowledged remote has a session before it is indexed and tested,    *)
(* and its distance is not negative, the pending session being no younger   *)
(* than the clock.                                                          *)
LEMMA ParseAcknowledgeKeepsTypes ==
  ASSUME NEW n \in NetAddr, TypeInv(n), ParseAcknowledge(n)
  PROVE  TypeInv(n)'
<1> USE DEF TypeInv
<1> DEFINE c == rx.encryption.core
           m == c.acknowledger
           p == pending_session[n][m]
           new == NewSession(c.session_id, p.session_type, None)
           s == [session[n] EXCEPT ![m] = new]
           packets == UpdateConnectionPackets(n, p.packets)
           first == ConnectionInit(c.session_id, packets)
           d == Distance(ticks[n], p.sent)
<1>1. Parsing("Acknowledge")
  BY DEF ParseAcknowledge
<1>2. c.session_id \in SessionID /\ m \in NodeID
  BY <1>1, ParsingFields, CoreFields DEF Parsing
<1>3. UNCHANGED <<node_id, deus_ex_data, ticks, remotes, remote_coord,
                  route_coord, public_route, peer_list, action_list, work,
                  queue, new_actions, minted, panicked>>
      /\ rx' = None
      /\ pending_session' = [pending_session EXCEPT ![n][m] = None]
  BY DEF ParseAcknowledge, Parsed
<1>4. /\ pending_session' \in
            [NetAddr -> [NodeID -> PendingSession \cup {None}]]
      /\ \A a \in NetAddr, k \in NodeID :
           pending_session'[a][k] \in {None, pending_session[a][k]}
  BY <1>2, <1>3 DEF NodeTypeOK
<1>5. CASE UNCHANGED <<session, tableVars, outgoing>>
  <2>1. NodeTypeOK' /\ StackTypeOK'
    BY <1>3, <1>4, <1>5 DEF NodeTypeOK, StackTypeOK
  <2>2. FiniteTests' /\ NamedHaveSession' /\ SendersHaveSession(n)'
    BY <1>3, <1>5
       DEF FiniteTests, NamedHaveSession, Named, SendersHaveSession
  <2>3. TimesInPast'
    BY <1>3, <1>4, <1>5 DEF TimesInPast
  <2>4. QED
    BY <2>1, <2>2, <2>3
<1>6. CASE /\ IF p = None THEN FALSE ELSE p.session_id = c.session_id
           /\ session' = [session EXCEPT ![n] = s]
           /\ \E init \in SendPacket([Self(n) EXCEPT !.session = s], m, first) :
                /\ Emit(init)
                /\ IF init = None
                     THEN UNCHANGED tableVars
                     ELSE InsertSession(n, m, c.session_id)
                          /\ InsertDirect(n, d, m)
  <2>1. p \in PendingSession /\ p # None
    BY <1>2, <1>6 DEF NodeTypeOK
  <2>2. /\ new \in Session /\ new.ping_sent = None
        /\ s \in [NodeID -> Session \cup {None}]
        /\ session' = [session EXCEPT ![n][m] = new]
    BY <1>2, <1>6, <2>1, NewSessionIsSession
       DEF PendingSession, NodeTypeOK, NewSession
  <2>3. first \in NodePacket /\ first.type # "Traverse"
    <3>1. p.packets \in Seq(InitialPacket)
      BY <2>1 DEF PendingSession
    <3>2. DOMAIN p.packets = 1 .. Len(p.packets) /\ Len(p.packets) \in Nat
          /\ p.packets \in [1 .. Len(p.packets) -> InitialPacket]
      BY <3>1, LenProperties
    <3>3. ExchangeInfo(route_coord[n], Cardinality(remotes[n])) \in InitialPacket
      BY CountTypes, PacketConstructors DEF NodeTypeOK
    <3>4. packets \in [1 .. Len(p.packets) -> InitialPacket]
      BY <3>2, <3>3 DEF UpdateConnectionPackets
    <3> HIDE DEF packets, p
    <3>5. packets \in Seq(InitialPacket)
      BY <3>2, <3>4
    <3>6. QED
      BY <1>2, <3>5, PacketConstructors, PlainPacketIsPacket
  <2>4. d \in Nat
    <3>1. ticks[n] \in Nat /\ p.sent \in Nat /\ p.sent <= ticks[n]
      BY <1>2, <2>1 DEF NodeTypeOK, TimesInPast, PendingSession
    <3>2. QED
      BY <3>1 DEF Distance
  <2>5. PICK init \in SendPacket([Self(n) EXCEPT !.session = s], m, first) :
          /\ Emit(init)
          /\ IF init = None
               THEN UNCHANGED tableVars
               ELSE InsertSession(n, m, c.session_id) /\ InsertDirect(n, d, m)
    BY <1>6
  <2>6. [Self(n) EXCEPT !.session = s] \in SelfType
    BY <2>2, SelfTypes DEF SelfType
  <2> HIDE DEF c, m, p, new, s, packets, first, d
  <2>7. outgoing' \in Seq(Outgoing)
    BY <1>2, <2>3, <2>5, <2>6, SendPacketKeepsCore, EmitTypes DEF Sent
  <2>8. /\ sessions' \in [NetAddr -> [NodeID -> SessionID \cup {None}]]
        /\ direct_sorted' \in [NetAddr -> SUBSET (Nat \X NodeID)]
        /\ FiniteTests'
        /\ \A a \in NetAddr, k \in NodeID :
             (Named(a, k)' => Named(a, k)) \/ (a = n /\ k = m)
    <3>1. CASE init = None
      BY <1>3, <2>5, <3>1 DEF NodeTypeOK, FiniteTests, Named
    <3>2. CASE init # None
      <4>1. InsertSession(n, m, c.session_id) /\ InsertDirect(n, d, m)
        BY <2>5, <3>2
      <4>2. /\ sessions' \in [NetAddr -> [NodeID -> SessionID \cup {None}]]
            /\ \A a \in NetAddr, k \in NodeID :
                 sessions'[a][k] # None =>
                    sessions[a][k] # None \/ (a = n /\ k = m)
        BY <1>2, <4>1, InsertSessionTypes
      <4>3. /\ direct_sorted' \in [NetAddr -> SUBSET (Nat \X NodeID)]
            /\ FiniteTests'
            /\ \A a \in NetAddr, k \in NodeID :
                 (\E e \in direct_sorted'[a] : e[2] = k) =>
                    (\E e \in direct_sorted[a] : e[2] = k)
                      \/ (a = n /\ k = m)
        BY <1>2, <2>4, <4>1, InsertDirectTypes
      <4>4. QED
        BY <1>3, <4>2, <4>3 DEF Named
    <3>3. QED
      BY <3>1, <3>2
  <2>9. session' \in [NetAddr -> [NodeID -> Session \cup {None}]]
    BY <1>2, <2>2 DEF NodeTypeOK
  <2>10. NodeTypeOK' /\ StackTypeOK'
    BY <1>3, <1>4, <2>7, <2>8, <2>9 DEF NodeTypeOK, StackTypeOK
  <2>11. QED
    BY <1>2, <1>3, <1>4, <2>2, <2>8, <2>10, SetSessionKeepsTypes
<1>7. QED
  BY <1>5, <1>6 DEF ParseAcknowledge

(* A packet is handed on only from an indexed remote, which has a session.  *)
LEMMA ParseSessionKeepsTypes ==
  ASSUME NEW n \in NetAddr, TypeInv(n), ParseSession(n)
  PROVE  TypeInv(n)'
<1> USE DEF TypeInv
<1> DEFINE enc == rx.encryption
           from == {m \in NodeID : sessions[n][m] = OuterID(enc)}
<1>1. enc \in Encryption /\ IsSession(enc)
  BY ParsingFields DEF ParseSession
<1>2. /\ OuterID(enc) \in SessionID /\ OuterID(enc) # None
      /\ OuterPacket(enc) \in NodePacket
  BY <1>1, OuterPacketKeepsCore, NoneIsNoValue DEF SessionID
<1>3. /\ work' \in Seq(Work)
      /\ \A i \in DOMAIN work' : session[n][work'[i].from] # None
  <2>1. CASE work' = <<>>
    BY <2>1
  <2>2. CASE \E m \in from : work' = <<[from |-> m, packet |-> OuterPacket(enc)]>>
    <3>1. PICK m \in from : work' = <<[from |-> m, packet |-> OuterPacket(enc)]>>
      BY <2>2
    <3>2. session[n][m] # None
      BY <1>2, <3>1 DEF NamedHaveSession, Named
    <3>3. [from |-> m, packet |-> OuterPacket(enc)] \in Work
      BY <1>2, <3>1 DEF Work
    <3>4. QED
      BY <3>1, <3>2, <3>3
  <2>3. QED
    BY <2>1, <2>2 DEF ParseSession
<1>4. NodeTypeOK' /\ StackTypeOK'
  BY <1>3 DEF ParseSession, NodeTypeOK, StackTypeOK, Work
<1>5. FiniteTests' /\ NamedHaveSession' /\ TimesInPast'
  BY DEF ParseSession, FiniteTests, NamedHaveSession, Named, TimesInPast
<1>6. SendersHaveSession(n)'
  BY <1>3 DEF ParseSession, SendersHaveSession
<1>7. QED
  BY <1>4, <1>5, <1>6

(* A Notify changes nothing but that the program has ended.                 *)
LEMMA ParseNotifyKeepsTypes ==
  ASSUME NEW n \in NetAddr, TypeInv(n), ParseNotify(n)
  PROVE  TypeInv(n)'
<1> USE DEF TypeInv
<1>1. NodeTypeOK' /\ StackTypeOK'
  BY DEF ParseNotify, NodeTypeOK, StackTypeOK
<1>2. QED
  BY <1>1, UnchangedSessionsKept, KeptSessionsKeepTypes DEF ParseNotify

(* Parsing a packet keeps the types.                                        *)
LEMMA ParseKeepsTypes ==
  ASSUME NEW n \in NetAddr, TypeInv(n), node_id[n] \in NodeID, Parse(n)
  PROVE  TypeInv(n)'
BY ParseResponseKeepsTypes, ParseHandshakeKeepsTypes,
   ParseAcknowledgeKeepsTypes, ParseSessionKeepsTypes, ParseNotifyKeepsTypes
   DEF Parse

-----------------------------------------------------------------------------
(* Node packets                                                             *)

(* The packet a handler looks at, and its sender.                           *)
LEMMA HandlingHead ==
  ASSUME NEW n \in NetAddr, TypeInv(n), NEW type, Handling(type)
  PROVE  /\ rx = None /\ work # <<>>
         /\ Head(work).from \in NodeID
         /\ Head(work).packet \in NodePacket
         /\ Head(work).packet.type = type
         /\ session[n][Head(work).from] \in Session
         /\ session[n][Head(work).from] # None
<1>1. work \in Seq(Work) /\ work # <<>>
  BY DEF TypeInv, StackTypeOK, Work, Handling
<1>2. Head(work) \in Work /\ 1 \in DOMAIN work /\ Head(work) = work[1]
  BY <1>1, HeadTailProperties, LenProperties
<1>3. QED
  BY <1>1, <1>2 DEF TypeInv, NodeTypeOK, SendersHaveSession, Handling, Work

(* The ping of a session is acknowledged no earlier than it was sent, so    *)
(* the remote is tested at a natural distance; and it has a session.        *)
LEMMA HandleConnectionInitKeepsTypes ==
  ASSUME NEW n \in NetAddr, TypeInv(n), node_id[n] \in NodeID,
         HandleConnectionInit(n)
  PROVE  TypeInv(n)'
<1> USE DEF TypeInv
<1> DEFINE m == Head(work).from
           p == Head(work).packet
           s == session[n][m]
           Inner == [i \in DOMAIN p.packets |->
                       [from |-> m, packet |-> p.packets[i]]]
<1>1. Handling("ConnectionInit")
  BY DEF HandleConnectionInit
<1>2. /\ rx = None /\ work # <<>> /\ m \in NodeID /\ p \in NodePacket
      /\ p.type = "ConnectionInit" /\ s \in Session /\ s # None
  BY <1>1, HandlingHead
<1>3. p.packets \in Seq(InitialPacket)
  BY <1>2, PacketFields
<1>4. CASE s.ping_sent # None /\ s.session_id = p.ping
  <2> DEFINE t == [s EXCEPT !.ping_sent = None]
             d == Distance(ticks[n], s.ping_sent)
  <2>1. session' = [session EXCEPT ![n][m] = t] /\ InsertDirect(n, d, m)
        /\ work' = Inner \o Tail(work) /\ UNCHANGED rx
    BY <1>4 DEF HandleConnectionInit
  <2>2. t \in Session /\ t.ping_sent = None
    BY <1>2 DEF Session
  <2>3. d \in Nat
    <3>1. ticks[n] \in Nat /\ s.ping_sent \in Nat /\ s.ping_sent <= ticks[n]
      BY <1>2, <1>4, SessionTypeFields DEF NodeTypeOK, TimesInPast
    <3>2. QED
      BY <3>1 DEF Distance
  <2> HIDE DEF t, d
  <2>4. SessionsKept
    BY <1>2, <2>1, <2>2, NoneIsNoValue DEF NodeTypeOK, SessionsKept
  <2>5. /\ direct_sorted' \in [NetAddr -> SUBSET (Nat \X NodeID)]
        /\ FiniteTests'
        /\ \A a \in NetAddr, k \in NodeID :
             (\E e \in direct_sorted'[a] : e[2] = k) =>
                (\E e \in direct_sorted[a] : e[2] = k) \/ (a = n /\ k = m)
    BY <1>2, <2>1, <2>3, InsertDirectTypes
  <2>0. UNCHANGED <<node_id, deus_ex_data, ticks, remotes, remote_coord,
                    pending_session, sessions, route_coord, public_route,
                    peer_list, action_list, queue, new_actions, outgoing,
                    minted, panicked>>
    BY DEF HandleConnectionInit
  <2> HIDE DEF s, m, p
  <2>6. NamedHaveSession' /\ TimesInPast'
    <3>1. session[n][m] # None
      BY <1>2 DEF s
    <3>2. NamedHaveSession'
      BY <2>0, <2>4, <2>5, <3>1 DEF SessionsKept, NamedHaveSession, Named
    <3>3. TimesInPast'
      BY <2>0, <2>4 DEF SessionsKept, TimesInPast
    <3>4. QED
      BY <3>2, <3>3
  <2>7. /\ work' \in Seq(Work)
        /\ \A i \in DOMAIN work' :
             \/ work'[i].from = m
             \/ \E j \in DOMAIN work : work'[i] = work[j]
    <3>1. Inner \in Seq(Work) /\ \A i \in 1 .. Len(Inner) : Inner[i].from = m
      <4>1. DOMAIN p.packets = 1 .. Len(p.packets) /\ Len(p.packets) \in Nat
            /\ p.packets \in [1 .. Len(p.packets) -> InitialPacket]
        BY <1>3, LenProperties
      <4>2. \A i \in 1 .. Len(p.packets) : Inner[i] \in Work /\ Inner[i].from = m
        BY <1>2, <4>1, InitialPacketIsPacket DEF Work
      <4>3. Inner \in [1 .. Len(p.packets) -> Work]
        BY <4>1, <4>2
      <4> HIDE DEF Inner
      <4>4. QED
        BY <4>1, <4>2, <4>3
    <3>2. Tail(work) \in Seq(Work) /\ Len(Tail(work)) = Len(work) - 1
          /\ \A i \in 1 .. Len(Tail(work)) : Tail(work)[i] = work[i + 1]
          /\ Len(work) \in Nat /\ DOMAIN work = 1 .. Len(work)
      BY <1>2, HeadTailProperties, LenProperties DEF StackTypeOK, Work
    <3> HIDE DEF Inner
    <3>3. QED
      BY <2>1, <3>1, <3>2, ConcatProperties, LenProperties
  <2>8. SendersHaveSession(n)'
    BY <1>2, <2>4, <2>7, WorkTypes DEF SendersHaveSession, SessionsKept, s
  <2>9. NodeTypeOK' /\ StackTypeOK'
    BY <2>0, <2>1, <2>4, <2>5, <2>7
       DEF NodeTypeOK, StackTypeOK, SessionsKept, Work
  <2>10. QED
    BY <2>5, <2>6, <2>8, <2>9
<1>5. CASE ~(s.ping_sent # None /\ s.session_id = p.ping)
  <2>1. End(FALSE)
    BY <1>5 DEF HandleConnectionInit, Fail
  <2>2. work' \in Seq(Work) /\ rx' = rx
        /\ \A i \in DOMAIN work' : \E j \in DOMAIN work : work'[i] = work[j]
    BY <1>2, <2>1, EndTypes
  <2>3. QED
    BY <1>5, <2>2
       DEF HandleConnectionInit, NodeTypeOK, StackTypeOK, FiniteTests,
           NamedHaveSession, Named, TimesInPast, SendersHaveSession, Work
<1>6. QED
  BY <1>4, <1>5

(* The genesis node takes a coordinate only where it has been told one.     *)
LEMMA HandleExchangeInfoKeepsTypes ==
  ASSUME NEW n \in NetAddr, TypeInv(n), node_id[n] \in NodeID,
         HandleExchangeInfo(n)
  PROVE  TypeInv(n)'
<1> USE DEF TypeInv
<1> DEFINE m == Head(work).from
           p == Head(work).packet
           coord == IF IsGenesis(n) THEN deus_ex_data[n] ELSE route_coord[n]
           self == [Self(n) EXCEPT !.coord = coord]
           reply == ExchangeInfoResponse(coord, Cardinality(direct_sorted[n]))
<1>1. Handling("ExchangeInfo")
  BY DEF HandleExchangeInfo
<1>2. /\ rx = None /\ work # <<>> /\ m \in NodeID
      /\ p.coord \in MaybeCoord /\ p.count \in Nat
  BY <1>1, HandlingHead, PacketFields
<1>3. UNCHANGED <<node_id, deus_ex_data, ticks, remotes, remote_coord,
                  pending_session, session, sessions, direct_sorted,
                  public_route, peer_list, queue, new_actions, minted,
                  panicked>>
  BY DEF HandleExchangeInfo
<1>4. coord \in MaybeCoord
  BY DEF NodeTypeOK
<1>5. /\ route_coord' \in [NetAddr -> MaybeCoord]
      /\ action_list' \in [NetAddr -> Seq(Action)]
      /\ outgoing' \in Seq(Outgoing)
      /\ \E ok \in BOOLEAN : End(ok)
  <2>1. CASE IsGenesis(n) /\ coord = None
    BY <2>1 DEF HandleExchangeInfo, NodeTypeOK, StackTypeOK, Fail
  <2>2. CASE ~(IsGenesis(n) /\ coord = None)
    <3>1. PICK r \in SendPacket(self, m, reply) : Emit(r) /\ End(r # None)
      BY <2>2 DEF HandleExchangeInfo
    <3>2. /\ route_coord' = [route_coord EXCEPT ![n] = coord]
          /\ PushAction(n, UpdateRemote(m, p.coord, p.count))
      BY <2>2 DEF HandleExchangeInfo
    <3>3. self \in SelfType
      BY <1>4, SelfTypes DEF SelfType
    <3>4. reply \in NodePacket /\ reply.type # "Traverse"
      BY <1>4, CountTypes, PacketConstructors, PlainPacketIsPacket
    <3>5. UpdateRemote(m, p.coord, p.count) \in Action
      BY <1>2, ActionConstructors
    <3> HIDE DEF m, p, coord, self, reply
    <3>6. r \in Outgoing \cup {None}
      BY <1>2, <3>1, <3>3, <3>4, SendPacketKeepsCore DEF Sent
    <3>7. outgoing' \in Seq(Outgoing)
      BY <3>1, <3>6, EmitTypes
    <3>8. action_list' \in [NetAddr -> Seq(Action)]
      BY <3>2, <3>5, PushActionTypes
    <3>9. route_coord' \in [NetAddr -> MaybeCoord]
      BY <1>4, <3>2 DEF NodeTypeOK
    <3>10. QED
      BY <3>1, <3>7, <3>8, <3>9
  <2>3. QED
    BY <2>1, <2>2
<1>6. /\ work' \in Seq(Work) /\ rx' = rx
      /\ \A i \in DOMAIN work' : \E j \in DOMAIN work : work'[i] = work[j]
  BY <1>2, <1>5, EndTypes
<1>7. NodeTypeOK' /\ StackTypeOK'
  BY <1>3, <1>5, <1>6 DEF NodeTypeOK, StackTypeOK, Work
<1>8. QED
  BY <1>3, <1>6, <1>7, UnchangedSessionsKept, KeptSessionsKeepTypes

(* Only an UpdateRemote is listed.                                          *)
LEMMA HandleExchangeInfoResponseKeepsTypes ==
  ASSUME NEW n \in NetAddr, TypeInv(n), HandleExchangeInfoResponse(n)
  PROVE  TypeInv(n)'
<1> USE DEF TypeInv
<1> DEFINE m == Head(work).from
           p == Head(work).packet
<1>1. Handling("ExchangeInfoResponse")
  BY DEF HandleExchangeInfoResponse
<1>2. /\ work # <<>> /\ m \in NodeID
      /\ p.coord \in MaybeCoord /\ p.count \in Nat
  BY <1>1, HandlingHead, PacketFields
<1>3. UpdateRemote(m, p.coord, p.count) \in Action
  BY <1>2, ActionConstructors
<1>4. action_list' \in [NetAddr -> Seq(Action)]
  BY <1>3, PushActionTypes DEF HandleExchangeInfoResponse
<1>5. /\ work' \in Seq(Work) /\ rx' = rx
      /\ \A i \in DOMAIN work' : \E j \in DOMAIN work : work'[i] = work[j]
  BY <1>2, EndTypes DEF HandleExchangeInfoResponse, Done
<1>6. NodeTypeOK' /\ StackTypeOK'
  BY <1>4, <1>5 DEF HandleExchangeInfoResponse, NodeTypeOK, StackTypeOK, Work
<1>7. QED
  BY <1>5, <1>6, UnchangedSessionsKept, KeptSessionsKeepTypes
     DEF HandleExchangeInfoResponse

(* Only a remote and its Connect are added.                                 *)
LEMMA HandleWantPingKeepsTypes ==
  ASSUME NEW n \in NetAddr, TypeInv(n), HandleWantPing(n)
  PROVE  TypeInv(n)'
<1> USE DEF TypeInv
<1> DEFINE p == Head(work).packet
           connect == [type |-> "Connect", id |-> p.id, addr |-> p.addr]
<1>1. Handling("WantPing")
  BY DEF HandleWantPing
<1>2. work # <<>> /\ p.id \in NodeID /\ p.addr \in NetAddr
  BY <1>1, HandlingHead, PacketFields
<1>3. connect \in Action
  BY <1>2, ActionConstructors
<1>4. /\ remotes' \in [NetAddr -> SUBSET NodeID]
      /\ action_list' \in [NetAddr -> Seq(Action)]
  <2>1. CASE UNCHANGED <<remotes, action_list>>
    BY <2>1 DEF NodeTypeOK
  <2>2. CASE AddRemote(n, p.id)
             /\ (PushAction(n, connect) \/ UNCHANGED action_list)
    <3>1. action_list' \in [NetAddr -> Seq(Action)]
      BY <1>3, <2>2, PushActionTypes DEF NodeTypeOK
    <3>2. QED
      BY <1>2, <2>2, <3>1 DEF AddRemote, NodeTypeOK
  <2>3. QED
    BY <2>1, <2>2 DEF HandleWantPing
<1>5. /\ work' \in Seq(Work) /\ rx' = rx
      /\ \A i \in DOMAIN work' : \E j \in DOMAIN work : work'[i] = work[j]
  BY <1>2, EndTypes DEF HandleWantPing, Done
<1>6. NodeTypeOK' /\ StackTypeOK'
  BY <1>4, <1>5 DEF HandleWantPing, NodeTypeOK, StackTypeOK, Work
<1>7. QED
  BY <1>5, <1>6, UnchangedSessionsKept, KeptSessionsKeepTypes
     DEF HandleWantPing

(* Only the arrival is noted and an ExchangeInfo sent.                      *)
LEMMA HandleAcceptWantPingKeepsTypes ==
  ASSUME NEW n \in NetAddr, TypeInv(n), HandleAcceptWantPing(n)
  PROVE  TypeInv(n)'
<1> USE DEF TypeInv
<1> DEFINE m == Head(work).from
           packet == ExchangeInfo(route_coord[n],
                                  Cardinality(direct_sorted[n]))
<1>1. Handling("AcceptWantPing")
  BY DEF HandleAcceptWantPing
<1>2. /\ work # <<>> /\ m \in NodeID
      /\ session[n][m] \in Session /\ session[n][m] # None
  BY <1>1, HandlingHead
<1>3. SessionsKept
  BY <1>2, ReceivedKeepsSessions DEF HandleAcceptWantPing, Limited
<1>4. /\ outgoing' \in Seq(Outgoing)
      /\ \E ok \in BOOLEAN : End(ok)
  <2>1. CASE UNCHANGED outgoing /\ Done
    BY <2>1 DEF StackTypeOK, Done
  <2>2. CASE \E r \in SendPacket(Self(n), m, packet) :
               Emit(r) /\ End(r # None)
    <3>1. PICK r \in SendPacket(Self(n), m, packet) :
            Emit(r) /\ End(r # None)
      BY <2>2
    <3>2. packet \in NodePacket
      BY CountTypes, PacketConstructors, InitialPacketIsPacket DEF NodeTypeOK
    <3>3. r \in Outgoing \cup {None}
      BY <1>2, <3>1, <3>2, SelfTypes, SendPacketKeepsCore DEF Sent
    <3>4. QED
      BY <3>1, <3>3, EmitTypes
  <2>3. QED
    BY <2>1, <2>2 DEF HandleAcceptWantPing
<1>5. /\ work' \in Seq(Work) /\ rx' = rx
      /\ \A i \in DOMAIN work' : \E j \in DOMAIN work : work'[i] = work[j]
  BY <1>2, <1>4, EndTypes
<1>6. NodeTypeOK' /\ StackTypeOK'
  BY <1>3, <1>4, <1>5
     DEF HandleAcceptWantPing, NodeTypeOK, StackTypeOK, Work, SessionsKept
<1>7. QED
  BY <1>3, <1>5, <1>6, KeptSessionsKeepTypes DEF HandleAcceptWantPing

(* The image of a finite set under a function is finite.                    *)
LEMMA FiniteImage ==
  ASSUME NEW S, IsFiniteSet(S), NEW f, DOMAIN f = S,
         f = [x \in S |-> f[x]]
  PROVE  IsFiniteSet({f[x] : x \in S})
<1> DEFINE T == {f[x] : x \in S}
<1>1. f \in Surjection(S, T)
  BY DEF Surjection
<1>2. QED
  BY <1>1, FS_Surjection

(* What a step adds to the packets to be sent, and that what it adds are    *)
(* requests and packets with a session's core.                              *)
Adds(X) == X \in Seq(Outgoing) /\ outgoing' = outgoing \o X
InTunnels(X) == \A i \in DOMAIN X : X[i].request = None => Tunnelled(X[i])

(* Sending to entries of direct_sorted in any order of keys.                *)
LEMMA LettersSent ==
  ASSUME NEW n \in NetAddr, NodeTypeOK, StackTypeOK, NEW self \in SelfType,
         NEW E, E \subseteq Entry, IsFiniteSet(E),
         NEW entries \in Ascending(E), NEW sent \in SendAll(self, entries)
  PROVE  /\ sent.packets \in Seq(Outgoing) /\ sent.ok \in BOOLEAN
         /\ InTunnels(sent.packets)
<1>1. Cardinality(E) \in Nat
  BY FS_CardinalityType
<1>2. entries \in [1 .. Cardinality(E) -> Entry]
  BY DEF Ascending
<1>3. QED
  BY <1>1, <1>2, SendAllKeepsCores DEF InTunnels

(* Every remote asked to ping is sent a packet in its session.              *)
LEMMA HandleRequestPingsSends ==
  ASSUME NEW n \in NetAddr, TypeInv(n), HandleRequestPings(n)
  PROVE  /\ \E X : Adds(X) /\ InTunnels(X)
         /\ \E ok \in BOOLEAN : End(ok)
<1> USE DEF TypeInv
<1> DEFINE m == Head(work).from
           p == Head(work).packet
           s == session[n][m]
           coords == [remote_coord[n] EXCEPT ![m] = p.coord]
           number == IF p.number <= MAX_REQUEST_PINGS
                       THEN p.number ELSE MAX_REQUEST_PINGS
           P == PingCandidates(n, coords, p.coord)
           packet == WantPing(m, s.session_type.net_addr)
           Letters(T) == {Letter(t[1], t[2], packet) :
                            t \in {u \in T : u[2][2] # m}}
<1>1. /\ work # <<>> /\ m \in NodeID /\ s \in Session /\ s # None
      /\ p.coord \in MaybeCoord
  BY HandlingHead, PacketFields DEF HandleRequestPings
<1>2. CASE UNCHANGED outgoing /\ (Done \/ Fail)
  <2>1. Adds(<<>>) /\ InTunnels(<<>>)
    BY <1>2 DEF Adds, InTunnels, StackTypeOK
  <2>2. QED
    BY <1>2, <2>1 DEF Done, Fail
<1>3. CASE /\ IsDirect(s)
           /\ \E T \in Least(P, number) : \E entries \in Ascending(Letters(T)) :
                \E sent \in SendAll(Self(n), entries) :
                  outgoing' = outgoing \o sent.packets /\ End(sent.ok)
  <2>1. PICK T \in Least(P, number) : \E entries \in Ascending(Letters(T)) :
          \E sent \in SendAll(Self(n), entries) :
            outgoing' = outgoing \o sent.packets /\ End(sent.ok)
    BY <1>3
  <2>2. packet \in Later
    BY <1>1, <1>3, SessionTypeFields, PacketConstructors DEF WantPing, Later
  <2>3. IsFiniteSet(P) /\ P \subseteq Int \X (Nat \X NodeID)
    <3>1. IsFiniteSet(direct_sorted[n])
          /\ direct_sorted[n] \subseteq Nat \X NodeID
      BY DEF FiniteTests, NodeTypeOK
    <3>2. CASE p.coord = None
      <4>1. P = {<<e[1], e>> : e \in direct_sorted[n]}
        BY <3>2 DEF PingCandidates
      <4> DEFINE f == [e \in direct_sorted[n] |-> <<e[1], e>>]
      <4>2. IsFiniteSet({f[e] : e \in direct_sorted[n]})
        BY <3>1, FiniteImage
      <4>3. {f[e] : e \in direct_sorted[n]} = P
        <5> HIDE DEF P
        <5>1. QED
          BY <4>1
      <4>4. P \subseteq Int \X (Nat \X NodeID)
        BY <3>1, <4>1
      <4>5. QED
        BY <4>2, <4>3, <4>4
    <3>3. CASE p.coord # None
      <4> DEFINE known == {f \in direct_sorted[n] : coords[f[2]] # None}
      <4>1. P = {<<SqDist(coords[e[2]], p.coord), e>> : e \in known}
        BY <3>3 DEF PingCandidates
      <4>2. IsFiniteSet(P)
        <5>1. IsFiniteSet(known)
          BY <3>1, FS_Subset
        <5> DEFINE f == [e \in known |-> <<SqDist(coords[e[2]], p.coord), e>>]
        <5> HIDE DEF known
        <5>2. IsFiniteSet({f[e] : e \in known})
          <6>1. DOMAIN f = known /\ f = [e \in known |-> f[e]]
            OBVIOUS
          <6> HIDE DEF f
          <6>2. QED
            BY <5>1, <6>1, FiniteImage
        <5>3. {f[e] : e \in known} = P
          <6>1. \A e \in known :
                  f[e] = <<SqDist(coords[e[2]], p.coord), e>>
            OBVIOUS
          <6> HIDE DEF P, coords, p, f
          <6>2. QED
            BY <4>1, <6>1
        <5>4. QED
          BY <5>2, <5>3
      <4>3. ASSUME NEW e \in known
            PROVE  SqDist(coords[e[2]], p.coord) \in Int
        <5>1. coords[e[2]] \in Coord /\ p.coord \in Coord
          BY <1>1, <3>1, <3>3 DEF NodeTypeOK, MaybeCoord
        <5>2. QED
          BY <5>1 DEF Coord, SqDist
      <4>4. known \subseteq Nat \X NodeID
        BY <3>1
      <4>5. QED
        BY <4>1, <4>2, <4>3, <4>4
    <3>4. QED
      BY <3>2, <3>3
  <2>4. T \subseteq P /\ IsFiniteSet(T)
    BY <2>3, FS_Subset DEF Least
  <2>5. Letters(T) \subseteq Entry
    BY <2>2, <2>3, <2>4, <1>1 DEF Letter, Entry
  <2>6. IsFiniteSet(Letters(T))
    <3> DEFINE U == {u \in T : u[2][2] # m}
    <3>1. IsFiniteSet(U)
      BY <2>4, FS_Subset
    <3> HIDE DEF U
    <3> DEFINE f == [t \in U |-> Letter(t[1], t[2], packet)]
    <3>2. IsFiniteSet({f[t] : t \in U})
      BY <3>1, FiniteImage
    <3>3. {f[t] : t \in U} = Letters(T)
      BY DEF U
    <3>4. QED
      BY <3>2, <3>3
  <2> HIDE DEF Letters, packet, P, number
  <2>7. QED
    BY <2>1, <2>5, <2>6, SelfTypes, LettersSent DEF Adds
<1>4. QED
  BY <1>2, <1>3 DEF HandleRequestPings

(* The remotes asked to ping are tested ones, so each has a session,        *)
(* whether all could be written to or not.                                  *)
LEMMA HandleRequestPingsKeepsTypes ==
  ASSUME NEW n \in NetAddr, TypeInv(n), HandleRequestPings(n)
  PROVE  TypeInv(n)'
<1> USE DEF TypeInv
<1> DEFINE m == Head(work).from
           p == Head(work).packet
           s == session[n][m]
           coords == [remote_coord[n] EXCEPT ![m] = p.coord]
<1>1. Handling("RequestPings")
  BY DEF HandleRequestPings
<1>2. /\ work # <<>> /\ m \in NodeID /\ s \in Session /\ s # None
      /\ p.coord \in MaybeCoord
  BY <1>1, HandlingHead, PacketFields
<1>3. SessionsKept
  BY <1>2, ReceivedKeepsSessions DEF HandleRequestPings, Limited
<1>4. UNCHANGED <<node_id, deus_ex_data, ticks, remotes, pending_session,
                  sessions, direct_sorted, route_coord, public_route,
                  peer_list, action_list, queue, new_actions, minted,
                  panicked>>
  BY DEF HandleRequestPings
<1>5. remote_coord' \in [NetAddr -> [NodeID -> MaybeCoord]]
  <2>1. UNCHANGED remote_coord
        \/ remote_coord' = [remote_coord EXCEPT ![n] = coords]
    BY DEF HandleRequestPings
  <2>2. coords \in [NodeID -> MaybeCoord]
    BY <1>2 DEF NodeTypeOK
  <2> HIDE DEF coords
  <2>3. QED
    BY <2>1, <2>2 DEF NodeTypeOK
<1>6. /\ outgoing' \in Seq(Outgoing)
      /\ \E ok \in BOOLEAN : End(ok)
  BY HandleRequestPingsSends, ConcatProperties DEF Adds, StackTypeOK
<1>7. /\ work' \in Seq(Work) /\ rx' = rx
      /\ \A i \in DOMAIN work' : \E j \in DOMAIN work : work'[i] = work[j]
  BY <1>2, <1>6, EndTypes
<1>8. NodeTypeOK' /\ StackTypeOK'
  BY <1>3, <1>4, <1>5, <1>6, <1>7
     DEF NodeTypeOK, StackTypeOK, Work, SessionsKept
<1>9. QED
  BY <1>3, <1>4, <1>7, <1>8, KeptSessionsKeepTypes

(* Only the Incoming flag changes, in a session that stays.                 *)
LEMMA HandlePeerNotifyKeepsTypes ==
  ASSUME NEW n \in NetAddr, TypeInv(n), HandlePeerNotify(n)
  PROVE  TypeInv(n)'
<1> USE DEF TypeInv
<1> DEFINE m == Head(work).from
           p == Head(work).packet
           s == session[n][m]
           t == SetPeer(s, "Incoming", p.peered)
<1>1. Handling("PeerNotify")
  BY DEF HandlePeerNotify
<1>2. /\ work # <<>> /\ m \in NodeID /\ s \in Session /\ s # None
      /\ p.peered \in BOOLEAN /\ p.coord \in MaybeCoord /\ p.count \in Nat
  BY <1>1, HandlingHead, PacketFields DEF MaybeCoord
<1>3. SessionsKept /\ action_list' \in [NetAddr -> Seq(Action)]
  <2>1. CASE IsDirect(s)
    <3>1. session' = [session EXCEPT ![n][m] = t]
      BY <2>1 DEF HandlePeerNotify
    <3>2. t \in Session /\ t.ping_sent = s.ping_sent
      BY <1>2, <2>1, SetPeerKeepsSession
    <3>3. UpdateRemote(m, p.coord, p.count) \in Action
      BY <1>2, ActionConstructors
    <3>4. action_list' \in [NetAddr -> Seq(Action)]
      BY <2>1, <3>3, PushActionTypes DEF HandlePeerNotify
    <3> HIDE DEF t
    <3>5. QED
      BY <1>2, <3>1, <3>2, <3>4, NoneIsNoValue DEF SessionsKept, NodeTypeOK
  <2>2. CASE ~IsDirect(s)
    BY <2>2, UnchangedSessionsKept DEF HandlePeerNotify, NodeTypeOK
  <2>3. QED
    BY <2>1, <2>2
<1>4. /\ work' \in Seq(Work) /\ rx' = rx
      /\ \A i \in DOMAIN work' : \E j \in DOMAIN work : work'[i] = work[j]
  BY <1>2, EndTypes DEF HandlePeerNotify, Done, Fail
<1>5. NodeTypeOK' /\ StackTypeOK'
  BY <1>3, <1>4
     DEF HandlePeerNotify, NodeTypeOK, StackTypeOK, Work, SessionsKept
<1>6. QED
  BY <1>3, <1>4, <1>5, KeptSessionsKeepTypes DEF HandlePeerNotify

(* An inner encryption is parsed with a traversed type back, or forwarded   *)
(* as it is.                                                                *)
LEMMA HandleTraverseKeepsTypes ==
  ASSUME NEW n \in NetAddr, TypeInv(n), HandleTraverse(n)
  PROVE  TypeInv(n)'
<1> USE DEF TypeInv
<1> DEFINE m == Head(work).from
           p == Head(work).packet
           closest == ClosestPeers(peer_list[n], p.destination)
<1>1. Handling("Traverse")
  BY DEF HandleTraverse
<1>2. /\ rx = None /\ work # <<>> /\ p \in NodePacket
      /\ p.encryption \in Encryption /\ p.origin \in Coord
  BY <1>1, HandlingHead, PacketFields
<1>3. UNCHANGED <<node_id, deus_ex_data, ticks, remotes, remote_coord,
                  pending_session, session, sessions, direct_sorted,
                  route_coord, public_route, peer_list, action_list, queue,
                  new_actions, minted, panicked>>
  BY DEF HandleTraverse
<1>4. /\ outgoing' \in Seq(Outgoing) /\ rx' \in Arrived \cup {None}
      /\ work' \in Seq(Work)
      /\ \A i \in DOMAIN work' : \E j \in DOMAIN work : work'[i] = work[j]
  <2>1. CASE UNCHANGED outgoing /\ (Done \/ Fail)
    BY <1>2, <2>1, EndTypes DEF StackTypeOK, Done, Fail
  <2>2. CASE /\ rx' = [request |-> None, encryption |-> p.encryption,
                        via |-> TraversedType(p.origin)]
             /\ work' = Tail(work) /\ UNCHANGED outgoing
    <3>1. TraversedType(p.origin) \in SessionType
      BY <1>2, TraversedTypeIsType
    <3>2. rx' \in Arrived
      BY <1>2, <2>2, <3>1 DEF Arrived
    <3>3. work \in Seq(Work)
      BY DEF StackTypeOK, Work
    <3>4. QED
      BY <1>2, <2>2, <3>2, <3>3, HeadTailProperties, LenProperties
         DEF StackTypeOK
  <2>3. CASE \E q \in closest : \E r \in SendPacket(Self(n), q, p) :
               Emit(r) /\ End(r # None)
    <3>1. PICK q \in closest : \E r \in SendPacket(Self(n), q, p) :
            Emit(r) /\ End(r # None)
      BY <2>3
    <3>2. PICK r \in SendPacket(Self(n), q, p) : Emit(r) /\ End(r # None)
      BY <3>1
    <3>3. q \in NodeID
      BY DEF ClosestPeers
    <3>4. r \in Outgoing \cup {None}
      BY <1>2, <3>2, <3>3, SelfTypes, SendPacketKeepsCore DEF Sent
    <3>5. QED
      BY <1>2, <3>2, <3>4, EmitTypes, EndTypes DEF StackTypeOK
  <2>4. QED
    BY <2>1, <2>2, <2>3 DEF HandleTraverse
<1>5. NodeTypeOK' /\ StackTypeOK'
  BY <1>3, <1>4 DEF NodeTypeOK, StackTypeOK, Work
<1>6. QED
  BY <1>3, <1>4, <1>5, UnchangedSessionsKept, KeptSessionsKeepTypes

(* Data changes nothing.                                                    *)
LEMMA HandleDataKeepsTypes ==
  ASSUME NEW n \in NetAddr, TypeInv(n), HandleData(n)
  PROVE  TypeInv(n)'
<1> USE DEF TypeInv
<1>1. /\ work' \in Seq(Work) /\ rx' = rx
      /\ \A i \in DOMAIN work' : \E j \in DOMAIN work : work'[i] = work[j]
  BY EndTypes DEF HandleData, Handling, Done
<1>2. NodeTypeOK' /\ StackTypeOK'
  BY <1>1 DEF HandleData, NodeTypeOK, StackTypeOK, Work
<1>3. QED
  BY <1>1, <1>2, UnchangedSessionsKept, KeptSessionsKeepTypes DEF HandleData

(* Parsing a node packet keeps the types.                                   *)
LEMMA HandleKeepsTypes ==
  ASSUME NEW n \in NetAddr, TypeInv(n), node_id[n] \in NodeID, Handle(n)
  PROVE  TypeInv(n)'
BY HandleConnectionInitKeepsTypes, HandleExchangeInfoKeepsTypes,
   HandleExchangeInfoResponseKeepsTypes, HandleRequestPingsKeepsTypes,
   HandleWantPingKeepsTypes, HandleAcceptWantPingKeepsTypes,
   HandlePeerNotifyKeepsTypes, HandleTraverseKeepsTypes, HandleDataKeepsTypes
   DEF Handle

-----------------------------------------------------------------------------
(* Actions                                                                  *)

(* The action that runs.                                                    *)
LEMMA RunningHead ==
  ASSUME StackTypeOK, queue # <<>>
  PROVE  Head(queue) \in Action /\ Tail(queue) \in Seq(Action)
BY HeadTailProperties DEF StackTypeOK

(* The actions that an action lists stay well typed.                        *)
LEMMA PushTypes ==
  ASSUME StackTypeOK, NEW actions \in Seq(Action), Push(actions)
  PROVE  new_actions' \in Seq(Action)
BY ConcatProperties DEF StackTypeOK, Push

(* A lookup is a DHT read and an awaiting action.                           *)
LEMMA LookUpTypes ==
  ASSUME NEW m \in NodeID, NEW type \in Awaitable
  PROVE  LookUp(type, m) \in Seq(Action)
BY ActionConstructors DEF LookUp

(* Node::connect.                                                           *)
LEMMA ConnectKeepsTypes ==
  ASSUME NEW n \in NetAddr, TypeInv(n), node_id[n] \in NodeID,
         NEW m \in NodeID, NEW type \in SessionType,
         NEW packets \in Seq(InitialPacket), Connect(n, m, type, packets),
         queue' \in Seq(Action), new_actions' \in Seq(Action),
         UNCHANGED <<node_id, deus_ex_data, ticks, remote_coord, session,
                     tableVars, routeVars, action_list, rx, work, panicked>>
  PROVE  TypeInv(n)'
<1> USE DEF TypeInv
<1> DEFINE id == Len(minted) + 1
           hs == Handshake(m, id, node_id[n])
           p == [session_id |-> id, sent |-> ticks[n], packets |-> packets,
                 session_type |-> type]
<1>1. id \in SessionID /\ id \in Nat
  BY LenProperties DEF StackTypeOK, SessionID
<1>2. hs \in Encryption
  BY <1>1, EncryptionConstructors
<1>3. p \in PendingSession /\ p.sent = ticks[n] /\ ticks[n] \in Nat
  BY <1>1 DEF PendingSession, NodeTypeOK
<1>4. /\ remotes' = [remotes EXCEPT ![n] = @ \cup {m}]
      /\ pending_session' = [pending_session EXCEPT ![n][m] = p]
      /\ minted' = Append(minted, <<node_id[n], m>>)
  BY DEF Connect, AddRemote
<1>5. outgoing' \in Seq(Outgoing)
  <2>1. CASE type.kind = "Direct" /\ Emit(Package(type.net_addr, hs))
    <3>1. type.net_addr \in NetAddr
      BY <2>1 DEF SessionType
    <3>2. QED
      BY <1>2, <2>1, <3>1, PackageIsOutgoing, EmitTypes
  <2>2. CASE /\ type.kind = "Traversed" /\ route_coord[n] # None
             /\ \E q \in ClosestPeers(peer_list[n], type.route_coord) :
                  \E r \in SendPacket(Self(n), q,
                             Traverse(type.route_coord, hs, route_coord[n])) :
                    Emit(r)
    <3> DEFINE packet == Traverse(type.route_coord, hs, route_coord[n])
    <3>1. PICK q \in ClosestPeers(peer_list[n], type.route_coord) :
            \E r \in SendPacket(Self(n), q, packet) : Emit(r)
      BY <2>2
    <3>2. PICK r \in SendPacket(Self(n), q, packet) : Emit(r)
      BY <3>1
    <3>3. q \in NodeID
      BY DEF ClosestPeers
    <3>4. type.route_coord \in Coord /\ route_coord[n] \in Coord
      BY <2>2 DEF SessionType, NodeTypeOK, MaybeCoord
    <3>5. packet \in NodePacket
      BY <1>2, <3>4, TraverseIsPacket
    <3> HIDE DEF packet
    <3>6. r \in Outgoing \cup {None}
      BY <3>2, <3>3, <3>5, SelfTypes, SendPacketKeepsCore DEF Sent
    <3>7. QED
      BY <3>2, <3>6, EmitTypes
  <2>3. CASE UNCHANGED outgoing
    BY <2>3 DEF StackTypeOK
  <2>4. QED
    BY <2>1, <2>2, <2>3 DEF Connect
<1>6. minted' \in Seq(NodeID \X NodeID)
  BY <1>4, AppendProperties DEF StackTypeOK
<1> HIDE DEF p, id, hs
<1>7. /\ remotes' \in [NetAddr -> SUBSET NodeID]
      /\ pending_session' \in
           [NetAddr -> [NodeID -> PendingSession \cup {None}]]
  BY <1>3, <1>4 DEF NodeTypeOK
<1>8. NodeTypeOK' /\ StackTypeOK'
  BY <1>5, <1>6, <1>7 DEF NodeTypeOK, StackTypeOK
<1>9. FiniteTests' /\ NamedHaveSession' /\ SendersHaveSession(n)'
  BY DEF FiniteTests, NamedHaveSession, Named, SendersHaveSession
<1>10. TimesInPast'
  BY <1>3, <1>4 DEF TimesInPast, NodeTypeOK
<1>11. QED
  BY <1>8, <1>9, <1>10

(* Bootstrap and Connect: see ConnectKeepsTypes.                            *)
LEMMA RunConnectingKeepsTypes ==
  ASSUME NEW n \in NetAddr, TypeInv(n), node_id[n] \in NodeID,
         RunBootstrap(n) \/ RunConnect(n)
  PROVE  TypeInv(n)'
<1> USE DEF TypeInv
<1> DEFINE a == Head(queue)
<1>1. queue' \in Seq(Action) /\ a.id \in NodeID
      /\ DirectType(a.addr) \in SessionType
  BY RunningHead, ActionFields, DirectTypeIsType
     DEF RunBootstrap, RunConnect, Running
<1>2. \E packets \in Seq(InitialPacket) :
        Connect(n, a.id, DirectType(a.addr), packets)
  <2>1. ExchangeInfo(route_coord[n], 0) \in InitialPacket
        /\ AcceptWantPing \in InitialPacket
    BY PacketConstructors DEF NodeTypeOK
  <2>2. /\ <<ExchangeInfo(route_coord[n], 0)>> \in Seq(InitialPacket)
        /\ <<AcceptWantPing>> \in Seq(InitialPacket)
    BY <2>1
  <2>3. QED
    BY <2>2 DEF RunBootstrap, RunConnect
<1>3. QED
  BY <1>1, <1>2, ConnectKeepsTypes DEF RunBootstrap, RunConnect, StackTypeOK

(* UpdateRemote stores what it was told, of a remote that is there.         *)
LEMMA RunUpdateRemoteKeepsTypes ==
  ASSUME NEW n \in NetAddr, TypeInv(n), RunUpdateRemote(n)
  PROVE  TypeInv(n)'
<1> USE DEF TypeInv
<1> DEFINE a == Head(queue)
           request == RequestPings(TARGET_PEER_COUNT, route_coord[n])
<1>1. queue' \in Seq(Action) /\ a.id \in NodeID /\ a.coord \in MaybeCoord
  BY RunningHead, ActionFields DEF RunUpdateRemote, Running
<1>2. /\ remote_coord' \in [NetAddr -> [NodeID -> MaybeCoord]]
      /\ new_actions' \in Seq(Action) /\ outgoing' \in Seq(Outgoing)
  <2>1. CASE UNCHANGED <<remote_coord, new_actions, outgoing>>
    BY <2>1 DEF NodeTypeOK, StackTypeOK
  <2>2. CASE /\ remote_coord' = [remote_coord EXCEPT ![n][a.id] = a.coord]
             /\ Push(Anew(n, a))
             /\ \/ UNCHANGED outgoing
                \/ \E p \in SendPacket(Self(n), a.id, request) : Emit(p)
    <3>1. Anew(n, a) \in Seq(Action)
      BY ActionConstructors DEF Anew
    <3>2. new_actions' \in Seq(Action)
      BY <2>2, <3>1, PushTypes
    <3>3. request \in NodePacket
      BY NodeConstants, PacketConstructors, PlainPacketIsPacket DEF NodeTypeOK
    <3>4. outgoing' \in Seq(Outgoing)
      <4>1. CASE UNCHANGED outgoing
        BY <4>1 DEF StackTypeOK
      <4>2. CASE \E p \in SendPacket(Self(n), a.id, request) : Emit(p)
        BY <1>1, <3>3, <4>2, SelfTypes, SendPacketKeepsCore, EmitTypes DEF Sent
      <4>3. QED
        BY <2>2, <4>1, <4>2
    <3>5. remote_coord' \in [NetAddr -> [NodeID -> MaybeCoord]]
      BY <1>1, <2>2 DEF NodeTypeOK
    <3>6. QED
      BY <3>2, <3>4, <3>5
  <2>3. QED
    BY <2>1, <2>2 DEF RunUpdateRemote
<1>3. NodeTypeOK' /\ StackTypeOK'
  BY <1>1, <1>2 DEF RunUpdateRemote, NodeTypeOK, StackTypeOK
<1>4. QED
  BY <1>3, UnchangedSessionsKept, KeptSessionsKeepTypes DEF RunUpdateRemote

(* CalcRouteCoord takes the coordinate told to the node, if any.            *)
LEMMA RunCalcRouteCoordKeepsTypes ==
  ASSUME NEW n \in NetAddr, TypeInv(n), RunCalcRouteCoord(n)
  PROVE  TypeInv(n)'
<1> USE DEF TypeInv
<1>1. queue' \in Seq(Action)
  BY RunningHead DEF RunCalcRouteCoord, Running
<1>2. /\ route_coord' \in [NetAddr -> MaybeCoord]
      /\ new_actions' \in Seq(Action)
  <2>1. <<Simple("CalculatePeers")>> \in Seq(Action)
    BY ActionConstructors
  <2>2. QED
    BY <2>1, PushTypes DEF RunCalcRouteCoord, NodeTypeOK, StackTypeOK
<1>3. NodeTypeOK' /\ StackTypeOK'
  BY <1>1, <1>2 DEF RunCalcRouteCoord, NodeTypeOK, StackTypeOK
<1>4. QED
  BY <1>3, UnchangedSessionsKept, KeptSessionsKeepTypes DEF RunCalcRouteCoord

(* Notify sends to a remote with a session, or looks it up.                 *)
LEMMA RunNotifyKeepsTypes ==
  ASSUME NEW n \in NetAddr, TypeInv(n), node_id[n] \in NodeID, RunNotify(n)
  PROVE  TypeInv(n)'
<1> USE DEF TypeInv
<1> DEFINE m == Head(queue).id
           s == session[n][m]
           enc == Notify(m, node_id[n])
<1>1. queue' \in Seq(Action) /\ m \in NodeID
  BY RunningHead, ActionFields DEF RunNotify, Running, Awaitable
<1>2. new_actions' \in Seq(Action)
  BY <1>1, LookUpTypes, PushTypes DEF RunNotify, StackTypeOK, Awaitable
<1>3. outgoing' \in Seq(Outgoing)
  <2>1. CASE UNCHANGED outgoing
    BY <2>1 DEF StackTypeOK
  <2>2. CASE s # None /\ \E p \in GenPacket(Self(n), s, enc) : Emit(p)
    <3>1. s \in Session
      BY <1>1, <2>2 DEF NodeTypeOK
    <3>2. enc \in Encryption
      BY <1>1, EncryptionConstructors, 0 \in SessionID DEF SessionID
    <3> HIDE DEF s, enc
    <3>3. QED
      BY <2>2, <3>1, <3>2, SelfTypes, GenPacketKeepsCore, EmitTypes DEF Carries
  <2>3. QED
    BY <2>1, <2>2 DEF RunNotify
<1>4. NodeTypeOK' /\ StackTypeOK'
  BY <1>1, <1>2, <1>3 DEF RunNotify, NodeTypeOK, StackTypeOK
<1>5. QED
  BY <1>4, UnchangedSessionsKept, KeptSessionsKeepTypes DEF RunNotify

(* RequestRouteCoord sends a DHT read.                                      *)
LEMMA RunRequestRouteCoordKeepsTypes ==
  ASSUME NEW n \in NetAddr, TypeInv(n), RunRequestRouteCoord(n)
  PROVE  TypeInv(n)'
<1> USE DEF TypeInv
<1> DEFINE request == [type |-> "RouteCoordDHTRead", id |-> Head(queue).id]
<1>1. queue' \in Seq(Action) /\ request \in Request
  BY RunningHead, ActionFields DEF RunRequestRouteCoord, Running, Request
<1>2. outgoing' \in Seq(Outgoing)
  BY <1>1, GenRequestIsOutgoing, EmitTypes DEF RunRequestRouteCoord
<1>3. NodeTypeOK' /\ StackTypeOK'
  BY <1>1, <1>2 DEF RunRequestRouteCoord, NodeTypeOK, StackTypeOK
<1>4. QED
  BY <1>3, UnchangedSessionsKept, KeptSessionsKeepTypes
     DEF RunRequestRouteCoord

(* ConnectTraversed connects to a known coordinate, or looks it up.         *)
LEMMA RunConnectTraversedKeepsTypes ==
  ASSUME NEW n \in NetAddr, TypeInv(n), node_id[n] \in NodeID,
         RunConnectTraversed(n)
  PROVE  TypeInv(n)'
<1> USE DEF TypeInv
<1> DEFINE m == Head(queue).id
<1>1. queue' \in Seq(Action) /\ m \in NodeID
  BY RunningHead, ActionFields DEF RunConnectTraversed, Running, Awaitable
<1>2. CASE /\ remote_coord[n][m] # None
           /\ Connect(n, m, TraversedType(remote_coord[n][m]), <<>>)
           /\ UNCHANGED <<new_actions, panicked>>
  <2>1. TraversedType(remote_coord[n][m]) \in SessionType
    BY <1>1, <1>2, TraversedTypeIsType DEF NodeTypeOK, MaybeCoord
  <2>2. <<>> \in Seq(InitialPacket)
    OBVIOUS
  <2>3. QED
    BY <1>1, <1>2, <2>1, <2>2, ConnectKeepsTypes
       DEF RunConnectTraversed, StackTypeOK
<1>3. CASE /\ AddRemote(n, m) /\ Push(LookUp("ConnectTraversed", m))
           /\ UNCHANGED <<pending_session, outgoing, mintVars>>
  <2>1. new_actions' \in Seq(Action)
    BY <1>1, <1>3, LookUpTypes, PushTypes DEF Awaitable
  <2>2. NodeTypeOK' /\ StackTypeOK'
    BY <1>1, <1>3, <2>1
       DEF RunConnectTraversed, AddRemote, NodeTypeOK, StackTypeOK
  <2>3. QED
    BY <1>3, <2>2, UnchangedSessionsKept, KeptSessionsKeepTypes
       DEF RunConnectTraversed
<1>4. QED
  BY <1>2, <1>3 DEF RunConnectTraversed

(* ConnectRouted at most adds a remote and looks it up.                     *)
LEMMA RunConnectRoutedKeepsTypes ==
  ASSUME NEW n \in NetAddr, TypeInv(n), RunConnectRouted(n)
  PROVE  TypeInv(n)'
<1> USE DEF TypeInv
<1> DEFINE m == Head(queue).id
<1>1. queue' \in Seq(Action) /\ m \in NodeID
  BY RunningHead, ActionFields DEF RunConnectRouted, Running, Awaitable
<1>2. new_actions' \in Seq(Action)
  BY <1>1, LookUpTypes, PushTypes DEF RunConnectRouted, StackTypeOK, Awaitable
<1>3. remotes' \in [NetAddr -> SUBSET NodeID]
  <2>1. CASE UNCHANGED remotes
    BY <2>1 DEF NodeTypeOK
  <2>2. CASE AddRemote(n, m)
    BY <1>1, <2>2 DEF AddRemote, NodeTypeOK
  <2>3. QED
    BY <2>1, <2>2 DEF RunConnectRouted
<1>4. NodeTypeOK' /\ StackTypeOK'
  BY <1>1, <1>2, <1>3 DEF RunConnectRouted, NodeTypeOK, StackTypeOK
<1>5. QED
  BY <1>4, UnchangedSessionsKept, KeptSessionsKeepTypes DEF RunConnectRouted

(* SendData sends to a remote with a session, or nothing.                   *)
LEMMA RunSendDataKeepsTypes ==
  ASSUME NEW n \in NetAddr, TypeInv(n), RunSendData(n)
  PROVE  TypeInv(n)'
<1> USE DEF TypeInv
<1>1. queue' \in Seq(Action) /\ Head(queue).id \in NodeID
  BY RunningHead, ActionFields DEF RunSendData, Running
<1>2. Data \in NodePacket
  BY PacketConstructors, PlainPacketIsPacket
<1>3. outgoing' \in Seq(Outgoing)
  BY <1>1, <1>2, SelfTypes, SendPacketKeepsCore, EmitTypes
     DEF RunSendData, Sent
<1>4. NodeTypeOK' /\ StackTypeOK'
  BY <1>1, <1>3 DEF RunSendData, NodeTypeOK, StackTypeOK
<1>5. QED
  BY <1>4, UnchangedSessionsKept, KeptSessionsKeepTypes DEF RunSendData

(* A condition lists its action again, waiting or not.                      *)
LEMMA RunConditionKeepsTypes ==
  ASSUME NEW n \in NetAddr, TypeInv(n), RunCondition(n)
  PROVE  TypeInv(n)'
<1> USE DEF TypeInv
<1> DEFINE a == Head(queue)
           again == [a EXCEPT !.waits = remote_coord[n][a.id] = None]
<1>1. queue' \in Seq(Action) /\ a \in Action /\ a.type \in Awaitable
  BY RunningHead DEF RunCondition, Awaited
<1>2. again \in Action
  <2>1. (remote_coord[n][a.id] = None) \in BOOLEAN
    OBVIOUS
  <2>2. QED
    BY <1>1, <2>1, ActionFields
<1>3. action_list' \in [NetAddr -> Seq(Action)]
  BY <1>2, PushActionTypes DEF RunCondition, NodeTypeOK
<1>4. NodeTypeOK' /\ StackTypeOK'
  BY <1>1, <1>3 DEF RunCondition, NodeTypeOK, StackTypeOK
<1>5. QED
  BY <1>4, UnchangedSessionsKept, KeptSessionsKeepTypes DEF RunCondition

(* The peer list gives coordinates to tested nodes only, so to nodes with a *)
(* session.                                                                 *)
LEMMA PeerListTypes ==
  ASSUME NEW n \in NetAddr, TypeInv(n)
  PROVE  /\ PeerList(n) \in [NodeID -> MaybeCoord]
         /\ \A m \in NodeID :
              PeerList(n)[m] # None => session[n][m] # None
<1> USE DEF TypeInv
<1>1. Chosen(n) \subseteq direct_sorted[n]
  BY DEF Chosen, Viable
<1>2. PeerList(n) \in [NodeID -> MaybeCoord]
  BY DEF PeerList, NodeTypeOK, MaybeCoord
<1>3. ASSUME NEW m \in NodeID, PeerList(n)[m] # None
      PROVE  \E e \in Chosen(n) : e[2] = m
  BY <1>3 DEF PeerList
<1>4. QED
  BY <1>1, <1>2, <1>3 DEF NamedHaveSession, Named

(* CalculatePeers sends PeerNotifys, each in a session, and may end with a  *)
(* write to the DHT.                                                        *)
LEMMA RunCalculatePeersSends ==
  ASSUME NEW n \in NetAddr, TypeInv(n), node_id[n] \in NodeID,
         RunCalculatePeers(n)
  PROVE  \E X : Adds(X) /\ InTunnels(X)
<1> USE DEF TypeInv
<1> DEFINE peers  == PeerList(n)
           count  == Cardinality({m \in NodeID : peers[m] # None})
           E      == PeerNotifications(n, peers)
           self   == [Self(n) EXCEPT !.peers = peers]
           write  == GenRequest(n, [type |-> "RouteCoordDHTWrite",
                                    id |-> node_id[n],
                                    coord |-> route_coord[n]])
<1>0. CASE UNCHANGED outgoing
  <2>1. Adds(<<>>) /\ InTunnels(<<>>)
    BY <1>0 DEF Adds, InTunnels, StackTypeOK
  <2>2. QED
    BY <2>1
<1> SUFFICES ASSUME route_coord[n] # None
             PROVE  \E X : Adds(X) /\ InTunnels(X)
  BY <1>0 DEF RunCalculatePeers
<1>1. route_coord[n] \in Coord
  BY DEF NodeTypeOK, MaybeCoord
<1>2. count \in Nat
  <2> DEFINE P == {m \in NodeID : peers[m] # None}
  <2>1. IsFiniteSet(P)
    BY NodeIDAssumption, FS_Subset
  <2> HIDE DEF P
  <2>2. Cardinality(P) \in Nat
    BY <2>1, FS_CardinalityType
  <2>3. QED
    BY <2>2 DEF P
<1>3. E \subseteq Entry /\ IsFiniteSet(E)
  <2> DEFINE V == {v \in Visited(n) :
                     WasPeer(n, peers, v) = (peers[v[2]] # None)}
             f == [e \in V |->
                     Letter(e[1], e, PeerNotify(peers[e[2]] # None,
                                                route_coord[n], count))]
  <2>1. V \subseteq direct_sorted[n] /\ IsFiniteSet(V)
    <3>1. V \subseteq direct_sorted[n]
      BY DEF Visited
    <3>2. QED
      BY <3>1, FS_Subset DEF FiniteTests
  <2>2. E = {f[e] : e \in V}
    <3>1. E = {Letter(e[1], e, PeerNotify(peers[e[2]] # None,
                                          route_coord[n], count))
               : e \in V}
      BY DEF PeerNotifications
    <3> HIDE DEF E, V, peers, count
    <3>2. QED
      BY <3>1
  <2>3. ASSUME NEW e \in V
        PROVE  f[e] \in Entry
    <3>1. e[1] \in Nat /\ e[2] \in NodeID
      BY <2>1 DEF NodeTypeOK
    <3>2. (peers[e[2]] # None) \in BOOLEAN
      OBVIOUS
    <3> HIDE DEF peers, count, V
    <3>3. PeerNotify(peers[e[2]] # None, route_coord[n], count)
            \in Later
      BY <1>1, <1>2, <3>2, PacketConstructors DEF PeerNotify, Later
    <3>4. QED
      BY <3>1, <3>3 DEF Letter, Entry
  <2>4. DOMAIN f = V /\ f = [e \in V |-> f[e]]
    OBVIOUS
  <2> HIDE DEF f, V, E
  <2>5. QED
    BY <2>1, <2>2, <2>3, <2>4, FiniteImage
<1>4. PICK entries \in Ascending(E) : \E sent \in SendAll(self, entries) :
        \/ outgoing' = outgoing \o sent.packets \o <<write>>
        \/ outgoing' = outgoing \o sent.packets
  BY DEF RunCalculatePeers
<1>5. PICK sent \in SendAll(self, entries) :
        \/ outgoing' = outgoing \o sent.packets \o <<write>>
        \/ outgoing' = outgoing \o sent.packets
  BY <1>4
<1>6. self \in SelfType
  BY PeerListTypes, SelfTypes DEF SelfType
<1>7. write \in Outgoing /\ write.request # None
  <2>1. [type |-> "RouteCoordDHTWrite", id |-> node_id[n],
         coord |-> route_coord[n]] \in Request
    BY <1>1 DEF Request
  <2>2. QED
    BY <2>1, GenRequestIsOutgoing, NoneAssumption DEF GenRequest
<1> HIDE DEF E, self, write, peers
<1>8. sent.packets \in Seq(Outgoing) /\ InTunnels(sent.packets)
  BY <1>3, <1>6, LettersSent
<1>9. CASE outgoing' = outgoing \o sent.packets
  BY <1>8, <1>9 DEF Adds
<1>10. CASE outgoing' = outgoing \o sent.packets \o <<write>>
  <2> DEFINE X == sent.packets \o <<write>>
  <2>1. <<write>> \in Seq(Outgoing)
    BY <1>7
  <2>2. outgoing' = outgoing \o X
    <3> DEFINE last == <<write>>
               first == sent.packets
    <3>1. /\ outgoing \in Seq(Outgoing) /\ first \in Seq(Outgoing)
          /\ last \in Seq(Outgoing)
      BY <1>8, <2>1 DEF StackTypeOK
    <3>2. outgoing' = (outgoing \o first) \o last
      BY <1>10
    <3> HIDE DEF first, last
    <3>3. outgoing' = outgoing \o (first \o last)
      BY <3>1, <3>2, ConcatAssociative
    <3>4. QED
      BY <3>3 DEF first, last
  <2>3. X \in Seq(Outgoing)
    BY <1>8, <2>1, ConcatProperties
  <2>4. ASSUME NEW i \in DOMAIN X, X[i].request = None
        PROVE  Tunnelled(X[i])
    <3>1. /\ i \in 1 .. Len(sent.packets) + 1
          /\ X[i] = IF i <= Len(sent.packets) THEN sent.packets[i] ELSE write
      BY <1>8, <2>1, ConcatProperties
    <3>2. QED
      BY <1>7, <1>8, <2>4, <3>1 DEF InTunnels
  <2> HIDE DEF X
  <2>5. QED
    BY <2>2, <2>3, <2>4 DEF Adds, InTunnels
<1>11. QED
  BY <1>5, <1>9, <1>10

(* The peer list names tested nodes with a session, and flags and list are  *)
(* set together.                                                            *)
LEMMA RunCalculatePeersKeepsTypes ==
  ASSUME NEW n \in NetAddr, TypeInv(n), node_id[n] \in NodeID,
         RunCalculatePeers(n)
  PROVE  TypeInv(n)'
<1> USE DEF TypeInv
<1> DEFINE peers  == PeerList(n)
           count  == Cardinality({m \in NodeID : peers[m] # None})
           tested == {e[2] : e \in Visited(n)}
           whole  == \A e \in direct_sorted[n] : IsDirect(session[n][e[2]])
           write  == GenRequest(n, [type |-> "RouteCoordDHTWrite",
                                    id |-> node_id[n],
                                    coord |-> route_coord[n]])
           self   == [Self(n) EXCEPT !.peers = peers]
           update == [m \in NodeID |->
                        IF m \in tested /\ IsDirect(session[n][m])
                          THEN SetPeer(session[n][m], "Outgoing",
                                       peers[m] # None)
                          ELSE session[n][m]]
<1>1. queue' \in Seq(Action)
  BY RunningHead DEF RunCalculatePeers, Running
<1>2. UNCHANGED <<node_id, deus_ex_data, ticks, remotes, remote_coord,
                  pending_session, sessions, direct_sorted, route_coord,
                  action_list, rx, work, new_actions, minted, panicked>>
  BY DEF RunCalculatePeers
<1>3. CASE UNCHANGED <<peer_list, session, public_route, outgoing>>
  <2>1. NodeTypeOK' /\ StackTypeOK'
    BY <1>1, <1>2, <1>3 DEF NodeTypeOK, StackTypeOK
  <2>2. QED
    BY <1>2, <1>3, <2>1, UnchangedSessionsKept, KeptSessionsKeepTypes
<1>4. CASE route_coord[n] # None
  <2>1. route_coord[n] \in Coord
    BY <1>4 DEF NodeTypeOK, MaybeCoord
  <2>2. /\ peers \in [NodeID -> MaybeCoord]
        /\ \A m \in NodeID : peers[m] # None => session[n][m] # None
    BY PeerListTypes
  <2>3. peer_list' = [peer_list EXCEPT ![n] = peers]
        /\ session' = [session EXCEPT ![n] = update]
    BY <1>4 DEF RunCalculatePeers
  <2>5. SessionsKept
    <3>1. ASSUME NEW m \in NodeID
          PROVE  /\ update[m] \in Session \cup {None}
                 /\ IF session[n][m] = None
                      THEN update[m] = None
                      ELSE /\ update[m] # None
                           /\ update[m].ping_sent = session[n][m].ping_sent
      <4>1. CASE m \in tested /\ IsDirect(session[n][m])
        <5>1. session[n][m] \in Session /\ session[n][m] # None
          BY <4>1 DEF NodeTypeOK, IsDirect
        <5>2. (peers[m] # None) \in BOOLEAN
          OBVIOUS
        <5> HIDE DEF tested
        <5>3. update[m] = SetPeer(session[n][m], "Outgoing", peers[m] # None)
          BY <4>1
        <5> HIDE DEF update, peers
        <5>4. QED
          BY <4>1, <5>1, <5>2, <5>3, SetPeerKeepsSession, NoneIsNoValue
      <4>2. CASE ~(m \in tested /\ IsDirect(session[n][m]))
        <5> HIDE DEF tested, peers
        <5>1. update[m] = session[n][m]
          BY <4>2
        <5> HIDE DEF update
        <5>2. QED
          BY <5>1, NoneIsNoValue DEF NodeTypeOK
      <4>3. QED
        BY <4>1, <4>2
    <3>2. update = [m \in NodeID |-> update[m]]
      OBVIOUS
    <3> HIDE DEF update
    <3>3. update \in [NodeID -> Session \cup {None}]
      BY <3>1, <3>2
    <3>4. QED
      BY <2>3, <3>1, <3>3, NoneIsNoValue DEF SessionsKept, NodeTypeOK
  <2>6. /\ public_route' \in [NetAddr -> MaybeCoord]
        /\ outgoing' \in Seq(Outgoing)
    <3>1. outgoing' \in Seq(Outgoing)
      BY RunCalculatePeersSends, ConcatProperties DEF Adds, StackTypeOK
    <3>2. public_route' = public_route
          \/ public_route' = [public_route EXCEPT ![n] = route_coord[n]]
      BY <1>4 DEF RunCalculatePeers
    <3>3. QED
      BY <2>1, <3>1, <3>2 DEF NodeTypeOK, MaybeCoord
  <2>7. peer_list' \in [NetAddr -> [NodeID -> MaybeCoord]]
    BY <2>2, <2>3 DEF NodeTypeOK
  <2>8. NodeTypeOK' /\ StackTypeOK'
    BY <1>1, <1>2, <2>5, <2>6, <2>7 DEF NodeTypeOK, StackTypeOK, SessionsKept
  <2>9. FiniteTests' /\ TimesInPast' /\ SendersHaveSession(n)'
    BY <1>2, <2>5, WorkTypes
       DEF FiniteTests, TimesInPast, SessionsKept, SendersHaveSession
  <2>10. NamedHaveSession'
    <3> HIDE DEF peers, update
    <3>1. \A a \in NetAddr, m \in NodeID :
            peer_list'[a][m] # None =>
              peer_list[a][m] # None \/ session[a][m] # None
      BY <2>2, <2>3 DEF NodeTypeOK
    <3>2. QED
      BY <1>2, <2>5, <3>1 DEF NamedHaveSession, Named, SessionsKept
  <2>11. QED
    BY <2>8, <2>9, <2>10
<1>5. QED
  BY <1>3, <1>4 DEF RunCalculatePeers

(* Running an action keeps the types.                                       *)
LEMMA RunKeepsTypes ==
  ASSUME NEW n \in NetAddr, TypeInv(n), node_id[n] \in NodeID, Run(n)
  PROVE  TypeInv(n)'
BY RunConnectingKeepsTypes, RunUpdateRemoteKeepsTypes,
   RunCalcRouteCoordKeepsTypes, RunCalculatePeersKeepsTypes,
   RunNotifyKeepsTypes, RunRequestRouteCoordKeepsTypes,
   RunConnectTraversedKeepsTypes, RunConnectRoutedKeepsTypes,
   RunSendDataKeepsTypes, RunConditionKeepsTypes DEF Run
=============================================================================
