---------------------------- MODULE AddressProofs ----------------------------
(***************************************************************************)
(* What a session's type says of its remote is right, for any nodes,        *)
(* positions and bounds: a direct session leads to the node it is filed     *)
(* under, as long as no node is deleted (Properties!AddressCorrect), as     *)
(* nodes then keep their addresses (Properties!AddKeepsNodes), and one      *)
(* flagged Outgoing is that of a peer, as long as CalculatePeers comes to   *)
(* all those flagged (Properties!OutgoingIsPeer).                           *)
(***************************************************************************)
EXTENDS TunnelProofs

USE DEF netVars, loopVars, nodeVars, selfVars, remoteVars, tableVars,
        routeVars, runVars, mintVars

(* What AddressCorrect supposes.  A network is built with add, which leases *)
(* an address by the number of nodes, so the first nodes have the first     *)
(* addresses; and no command deletes one, after which a leased address may  *)
(* be that of another node, and the remotes of a deleted one are not told.  *)
Leased ==
  \E k \in Nat : {a \in NetAddr : Genesis[a] # None} = 0 .. k - 1
NothingDeleted == \A c \in Commands : c.type # "del"

(* So an address leased is a new one.                                       *)
Contiguous == \E k \in Nat : Nodes = 0 .. k - 1

(* A handshake that is not inside a session is under its signer's address.  *)
FromSigner(enc, a) ==
  enc # None =>
    (enc.hops = <<>> /\ enc.core.type = "Handshake" =>
       a \in Nodes /\ node_id[a] = enc.core.signer)
WireTrue ==
  \A n \in NetAddr : \A i \in DOMAIN Wire[n] :
    FromSigner(Wire[n][i].encryption, Wire[n][i].src_addr)
SentTrue ==
  \A i \in DOMAIN outgoing : FromSigner(outgoing[i].encryption, order[turn])
ReadTrue ==
  rx # None =>
    (rx.via.kind = "Direct" => FromSigner(rx.encryption, rx.via.net_addr))
SourceTrue == WireTrue /\ SentTrue /\ ReadTrue

(* The handshake with this id, if any, is on its way straight to a.         *)
Offered(id) == <<"Handshake", id>>
Straight(enc, id) == Offered(id) \in TokenOf(enc) => enc.hops = <<>>
AimedOnWire(id, a) ==
  \A n \in NetAddr : \A i \in DOMAIN Wire[n] :
    /\ Straight(Wire[n][i].encryption, id)
    /\ Offered(id) \in TokenOf(Wire[n][i].encryption) => n = a
AimedSent(id, a) ==
  \A i \in DOMAIN outgoing :
    /\ Straight(outgoing[i].encryption, id)
    /\ Offered(id) \in TokenOf(outgoing[i].encryption) =>
         outgoing[i].dest_addr = a
AimedRead(id, a) ==
  rx # None =>
    /\ Straight(rx.encryption, id)
    /\ Offered(id) \in TokenOf(rx.encryption) => order[turn] = a
(* It is acknowledged only where the remote it was meant for is.            *)
Acked(id, a, m) ==
  <<"Acknowledge", id>> \in Tokens => a \in Nodes /\ node_id[a] = m
Aimed(id, a, m) ==
  /\ \E x \in NodeID : Drawn(minted, id, x, m)
  /\ AimedOnWire(id, a) /\ AimedSent(id, a) /\ AimedRead(id, a)
  /\ Offered(id) \notin ToParse
  /\ Acked(id, a, m)
(* So is what a pending direct session waits for.                           *)
AimedPending(p, m) ==
  p # None =>
    (p.session_type.kind = "Direct" =>
       Aimed(p.session_id, p.session_type.net_addr, m))
PendingAimed ==
  \A n \in Nodes, m \in NodeID : AimedPending(pending_session[n][m], m)

AddressInv ==
  TunnelInv /\ Contiguous /\ SourceTrue /\ PendingAimed /\ AddressCorrect

-----------------------------------------------------------------------------
(* Where an id comes from                                                   *)

(* Where a token is.                                                        *)
LEMMA Places ==
  ASSUME NEW t
  PROVE  /\ t \in OnTheWay <=> \E n \in NetAddr : \E i \in DOMAIN Wire[n] :
                                 t \in TokenOf(Wire[n][i].encryption)
         /\ t \in ToSend <=> \E i \in DOMAIN outgoing :
                               t \in TokenOf(outgoing[i].encryption)
         /\ t \in ToRead <=> rx # None /\ t \in TokenOf(rx.encryption)
         /\ t \in ToParse <=> \E i \in DOMAIN work :
                                t \in TokenIn(work[i].packet)
         /\ t \in Tokens <=> t \in OnTheWay \cup ToSend \cup ToRead \cup ToParse
BY DEF OnTheWay, ToSend, ToRead, ToParse, Tokens

(* A token is a pair after a step, too.                                     *)
LEMMA NextTokensArePairs == Pairs(Tokens')
<1>1. \A enc : Pairs(TokenOf(enc))
  BY DEF TokenOf, Pairs
<1>2. \A packet : Pairs(TokenIn(packet))
  BY <1>1 DEF TokenIn, Pairs
<1>3. QED
  BY <1>1, <1>2 DEF Tokens, OnTheWay, ToSend, ToRead, ToParse, Pairs

(* An id that a step of a node puts somewhere is one it was handed: the     *)
(* others are still where they were.                                        *)
LEMMA Handed ==
  ASSUME TypeOK, TypeOK', Once', UNCHANGED Wire, Extends, NEW t,
         t \in Tokens' => t \in Tokens
  PROVE  /\ \A i \in DOMAIN outgoing' :
              i > Len(outgoing) /\ t \in TokenOf(outgoing'[i].encryption) =>
                t \in ToRead \cup ToParse
         /\ t \in ToRead' => t \in ToRead \cup ToParse
         /\ t \in ToParse' => t \in ToRead \cup ToParse
<1>1. /\ DOMAIN outgoing = 1 .. Len(outgoing) /\ Len(outgoing) \in Nat
      /\ DOMAIN outgoing' = 1 .. Len(outgoing') /\ Len(outgoing') \in Nat
  BY LenProperties DEF TypeOK, StackTypeOK
<1>2. OnTheWay' = OnTheWay
  BY DEF OnTheWay
<1>3. \A j \in DOMAIN outgoing :
        /\ j \in DOMAIN outgoing' /\ outgoing'[j] = outgoing[j]
        /\ j <= Len(outgoing)
  BY <1>1 DEF Extends
<1>4. ToSend \subseteq ToSend'
  BY <1>3 DEF ToSend
<1>5. ASSUME t \in ToRead' \cup ToParse'
      PROVE  t \in ToRead \cup ToParse
  <2>1. t \notin OnTheWay'
    BY <1>5 DEF Once, PlacesApart, Apart
  <2>2. t \notin ToSend'
    BY <1>5 DEF Once, PlacesApart, Apart
  <2>3. t \in Tokens
    BY <1>5 DEF Tokens
  <2>4. QED
    BY <1>2, <1>4, <2>1, <2>2, <2>3 DEF Tokens
<1>6. ASSUME NEW i \in DOMAIN outgoing', i > Len(outgoing),
             t \in TokenOf(outgoing'[i].encryption)
      PROVE  t \in ToRead \cup ToParse
  <2>1. t \in ToSend'
    BY <1>6 DEF ToSend
  <2>2. t \notin OnTheWay'
    BY <2>1 DEF Once, PlacesApart, Apart
  <2>3. t \notin ToSend
    <3>1. ASSUME NEW j \in DOMAIN outgoing,
                 t \in TokenOf(outgoing[j].encryption)
          PROVE  FALSE
      <4>1. i # j
        BY <1>1, <1>3, <1>6
      <4>2. t \in TokenOf(outgoing'[j].encryption)
            /\ j \in DOMAIN outgoing'
        BY <1>3, <3>1
      <4>3. QED
        BY <1>6, <4>1, <4>2 DEF Once, SentApart, Apart
    <3>2. QED
      BY <3>1 DEF ToSend
  <2>4. t \in Tokens
    BY <2>1 DEF Tokens
  <2>5. QED
    BY <1>2, <2>2, <2>3, <2>4 DEF Tokens
<1>7. QED
  BY <1>5, <1>6

(* A step of a node draws at most one id, for itself.                       *)
LEMMA ShakesDraw ==
  ASSUME NEW n \in NetAddr, Shakes(n)
  PROVE  \/ UNCHANGED minted
         \/ \E m \in NodeID : minted' = Append(minted, <<node_id[n], m>>)
BY DEF Shakes, Tun!Offer, Tun!Accept, Tun!Confirm, Tun!Establish, Tun!Lose

(* A handshake that a node's step leaves was there, or is a new one.        *)
LEMMA HandshakesLeft ==
  ASSUME TypeOK, NEW n \in NetAddr, Shakes(n), NEW id \in 1 .. Len(minted),
         Offered(id) \in Tokens'
  PROVE  Offered(id) \in Tokens
<1>1. \A k \in InHand("Handshake")' :
        k \in InHand("Handshake") \/ k = Len(minted) + 1
  <2>1. CASE Tun!Offer(n)
    <3>1. Len(minted') = Len(minted) + 1
      BY <2>1 DEF Tun!Offer, TypeOK, StackTypeOK
    <3>2. QED
      BY <2>1, <3>1 DEF Tun!Offer, Tun!Passed
  <2>2. CASE Tun!Accept(n) \/ Tun!Confirm(n) \/ Tun!Establish(n) \/ Tun!Lose
    BY <2>2 DEF Tun!Accept, Tun!Confirm, Tun!Establish, Tun!Lose,
                Tun!MaybeLost
  <2>3. QED
    BY <2>1, <2>2 DEF Shakes
<1>2. Pairs(Tokens) /\ Pairs(Tokens')
  BY TokensArePairs, NextTokensArePairs
<1>3. id \in InHand("Handshake")'
  <2>1. Offered(id)[1] = "Handshake" /\ Offered(id)[2] = id
    BY DEF Offered
  <2>2. QED
    BY <2>1 DEF InHand, OfType
<1>4. Len(minted) \in Nat
  BY DEF TypeOK, StackTypeOK
<1>5. id \in InHand("Handshake")
  BY <1>1, <1>3, <1>4
<1>6. QED
  BY <1>2, <1>5, OfTypeMembers DEF InHand, Offered

(* An acknowledgement is for a handshake that was meant for the node.       *)
LEMMA AcknowledgesOwn ==
  ASSUME NEW n \in NetAddr, Shakes(n), NEW id,
         <<"Acknowledge", id>> \in Tokens', <<"Acknowledge", id>> \notin Tokens
  PROVE  /\ Offered(id) \in Tokens /\ Offered(id) \notin Tokens'
         /\ minted[id][2] = node_id[n]
<1>1. Pairs(Tokens) /\ Pairs(Tokens')
  BY TokensArePairs, NextTokensArePairs
<1>2. id \in InHand("Acknowledge")' /\ id \notin InHand("Acknowledge")
  BY <1>1, OfTypeMembers DEF InHand
<1>3. Tun!Accept(n)
  BY <1>2 DEF Shakes, Tun!Offer, Tun!Confirm, Tun!Establish, Tun!Lose,
              Tun!MaybeLost
<1>4. /\ id \in InHand("Handshake") /\ id \notin InHand("Handshake")'
      /\ minted[id][2] = node_id[n]
  BY <1>2, <1>3 DEF Tun!Accept
<1>5. QED
  BY <1>1, <1>4, OfTypeMembers DEF InHand, Offered

-----------------------------------------------------------------------------
(* What a node sends                                                        *)

(* A packet inside a session.                                               *)
Inside(p) == p.encryption # None => IsSession(p.encryption)
Fresh(i) == i \in DOMAIN outgoing' /\ i > Len(outgoing)

(* What is added to the packets to be sent by sending one or none,          *)
LEMMA EmitAdded ==
  ASSUME StackTypeOK, NEW p, Emit(p), NEW i, Fresh(i)
  PROVE  p # None /\ outgoing'[i] = p
BY DEF StackTypeOK, Emit, Fresh

(* or by sending a series.                                                  *)
LEMMA AddsAdded ==
  ASSUME StackTypeOK, NEW X, Adds(X), NEW i, Fresh(i)
  PROVE  \E j \in DOMAIN X : outgoing'[i] = X[j]
<1>1. /\ outgoing \in Seq(Outgoing) /\ X \in Seq(Outgoing)
      /\ outgoing' = outgoing \o X
  BY DEF StackTypeOK, Adds
<1>2. /\ DOMAIN outgoing' = 1 .. Len(outgoing) + Len(X)
      /\ DOMAIN X = 1 .. Len(X) /\ Len(outgoing) \in Nat /\ Len(X) \in Nat
      /\ \A k \in Len(outgoing) + 1 .. Len(outgoing) + Len(X) :
           outgoing'[k] = X[k - Len(outgoing)]
  BY <1>1, ConcatProperties, LenProperties
<1>3. i - Len(outgoing) \in DOMAIN X /\ outgoing'[i] = X[i - Len(outgoing)]
  BY <1>2 DEF Fresh
<1>4. QED
  BY <1>3

(* RemoteSession::wrap_session puts a packet inside a session.              *)
LEMMA WrapSessionIsSession ==
  ASSUME NEW id \in SessionID, NEW packet \in NodePacket
  PROVE  IsSession(WrapSession(id, packet))
<1>1. CASE packet.type = "Traverse"
  <2> DEFINE hop == [session_id |-> id, destination |-> packet.destination,
                     origin |-> packet.origin]
             hops == <<hop>> \o packet.encryption.hops
  <2>1. packet.encryption.hops \in Seq(Hop)
    BY <1>1, PacketFields, EncryptionFields
  <2>2. hop \in Hop
    BY <1>1, PacketFields DEF Hop
  <2>3. hops # <<>>
    <3> HIDE DEF hop
    <3>1. <<hop>> \in Seq(Hop) /\ Len(<<hop>>) = 1
      BY <2>2
    <3>2. Len(hops) = 1 + Len(packet.encryption.hops)
          /\ Len(packet.encryption.hops) \in Nat
      BY <2>1, <3>1, ConcatProperties, LenProperties
    <3> HIDE DEF hops
    <3>3. QED
      BY <3>2
  <2>4. WrapSession(id, packet).hops = hops
    BY <1>1 DEF WrapSession
  <2>5. QED
    BY <2>3, <2>4 DEF IsSession
<1>2. CASE packet.type # "Traverse"
  BY <1>2, WrapSessionKeepsCore DEF IsSession
<1>3. QED
  BY <1>1, <1>2

(* Node::send_packet sends it there, at once or inside other sessions.      *)
LEMMA SendPacketInside ==
  ASSUME NEW self \in SelfType, NEW m \in NodeID, NEW packet \in NodePacket,
         NEW p \in SendPacket(self, m, packet), p # None
  PROVE  Inside(p)
<1> DEFINE s == self.session[m]
           wrapped == WrapSession(s.session_id, packet)
<1>1. s # None /\ s \in Session /\ p \in GenPacket(self, s, wrapped)
  BY DEF SendPacket, SelfType
<1>2. s.session_id \in SessionID
  BY <1>1, SessionTypeFields
<1>3. wrapped \in Encryption /\ IsSession(wrapped)
  BY <1>2, WrapSessionKeepsCore, WrapSessionIsSession
<1>4. CASE IsDirect(s)
  BY <1>1, <1>3, <1>4 DEF GenPacket, Package, Inside
<1>5. CASE ~IsDirect(s)
  <2> DEFINE to == s.session_type.route_coord
             packet2 == Traverse(to, wrapped, self.coord)
  <2> HIDE DEF s, wrapped
  <2>1. PICK q \in NodeID :
          p = IF IsDirect(self.session[q]) /\ self.coord # None
                THEN Package(self.session[q].session_type.net_addr,
                             WrapSession(self.session[q].session_id, packet2))
                ELSE None
    BY <1>1, <1>5 DEF GenPacket, ClosestPeers
  <2>2. /\ IsDirect(self.session[q]) /\ self.coord # None
        /\ p.encryption = WrapSession(self.session[q].session_id, packet2)
    BY <2>1 DEF Package
  <2>3. self.session[q].session_id \in SessionID /\ self.coord \in Coord
    BY <2>2, SessionTypeFields DEF IsDirect, SelfType, MaybeCoord
  <2>4. packet2 \in NodePacket
    BY <1>1, <1>3, <1>5, <2>3, SessionTypeFields, TraverseIsPacket
  <2>5. QED
    BY <2>2, <2>3, <2>4, WrapSessionIsSession DEF Inside
<1>6. QED
  BY <1>4, <1>5

(* parse_packet answers with an acknowledgement or a first packet.          *)
LEMMA ParseOffersNothing ==
  ASSUME NEW n \in NetAddr, TypeInv(n), node_id[n] \in NodeID, Parse(n),
         NEW i, Fresh(i), outgoing'[i].encryption # None
  PROVE  outgoing'[i].encryption.core.type # "Handshake"
<1> USE DEF TypeInv
<1>1. CASE UNCHANGED outgoing
  BY <1>1 DEF Fresh, StackTypeOK
<1>2. CASE ParseHandshake(n) /\ ~UNCHANGED outgoing
  <2> DEFINE c == rx.encryption.core
             s == NewSession(c.session_id, rx.via, ticks[n])
             ack == Acknowledge(c.session_id, node_id[n])
  <2>1. /\ rx # None /\ rx.request = None /\ c.type = "Handshake"
        /\ c.session_id \in SessionID /\ rx.via \in SessionType
    BY <1>2, ParsingFields, CoreFields DEF ParseHandshake, Parsing
  <2>2. s \in Session /\ s # None
    BY <2>1, NewSessionIsSession, NoneIsNoValue DEF NodeTypeOK
  <2>3. ack \in Encryption /\ ack.core.type = "Acknowledge"
    BY <2>1, EncryptionConstructors DEF Acknowledge, Bare
  <2>4. PICK p \in GenPacket(Self(n), s, ack) : Emit(p)
    BY <1>2 DEF ParseHandshake
  <2> HIDE DEF s, ack
  <2>5. Carries(p, ack.core)
    BY <2>2, <2>3, <2>4, SelfTypes, GenPacketKeepsCore
  <2>6. QED
    BY <2>3, <2>4, <2>5, EmitAdded DEF Carries
<1>3. CASE ParseAcknowledge(n) /\ ~UNCHANGED outgoing
  <2> DEFINE c == rx.encryption.core
             m == c.acknowledger
             q == pending_session[n][m]
             s == [session[n] EXCEPT ![m] =
                     NewSession(c.session_id, q.session_type, None)]
             first == ConnectionInit(c.session_id,
                                     UpdateConnectionPackets(n, q.packets))
  <2>1. /\ rx # None /\ rx.request = None /\ c.type = "Acknowledge"
        /\ c.session_id \in SessionID /\ m \in NodeID
    BY <1>3, ParsingFields, CoreFields DEF ParseAcknowledge, Parsing
  <2>2. q # None
    BY <1>3 DEF ParseAcknowledge
  <2>3. PICK p \in SendPacket([Self(n) EXCEPT !.session = s], m, first) :
          Emit(p)
    BY <1>3 DEF ParseAcknowledge
  <2>4. q \in PendingSession /\ q.session_type \in SessionType
    BY <2>1, <2>2 DEF NodeTypeOK, PendingSession
  <2>5. first \in NodePacket /\ first.type # "Traverse"
    BY <2>1, <2>4, FirstPacketTypes
  <2>6. s \in [NodeID -> Session \cup {None}]
    BY <2>1, <2>4, NewSessionIsSession DEF NodeTypeOK
  <2>7. [Self(n) EXCEPT !.session = s] \in SelfType
    BY <2>6, SelfTypes DEF SelfType
  <2> HIDE DEF s, first
  <2>8. Sent(p, first)
    BY <2>1, <2>3, <2>5, <2>7, SendPacketKeepsCore
  <2>9. QED
    BY <2>3, <2>5, <2>8, EmitAdded DEF Sent
<1>4. QED
  BY <1>1, <1>2, <1>3
     DEF Parse, ParseResponse, ParseSession, ParseNotify
(* parse_node_packet sends inside sessions.                                 *)
LEMMA HandleSendsInside ==
  ASSUME NEW n \in NetAddr, TypeInv(n), Handle(n), NEW i, Fresh(i)
  PROVE  Inside(outgoing'[i])
<1> USE DEF TypeInv
<1>1. CASE HandleRequestPings(n)
  <2>1. PICK X : Adds(X) /\ InTunnels(X)
    BY <1>1, HandleRequestPingsSends
  <2>2. PICK j \in DOMAIN X : outgoing'[i] = X[j]
    BY <2>1, AddsAdded
  <2>3. X[j] \in Outgoing
    BY <2>1, <2>2, ElementOfSeq, LenProperties DEF Adds
  <2>4. CASE X[j].request = None
    BY <2>1, <2>2, <2>4 DEF InTunnels, Tunnelled, Inside, IsSession
  <2>5. CASE X[j].request # None
    BY <2>2, <2>3, <2>5 DEF Inside, Outgoing
  <2>6. QED
    BY <2>4, <2>5
<1>2. CASE HandleExchangeInfo(n) /\ ~UNCHANGED outgoing
  <2> DEFINE m == Head(work).from
             coord == IF IsGenesis(n) THEN deus_ex_data[n] ELSE route_coord[n]
             info == ExchangeInfoResponse(coord, Cardinality(direct_sorted[n]))
  <2>1. PICK p \in SendPacket([Self(n) EXCEPT !.coord = coord], m, info) :
          Emit(p)
    BY <1>2 DEF HandleExchangeInfo
  <2>2. coord \in MaybeCoord /\ m \in NodeID
    BY <1>2, HandlingHead DEF HandleExchangeInfo, NodeTypeOK
  <2>3. info \in NodePacket
    BY <2>2, CountTypes, PacketConstructors, PlainPacketIsPacket
  <2>4. [Self(n) EXCEPT !.coord = coord] \in SelfType
    BY <2>2, SelfTypes DEF SelfType
  <2> HIDE DEF m, coord, info
  <2>5. QED
    BY <2>1, <2>2, <2>3, <2>4, EmitAdded, SendPacketInside
<1>3. CASE HandleAcceptWantPing(n) /\ ~UNCHANGED outgoing
  <2> DEFINE m == Head(work).from
             info == ExchangeInfo(route_coord[n], Cardinality(direct_sorted[n]))
  <2>1. PICK p \in SendPacket(Self(n), m, info) : Emit(p)
    BY <1>3 DEF HandleAcceptWantPing
  <2>2. m \in NodeID
    BY <1>3, HandlingHead DEF HandleAcceptWantPing
  <2>3. route_coord[n] \in MaybeCoord /\ Cardinality(direct_sorted[n]) \in Nat
    BY CountTypes DEF NodeTypeOK
  <2> DEFINE coord == route_coord[n]
             count == Cardinality(direct_sorted[n])
  <2>5. ExchangeInfo(route_coord[n], Cardinality(direct_sorted[n]))
          \in InitialPacket
    <3> HIDE DEF coord, count
    <3>1. ExchangeInfo(coord, count) \in InitialPacket
      BY <2>3, PacketConstructors DEF coord, count
    <3>2. QED
      BY <3>1 DEF coord, count
  <2>6. info \in NodePacket
    BY <2>5, InitialPacketIsPacket
  <2> HIDE DEF m, info
  <2>4. QED
    BY <2>1, <2>2, <2>6, SelfTypes, EmitAdded, SendPacketInside
<1>4. CASE HandleTraverse(n) /\ ~UNCHANGED outgoing
  <2> DEFINE packet == Head(work).packet
  <2>1. PICK q \in ClosestPeers(peer_list[n], packet.destination) :
          \E p \in SendPacket(Self(n), q, packet) : Emit(p)
    BY <1>4 DEF HandleTraverse
  <2>2. PICK p \in SendPacket(Self(n), q, packet) : Emit(p)
    BY <2>1
  <2>3. q \in NodeID /\ packet \in NodePacket
    BY <1>4, <2>1, HandlingHead DEF HandleTraverse, ClosestPeers
  <2> HIDE DEF packet
  <2>4. QED
    BY <2>2, <2>3, SelfTypes, EmitAdded, SendPacketInside
<1>5. CASE UNCHANGED outgoing
  BY <1>5 DEF Fresh, StackTypeOK
<1>6. QED
  BY <1>1, <1>2, <1>3, <1>4, <1>5
     DEF Handle, HandleConnectionInit, HandleExchangeInfoResponse,
         HandleWantPing, HandlePeerNotify, HandleData

-----------------------------------------------------------------------------
(* A node's step                                                            *)

(* What a step of a node does to the handshake with an id drawn before.     *)
OldOnly(id) ==
  \A i : Fresh(i) => Offered(id) \notin TokenOf(outgoing'[i].encryption)
NotRead(id) == rx' # None => Offered(id) \notin TokenOf(rx'.encryption)

(* One on its way straight to an address is not sent on by parse_packet,    *)
LEMMA ParseLeaves ==
  ASSUME NEW n \in NetAddr, TypeInv(n), node_id[n] \in NodeID, Parse(n),
         TypeOK, TypeOK', Once', UNCHANGED Wire, NEW id \in 1 .. Len(minted),
         Offered(id) \in Tokens' => Offered(id) \in Tokens,
         Offered(id) \notin ToParse,
         rx # None => Straight(rx.encryption, id)
  PROVE  OldOnly(id) /\ NotRead(id) /\ Offered(id) \notin ToParse'
<1>1. Extends /\ rx' = None
  BY ParseActs
<1>2. OldOnly(id)
  <2>1. ASSUME NEW i, Fresh(i),
               Offered(id) \in TokenOf(outgoing'[i].encryption)
        PROVE  FALSE
    <3>1. outgoing'[i].encryption # None
          /\ outgoing'[i].encryption.core.type = "Handshake"
      BY <2>1 DEF Offered, TokenOf
    <3>2. QED
      BY <2>1, <3>1, ParseOffersNothing
  <2>2. QED
    BY <2>1 DEF OldOnly
<1>3. NotRead(id)
  BY <1>1 DEF NotRead
<1>4. Offered(id) \notin ToParse'
  <2>1. SUFFICES ASSUME Offered(id) \in ToParse'
                 PROVE  FALSE
    OBVIOUS
  <2>2. Offered(id) \in ToRead
    BY <1>1, <2>1, Handed
  <2>3. /\ rx # None /\ rx.encryption # None
        /\ rx.encryption.core.type = "Handshake" /\ rx.encryption.hops = <<>>
    BY <2>2 DEF ToRead, TokenOf, Offered, Straight
  <2>4. ~IsSession(rx.encryption)
    BY <2>3 DEF IsSession
  <2>5. UNCHANGED work
    BY <2>4 DEF Parse, ParseResponse, ParseHandshake, ParseAcknowledge,
                ParseSession, ParseNotify, Parsed
  <2>6. QED
    BY <2>1, <2>5 DEF ToParse
<1>5. QED
  BY <1>2, <1>3, <1>4

(* nor is it among the packets that parse_node_packet is given,             *)
LEMMA HandleLeaves ==
  ASSUME NEW n \in NetAddr, TypeInv(n), Handle(n),
         TypeOK, TypeOK', Once', UNCHANGED Wire, NEW id \in 1 .. Len(minted),
         Offered(id) \in Tokens' => Offered(id) \in Tokens,
         Offered(id) \notin ToParse
  PROVE  OldOnly(id) /\ NotRead(id) /\ Offered(id) \notin ToParse'
<1>1. Extends /\ rx = None
  BY HandleActs
<1>2. ToRead = {}
  BY <1>1 DEF ToRead
<1>3. /\ \A i \in DOMAIN outgoing' :
           i > Len(outgoing)
             => Offered(id) \notin TokenOf(outgoing'[i].encryption)
      /\ Offered(id) \notin ToRead' /\ Offered(id) \notin ToParse'
  BY <1>1, <1>2, Handed
<1>4. QED
  BY <1>3 DEF OldOnly, Fresh, NotRead, ToRead

(* nor does parse_action send one that it did not draw.                     *)
LEMMA RunLeaves ==
  ASSUME NEW n \in NetAddr, TypeInv(n), node_id[n] \in NodeID, Run(n),
         TypeOK, TypeOK', Once', UNCHANGED <<Wire, rx, work>>,
         NEW id \in 1 .. Len(minted),
         Offered(id) \in Tokens' => Offered(id) \in Tokens
  PROVE  OldOnly(id)
<1>1. Extends
  BY RunActs
<1>2. ToRead' = ToRead /\ ToParse' = ToParse
  BY DEF ToRead, ToParse
<1>3. ASSUME NEW i, Fresh(i),
             Offered(id) \in TokenOf(outgoing'[i].encryption)
      PROVE  FALSE
  <2>1. Offered(id) \in ToRead \cup ToParse
    BY <1>1, <1>3, Handed DEF Fresh
  <2>2. Offered(id) \in ToSend'
    BY <1>3 DEF Fresh, ToSend
  <2>3. QED
    BY <1>2, <2>1, <2>2 DEF Once, PlacesApart, Apart
<1>4. QED
  BY <1>3 DEF OldOnly

(* An action leaves the packets that are read.                              *)
LEMMA RunReadsNothing ==
  ASSUME NEW n, Run(n)
  PROVE  UNCHANGED <<rx, work>>
BY DEF Run, RunBootstrap, RunConnect, RunUpdateRemote, RunCalcRouteCoord,
       RunCalculatePeers, RunNotify, RunRequestRouteCoord,
       RunConnectTraversed, RunConnectRouted, RunSendData, RunCondition

(* The steps of a node in its turn.                                         *)
NodeSteps(n) == ParsePacket(n) \/ ParseNodePacket(n) \/ ParseAction(n)

(* What is the case before such a step, and what it leaves alone.           *)
LEMMA NodeStepFacts ==
  ASSUME NEW n \in NetAddr, TunnelInv, TypeOK', NodeSteps(n)
  PROVE  /\ Turn(n) /\ node_id[n] \in NodeID /\ TypeInv(n) /\ TypeOK
         /\ n \in Nodes /\ UNCHANGED <<Wire, node_id, order, turn, Nodes>>
         /\ Once' /\ Shakes(n) /\ Grows /\ Extends /\ NodeInv'
<1>1. Turn(n) /\ UNCHANGED <<netVars, loopVars>>
  BY DEF NodeSteps, ParsePacket, ParseNodePacket, ParseAction, NodeStep
<1>2. node_id[n] \in NodeID /\ TypeInv(n) /\ TypeOK /\ PairInv
  BY <1>1, TurnIsNode
     DEF TunnelInv, PairInv, MapInv, IInv, StackInv, Turn, TypeInv, TypeOK
<1>3. Parse(n) \/ Handle(n) \/ Run(n)
  BY DEF NodeSteps, ParsePacket, ParseNodePacket, ParseAction
<1>4. Once' /\ Shakes(n)
  BY NodeStepShakes DEF NodeSteps
<1>5. UNCHANGED node_id
  BY <1>4 DEF Shakes, Tun!Offer, Tun!Accept, Tun!Confirm, Tun!Establish,
              Tun!Lose
<1>6. Grows /\ Extends
  BY <1>2, <1>3, NodeStepGrows, ParseActs, HandleActs, RunActs
<1>7. NodeInv'
  BY <1>2, NodeStepKeepsPairs DEF NodeSteps
<1>8. n \in Nodes
  BY <1>2, NodeIDAssumption, NoneIsNoValue DEF Nodes
<1>9. QED
  BY <1>1, <1>2, <1>4, <1>5, <1>6, <1>7, <1>8 DEF Wire, Nodes

(* The handshake with an id drawn before stays what it is, or is read.       *)
LEMMA NodeStepLeaves ==
  ASSUME NEW n \in NetAddr, TunnelInv, TypeOK', NodeSteps(n),
         NEW id \in 1 .. Len(minted), Offered(id) \notin ToParse,
         rx # None => Straight(rx.encryption, id)
  PROVE  /\ OldOnly(id) /\ (NotRead(id) \/ rx' = rx)
         /\ Offered(id) \notin ToParse'
<1>1. /\ Turn(n) /\ node_id[n] \in NodeID /\ TypeInv(n) /\ TypeOK
      /\ UNCHANGED Wire /\ Once' /\ Shakes(n)
  BY NodeStepFacts
<1>2. Offered(id) \in Tokens' => Offered(id) \in Tokens
  BY <1>1, HandshakesLeft
<1>3. CASE Parse(n)
  BY <1>1, <1>2, <1>3, ParseLeaves
<1>4. CASE Handle(n)
  BY <1>1, <1>2, <1>4, HandleLeaves
<1>5. CASE Run(n)
  <2>1. UNCHANGED <<rx, work>>
    BY <1>5, RunReadsNothing
  <2>2. OldOnly(id)
    BY <1>1, <1>2, <1>5, <2>1, RunLeaves
  <2>3. QED
    BY <2>1, <2>2 DEF ToParse
<1>6. QED
  BY <1>3, <1>4, <1>5
     DEF NodeSteps, ParsePacket, ParseNodePacket, ParseAction

(* What a handshake is aimed at stays, then, and only that acknowledges it. *)
LEMMA AimedStays ==
  ASSUME NEW n \in NetAddr, TunnelInv, TypeOK', NodeSteps(n),
         NEW id, NEW a, NEW m, Aimed(id, a, m)
  PROVE  Aimed(id, a, m)'
<1>1. PICK x \in NodeID : Drawn(minted, id, x, m)
  BY DEF Aimed
<1>2. /\ AimedOnWire(id, a) /\ AimedSent(id, a) /\ AimedRead(id, a)
      /\ Offered(id) \notin ToParse /\ Acked(id, a, m)
  BY DEF Aimed
<1>3. id \in 1 .. Len(minted) /\ minted[id] = <<x, m>>
  BY <1>1 DEF Drawn
<1>4. /\ Turn(n) /\ node_id[n] \in NodeID /\ TypeOK
      /\ n \in Nodes /\ UNCHANGED <<Wire, node_id, order, turn, Nodes>>
      /\ Once' /\ Shakes(n) /\ Grows /\ Extends
  BY NodeStepFacts
<1>5. /\ OldOnly(id) /\ (NotRead(id) \/ rx' = rx)
      /\ Offered(id) \notin ToParse'
  <2>1. rx # None => Straight(rx.encryption, id)
    BY <1>2 DEF AimedRead
  <2>2. QED
    BY <1>2, <1>3, <2>1, NodeStepLeaves
<1>6. \E y \in NodeID : Drawn(minted', id, y, m)
  BY <1>1, <1>4 DEF Grows
<1>7. AimedOnWire(id, a)'
  BY <1>2, <1>4 DEF AimedOnWire
<1>8. /\ DOMAIN outgoing = 1 .. Len(outgoing) /\ Len(outgoing) \in Nat
      /\ DOMAIN outgoing' = 1 .. Len(outgoing') /\ Len(outgoing') \in Nat
  BY <1>4, LenProperties DEF TypeOK, StackTypeOK
<1>9. AimedSent(id, a)'
  <2>1. ASSUME NEW i \in DOMAIN outgoing', i <= Len(outgoing)
        PROVE  /\ Straight(outgoing'[i].encryption, id)
               /\ Offered(id) \in TokenOf(outgoing'[i].encryption) =>
                    outgoing'[i].dest_addr = a
    <3>1. i \in DOMAIN outgoing /\ outgoing'[i] = outgoing[i]
      BY <1>4, <1>8, <2>1 DEF Extends
    <3>2. QED
      BY <1>2, <3>1 DEF AimedSent
  <2>2. ASSUME NEW i \in DOMAIN outgoing', ~(i <= Len(outgoing))
        PROVE  /\ Straight(outgoing'[i].encryption, id)
               /\ Offered(id) \in TokenOf(outgoing'[i].encryption) =>
                    outgoing'[i].dest_addr = a
    <3>1. Fresh(i)
      BY <1>8, <2>2 DEF Fresh
    <3>2. QED
      BY <1>5, <3>1 DEF OldOnly, Straight
  <2>3. \A i \in DOMAIN outgoing' :
          /\ Straight(outgoing'[i].encryption, id)
          /\ Offered(id) \in TokenOf(outgoing'[i].encryption) =>
               outgoing'[i].dest_addr = a
    BY <2>1, <2>2
  <2>4. QED
    BY <2>3 DEF AimedSent, Straight, Offered
<1>10. AimedRead(id, a)'
  BY <1>2, <1>4, <1>5 DEF AimedRead, NotRead, Straight, Offered
<1>11. Acked(id, a, m)'
  <2>1. SUFFICES ASSUME <<"Acknowledge", id>> \in Tokens'
                 PROVE  a \in Nodes /\ node_id[a] = m
    BY <1>4 DEF Acked
  <2>2. CASE <<"Acknowledge", id>> \in Tokens
    BY <1>2, <2>2 DEF Acked
  <2>3. CASE <<"Acknowledge", id>> \notin Tokens
    <3>1. /\ Offered(id) \in Tokens /\ Offered(id) \notin Tokens'
          /\ minted[id][2] = node_id[n]
      BY <1>4, <2>1, <2>3, AcknowledgesOwn
    <3>2. OnTheWay' = OnTheWay
      BY <1>4 DEF OnTheWay
    <3>3. ToSend \subseteq ToSend'
      <4>1. \A j \in DOMAIN outgoing :
              j \in DOMAIN outgoing' /\ outgoing'[j] = outgoing[j]
        BY <1>4, <1>8 DEF Extends
      <4>2. QED
        BY <4>1 DEF ToSend
    <3>4. Offered(id) \in ToRead
      BY <1>2, <3>1, <3>2, <3>3 DEF Tokens
    <3>5. order[turn] = a
      BY <1>2, <3>4 DEF AimedRead, ToRead
    <3>6. QED
      BY <1>3, <1>4, <3>1, <3>5 DEF Turn
  <2>4. QED
    BY <2>2, <2>3
<1>12. Offered(id)' \notin ToParse'
  BY <1>5 DEF Offered
<1>13. QED
  BY <1>6, <1>7, <1>9, <1>10, <1>11, <1>12 DEF Aimed

(* A handshake straight from a node's step is the node's own.               *)
LEMMA SourceStays ==
  ASSUME NEW n \in NetAddr, TunnelInv, TypeOK', NodeSteps(n), SourceTrue
  PROVE  SourceTrue'
<1>1. /\ Turn(n) /\ node_id[n] \in NodeID /\ TypeInv(n) /\ TypeOK
      /\ n \in Nodes /\ UNCHANGED <<Wire, node_id, order, turn, Nodes>>
      /\ Once' /\ Shakes(n) /\ Grows /\ Extends /\ NodeInv'
  BY NodeStepFacts
<1>2. WireTrue /\ SentTrue /\ ReadTrue
  BY DEF SourceTrue
<1>3. WireTrue'
  BY <1>1, <1>2 DEF WireTrue, FromSigner
<1>4. Parse(n) \/ Handle(n) \/ Run(n)
  BY DEF NodeSteps, ParsePacket, ParseNodePacket, ParseAction
<1>5. ReadTrue'
  <2>1. rx' = None \/ rx'.via.kind = "Traversed" \/ rx' = rx
    BY <1>1, <1>4, ParseActs, HandleActs, RunActs
  <2>2. QED
    BY <1>1, <1>2, <2>1 DEF ReadTrue, FromSigner
<1>6. /\ DOMAIN outgoing = 1 .. Len(outgoing) /\ Len(outgoing) \in Nat
      /\ DOMAIN outgoing' = 1 .. Len(outgoing') /\ Len(outgoing') \in Nat
  BY <1>1, LenProperties DEF TypeOK, StackTypeOK
<1>7. ASSUME NEW i \in DOMAIN outgoing', outgoing'[i].encryption # None,
             outgoing'[i].encryption.hops = <<>>,
             outgoing'[i].encryption.core.type = "Handshake"
      PROVE  node_id[n] = outgoing'[i].encryption.core.signer
  <2> DEFINE c == outgoing'[i].encryption.core
  <2>1. CASE i <= Len(outgoing)
    <3>1. i \in DOMAIN outgoing /\ outgoing'[i] = outgoing[i]
      BY <1>1, <1>6, <2>1 DEF Extends
    <3>2. QED
      BY <1>1, <1>2, <1>7, <3>1 DEF SentTrue, FromSigner, Turn
  <2>2. CASE ~(i <= Len(outgoing))
    <3>1. Fresh(i)
      BY <1>6, <2>2 DEF Fresh
    <3>2. ~Inside(outgoing'[i])
      BY <1>7 DEF Inside, IsSession
    <3>3. Run(n)
      BY <1>1, <1>4, <1>7, <3>1, <3>2, ParseOffersNothing, HandleSendsInside
    <3>4. TokenOf(outgoing'[i].encryption) = {Offered(c.session_id)}
      BY <1>7 DEF TokenOf, Offered
    <3>5. Offered(c.session_id) \in ToSend'
      BY <3>4 DEF ToSend
    <3>6. Offered(c.session_id) \in Tokens'
      BY <3>5 DEF Tokens
    <3>7. Offered(c.session_id)[2] = c.session_id
      BY DEF Offered
    <3>8. c.session_id \in 1 .. Len(minted')
      BY <1>1, <3>6, <3>7 DEF Once, Known
    <3>9. c.session_id \notin 1 .. Len(minted)
      <4>1. SUFFICES ASSUME c.session_id \in 1 .. Len(minted)
                     PROVE  FALSE
        OBVIOUS
      <4>2. Offered(c.session_id) \in Tokens
        BY <1>1, <3>6, <4>1, HandshakesLeft
      <4>3. UNCHANGED <<rx, work>>
        BY <3>3, RunReadsNothing
      <4>4. OldOnly(c.session_id)
        <5> DEFINE k == c.session_id
        <5>1. k \in 1 .. Len(minted) /\ Offered(k) \in Tokens
          BY <4>1, <4>2
        <5> HIDE DEF k
        <5>2. OldOnly(k)
          BY <1>1, <3>3, <4>3, <5>1, RunLeaves
        <5>3. QED
          BY <5>2 DEF k
      <4>5. QED
        BY <3>1, <3>4, <4>4 DEF OldOnly
    <3>10. PICK m \in NodeID : minted' = Append(minted, <<node_id[n], m>>)
      BY <1>1, <3>8, <3>9, ShakesDraw
    <3>11. minted \in Seq(NodeID \X NodeID)
      BY <1>1 DEF TypeOK, StackTypeOK
    <3>12. minted'[c.session_id] = <<node_id[n], m>>
      <4> DEFINE k == c.session_id
      <4>1. Len(minted') = Len(minted) + 1 /\ Len(minted) \in Nat
            /\ minted'[Len(minted) + 1] = <<node_id[n], m>>
        BY <1>1, <3>10, <3>11
      <4>2. k \in 1 .. Len(minted') /\ k \notin 1 .. Len(minted)
        BY <3>8, <3>9
      <4> HIDE DEF k
      <4>3. k = Len(minted) + 1
        BY <4>1, <4>2
      <4>4. QED
        BY <4>1, <4>3 DEF k
    <3>13. minted'[c.session_id] = <<c.signer, c.recipient>>
      BY <1>1, <1>7 DEF NodeInv, GenuineStack, GenuineSent, Genuine, Drawn
    <3>14. QED
      BY <3>12, <3>13
  <2>3. QED
    BY <2>1, <2>2
<1>8. SentTrue'
  BY <1>1, <1>7 DEF SentTrue, FromSigner, Turn
<1>9. QED
  BY <1>3, <1>5, <1>8 DEF SourceTrue

-----------------------------------------------------------------------------
(* Pending sessions                                                         *)

(* A handshake sent straight to an address is aimed at it.                  *)
LEMMA NewAim ==
  ASSUME NEW n \in NetAddr, node_id[n] \in NodeID, StackTypeOK, Once,
         UNCHANGED <<Wire, rx, work>>,
         NEW m \in NodeID, NEW b \in NetAddr, NEW packets,
         NEW id, id = Len(minted) + 1,
         Connect(n, m, DirectType(b), packets)
  PROVE  Aimed(id, b, m)'
<1> DEFINE hs == Handshake(m, id, node_id[n])
           p == Package(b, hs)
<1>1. minted' = Append(minted, <<node_id[n], m>>) /\ id \in SessionID
  BY DEF Connect, StackTypeOK, SessionID
<1>2. Drawn(minted', id, node_id[n], m)
  BY <1>1, OneDrawn
<1>3. Emit(p)
  BY DEF Connect, DirectType
<1>4. hs \in Encryption
  BY <1>1, EncryptionConstructors
<1>5. p # None /\ p.encryption = hs /\ p.dest_addr = b
  <2> HIDE DEF hs
  <2>1. p \in Outgoing /\ p.encryption = hs
    BY <1>4, PackageIsOutgoing
  <2>2. QED
    BY <2>1, NoneIsNoValue DEF Package
<1>6. hs.hops = <<>> /\ TokenOf(hs) = {Offered(id)}
  <2>1. hs.core.type = "Handshake" /\ hs.core.session_id = id /\ hs.hops = <<>>
    BY DEF Handshake, Bare
  <2>2. hs # None
    BY <1>4, EncryptionFields
  <2> HIDE DEF hs
  <2>3. QED
    BY <2>1, <2>2 DEF TokenOf, Offered
<1> HIDE DEF hs, p
<1>7. outgoing' = Append(outgoing, p)
  BY <1>3, <1>5 DEF Emit
<1>8. /\ DOMAIN outgoing' = 1 .. Len(outgoing) + 1 /\ Len(outgoing) \in Nat
      /\ DOMAIN outgoing = 1 .. Len(outgoing)
      /\ outgoing'[Len(outgoing) + 1] = p
      /\ \A i \in DOMAIN outgoing : outgoing'[i] = outgoing[i]
  BY <1>7, LenProperties DEF StackTypeOK
<1>9. \A t \in Tokens : t[2] # id
  BY DEF Once, Known, StackTypeOK
<1>10. Offered(id)[2] = id /\ <<"Acknowledge", id>>[2] = id
       /\ Offered(id) # <<"Acknowledge", id>>
  BY DEF Offered
<1>11. /\ Offered(id) \notin Tokens /\ <<"Acknowledge", id>> \notin Tokens
  BY <1>9, <1>10
<1>12. AimedOnWire(id, b)'
  <2>1. \A a \in NetAddr : \A i \in DOMAIN Wire[a] :
          Offered(id) \notin TokenOf(Wire[a][i].encryption)
    BY <1>11 DEF Tokens, OnTheWay
  <2>2. QED
    BY <2>1 DEF AimedOnWire, Straight, Offered
<1>13. AimedSent(id, b)'
  <2>1. \A i \in DOMAIN outgoing :
          Offered(id) \notin TokenOf(outgoing[i].encryption)
    BY <1>11 DEF Tokens, ToSend
  <2>2. \A i \in DOMAIN outgoing' :
          \/ i \in DOMAIN outgoing /\ outgoing'[i] = outgoing[i]
          \/ outgoing'[i] = p
    BY <1>8
  <2>3. QED
    BY <1>5, <1>6, <2>1, <2>2 DEF AimedSent, Straight, Offered
<1>14. AimedRead(id, b)'
  <2>1. rx # None => Offered(id) \notin TokenOf(rx.encryption)
    BY <1>11 DEF Tokens, ToRead
  <2>2. QED
    BY <2>1 DEF AimedRead, Straight, Offered
<1>15. /\ OnTheWay' = OnTheWay /\ ToRead' = ToRead /\ ToParse' = ToParse
  BY DEF OnTheWay, ToRead, ToParse
<1>16. \A t \in ToSend' : t \in ToSend \/ t = Offered(id)
  BY <1>5, <1>6, <1>8 DEF ToSend
<1>17. Acked(id, b, m)'
  BY <1>10, <1>11, <1>15, <1>16 DEF Acked, Tokens
<1>18. Offered(id)' \notin ToParse'
  BY <1>11, <1>15 DEF Tokens, Offered
<1>19. QED
  BY <1>2, <1>12, <1>13, <1>14, <1>17, <1>18 DEF Aimed

(* What was pending is, or is dropped.                                      *)
Dropped ==
  \A a \in NetAddr, k \in NodeID :
    pending_session'[a][k] \in {None, pending_session[a][k]}

(* So it is when one is dropped,                                            *)
LEMMA SetPending ==
  ASSUME NodeTypeOK, NEW n \in NetAddr, NEW m \in NodeID,
         NEW v \in {None, pending_session[n][m]},
         pending_session' = [pending_session EXCEPT ![n][m] = v]
  PROVE  Dropped
BY DEF NodeTypeOK, Dropped

(* as an answer does to the session it establishes,                         *)
LEMMA ParseDrops ==
  ASSUME NEW n \in NetAddr, TypeInv(n), Parse(n)
  PROVE  Dropped
<1> USE DEF TypeInv
<1>1. CASE UNCHANGED pending_session
  BY <1>1 DEF Dropped
<1>2. CASE ParseHandshake(n) /\ ~UNCHANGED pending_session
  <2> DEFINE m == rx.encryption.core.signer
  <2>1. m \in NodeID
    BY <1>2, ParsingFields, CoreFields DEF ParseHandshake, Parsing
  <2>2. pending_session' =
          [pending_session EXCEPT ![n][m] = YieldPending(n, m)]
    BY <1>2 DEF ParseHandshake
  <2>3. YieldPending(n, m) \in {None, pending_session[n][m]}
    BY DEF YieldPending
  <2> HIDE DEF m
  <2>4. QED
    BY <2>1, <2>2, <2>3, SetPending
<1>3. CASE ParseAcknowledge(n)
  <2> DEFINE m == rx.encryption.core.acknowledger
  <2>1. m \in NodeID
    BY <1>3, ParsingFields, CoreFields DEF ParseAcknowledge, Parsing
  <2>2. pending_session' = [pending_session EXCEPT ![n][m] = None]
    BY <1>3 DEF ParseAcknowledge
  <2> HIDE DEF m
  <2>3. QED
    BY <2>1, <2>2, SetPending
<1>4. QED
  BY <1>1, <1>2, <1>3
     DEF Parse, ParseResponse, ParseSession, ParseNotify

(* what is in a packet puts none in place,                                  *)
LEMMA HandleDrops ==
  ASSUME NEW n \in NetAddr, Handle(n)
  PROVE  Dropped
<1>1. UNCHANGED pending_session
  BY DEF Handle, HandleConnectionInit, HandleExchangeInfo,
         HandleExchangeInfoResponse, HandleRequestPings, HandleWantPing,
         HandleAcceptWantPing, HandlePeerNotify, HandleTraverse, HandleData
<1>2. QED
  BY <1>1 DEF Dropped

(* and no action does but by a connect.                                     *)
LEMMA RunDrops ==
  ASSUME NEW n \in NetAddr, TypeInv(n), Run(n)
  PROVE  \/ Dropped
         \/ \E m \in NodeID, b \in NetAddr : \E packets :
              Connect(n, m, DirectType(b), packets)
         \/ \E m \in NodeID, coord \in Coord :
              Connect(n, m, TraversedType(coord), <<>>)
<1>1. CASE UNCHANGED pending_session
  BY <1>1 DEF Dropped
<1>2. CASE RunBootstrap(n)
  <2>1. Head(queue).id \in NodeID /\ Head(queue).addr \in NetAddr
    BY <1>2, RunningHead, ActionFields DEF RunBootstrap, Running, TypeInv
  <2>2. QED
    BY <1>2, <2>1 DEF RunBootstrap
<1>3. CASE RunConnect(n)
  <2>1. Head(queue).id \in NodeID /\ Head(queue).addr \in NetAddr
    BY <1>3, RunningHead, ActionFields DEF RunConnect, Running, TypeInv
  <2>2. QED
    BY <1>3, <2>1 DEF RunConnect
<1>4. CASE RunConnectTraversed(n) /\ ~UNCHANGED pending_session
  <2>1. Head(queue).id \in NodeID
    BY <1>4, RunningHead, ActionFields
       DEF RunConnectTraversed, Running, TypeInv, Awaitable
  <2>2. remote_coord[n][Head(queue).id] # None
        /\ Connect(n, Head(queue).id,
                   TraversedType(remote_coord[n][Head(queue).id]), <<>>)
    BY <1>4 DEF RunConnectTraversed
  <2>3. remote_coord[n][Head(queue).id] \in Coord
    BY <2>1, <2>2 DEF TypeInv, NodeTypeOK, MaybeCoord
  <2>4. QED
    BY <2>1, <2>2, <2>3
<1>5. QED
  BY <1>1, <1>2, <1>3, <1>4
     DEF Run, RunUpdateRemote, RunCalcRouteCoord, RunCalculatePeers, RunNotify,
         RunRequestRouteCoord, RunConnectRouted, RunSendData, RunCondition

(* So pending direct sessions stay aimed.                                   *)
LEMMA PendingStays ==
  ASSUME NEW n \in NetAddr, TunnelInv, TypeOK', NodeSteps(n), PendingAimed
  PROVE  PendingAimed'
<1>1. /\ Turn(n) /\ node_id[n] \in NodeID /\ TypeInv(n) /\ TypeOK
      /\ UNCHANGED <<Wire, node_id, order, turn, Nodes>> /\ Once
  BY NodeStepFacts DEF TunnelInv
<1>2. Parse(n) \/ Handle(n) \/ Run(n)
  BY DEF NodeSteps, ParsePacket, ParseNodePacket, ParseAction
<1>3. Nodes' = Nodes /\ Nodes \subseteq NetAddr
  BY <1>1 DEF Nodes
<1>4. ASSUME NEW a \in Nodes, NEW k \in NodeID,
             pending_session'[a][k] \in {None, pending_session[a][k]}
      PROVE  AimedPending(pending_session[a][k], k)'
  <2>1. CASE pending_session'[a][k] = None
    BY <2>1 DEF AimedPending
  <2>2. CASE /\ pending_session'[a][k] = pending_session[a][k]
             /\ pending_session[a][k] # None
             /\ pending_session[a][k].session_type.kind = "Direct"
    <3>1. PICK id, b : /\ id = pending_session[a][k].session_id
                       /\ b = pending_session[a][k].session_type.net_addr
      OBVIOUS
    <3>2. Aimed(id, b, k)
      BY <2>2, <3>1 DEF PendingAimed, AimedPending
    <3>3. Aimed(id, b, k)'
      BY <3>2, AimedStays
    <3>4. id = pending_session'[a][k].session_id
          /\ b = pending_session'[a][k].session_type.net_addr
      BY <2>2, <3>1
    <3>5. QED
      BY <3>3, <3>4 DEF AimedPending
  <2>3. QED
    BY <1>4, <2>1, <2>2 DEF AimedPending
<1>5. ASSUME NEW m \in NodeID, NEW type, NEW packets,
             Connect(n, m, type, packets)
      PROVE  /\ \A a \in NetAddr, k \in NodeID :
                  \/ pending_session'[a][k] = pending_session[a][k]
                  \/ a = n /\ k = m
             /\ pending_session'[n][m].session_id = Len(minted) + 1
             /\ pending_session'[n][m].session_type = type
  BY <1>1, <1>5 DEF Connect, TypeOK, NodeTypeOK
<1>6. CASE Dropped
  BY <1>3, <1>4, <1>6 DEF Dropped, PendingAimed
<1>7. ASSUME NEW m \in NodeID, NEW coord \in Coord,
             Connect(n, m, TraversedType(coord), <<>>)
      PROVE  PendingAimed'
  <2>1. pending_session'[n][m].session_type.kind = "Traversed"
    BY <1>5, <1>7 DEF TraversedType
  <2>2. \A a \in NetAddr, k \in NodeID :
          \/ pending_session'[a][k] = pending_session[a][k]
          \/ a = n /\ k = m
    BY <1>5, <1>7
  <2>3. AimedPending(pending_session[n][m], m)'
    BY <2>1 DEF AimedPending
  <2>4. QED
    BY <1>3, <1>4, <2>2, <2>3 DEF PendingAimed
<1>8. ASSUME NEW m \in NodeID, NEW b \in NetAddr, NEW packets,
             Connect(n, m, DirectType(b), packets), Run(n)
      PROVE  PendingAimed'
  <2>1. PICK id : id = Len(minted) + 1
    OBVIOUS
  <2>2. UNCHANGED <<rx, work>>
    BY <1>8, RunReadsNothing
  <2>3. StackTypeOK
    BY <1>1 DEF TypeOK
  <2>4. Aimed(id, b, m)'
    BY <1>1, <1>8, <2>1, <2>2, <2>3, NewAim
  <2>5. pending_session'[n][m].session_id = id
        /\ pending_session'[n][m].session_type.net_addr = b
    BY <1>5, <1>8, <2>1 DEF DirectType
  <2>6. AimedPending(pending_session[n][m], m)'
    BY <2>4, <2>5 DEF AimedPending
  <2>7. \A a \in NetAddr, k \in NodeID :
          \/ pending_session'[a][k] = pending_session[a][k]
          \/ a = n /\ k = m
    BY <1>5, <1>8
  <2>8. QED
    BY <1>3, <1>4, <2>6, <2>7 DEF PendingAimed
<1>9. QED
  BY <1>1, <1>2, <1>6, <1>7, <1>8, ParseDrops, HandleDrops, RunDrops

-----------------------------------------------------------------------------
(* Sessions                                                                 *)

(* A session that leads where it led is as good as it was.                  *)
SameWay(s, t) ==
  IsDirect(t) => /\ IsDirect(s)
                 /\ t.session_type.net_addr = s.session_type.net_addr
SameWays ==
  \A a \in NetAddr, k \in NodeID : SameWay(session[a][k], session'[a][k])

(* Then every direct one still leads to its remote.                         *)
LEMMA WaysStay ==
  ASSUME AddressCorrect, SameWays, UNCHANGED node_id
  PROVE  AddressCorrect'
BY DEF AddressCorrect, SameWays, SameWay, Nodes

(* One session is changed, but leads where it did.                          *)
LEMMA ReplacedWay ==
  ASSUME NodeTypeOK, NEW n \in NetAddr, NEW m \in NodeID, NEW t,
         SameWay(session[n][m], t), session' = [session EXCEPT ![n][m] = t]
  PROVE  SameWays
<1>1. \A a \in NetAddr, k \in NodeID :
        \/ session'[a][k] = session[a][k]
        \/ a = n /\ k = m /\ session'[a][k] = t
  BY SetSessionIDs
<1>2. QED
  BY <1>1 DEF SameWays, SameWay

(* When a packet last came is noted in place.                               *)
LEMMA ReceivedWays ==
  ASSUME NodeTypeOK, NEW n \in NetAddr, NEW m \in NodeID,
         NEW type \in Limited, session[n][m] # None, Received(n, m, type)
  PROVE  SameWays
<1> DEFINE s == session[n][m]
           t == [s EXCEPT !.last[type] = ticks[n]]
<1>1. s \in Session
  BY DEF NodeTypeOK
<1>2. t.session_type = s.session_type
  BY <1>1 DEF Session
<1>3. session' = [session EXCEPT ![n][m] = t]
  BY DEF Received
<1> HIDE DEF t
<1>4. SameWay(s, t)
  BY <1>2 DEF SameWay, IsDirect
<1>5. QED
  BY <1>3, <1>4, ReplacedWay

(* A flag set on a session leaves its address alone.                        *)
LEMMA SetPeerWay ==
  ASSUME NEW s \in Session, IsDirect(s), NEW flag, NEW toggle
  PROVE  SameWay(s, SetPeer(s, flag, toggle))
<1> DEFINE T == s.session_type
           flags == IF toggle THEN T.peer_status \cup {flag}
                              ELSE T.peer_status \ {flag}
           U == [T EXCEPT !.peer_status = flags]
<1>1. SetPeer(s, flag, toggle).session_type = U
  BY DEF SetPeer, Session
<1>2. T \in [kind : {"Direct"}, net_addr : NetAddr,
             peer_status : SUBSET {"Outgoing", "Incoming"}]
  BY DEF Session, IsDirect, SessionType
<1> HIDE DEF T, flags
<1>3. U.net_addr = T.net_addr
  BY <1>2
<1>4. QED
  BY <1>1, <1>3 DEF SameWay, T

(* A handler of a node packet changes no way.                               *)
LEMMA HandleWays ==
  ASSUME NEW n \in NetAddr, TypeInv(n), Handle(n)
  PROVE  SameWays
<1> USE DEF TypeInv
<1>1. CASE UNCHANGED session
  BY <1>1 DEF SameWays, SameWay
<1>2. CASE HandleConnectionInit(n) /\ ~UNCHANGED session
  <2> DEFINE m == Head(work).from
             t == [session[n][m] EXCEPT !.ping_sent = None]
  <2>1. /\ m \in NodeID /\ session[n][m] \in Session
        /\ session' = [session EXCEPT ![n][m] = t]
    BY <1>2, HandlingHead DEF HandleConnectionInit
  <2>2. t.session_type = session[n][m].session_type
    BY <2>1 DEF Session
  <2>3. session[n][m] # None
    BY <2>1, NoneIsNoValue
  <2> HIDE DEF t, m
  <2>4. SameWay(session[n][m], t)
    BY <2>2, <2>3 DEF SameWay, IsDirect
  <2>5. QED
    BY <2>1, <2>4, ReplacedWay
<1>3. CASE HandleRequestPings(n) \/ HandleAcceptWantPing(n)
  <2>1. Head(work).from \in NodeID /\ session[n][Head(work).from] # None
    BY <1>3, HandlingHead DEF HandleRequestPings, HandleAcceptWantPing
  <2>2. QED
    BY <1>3, <2>1, ReceivedWays
       DEF HandleRequestPings, HandleAcceptWantPing, Limited
<1>4. CASE HandlePeerNotify(n) /\ ~UNCHANGED session
  <2> DEFINE m == Head(work).from
             t == SetPeer(session[n][m], "Incoming", Head(work).packet.peered)
  <2>1. /\ m \in NodeID /\ session[n][m] \in Session /\ IsDirect(session[n][m])
        /\ session' = [session EXCEPT ![n][m] = t]
    BY <1>4, HandlingHead DEF HandlePeerNotify
  <2>2. SameWay(session[n][m], t)
    BY <2>1, SetPeerWay
  <2> HIDE DEF t, m
  <2>3. QED
    BY <2>1, <2>2, ReplacedWay
<1>5. QED
  BY <1>1, <1>2, <1>3, <1>4
     DEF Handle, HandleExchangeInfo, HandleExchangeInfoResponse,
         HandleWantPing, HandleTraverse, HandleData

(* Nor does an action: calculate-peers only sets flags.                     *)
LEMMA RunWays ==
  ASSUME NEW n \in NetAddr, TypeInv(n), Run(n)
  PROVE  SameWays
<1> USE DEF TypeInv
<1>1. CASE UNCHANGED session
  BY <1>1 DEF SameWays, SameWay
<1>2. CASE RunCalculatePeers(n) /\ ~UNCHANGED session
  <2> DEFINE peers  == PeerList(n)
             tested == {e[2] : e \in Visited(n)}
             F(m) == SetPeer(session[n][m], "Outgoing", peers[m] # None)
             S == [m \in NodeID |->
                     IF m \in tested /\ IsDirect(session[n][m])
                       THEN F(m) ELSE session[n][m]]
  <2>1. session' = [session EXCEPT ![n] = S]
    BY <1>2 DEF RunCalculatePeers
  <2>2. \A m \in NodeID : SameWay(session[n][m], S[m])
    <3>1. ASSUME NEW m \in NodeID, IsDirect(session[n][m])
          PROVE  SameWay(session[n][m], F(m))
      <4>1. session[n][m] \in Session
        BY <3>1 DEF NodeTypeOK, IsDirect
      <4>2. QED
        BY <3>1, <4>1, SetPeerWay
    <3> HIDE DEF F, tested
    <3>2. ASSUME NEW m \in NodeID
          PROVE  \/ S[m] = session[n][m]
                 \/ IsDirect(session[n][m]) /\ S[m] = F(m)
      OBVIOUS
    <3> HIDE DEF S
    <3>3. QED
      BY <3>1, <3>2 DEF SameWay
  <2> HIDE DEF S
  <2>3. \A a \in NetAddr : session'[a] = IF a = n THEN S ELSE session[a]
    BY <2>1 DEF NodeTypeOK
  <2>4. QED
    BY <2>2, <2>3 DEF SameWays, SameWay
<1>3. QED
  BY <1>1, <1>2
     DEF Run, RunBootstrap, RunConnect, RunUpdateRemote, RunCalcRouteCoord,
         RunNotify, RunRequestRouteCoord, RunConnectTraversed,
         RunConnectRouted, RunSendData, RunCondition

(* A session answering a handshake leads to where that came from.           *)
LEMMA ParseHandshakeAddresses ==
  ASSUME NEW n \in NetAddr, TypeInv(n), UNCHANGED node_id, ReadTrue,
         AddressCorrect, ParseHandshake(n), ~UNCHANGED session
  PROVE  AddressCorrect'
<1> USE DEF TypeInv
<1> DEFINE c == rx.encryption.core
           m == c.signer
           s == NewSession(c.session_id, rx.via, ticks[n])
<1>1. /\ rx # None /\ c.type = "Handshake" /\ m \in NodeID
      /\ ~IsSession(rx.encryption) /\ rx.encryption # None
  BY ParsingFields, CoreFields, EncryptionFields DEF ParseHandshake, Parsing
<1>2. session' = [session EXCEPT ![n][m] = s]
  BY DEF ParseHandshake
<1>3. s.session_type = rx.via
  BY DEF NewSession
<1>4. IsDirect(s) => node_id[s.session_type.net_addr] = m
  <2> HIDE DEF s
  <2>1. rx.encryption.hops = <<>>
    BY <1>1 DEF IsSession
  <2>2. QED
    BY <1>1, <1>3, <2>1 DEF ReadTrue, FromSigner, IsDirect
<1> HIDE DEF s, m
<1>5. \A a \in NetAddr, k \in NodeID :
        \/ session'[a][k] = session[a][k]
        \/ a = n /\ k = m /\ session'[a][k] = s
  BY <1>1, <1>2, SetSessionIDs DEF m
<1>6. QED
  BY <1>4, <1>5 DEF AddressCorrect, Nodes

(* One made of an acknowledgement leads to where its handshake was aimed.   *)
LEMMA ParseAcknowledgeAddresses ==
  ASSUME NEW n \in Nodes, TypeInv(n), UNCHANGED node_id, PendingAimed,
         AddressCorrect, ParseAcknowledge(n), ~UNCHANGED session
  PROVE  AddressCorrect'
<1> USE DEF TypeInv
<1> DEFINE c == rx.encryption.core
           m == c.acknowledger
           p == pending_session[n][m]
           s == NewSession(c.session_id, p.session_type, None)
<1>1. /\ rx # None /\ c.type = "Acknowledge" /\ m \in NodeID
      /\ rx.encryption # None /\ n \in NetAddr
  BY ParsingFields, CoreFields, EncryptionFields
     DEF ParseAcknowledge, Parsing, Nodes
<1>2. /\ p # None /\ p.session_id = c.session_id
      /\ session' = [session EXCEPT ![n] = [session[n] EXCEPT ![m] = s]]
  BY DEF ParseAcknowledge
<1>3. s.session_type = p.session_type
  BY DEF NewSession
<1>4. <<"Acknowledge", p.session_id>> \in Tokens
  <2>1. TokenOf(rx.encryption) = {<<"Acknowledge", c.session_id>>}
    BY <1>1 DEF TokenOf
  <2>2. <<"Acknowledge", c.session_id>> \in ToRead
    BY <1>1, <2>1 DEF ToRead
  <2>3. QED
    BY <1>2, <2>2 DEF Tokens
<1>5. IsDirect(s) => node_id[s.session_type.net_addr] = m
  <2> HIDE DEF s, p, m
  <2>1. AimedPending(p, m)
    BY <1>1 DEF PendingAimed, p, m
  <2>2. QED
    BY <1>2, <1>3, <1>4, <2>1 DEF AimedPending, Aimed, Acked, IsDirect
<1> HIDE DEF s, m
<1>6. \A a \in NetAddr, k \in NodeID :
        \/ session'[a][k] = session[a][k]
        \/ a = n /\ k = m /\ session'[a][k] = s
  <2>1. session \in [NetAddr -> [NodeID -> Session \cup {None}]]
    BY DEF NodeTypeOK
  <2>2. QED
    BY <1>1, <1>2, <2>1 DEF m
<1>7. QED
  BY <1>5, <1>6 DEF AddressCorrect, Nodes

(* So no step of a node files a direct session under another's address.     *)
LEMMA AddressesStay ==
  ASSUME NEW n \in NetAddr, TunnelInv, TypeOK', NodeSteps(n), SourceTrue,
         PendingAimed, AddressCorrect
  PROVE  AddressCorrect'
<1>1. /\ n \in Nodes /\ TypeInv(n) /\ UNCHANGED node_id
  BY NodeStepFacts
<1>2. CASE Parse(n)
  <2>1. CASE UNCHANGED session
    BY <1>1, <2>1, WaysStay DEF SameWays, SameWay
  <2>2. CASE ~UNCHANGED session
    BY <1>1, <1>2, <2>2, ParseHandshakeAddresses, ParseAcknowledgeAddresses
       DEF Parse, ParseResponse, ParseSession, ParseNotify, SourceTrue
  <2>3. QED
    BY <2>1, <2>2
<1>3. CASE Handle(n)
  BY <1>1, <1>3, HandleWays, WaysStay
<1>4. CASE Run(n)
  BY <1>1, <1>4, RunWays, WaysStay
<1>5. QED
  BY <1>2, <1>3, <1>4
     DEF NodeSteps, ParsePacket, ParseNodePacket, ParseAction

-----------------------------------------------------------------------------
(* The network                                                              *)

(* What a step that hands packets on does with them: those on the wire were *)
(* there, or were put there as sent; those to be sent were to be sent; and  *)
(* what is read was, or comes from the wire.                                *)
PutBy(p, a) ==
  \/ p.encryption = None
  \/ \E j \in DOMAIN outgoing :
       /\ p.encryption = outgoing[j].encryption /\ p.src_addr = order[turn]
       /\ a = outgoing[j].dest_addr
WireMoves ==
  \A a \in NetAddr : \A i \in DOMAIN Wire'[a] :
    \/ \E j \in DOMAIN Wire[a] : Wire'[a][i] = Wire[a][j]
    \/ PutBy(Wire'[a][i], a)
SentMoves ==
  \A i \in DOMAIN outgoing' :
    /\ order'[turn'] = order[turn]
    /\ \E j \in DOMAIN outgoing : outgoing'[i] = outgoing[j]
ReadMoves ==
  rx' # None =>
    \/ rx' = rx /\ order'[turn'] = order[turn]
    \/ \E n \in NetAddr : \E j \in DOMAIN Wire[n] :
         /\ n = order'[turn'] /\ rx'.encryption = Wire[n][j].encryption
         /\ rx'.via = DirectType(Wire[n][j].src_addr)
(* And what it may do to the nodes: none is taken away.                     *)
NodesStay ==
  \A a \in Nodes : a \in Nodes' /\ node_id'[a] = node_id[a]
Moves ==
  /\ WireMoves /\ SentMoves /\ ReadMoves /\ NodesStay
  /\ UNCHANGED minted /\ Tokens' \subseteq Tokens /\ ToParse' \subseteq ToParse

(* Handshakes stay under their signers' addresses,                          *)
LEMMA MovesKeepSource ==
  ASSUME Moves, SourceTrue
  PROVE  SourceTrue'
<1>1. WireTrue /\ SentTrue /\ ReadTrue
  BY DEF SourceTrue
<1>2. /\ WireMoves /\ SentMoves /\ ReadMoves /\ NodesStay
  BY DEF Moves
<1>3. \A enc, a : FromSigner(enc, a) => FromSigner(enc, a)'
  BY <1>2 DEF NodesStay, FromSigner
<1>4. WireTrue'
  <2>1. ASSUME NEW a \in NetAddr, NEW i \in DOMAIN Wire'[a]
        PROVE  FromSigner(Wire'[a][i].encryption, Wire'[a][i].src_addr)
    <3>1. CASE \E j \in DOMAIN Wire[a] : Wire'[a][i] = Wire[a][j]
      BY <1>1, <3>1 DEF WireTrue
    <3>2. CASE PutBy(Wire'[a][i], a)
      <4> DEFINE x == Wire'[a][i]
      <4> HIDE DEF x
      <4>1. PutBy(x, a)
        BY <3>2 DEF x
      <4>2. FromSigner(x.encryption, x.src_addr)
        BY <1>1, <4>1 DEF PutBy, SentTrue, FromSigner
      <4>3. QED
        BY <4>2 DEF x
    <3>3. QED
      BY <1>2, <3>1, <3>2 DEF WireMoves
  <2>2. ASSUME NEW a \in NetAddr, NEW i \in DOMAIN Wire'[a]
        PROVE  FromSigner(Wire[a][i].encryption, Wire[a][i].src_addr)'
    <3>1. PICK enc, b : enc = Wire'[a][i].encryption
                        /\ b = Wire'[a][i].src_addr
      OBVIOUS
    <3>2. FromSigner(enc, b)'
      BY <1>3, <2>1, <3>1
    <3>3. QED
      BY <3>1, <3>2 DEF FromSigner
  <2>3. QED
    BY <2>2 DEF WireTrue
<1>5. SentTrue'
  <2>1. ASSUME NEW i \in DOMAIN outgoing'
        PROVE  FromSigner(outgoing[i].encryption, order[turn])'
    <3>1. PICK enc, b : enc = outgoing'[i].encryption /\ b = order'[turn']
      OBVIOUS
    <3>2. FromSigner(enc, b)
      BY <1>1, <1>2, <2>1, <3>1 DEF SentMoves, SentTrue
    <3>3. FromSigner(enc, b)'
      BY <1>3, <3>2
    <3>4. QED
      BY <3>1, <3>3 DEF FromSigner
  <2>2. QED
    BY <2>1 DEF SentTrue
<1>6. ReadTrue'
  <2>1. SUFFICES ASSUME rx' # None, rx'.via.kind = "Direct"
                 PROVE  FromSigner(rx.encryption, rx.via.net_addr)'
    BY DEF ReadTrue
  <2>2. PICK enc, b : enc = rx'.encryption /\ b = rx'.via.net_addr
    OBVIOUS
  <2>3. FromSigner(enc, b)
    <3>1. CASE rx' = rx
      BY <1>1, <2>1, <2>2, <3>1 DEF ReadTrue
    <3>2. CASE rx' # rx
      <4>1. PICK n \in NetAddr : \E j \in DOMAIN Wire[n] :
              /\ rx'.encryption = Wire[n][j].encryption
              /\ rx'.via = DirectType(Wire[n][j].src_addr)
        BY <1>2, <2>1, <3>2 DEF ReadMoves
      <4>2. PICK j \in DOMAIN Wire[n] :
              /\ rx'.encryption = Wire[n][j].encryption
              /\ rx'.via = DirectType(Wire[n][j].src_addr)
        BY <4>1
      <4>3. b = Wire[n][j].src_addr /\ enc = Wire[n][j].encryption
        BY <2>2, <4>2 DEF DirectType
      <4>4. QED
        BY <1>1, <4>3 DEF WireTrue
    <3>3. QED
      BY <3>1, <3>2
  <2>4. FromSigner(enc, b)'
    BY <1>3, <2>3
  <2>5. QED
    BY <2>2, <2>4 DEF FromSigner
<1>7. QED
  BY <1>4, <1>5, <1>6 DEF SourceTrue

(* and go where they were aimed at.                                         *)
LEMMA MovesKeepAim ==
  ASSUME Moves, NEW id, NEW a, NEW m, Aimed(id, a, m)
  PROVE  Aimed(id, a, m)'
<1>1. /\ \E x \in NodeID : Drawn(minted, id, x, m)
      /\ AimedOnWire(id, a) /\ AimedSent(id, a) /\ AimedRead(id, a)
      /\ Offered(id) \notin ToParse /\ Acked(id, a, m)
  BY DEF Aimed
<1>2. /\ WireMoves /\ SentMoves /\ ReadMoves /\ NodesStay
      /\ UNCHANGED minted /\ Tokens' \subseteq Tokens
      /\ ToParse' \subseteq ToParse
  BY DEF Moves
<1>3. AimedOnWire(id, a)'
  <2>1. ASSUME NEW n \in NetAddr, NEW i \in DOMAIN Wire'[n]
        PROVE  /\ Straight(Wire'[n][i].encryption, id)
               /\ Offered(id) \in TokenOf(Wire'[n][i].encryption) => n = a
    <3>1. CASE \E j \in DOMAIN Wire[n] : Wire'[n][i] = Wire[n][j]
      BY <1>1, <3>1 DEF AimedOnWire
    <3>2. CASE PutBy(Wire'[n][i], n)
      <4>1. PICK enc : enc = Wire'[n][i].encryption
        OBVIOUS
      <4>2. \/ enc = None
            \/ \E j \in DOMAIN outgoing : /\ enc = outgoing[j].encryption
                                          /\ n = outgoing[j].dest_addr
        BY <3>2, <4>1 DEF PutBy
      <4>3. CASE enc = None
        BY <4>1, <4>3 DEF TokenOf, Straight
      <4>4. CASE enc # None
        BY <1>1, <4>1, <4>2, <4>4 DEF AimedSent
      <4>5. QED
        BY <4>3, <4>4
    <3>3. QED
      BY <1>2, <3>1, <3>2 DEF WireMoves
  <2>2. QED
    BY <2>1 DEF AimedOnWire, Straight, Offered
<1>4. AimedSent(id, a)'
  BY <1>1, <1>2 DEF AimedSent, SentMoves, Straight, Offered
<1>5. AimedRead(id, a)'
  BY <1>1, <1>2 DEF AimedRead, ReadMoves, AimedOnWire, Straight, Offered
<1>6. Acked(id, a, m)'
  BY <1>1, <1>2 DEF Acked, NodesStay
<1>7. Offered(id)' \notin ToParse'
  BY <1>1, <1>2 DEF Offered
<1>8. QED
  BY <1>1, <1>2, <1>3, <1>4, <1>5, <1>6, <1>7 DEF Aimed

(* Nodes that stay keep what is pending, or drop it.                        *)
Forgets ==
  \A a \in Nodes', k \in NodeID :
    pending_session'[a][k] # None =>
      a \in Nodes /\ pending_session'[a][k] = pending_session[a][k]

(* So what is pending stays aimed while packets only move.                  *)
LEMMA MovesKeepPending ==
  ASSUME Moves, Forgets, PendingAimed
  PROVE  PendingAimed'
<1>1. ASSUME NEW a \in Nodes', NEW k \in NodeID, pending_session'[a][k] # None,
             pending_session'[a][k].session_type.kind = "Direct"
      PROVE  AimedPending(pending_session[a][k], k)'
  <2>1. a \in Nodes /\ pending_session'[a][k] = pending_session[a][k]
    BY <1>1 DEF Forgets
  <2>2. PICK id, b : /\ id = pending_session[a][k].session_id
                     /\ b = pending_session[a][k].session_type.net_addr
    OBVIOUS
  <2>3. Aimed(id, b, k)
    BY <1>1, <2>1, <2>2 DEF PendingAimed, AimedPending
  <2>4. Aimed(id, b, k)'
    BY <2>3, MovesKeepAim
  <2>5. id = pending_session'[a][k].session_id
        /\ b = pending_session'[a][k].session_type.net_addr
    BY <2>1, <2>2
  <2>6. QED
    BY <2>4, <2>5 DEF AimedPending
<1>2. QED
  BY <1>1 DEF PendingAimed, AimedPending

(* The steps of a tick around a node's own hand packets on.                 *)
LEMMA DeliverMoves ==
  ASSUME NEW n \in NetAddr, TunnelInv, Deliver(n)
  PROVE  Moves
<1>1. MapInv /\ TypeOK
  BY DEF TunnelInv, PairInv, MapInv, IInv
<1>2. /\ UNCHANGED <<node_id, work, outgoing, minted, order, turn>>
      /\ n = order[turn]
  BY DEF Deliver, Turn
<1>3. Tokens' \subseteq Tokens
  BY DeliverOnce
<1>4. ReadMoves
  <2>1. PICK i \in Due(n) :
          rx' = [request |-> packet_map[n][i].packet.request,
                 encryption |-> packet_map[n][i].packet.encryption,
                 via |-> DirectType(packet_map[n][i].packet.src_addr)]
    BY DEF Deliver
  <2>2. i \in DOMAIN Wire[n] /\ Wire[n][i] = packet_map[n][i].packet
    BY DEF Due, Wire
  <2>3. /\ rx'.encryption = Wire[n][i].encryption
        /\ rx'.via = DirectType(Wire[n][i].src_addr)
    BY <2>1, <2>2
  <2>4. QED
    BY <1>2, <2>2, <2>3 DEF ReadMoves
<1>5. WireMoves
  <2>1. PICK i \in 1 .. Len(Wire[n]) :
          Wire' = [Wire EXCEPT ![n] = Without(Wire[n], i)]
    BY <1>1, DeliverReceives DEF Net!Receive, Without
  <2>2. Wire[n] \in Seq(Incoming) /\ DOMAIN Wire = NetAddr
    BY <1>1, WireTypes DEF Wire
  <2>3. \A k \in DOMAIN Without(Wire[n], i) :
          \E j \in DOMAIN Wire[n] : Without(Wire[n], i)[k] = Wire[n][j]
    <3>1. /\ Without(Wire[n], i) \in Seq(Incoming)
          /\ Len(Without(Wire[n], i)) = Len(Wire[n]) - 1
          /\ \A k \in 1 .. Len(Wire[n]) - 1 :
               Without(Wire[n], i)[k] =
                 IF k < i THEN Wire[n][k] ELSE Wire[n][k + 1]
      BY <2>2, WithoutProperties
    <3>2. Len(Wire[n]) \in Nat /\ DOMAIN Wire[n] = 1 .. Len(Wire[n])
          /\ DOMAIN Without(Wire[n], i) = 1 .. Len(Wire[n]) - 1
      BY <2>2, <3>1, LenProperties
    <3>3. \A k \in 1 .. Len(Wire[n]) - 1 :
            k \in 1 .. Len(Wire[n]) /\ k + 1 \in 1 .. Len(Wire[n])
      BY <3>2
    <3>4. QED
      BY <3>1, <3>2, <3>3
  <2>4. QED
    BY <2>1, <2>2, <2>3 DEF WireMoves
<1>6. SentMoves
  BY <1>2 DEF SentMoves
<1>7. NodesStay /\ ToParse' \subseteq ToParse
  BY <1>2 DEF NodesStay, Nodes, ToParse
<1>8. QED
  BY <1>2, <1>3, <1>4, <1>5, <1>6, <1>7 DEF Moves

(* What a node sent goes where it is for, under the node's address.         *)
LEMMA RoutePacketSends ==
  ASSUME NEW n \in NetAddr, TunnelInv, RoutePacket(n)
  PROVE  \E dest \in NetAddr : \E x :
           /\ Wire' = [Wire EXCEPT ![dest] = Append(Wire[dest], x)]
           /\ \/ x.encryption = None /\ Head(outgoing).encryption = None
              \/ /\ x.encryption = Head(outgoing).encryption
                 /\ x.src_addr = n /\ dest = Head(outgoing).dest_addr
<1> DEFINE p == Head(outgoing)
<1>1. MapInv /\ TypeOK
  BY DEF TunnelInv, PairInv, MapInv, IInv
<1>2. outgoing # <<>> /\ turn <= Len(order) /\ n = order[turn]
  BY DEF RoutePacket, Turn
<1>3. p \in Outgoing
  BY <1>1, <1>2, HeadTailProperties DEF TypeOK, StackTypeOK
<1>4. Outbox[n] = outgoing
  BY <1>2 DEF Outbox, Acting
<1>5. Net!Carry(n)
  BY <1>1, RoutePacketCarries
<1>6. p.dest_addr \in NetAddr /\ (p.request # None => p.encryption = None)
  BY <1>3 DEF Outgoing
<1> HIDE DEF p
<1>7. \/ Net!Put(n, None, p.encryption, p.dest_addr)
      \/ p.request # None /\ \E request : Net!Put(n, request, None, n)
  BY <1>4, <1>5 DEF Net!Carry, p
<1>8. CASE Net!Put(n, None, p.encryption, p.dest_addr)
  <2> DEFINE y == [src_addr |-> n, request |-> None,
                   encryption |-> p.encryption]
  <2>1. y.encryption = p.encryption /\ y.src_addr = n
    OBVIOUS
  <2>2. Wire' = [Wire EXCEPT ![p.dest_addr] = Append(Wire[p.dest_addr], y)]
    BY <1>8 DEF Net!Put
  <2> HIDE DEF y
  <2>3. QED
    BY <1>6, <2>1, <2>2 DEF p
<1>9. CASE p.request # None /\ \E request : Net!Put(n, request, None, n)
  <2>1. PICK request : Net!Put(n, request, None, n)
    BY <1>9
  <2> DEFINE y == [src_addr |-> n, request |-> request, encryption |-> None]
  <2>2. y.encryption = None
    OBVIOUS
  <2>3. Wire' = [Wire EXCEPT ![n] = Append(Wire[n], y)]
    BY <2>1 DEF Net!Put
  <2> HIDE DEF y
  <2>4. QED
    BY <1>6, <1>9, <2>2, <2>3 DEF p
<1>10. QED
  BY <1>7, <1>8, <1>9

(* So it moves.                                                             *)
LEMMA RoutePacketMoves ==
  ASSUME NEW n \in NetAddr, TunnelInv, RoutePacket(n)
  PROVE  Moves
<1> DEFINE p == Head(outgoing)
<1>1. MapInv /\ TypeOK
  BY DEF TunnelInv, PairInv, MapInv, IInv
<1>2. /\ UNCHANGED <<node_id, rx, work, minted, order, turn>>
      /\ outgoing # <<>> /\ outgoing' = Tail(outgoing)
      /\ turn <= Len(order) /\ n = order[turn]
  BY DEF RoutePacket, Turn
<1>3. Tokens' \subseteq Tokens
  BY RoutePacketOnce
<1>4. /\ outgoing \in Seq(Outgoing) /\ Len(outgoing) \in Nat
      /\ DOMAIN outgoing = 1 .. Len(outgoing)
      /\ 1 \in DOMAIN outgoing /\ p = outgoing[1] /\ p \in Outgoing
      /\ DOMAIN Tail(outgoing) = 1 .. Len(outgoing) - 1
      /\ \A i \in 1 .. Len(outgoing) - 1 : Tail(outgoing)[i] = outgoing[i + 1]
  BY <1>1, <1>2, HeadTailProperties, LenProperties DEF TypeOK, StackTypeOK
<1>5. SentMoves
  <2>1. \A i \in 1 .. Len(outgoing) - 1 : i + 1 \in 1 .. Len(outgoing)
    BY <1>4
  <2>2. QED
    BY <1>2, <1>4, <2>1 DEF SentMoves
<1>6. ReadMoves
  BY <1>2 DEF ReadMoves
<1>7. PICK dest \in NetAddr : \E x :
        /\ Wire' = [Wire EXCEPT ![dest] = Append(Wire[dest], x)]
        /\ \/ x.encryption = None
           \/ /\ x.encryption = p.encryption /\ x.src_addr = n
              /\ dest = p.dest_addr
  BY RoutePacketSends
<1>8. PICK x :
        /\ Wire' = [Wire EXCEPT ![dest] = Append(Wire[dest], x)]
        /\ \/ x.encryption = None
           \/ /\ x.encryption = p.encryption /\ x.src_addr = n
              /\ dest = p.dest_addr
  BY <1>7
<1>9. WireMoves
  <2>1. PutBy(x, dest)
    BY <1>2, <1>4, <1>8 DEF PutBy
  <2>2. Wire[dest] \in Seq(Incoming) /\ DOMAIN Wire = NetAddr
    BY <1>1, <1>8, WireTypes DEF Wire
  <2>3. \A i \in DOMAIN Append(Wire[dest], x) :
          \/ i \in DOMAIN Wire[dest] /\ Append(Wire[dest], x)[i] = Wire[dest][i]
          \/ Append(Wire[dest], x)[i] = x
    <3> DEFINE q == Wire[dest]
    <3>1. DOMAIN q = 1 .. Len(q) /\ Len(q) \in Nat
      BY <2>2, LenProperties
    <3>2. Append(q, x) = [i \in 1 .. Len(q) + 1 |->
                            IF i \in 1 .. Len(q) THEN q[i] ELSE x]
      BY <2>2, <3>1
    <3> HIDE DEF q
    <3>3. \A i \in DOMAIN Append(q, x) :
            \/ i \in DOMAIN q /\ Append(q, x)[i] = q[i]
            \/ Append(q, x)[i] = x
      BY <3>1, <3>2
    <3>4. QED
      BY <3>3 DEF q
  <2>4. /\ Wire'[dest] = Append(Wire[dest], x)
        /\ \A a \in NetAddr \ {dest} : Wire'[a] = Wire[a]
    BY <1>8, <2>2
  <2>5. ASSUME NEW a \in NetAddr, NEW i \in DOMAIN Wire'[a]
        PROVE  \/ \E j \in DOMAIN Wire[a] : Wire'[a][i] = Wire[a][j]
               \/ PutBy(Wire'[a][i], a)
    <3>1. CASE a # dest
      BY <2>4, <2>5, <3>1
    <3>2. CASE a = dest
      <4>1. \/ \E j \in DOMAIN Wire[a] : Wire'[a][i] = Wire[a][j]
            \/ Wire'[a][i] = x
        BY <2>3, <2>4, <2>5, <3>2
      <4>2. Wire'[a][i] = x => PutBy(Wire'[a][i], a)
        BY <2>1, <3>2
      <4>3. QED
        BY <4>1, <4>2
    <3>3. QED
      BY <3>1, <3>2
  <2>6. QED
    BY <2>5 DEF WireMoves
<1>10. NodesStay /\ ToParse' \subseteq ToParse
  BY <1>2 DEF NodesStay, Nodes, ToParse
<1>11. QED
  BY <1>2, <1>3, <1>5, <1>6, <1>9, <1>10 DEF Moves

(* A turn ends with nothing in hand, and other steps leave all where it is. *)
LEMMA UntouchedMoves ==
  ASSUME Wire' \in {Wire, [n \in NetAddr |-> <<>>]},
         UNCHANGED <<rx, work, outgoing, minted>>, NodesStay,
         Tokens' \subseteq Tokens,
         UNCHANGED <<order, turn>> \/ (outgoing = <<>> /\ rx = None)
  PROVE  Moves
<1>1. WireMoves
  <2>1. CASE Wire' = Wire
    BY <2>1 DEF WireMoves
  <2>2. CASE Wire' = [n \in NetAddr |-> <<>>]
    <3>1. \A n \in NetAddr : DOMAIN Wire'[n] = {}
      BY <2>2
    <3>2. QED
      BY <3>1 DEF WireMoves
  <2>3. QED
    BY <2>1, <2>2
<1>2. SentMoves /\ ReadMoves
  BY DEF SentMoves, ReadMoves
<1>3. ToParse' = ToParse
  BY DEF ToParse
<1>4. QED
  BY <1>1, <1>2, <1>3 DEF Moves

(* The bounds of a node's tick move nothing.                                *)
LEMMA OtherTickMoves ==
  ASSUME NEW n \in NetAddr, TunnelInv,
         BeginTick(n) \/ BeginActions(n) \/ EndActions(n) \/ EndTick(n)
  PROVE  Moves
<1>1. UNCHANGED <<rx, work, outgoing, minted, node_id>>
  BY DEF BeginTick, BeginActions, EndActions, EndTick
<1>2. MapInv /\ Once
  BY DEF TunnelInv, PairInv
<1>3. Wire' = Wire
  BY <1>2, OtherTickStutters DEF Abstract
<1>4. Tokens' \subseteq Tokens
  BY <1>1, <1>2, <1>3, UntouchedOnce
<1>5. UNCHANGED <<order, turn>> \/ (outgoing = <<>> /\ rx = None)
  BY <1>2 DEF BeginTick, BeginActions, EndActions, EndTick, MapInv, IInv,
              StackInv
<1>6. NodesStay
  BY <1>1 DEF NodesStay, Nodes
<1>7. QED
  BY <1>1, <1>3, <1>4, <1>5, <1>6, UntouchedMoves

(* The steps of a tick that are not a node's own.                           *)
OtherTicks(n) ==
  Deliver(n) \/ RoutePacket(n) \/ BeginTick(n) \/ BeginActions(n)
    \/ EndActions(n) \/ EndTick(n)

(* None of them does anything to a session.                                 *)
LEMMA OtherTickKeepsAddresses ==
  ASSUME NEW n \in NetAddr, AddressInv, OtherTicks(n)
  PROVE  SourceTrue' /\ PendingAimed' /\ AddressCorrect'
<1>1. TunnelInv /\ SourceTrue /\ PendingAimed /\ AddressCorrect
  BY DEF AddressInv
<1>2. Moves
  BY <1>1, DeliverMoves, RoutePacketMoves, OtherTickMoves DEF OtherTicks
<1>3. UNCHANGED <<node_id, session, pending_session>>
  BY DEF OtherTicks, Deliver, RoutePacket, BeginTick, BeginActions,
         EndActions, EndTick
<1>4. Forgets /\ SameWays
  BY <1>3 DEF Forgets, Nodes, SameWays, SameWay
<1>5. QED
  BY <1>1, <1>2, <1>3, <1>4, MovesKeepSource, MovesKeepPending, WaysStay

(* Nor does one of a node mislead one.                                      *)
LEMMA NodeStepKeepsAddresses ==
  ASSUME NEW n \in NetAddr, AddressInv, TypeOK', NodeSteps(n)
  PROVE  SourceTrue' /\ PendingAimed' /\ AddressCorrect'
BY SourceStays, PendingStays, AddressesStay DEF AddressInv

-----------------------------------------------------------------------------
(* Commands                                                                 *)

(* What is known of the network when a command is given.                    *)
LEMMA CommandFacts ==
  ASSUME NEW c \in Commands, AddressInv, CommandStep(c)
  PROVE  /\ TunnelInv /\ SourceTrue /\ PendingAimed /\ AddressCorrect
         /\ NodeTypeOK /\ Nodes \subseteq NetAddr
         /\ outgoing = <<>> /\ rx = None
         /\ UNCHANGED <<rx, work, outgoing, minted>>
         /\ Tokens' \subseteq Tokens
         /\ Wire' \in {Wire, [n \in NetAddr |-> <<>>]}
<1>1. TunnelInv /\ MapInv /\ SourceTrue /\ PendingAimed /\ AddressCorrect
  BY DEF AddressInv, TunnelInv, PairInv
<1>2. NodeTypeOK /\ Nodes \subseteq NetAddr
  BY <1>1 DEF MapInv, IInv, TypeOK, Nodes
<1>3. UNCHANGED <<rx, work, outgoing, minted>>
  BY DEF CommandStep, CommandNode, CommandAdd, CommandDel, CommandReload,
         CommandClear, CommandGen, CommandTest, Renewed
<1>4. outgoing = <<>> /\ rx = None
  <2>1. phase = "idle"
    BY DEF CommandStep, CommandNode, CommandAdd, CommandDel, CommandReload,
           CommandClear, CommandGen, CommandTest, Issue, Between
  <2>2. QED
    BY <1>1, <2>1 DEF MapInv, IdleEmpty, IInv, StackInv
<1>5. Tokens' \subseteq Tokens
  BY <1>1, CommandOnce
<1>6. Wire' \in {Wire, [n \in NetAddr |-> <<>>]}
  BY <1>1, CommandMaps DEF Abstract, Net!Lose
<1>7. QED
  BY <1>1, <1>2, <1>3, <1>4, <1>5, <1>6

(* Nodes that stay keep their pending sessions and their sessions' ways, or *)
(* lose them.                                                               *)
SessionsLeft ==
  \A a \in Nodes', k \in NodeID :
    IsDirect(session'[a][k]) =>
      a \in Nodes /\ SameWay(session[a][k], session'[a][k])

(* A command that does no more keeps the addresses.                         *)
LEMMA CommandMoves ==
  ASSUME NEW c \in Commands, AddressInv, CommandStep(c), NodesStay, Forgets,
         SessionsLeft
  PROVE  SourceTrue' /\ PendingAimed' /\ AddressCorrect'
<1>1. /\ TunnelInv /\ SourceTrue /\ PendingAimed /\ AddressCorrect
      /\ NodeTypeOK /\ Nodes \subseteq NetAddr
      /\ outgoing = <<>> /\ rx = None
      /\ UNCHANGED <<rx, work, outgoing, minted>>
      /\ Tokens' \subseteq Tokens
      /\ Wire' \in {Wire, [n \in NetAddr |-> <<>>]}
  BY CommandFacts
<1>2. Moves
  BY <1>1, UntouchedMoves
<1>3. SourceTrue' /\ PendingAimed'
  BY <1>1, <1>2, MovesKeepSource, MovesKeepPending
<1>4. ASSUME NEW a \in Nodes', NEW k \in NodeID, IsDirect(session'[a][k])
      PROVE  node_id'[session'[a][k].session_type.net_addr] = k
  <2>1. /\ a \in Nodes /\ IsDirect(session[a][k])
        /\ session'[a][k].session_type.net_addr =
             session[a][k].session_type.net_addr
    BY <1>4 DEF SessionsLeft, SameWay
  <2>2. PICK b : b = session[a][k].session_type.net_addr
    OBVIOUS
  <2>3. node_id[b] = k
    BY <1>1, <2>1, <2>2 DEF AddressCorrect
  <2>4. session[a][k] \in Session
    BY <1>1, <2>1 DEF NodeTypeOK, IsDirect
  <2>5. b \in NetAddr
    BY <2>1, <2>2, <2>4, SessionTypeFields
  <2>6. k # None
    BY NodeIDAssumption, NoneIsNoValue
  <2>7. b \in Nodes
    BY <2>3, <2>5, <2>6 DEF Nodes
  <2>8. QED
    BY <2>1, <2>2, <2>3, <2>7 DEF NodesStay
<1>5. AddressCorrect'
  BY <1>4 DEF AddressCorrect
<1>6. QED
  BY <1>3, <1>5

(* add leases the address after the last.                                   *)
LEMMA AddKeepsAddresses ==
  ASSUME NEW c \in Commands, AddressInv, CommandAdd(c)
  PROVE  Contiguous' /\ SourceTrue' /\ PendingAimed' /\ AddressCorrect'
<1>1. CommandStep(c)
  BY DEF CommandStep
<1>2. NodeTypeOK /\ Nodes \subseteq NetAddr
  BY <1>1, CommandFacts
<1>3. PICK k \in Nat : Nodes = 0 .. k - 1
  BY DEF AddressInv, Contiguous
<1>4. Lease = k
  <2>1. Cardinality(0 .. k - 1) = IF 0 > k - 1 THEN 0 ELSE k - 1 - 0 + 1
    BY <1>3, FS_Interval
  <2>2. QED
    BY <1>3, <2>1 DEF Lease
<1>5. /\ k \in NetAddr /\ c.id \in NodeID
      /\ node_id' = [node_id EXCEPT ![k] = c.id]
      /\ pending_session' = [pending_session EXCEPT ![k] = NoRemote]
      /\ session' = [session EXCEPT ![k] = NoRemote]
  <2>1. c.id \in NodeID
    BY NetSimConstants, CommandFields DEF CommandAdd
  <2>2. QED
    BY <1>4, <2>1 DEF CommandAdd
<1>6. k \notin Nodes
  BY <1>3
<1>7. c.id # None
  BY <1>5, NodeIDAssumption, NoneIsNoValue
<1>8. \A a \in NetAddr : node_id'[a] = IF a = k THEN c.id ELSE node_id[a]
  BY <1>2, <1>5 DEF NodeTypeOK
<1>9. Nodes' = Nodes \cup {k}
  BY <1>5, <1>7, <1>8 DEF Nodes
<1>10. Contiguous'
  <2>1. Nodes' = 0 .. (k + 1) - 1
    BY <1>3, <1>9
  <2>2. k + 1 \in Nat
    OBVIOUS
  <2>3. QED
    BY <2>1, <2>2 DEF Contiguous
<1>11. NodesStay
  BY <1>2, <1>6, <1>8, <1>9 DEF NodesStay
<1>12. \A a \in NetAddr, m \in NodeID :
         /\ pending_session'[a][m] =
              IF a = k THEN None ELSE pending_session[a][m]
         /\ session'[a][m] = IF a = k THEN None ELSE session[a][m]
  BY <1>2, <1>5 DEF NodeTypeOK, NoRemote
<1>13. Forgets
  BY <1>2, <1>5, <1>9, <1>12 DEF Forgets
<1>14. SessionsLeft
  BY <1>2, <1>5, <1>9, <1>12 DEF SessionsLeft, SameWay, IsDirect
<1>15. QED
  BY <1>1, <1>10, <1>11, <1>13, <1>14, CommandMoves

(* What is loaded of a session leads where it did.                          *)
LEMMA ReloadKeepsAddresses ==
  ASSUME NEW c \in Commands, AddressInv, CommandReload(c)
  PROVE  SourceTrue' /\ PendingAimed' /\ AddressCorrect'
<1>1. CommandStep(c)
  BY DEF CommandStep
<1>2. NodeTypeOK /\ Nodes \subseteq NetAddr
  BY <1>1, CommandFacts
<1>3. UNCHANGED node_id
  BY DEF CommandReload
<1>4. \A a \in NetAddr, m \in NodeID :
        /\ pending_session'[a][m] = None
        /\ session'[a][m] = Unsaved(session[a][m])
        /\ session[a][m] \in Session \cup {None}
  BY <1>2 DEF CommandReload, NoRemote, NodeTypeOK
<1>5. \A s \in Session \cup {None} : SameWay(s, Unsaved(s))
  <2>1. ASSUME NEW s \in Session
        PROVE  SameWay(s, [s EXCEPT !.ping_sent = None,
                                    !.last = [k \in Limited |-> None]])
    <3> DEFINE u == [s EXCEPT !.ping_sent = None,
                              !.last = [k \in Limited |-> None]]
    <3>1. u.session_type = s.session_type
      BY DEF Session
    <3>2. s # None
      BY NoneIsNoValue
    <3> HIDE DEF u
    <3>3. SameWay(s, u)
      BY <3>1, <3>2 DEF SameWay, IsDirect
    <3>4. QED
      BY <3>3 DEF u
  <2>2. SameWay(None, None)
    BY DEF SameWay, IsDirect
  <2>3. QED
    BY <2>1, <2>2 DEF Unsaved
<1>6. NodesStay /\ Forgets /\ Nodes' = Nodes
  BY <1>2, <1>3, <1>4 DEF NodesStay, Forgets, Nodes
<1>7. SessionsLeft
  BY <1>2, <1>4, <1>5, <1>6 DEF SessionsLeft
<1>8. QED
  BY <1>1, <1>6, <1>7, CommandMoves

(* A network made anew has neither packets nor sessions.                    *)
LEMMA RenewedKeepsAddresses ==
  ASSUME NEW c \in Commands, AddressInv, CommandClear(c) \/ CommandGen(c)
  PROVE  Contiguous' /\ SourceTrue' /\ PendingAimed' /\ AddressCorrect'
<1>1. CommandStep(c)
  BY DEF CommandStep
<1>2. outgoing' = <<>> /\ rx' = None
  BY <1>1, CommandFacts
<1>3. /\ pending_session' = [a \in NetAddr |-> NoRemote]
      /\ session' = [a \in NetAddr |-> NoRemote]
      /\ packet_map' = [a \in NetAddr |-> <<>>]
  BY DEF CommandClear, CommandGen, Renewed
<1>4. \A n \in NetAddr : DOMAIN Wire'[n] = {}
  BY <1>3 DEF Wire
<1>5. SourceTrue'
  BY <1>2, <1>4 DEF SourceTrue, WireTrue, SentTrue, ReadTrue
<1>6. \A a \in NetAddr, m \in NodeID :
        pending_session'[a][m] = None /\ session'[a][m] = None
  BY <1>3 DEF NoRemote
<1>7. Nodes' \subseteq NetAddr
  BY DEF Nodes
<1>8. PendingAimed' /\ AddressCorrect'
  BY <1>6, <1>7 DEF PendingAimed, AimedPending, AddressCorrect, IsDirect
<1>9. Contiguous'
  <2>1. CASE CommandClear(c)
    <3>1. \A a \in NetAddr : node_id'[a] = None
      BY <2>1 DEF CommandClear, Renewed
    <3>2. Nodes' = 0 .. 0 - 1
      BY <3>1 DEF Nodes
    <3>3. QED
      BY <3>2 DEF Contiguous
  <2>2. CASE CommandGen(c)
    <3> DEFINE k == c.number
    <3>1. k \in Nat \ {0} /\ 0 .. k - 1 \subseteq NetAddr \cap NodeID
      BY <2>2, NetSimConstants, CommandFields DEF CommandGen
    <3>2. \A a \in NetAddr : node_id'[a] = IF a < k THEN a ELSE None
      BY <2>2 DEF CommandGen, Renewed
    <3> HIDE DEF k
    <3>3. \A a \in NetAddr : a \in Nat /\ a # None
      BY NodeIDAssumption, NoneIsNoValue
    <3>4. Nodes' = {a \in NetAddr : a < k}
      BY <3>2, <3>3 DEF Nodes
    <3>5. Nodes' = 0 .. k - 1
      BY <3>1, <3>3, <3>4
    <3>6. QED
      BY <3>1, <3>5 DEF Contiguous
  <2>3. QED
    BY <2>1, <2>2
<1>10. QED
  BY <1>5, <1>8, <1>9

(* No command, then, but one that deletes.                                  *)
LEMMA CommandKeepsAddresses ==
  ASSUME NEW c \in Commands, NothingDeleted, AddressInv, CommandStep(c)
  PROVE  Contiguous' /\ SourceTrue' /\ PendingAimed' /\ AddressCorrect'
<1>1. ~CommandDel(c)
  BY DEF NothingDeleted, CommandDel
<1>2. CASE CommandNode(c) \/ CommandTest(c)
  <2>1. UNCHANGED <<node_id, session, pending_session>>
    BY <1>2 DEF CommandNode, CommandTest
  <2>2. /\ NodesStay /\ Forgets /\ SessionsLeft /\ Nodes' = Nodes
    BY <2>1 DEF NodesStay, Forgets, SessionsLeft, SameWay, Nodes
  <2>3. QED
    BY <2>2, CommandMoves DEF AddressInv, Contiguous
<1>3. CASE CommandReload(c)
  <2>1. Nodes' = Nodes
    BY <1>3 DEF CommandReload, Nodes
  <2>2. QED
    BY <1>3, <2>1, ReloadKeepsAddresses DEF AddressInv, Contiguous
<1>4. QED
  BY <1>1, <1>2, <1>3, AddKeepsAddresses, RenewedKeepsAddresses
     DEF CommandStep

-----------------------------------------------------------------------------
(* Theorem                                                                  *)

(* Every step keeps the invariant.                                          *)
LEMMA NextKeepsAddresses ==
  NothingDeleted /\ AddressInv /\ [Next]_vars => AddressInv'
<1> SUFFICES ASSUME NothingDeleted, AddressInv, [Next]_vars
             PROVE  /\ Contiguous' /\ SourceTrue' /\ PendingAimed'
                    /\ AddressCorrect'
  BY NextShakes DEF AddressInv
<1>1. TunnelInv' /\ TypeOK'
  BY NextShakes DEF AddressInv, TunnelInv, PairInv, MapInv, IInv
<1>2. CASE \E n \in NetAddr : Tick(n)
  <2>1. PICK n \in NetAddr : Tick(n)
    BY <1>2
  <2>2. NodeSteps(n) \/ OtherTicks(n)
    BY <2>1 DEF Tick, NodeSteps, OtherTicks
  <2>3. SourceTrue' /\ PendingAimed' /\ AddressCorrect'
    BY <1>1, <2>2, NodeStepKeepsAddresses, OtherTickKeepsAddresses
  <2>4. UNCHANGED node_id
    <3>1. CASE NodeSteps(n)
      BY <1>1, <3>1, NodeStepFacts DEF AddressInv
    <3>2. CASE OtherTicks(n)
      BY <3>2 DEF OtherTicks, Deliver, RoutePacket, BeginTick, BeginActions,
                  EndActions, EndTick
    <3>3. QED
      BY <2>2, <3>1, <3>2
  <2>5. QED
    BY <2>3, <2>4 DEF AddressInv, Contiguous, Nodes
<1>3. CASE \E c \in Commands : CommandStep(c)
  BY <1>3, CommandKeepsAddresses
<1>4. CASE AgendaStep \/ Stop \/ UNCHANGED vars
  <2>1. UNCHANGED <<node_id, session, pending_session, rx, work, outgoing,
                    minted, packet_map, order, turn>>
    BY <1>4 DEF AgendaStep, Stop, vars
  <2>2. UNCHANGED Wire
    BY <2>1 DEF Wire
  <2>3. Tokens' \subseteq Tokens
    BY <2>1, <2>2, UntouchedOnce DEF AddressInv, TunnelInv
  <2>4. NodesStay /\ Forgets /\ SameWays /\ Nodes' = Nodes
    BY <2>1 DEF NodesStay, Forgets, SameWays, SameWay, Nodes
  <2>5. Moves
    BY <2>1, <2>2, <2>3, <2>4, UntouchedMoves
  <2>6. QED
    BY <2>1, <2>4, <2>5, MovesKeepSource, MovesKeepPending, WaysStay
       DEF AddressInv, Contiguous
<1>5. QED
  BY <1>2, <1>3, <1>4 DEF Next

(* At first there are no packets and no sessions.                           *)
LEMMA InitAddresses == Leased /\ Init => AddressInv
<1> SUFFICES ASSUME Leased, Init
             PROVE  AddressInv
  OBVIOUS
<1>1. TunnelInv
  BY InitTunnels
<1>2. Contiguous
  <2>1. Nodes = {a \in NetAddr : Genesis[a] # None}
    BY DEF Nodes, Init
  <2>2. QED
    BY <2>1 DEF Leased, Contiguous
<1>3. \A n \in NetAddr : DOMAIN Wire[n] = {}
  BY DEF Init, Wire
<1>4. SourceTrue
  BY <1>3 DEF Init, SourceTrue, WireTrue, SentTrue, ReadTrue
<1>5. \A a \in NetAddr, m \in NodeID :
        pending_session[a][m] = None /\ session[a][m] = None
  BY DEF Init, NoRemote
<1>6. Nodes \subseteq NetAddr
  BY DEF Nodes
<1>7. PendingAimed /\ AddressCorrect
  BY <1>5, <1>6 DEF PendingAimed, AimedPending, AddressCorrect, IsDirect
<1>8. QED
  BY <1>1, <1>2, <1>4, <1>7 DEF AddressInv

(* In a network built by add, and of which no node is deleted, the address  *)
(* of a direct session is where its remote is: however handshakes cross,    *)
(* overtake each other or travel inside others, whichever addresses nodes   *)
(* hand each other in WantPing, and whoever is added or loaded meanwhile.   *)
THEOREM AddressesCorrect ==
  ASSUME Leased, NothingDeleted
  PROVE  Spec => []AddressCorrect
<1>1. Init => AddressInv
  BY InitAddresses
<1>2. AddressInv /\ [Next]_vars => AddressInv'
  BY NextKeepsAddresses
<1>3. AddressInv => AddressCorrect
  BY DEF AddressInv
<1>4. QED
  BY <1>1, <1>2, <1>3, PTL DEF Spec

-----------------------------------------------------------------------------
(* Nodes                                                                    *)

(* A network is not made anew.                                              *)
NothingGenerated == \A c \in Commands : c.type # "gen"

(* What add leases then is an address that no node has.                     *)
LEMMA CommandKeepsNodes ==
  ASSUME NEW c \in Commands, NothingDeleted, NothingGenerated, AddressInv,
         CommandStep(c), NEW a \in Nodes
  PROVE  node_id'[a] \in {node_id[a], None}
<1>1. a \in NetAddr
  BY DEF Nodes
<1>2. CASE CommandAdd(c)
  <2>1. /\ NodeTypeOK
        /\ node_id' = [node_id EXCEPT ![Lease] = c.id]
    BY <1>2, CommandFacts DEF CommandAdd
  <2>2. PICK k \in Nat : Nodes = 0 .. k - 1
    BY DEF AddressInv, Contiguous
  <2>3. Cardinality(0 .. k - 1) = IF 0 > k - 1 THEN 0 ELSE k - 1 - 0 + 1
    BY <2>2, FS_Interval
  <2>4. a # Lease
    BY <2>2, <2>3 DEF Lease
  <2>5. QED
    BY <1>1, <2>1, <2>4 DEF NodeTypeOK
<1>3. CASE CommandClear(c)
  BY <1>1, <1>3 DEF CommandClear, Renewed
<1>4. CASE ~CommandAdd(c) /\ ~CommandClear(c)
  BY <1>4 DEF CommandStep, CommandNode, CommandDel, CommandReload, CommandGen,
              CommandTest, NothingDeleted, NothingGenerated
<1>5. QED
  BY <1>2, <1>3, <1>4

(* An add that leases an address in use (internet/mod.rs, lease) needs a    *)
(* deletion before it: without one, and without gen, which makes a network  *)
(* anew, add takes no node away and renames none; only clear does, which    *)
(* says so.                                                                 *)
THEOREM NodesKept ==
  ASSUME Leased, NothingDeleted, NothingGenerated
  PROVE  Spec => AddKeepsNodes
<1>1. Init => AddressInv
  BY InitAddresses
<1>2. AddressInv /\ [Next]_vars => AddressInv'
  BY NextKeepsAddresses
<1>3. AddressInv /\ [Next]_vars =>
        [\A n \in Nodes : node_id'[n] \in {node_id[n], None}]_vars
  <2> SUFFICES ASSUME AddressInv, Next
               PROVE  \A n \in Nodes : node_id'[n] \in {node_id[n], None}
    OBVIOUS
  <2>1. CASE \E c \in Commands : CommandStep(c)
    BY <2>1, CommandKeepsNodes
  <2>2. CASE \E n \in NetAddr : NodeSteps(n)
    <3>1. TypeOK'
      BY NextShakes DEF AddressInv, TunnelInv, PairInv, MapInv, IInv
    <3>2. UNCHANGED node_id
      BY <2>2, <3>1, NodeStepFacts DEF AddressInv
    <3>3. QED
      BY <3>2
  <2>3. CASE (\E n \in NetAddr : OtherTicks(n)) \/ AgendaStep \/ Stop
    BY <2>3 DEF OtherTicks, Deliver, RoutePacket, BeginTick, BeginActions,
                EndActions, EndTick, AgendaStep, Stop, vars
  <2>4. QED
    BY <2>1, <2>2, <2>3 DEF Next, Tick, NodeSteps, OtherTicks
<1>4. QED
  BY <1>1, <1>2, <1>3, PTL DEF Spec, AddKeepsNodes

-----------------------------------------------------------------------------
(* Peers                                                                    *)

(* A session starts without the flag Outgoing, at whichever end.            *)
Unflagged(type) == type.kind = "Direct" => "Outgoing" \notin type.peer_status
ViaUnflagged == rx # None => Unflagged(rx.via)
PendingUnflagged ==
  \A a \in NetAddr, k \in NodeID :
    pending_session[a][k] # None =>
      Unflagged(pending_session[a][k].session_type)

(* OutgoingIsPeer at every address, that of a deleted node as well.         *)
FlaggedListed ==
  \A a \in NetAddr, k \in NodeID :
    IsPeer(session[a][k]) => peer_list[a][k] # None

FlagInv == IInv /\ ViaUnflagged /\ PendingUnflagged /\ FlaggedListed

(* No session is flagged, and those flagged are listed as they were.        *)
NoneFlagged ==
  \A a \in NetAddr, k \in NodeID :
    IsPeer(session'[a][k]) =>
      IsPeer(session[a][k]) /\ peer_list'[a][k] = peer_list[a][k]

(* The types that connect gives a session are without it.                   *)
LEMMA NewTypesUnflagged ==
  /\ \A b : Unflagged(DirectType(b))
  /\ \A coord : Unflagged(TraversedType(coord))
BY DEF Unflagged, DirectType, TraversedType

(* A session replaced by one that is flagged only if it was.                *)
LEMMA ReplacedFlag ==
  ASSUME NodeTypeOK, NEW n \in NetAddr, NEW m \in NodeID, NEW t,
         IsPeer(t) => IsPeer(session[n][m]),
         session' = [session EXCEPT ![n][m] = t], UNCHANGED peer_list
  PROVE  NoneFlagged
<1>1. \A a \in NetAddr, k \in NodeID :
        \/ session'[a][k] = session[a][k]
        \/ a = n /\ k = m /\ session'[a][k] = t
  BY SetSessionIDs
<1>2. QED
  BY <1>1 DEF NoneFlagged

(* What keeps a session's type keeps its flags.                             *)
LEMMA SameTypeSameFlag ==
  ASSUME NEW s, NEW t, s # None, t.session_type = s.session_type
  PROVE  IsPeer(t) => IsPeer(s)
BY DEF IsPeer, IsDirect

(* A handshake accepted makes a session of rx.via, an acknowledgement one   *)
(* of the type that is pending.                                             *)
LEMMA ParseFlagsNone ==
  ASSUME NEW n \in NetAddr, TypeInv(n), ViaUnflagged, PendingUnflagged,
         Parse(n)
  PROVE  NoneFlagged
<1> USE DEF TypeInv
<1>1. UNCHANGED peer_list
  BY DEF Parse, ParseResponse, ParseHandshake, ParseAcknowledge,
         ParseSession, ParseNotify
<1>2. CASE UNCHANGED session
  BY <1>1, <1>2 DEF NoneFlagged
<1>3. CASE ParseHandshake(n) /\ ~UNCHANGED session
  <2> DEFINE c == rx.encryption.core
             s == NewSession(c.session_id, rx.via, ticks[n])
  <2>1. /\ c.signer \in NodeID /\ rx # None
        /\ session' = [session EXCEPT ![n][c.signer] = s]
    BY <1>3, ParsingFields, CoreFields DEF ParseHandshake, Parsing
  <2>2. ~IsPeer(s)
    BY <2>1 DEF ViaUnflagged, Unflagged, NewSession, IsPeer, IsDirect
  <2> HIDE DEF s, c
  <2>3. QED
    BY <1>1, <2>1, <2>2, ReplacedFlag
<1>4. CASE ParseAcknowledge(n) /\ ~UNCHANGED session
  <2> DEFINE m == rx.encryption.core.acknowledger
             p == pending_session[n][m]
             s == NewSession(rx.encryption.core.session_id, p.session_type,
                             None)
  <2>1. m \in NodeID
    BY <1>4, ParsingFields, CoreFields DEF ParseAcknowledge, Parsing
  <2>2. p # None /\ session' = [session EXCEPT ![n] =
                                  [session[n] EXCEPT ![m] = s]]
    BY <1>4 DEF ParseAcknowledge
  <2>3. ~IsPeer(s)
    BY <2>1, <2>2
       DEF PendingUnflagged, Unflagged, NewSession, IsPeer, IsDirect
  <2> HIDE DEF s, p, m
  <2>4. \A a \in NetAddr, k \in NodeID :
          \/ session'[a][k] = session[a][k]
          \/ a = n /\ k = m /\ session'[a][k] = s
    <3>1. session \in [NetAddr -> [NodeID -> Session \cup {None}]]
      BY DEF NodeTypeOK
    <3>2. QED
      BY <2>1, <2>2, <3>1
  <2>5. QED
    BY <1>1, <2>3, <2>4 DEF NoneFlagged
<1>5. QED
  BY <1>2, <1>3, <1>4 DEF Parse, ParseResponse, ParseSession, ParseNotify

(* A handler keeps a session's flags; that of PeerNotify sets the other.    *)
LEMMA HandleFlagsNone ==
  ASSUME NEW n \in NetAddr, TypeInv(n), Handle(n)
  PROVE  NoneFlagged
<1> USE DEF TypeInv
<1>1. UNCHANGED peer_list
  BY DEF Handle, HandleConnectionInit, HandleExchangeInfo,
         HandleExchangeInfoResponse, HandleRequestPings, HandleWantPing,
         HandleAcceptWantPing, HandlePeerNotify, HandleTraverse, HandleData
<1>2. CASE UNCHANGED session
  BY <1>1, <1>2 DEF NoneFlagged
<1>3. CASE HandleConnectionInit(n) /\ ~UNCHANGED session
  <2> DEFINE m == Head(work).from
             t == [session[n][m] EXCEPT !.ping_sent = None]
  <2>1. /\ m \in NodeID /\ session[n][m] \in Session /\ session[n][m] # None
        /\ session' = [session EXCEPT ![n][m] = t]
    BY <1>3, HandlingHead DEF HandleConnectionInit
  <2>2. t.session_type = session[n][m].session_type
    BY <2>1 DEF Session
  <2> HIDE DEF t, m
  <2>3. QED
    BY <1>1, <2>1, <2>2, SameTypeSameFlag, ReplacedFlag
<1>4. CASE HandleRequestPings(n) \/ HandleAcceptWantPing(n)
  <2> DEFINE m == Head(work).from
  <2>1. m \in NodeID /\ session[n][m] \in Session /\ session[n][m] # None
    BY <1>4, HandlingHead DEF HandleRequestPings, HandleAcceptWantPing
  <2>2. PICK type \in Limited :
          session' = [session EXCEPT ![n][m].last[type] = ticks[n]]
    BY <1>4
       DEF HandleRequestPings, HandleAcceptWantPing, Received, Limited
  <2> DEFINE t == [session[n][m] EXCEPT !.last[type] = ticks[n]]
  <2>3. t.session_type = session[n][m].session_type
    BY <2>1 DEF Session
  <2>4. session' = [session EXCEPT ![n][m] = t]
    BY <2>2
  <2> HIDE DEF t, m
  <2>5. QED
    BY <1>1, <2>1, <2>3, <2>4, SameTypeSameFlag, ReplacedFlag
<1>5. CASE HandlePeerNotify(n) /\ ~UNCHANGED session
  <2> DEFINE m == Head(work).from
             t == SetPeer(session[n][m], "Incoming", Head(work).packet.peered)
  <2>1. /\ m \in NodeID /\ session[n][m] \in Session /\ IsDirect(session[n][m])
        /\ session' = [session EXCEPT ![n][m] = t]
    BY <1>5, HandlingHead DEF HandlePeerNotify
  <2>2. "Outgoing" \in t.session_type.peer_status =>
          "Outgoing" \in session[n][m].session_type.peer_status
    BY <2>1, SessionTypeFields DEF SetPeer, Session, SessionType, IsDirect
  <2>3. IsPeer(t) => IsPeer(session[n][m])
    BY <2>1, <2>2 DEF IsPeer
  <2> HIDE DEF t, m
  <2>4. QED
    BY <1>1, <2>1, <2>3, ReplacedFlag
<1>6. QED
  BY <1>2, <1>3, <1>4, <1>5
     DEF Handle, HandleExchangeInfo, HandleExchangeInfoResponse,
         HandleWantPing, HandleTraverse, HandleData

(* set_peer sets the flag as told.                                          *)
LEMMA SetPeerFlag ==
  ASSUME NEW s \in Session, IsDirect(s), NEW toggle \in BOOLEAN,
         IsPeer(SetPeer(s, "Outgoing", toggle))
  PROVE  toggle
<1> DEFINE T == s.session_type
           flags == IF toggle THEN T.peer_status \cup {"Outgoing"}
                              ELSE T.peer_status \ {"Outgoing"}
           U == [T EXCEPT !.peer_status = flags]
<1>1. SetPeer(s, "Outgoing", toggle).session_type = U
  BY DEF SetPeer, Session
<1>2. T \in [kind : {"Direct"}, net_addr : NetAddr,
             peer_status : SUBSET {"Outgoing", "Incoming"}]
  BY DEF Session, IsDirect, SessionType
<1> HIDE DEF T
<1>3. U.peer_status = flags
  BY <1>2
<1> HIDE DEF U
<1>4. "Outgoing" \in flags
  BY <1>1, <1>3 DEF IsPeer
<1>5. QED
  BY <1>4

(* CalculatePeers flags those that it lists, and no other stays flagged: it *)
(* has come to all that were.                                               *)
LEMMA CalculatePeersLists ==
  ASSUME NEW n \in Nodes, TypeInv(n), FlaggedListed, PeersVisited,
         RunCalculatePeers(n)
  PROVE  FlaggedListed'
<1> USE DEF TypeInv
<1> DEFINE peers  == PeerList(n)
           tested == {e[2] : e \in Visited(n)}
           F(m) == SetPeer(session[n][m], "Outgoing", peers[m] # None)
           S == [m \in NodeID |->
                   IF m \in tested /\ IsDirect(session[n][m])
                     THEN F(m) ELSE session[n][m]]
<1>1. n \in NetAddr
  BY DEF Nodes
<1>2. CASE UNCHANGED <<session, peer_list>>
  BY <1>2 DEF FlaggedListed
<1>3. CASE /\ session' = [session EXCEPT ![n] = S]
           /\ peer_list' = [peer_list EXCEPT ![n] = peers]
  <2>1. ASSUME NEW m \in NodeID, IsPeer(S[m])
        PROVE  peers[m] # None
    <3>1. m \in tested /\ IsDirect(session[n][m])
      <4>1. CASE ~(m \in tested /\ IsDirect(session[n][m]))
        <5>1. S[m] = session[n][m]
          BY <4>1
        <5>2. IsPeer(session[n][m])
          BY <2>1, <5>1
        <5>3. m \in tested
          BY <5>2 DEF PeersVisited
        <5>4. QED
          BY <4>1, <5>2, <5>3 DEF IsPeer
      <4>2. QED
        BY <4>1
    <3>2. S[m] = F(m)
      BY <3>1
    <3>3. session[n][m] \in Session
      BY <1>1, <3>1 DEF NodeTypeOK, IsDirect
    <3> HIDE DEF S, peers
    <3>4. QED
      BY <2>1, <3>1, <3>2, <3>3, SetPeerFlag
  <2> HIDE DEF S, peers, tested
  <2>2. /\ \A a \in NetAddr : session'[a] = IF a = n THEN S ELSE session[a]
        /\ \A a \in NetAddr :
             peer_list'[a] = IF a = n THEN peers ELSE peer_list[a]
    BY <1>3 DEF NodeTypeOK
  <2>3. QED
    BY <2>1, <2>2 DEF FlaggedListed
<1>4. QED
  BY <1>2, <1>3 DEF RunCalculatePeers

(* No other action touches sessions or the list.                            *)
LEMMA RunLists ==
  ASSUME NEW n \in Nodes, TypeInv(n), FlaggedListed, PeersVisited, Run(n)
  PROVE  FlaggedListed'
<1>1. CASE UNCHANGED <<session, peer_list>>
  BY <1>1 DEF FlaggedListed
<1>2. QED
  BY <1>1, CalculatePeersLists
     DEF Run, RunBootstrap, RunConnect, RunUpdateRemote, RunCalcRouteCoord,
         RunNotify, RunRequestRouteCoord, RunConnectTraversed,
         RunConnectRouted, RunSendData, RunCondition

(* What is pending is dropped, or of a new type.                            *)
LEMMA PendingStaysUnflagged ==
  ASSUME NEW n \in NetAddr, TypeInv(n), node_id[n] \in NodeID,
         PendingUnflagged, Parse(n) \/ Handle(n) \/ Run(n)
  PROVE  PendingUnflagged'
<1>1. CASE Dropped
  BY <1>1 DEF Dropped, PendingUnflagged
<1>2. ASSUME NEW m \in NodeID, NEW type, NEW packets, Unflagged(type),
             Connect(n, m, type, packets)
      PROVE  PendingUnflagged'
  <2> DEFINE q == [session_id |-> Len(minted) + 1, sent |-> ticks[n],
                   packets |-> packets, session_type |-> type]
  <2>1. pending_session' = [pending_session EXCEPT ![n][m] = q]
    BY <1>2 DEF Connect
  <2>2. q.session_type = type
    OBVIOUS
  <2> HIDE DEF q
  <2>3. \A a \in NetAddr, k \in NodeID :
          \/ pending_session'[a][k] = pending_session[a][k]
          \/ a = n /\ k = m /\ pending_session'[a][k] = q
    BY <2>1 DEF TypeInv, NodeTypeOK
  <2>4. QED
    BY <1>2, <2>2, <2>3 DEF PendingUnflagged
<1>3. QED
  BY <1>1, <1>2, ParseDrops, HandleDrops, RunDrops, NewTypesUnflagged

(* The session back to a sender is of a new type as well.                   *)
LEMMA ViaStaysUnflagged ==
  ASSUME NEW n \in NetAddr, ViaUnflagged, Parse(n) \/ Handle(n) \/ Run(n)
  PROVE  ViaUnflagged'
<1>1. CASE rx' \in {rx, None}
  BY <1>1 DEF ViaUnflagged
<1>2. CASE HandleTraverse(n) /\ rx' \notin {rx, None}
  <2>1. rx'.via = TraversedType(Head(work).packet.origin)
    BY <1>2 DEF HandleTraverse, End, Done, Fail
  <2>2. QED
    BY <2>1, NewTypesUnflagged DEF ViaUnflagged
<1>3. CASE Parse(n)
  BY <1>1, <1>3 DEF Parse, ParseResponse, ParseHandshake, ParseAcknowledge,
                    ParseSession, ParseNotify, Parsed
<1>4. CASE Handle(n)
  BY <1>1, <1>2, <1>4
     DEF Handle, HandleConnectionInit, HandleExchangeInfo,
         HandleExchangeInfoResponse, HandleRequestPings, HandleWantPing,
         HandleAcceptWantPing, HandlePeerNotify, HandleData, End, Done, Fail
<1>5. CASE Run(n)
  BY <1>1, <1>5, RunReadsNothing
<1>6. QED
  BY <1>3, <1>4, <1>5

(* So every step of a tick keeps the flags.                                 *)
LEMMA TickKeepsFlags ==
  ASSUME NEW n \in NetAddr, FlagInv, PeersVisited, Tick(n)
  PROVE  ViaUnflagged' /\ PendingUnflagged' /\ FlaggedListed'
<1>1. CASE NodeSteps(n)
  <2>1. TypeOK /\ Turn(n) /\ (Parse(n) \/ Handle(n) \/ Run(n))
    BY <1>1 DEF FlagInv, IInv, NodeSteps, ParsePacket, ParseNodePacket,
                ParseAction, NodeStep
  <2>2. node_id[n] \in NodeID /\ TypeInv(n)
    BY <2>1, TurnIsNode DEF FlagInv, IInv, StackInv, Turn, TypeInv, TypeOK
  <2>3. n \in Nodes
    BY <2>2, NodeIDAssumption, NoneIsNoValue DEF Nodes
  <2>4. ViaUnflagged' /\ PendingUnflagged'
    BY <2>1, <2>2, ViaStaysUnflagged, PendingStaysUnflagged DEF FlagInv
  <2>5. ASSUME NoneFlagged
        PROVE  FlaggedListed'
    BY <2>5 DEF FlagInv, FlaggedListed, NoneFlagged
  <2>6. FlaggedListed'
    BY <2>1, <2>2, <2>3, <2>5, ParseFlagsNone, HandleFlagsNone, RunLists
       DEF FlagInv
  <2>7. QED
    BY <2>4, <2>6
<1>2. CASE OtherTicks(n)
  <2>1. UNCHANGED <<session, pending_session, peer_list>>
    BY <1>2 DEF OtherTicks, Deliver, RoutePacket, BeginTick, BeginActions,
                EndActions, EndTick
  <2>2. PendingUnflagged' /\ FlaggedListed'
    BY <2>1 DEF FlagInv, PendingUnflagged, FlaggedListed
  <2>3. ASSUME rx' = rx
        PROVE  ViaUnflagged'
    BY <2>3 DEF FlagInv, ViaUnflagged
  <2>4. ASSUME Deliver(n)
        PROVE  ViaUnflagged'
    <3>1. PICK i : rx'.via = DirectType(packet_map[n][i].packet.src_addr)
      BY <2>4 DEF Deliver
    <3>2. QED
      BY <3>1, NewTypesUnflagged DEF ViaUnflagged
  <2>5. ViaUnflagged'
    BY <1>2, <2>3, <2>4
       DEF OtherTicks, RoutePacket, BeginTick, BeginActions, EndActions,
           EndTick
  <2>6. QED
    BY <2>2, <2>5
<1>3. QED
  BY <1>1, <1>2 DEF Tick, NodeSteps, OtherTicks

(* Commands clear sessions and list together; a reload keeps both.          *)
LEMMA CommandKeepsFlags ==
  ASSUME NEW c \in Commands, FlagInv, CommandStep(c)
  PROVE  ViaUnflagged' /\ PendingUnflagged' /\ FlaggedListed'
<1>1. NodeTypeOK /\ UNCHANGED rx
  BY DEF FlagInv, IInv, TypeOK, CommandStep, CommandNode, CommandAdd,
         CommandDel, CommandReload, CommandClear, CommandGen, CommandTest,
         Renewed
<1>2. ViaUnflagged'
  BY <1>1 DEF FlagInv, ViaUnflagged
<1>3. ASSUME \A a \in NetAddr, k \in NodeID :
               /\ pending_session'[a][k] \in {None, pending_session[a][k]}
               /\ \/ session'[a][k] = None
                  \/ /\ IsPeer(session'[a][k]) => IsPeer(session[a][k])
                     /\ peer_list'[a][k] = peer_list[a][k]
      PROVE  PendingUnflagged' /\ FlaggedListed'
  BY <1>3 DEF FlagInv, PendingUnflagged, FlaggedListed, IsPeer, IsDirect
<1>4. CASE CommandNode(c) \/ CommandDel(c) \/ CommandTest(c)
  <2>1. UNCHANGED <<session, pending_session, peer_list>>
    BY <1>4 DEF CommandNode, CommandDel, CommandTest
  <2>2. QED
    BY <1>2, <1>3, <2>1
<1>5. CASE CommandAdd(c)
  <2>1. \A a \in NetAddr, k \in NodeID :
          /\ pending_session'[a][k] \in {None, pending_session[a][k]}
          /\ \/ session'[a][k] = None
             \/ /\ session'[a][k] = session[a][k]
                /\ peer_list'[a][k] = peer_list[a][k]
    BY <1>1, <1>5 DEF CommandAdd, NodeTypeOK, NoRemote
  <2>2. QED
    BY <1>2, <1>3, <2>1
<1>6. CASE CommandReload(c)
  <2>1. \A a \in NetAddr, k \in NodeID :
          /\ pending_session'[a][k] = None
          /\ session'[a][k] = Unsaved(session[a][k])
          /\ session[a][k] \in Session \cup {None}
    BY <1>1, <1>6 DEF CommandReload, NoRemote, NodeTypeOK
  <2>2. UNCHANGED peer_list
    BY <1>6 DEF CommandReload
  <2>3. ASSUME NEW s \in Session
        PROVE  IsPeer(Unsaved(s)) => IsPeer(s)
    <3>1. s # None
      BY NoneIsNoValue
    <3>2. Unsaved(s).session_type = s.session_type
      BY <3>1 DEF Unsaved, Session
    <3>3. QED
      BY <3>1, <3>2, SameTypeSameFlag
  <2>4. IsPeer(Unsaved(None)) => IsPeer(None)
    BY DEF Unsaved
  <2>5. QED
    BY <1>2, <1>3, <2>1, <2>2, <2>3, <2>4
<1>7. CASE CommandClear(c) \/ CommandGen(c)
  <2>1. \A a \in NetAddr, k \in NodeID :
          pending_session'[a][k] = None /\ session'[a][k] = None
    BY <1>7 DEF CommandClear, CommandGen, Renewed, NoRemote
  <2>2. QED
    BY <1>2, <1>3, <2>1
<1>8. QED
  BY <1>4, <1>5, <1>6, <1>7 DEF CommandStep

(* Every step keeps the invariant, as long as CalculatePeers visits peers.  *)
LEMMA NextKeepsFlags ==
  PeersVisited /\ FlagInv /\ [Next]_vars => FlagInv'
<1> SUFFICES ASSUME PeersVisited, FlagInv, [Next]_vars
             PROVE  ViaUnflagged' /\ PendingUnflagged' /\ FlaggedListed'
  BY NextKeepsIInv DEF FlagInv
<1>1. CASE \E n \in NetAddr : Tick(n)
  BY <1>1, TickKeepsFlags
<1>2. CASE \E c \in Commands : CommandStep(c)
  BY <1>2, CommandKeepsFlags
<1>3. CASE AgendaStep \/ Stop \/ UNCHANGED vars
  <2>1. UNCHANGED <<session, pending_session, peer_list, rx>>
    BY <1>3 DEF AgendaStep, Stop, vars
  <2>2. QED
    BY <2>1 DEF FlagInv, ViaUnflagged, PendingUnflagged, FlaggedListed
<1>4. QED
  BY <1>1, <1>2, <1>3 DEF Next

(* As long as CalculatePeers comes to every flagged session, those flagged  *)
(* are the peers listed, in any network and whatever comes: no new session, *)
(* PeerNotify, reload or command sets a flag without the list.  So the two  *)
(* disagree only by one of the two slips that PeersVisited names.           *)
THEOREM FlagsFollowList == Spec /\ []PeersVisited => []OutgoingIsPeer
<1>1. Init => FlagInv
  <2> SUFFICES ASSUME Init
               PROVE  FlagInv
    OBVIOUS
  <2>1. \A a \in NetAddr, k \in NodeID :
          pending_session[a][k] = None /\ session[a][k] = None
    BY DEF Init, NoRemote
  <2>2. PendingUnflagged /\ FlaggedListed
    BY <2>1 DEF PendingUnflagged, FlaggedListed, IsPeer, IsDirect
  <2>3. ViaUnflagged
    BY DEF Init, ViaUnflagged
  <2>4. QED
    BY <2>2, <2>3, InitEstablishesIInv DEF FlagInv
<1>2. PeersVisited /\ FlagInv /\ [Next]_vars => FlagInv'
  BY NextKeepsFlags
<1>3. FlagInv => OutgoingIsPeer
  BY DEF FlagInv, FlaggedListed, OutgoingIsPeer, Nodes
<1>4. QED
  BY <1>1, <1>2, <1>3, PTL DEF Spec

=============================================================================
