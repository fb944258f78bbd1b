---------------------------- MODULE SessionProofs ----------------------------
(***************************************************************************)
(* No node files a session, or a packet, as that of a remote which does not *)
(* own the other end: Properties!SessionPairing, for any nodes, positions,  *)
(* commands and bounds.                                                     *)
(***************************************************************************)
EXTENDS NetSimProofs

USE DEF netVars, loopVars, nodeVars, selfVars, remoteVars, tableVars,
        routeVars, runVars, mintVars

(* The session id was drawn by a for a handshake with b, or by one of the   *)
(* two for one with the other.                                              *)
Drawn(ids, id, a, b) == id \in 1 .. Len(ids) /\ ids[id] = <<a, b>>
Ours(ids, id, a, b)  == Drawn(ids, id, a, b) \/ Drawn(ids, id, b, a)

(* A handshake names the two it was drawn for, wherever it is.              *)
Genuine(enc, ids) ==
  enc # None /\ enc.core.type = "Handshake" =>
    Drawn(ids, enc.core.session_id, enc.core.signer, enc.core.recipient)
GenuineSent ==
  \A i \in DOMAIN outgoing : Genuine(outgoing[i].encryption, minted)
GenuineRead == rx # None => Genuine(rx.encryption, minted)
GenuineWork ==
  \A i \in DOMAIN work :
    work[i].packet.type = "Traverse" =>
      Genuine(work[i].packet.encryption, minted)
GenuineStack == GenuineSent /\ GenuineRead /\ GenuineWork
GenuineWire ==
  \A n \in NetAddr : \A i \in DOMAIN Wire[n] :
    Genuine(Wire[n][i].encryption, minted)

(* A pending session was drawn by the node that keeps it; that of a session *)
(* or an index entry by it or by the remote.                                *)
PendingOwned ==
  \A n \in Nodes, m \in NodeID :
    pending_session[n][m] # None =>
      Drawn(minted, pending_session[n][m].session_id, node_id[n], m)
SessionOwned ==
  \A n \in Nodes, m \in NodeID :
    session[n][m] # None =>
      Ours(minted, session[n][m].session_id, node_id[n], m)
IndexOwned ==
  \A n \in Nodes, m \in NodeID :
    sessions[n][m] # None => Ours(minted, sessions[n][m], node_id[n], m)
Owned == PendingOwned /\ SessionOwned /\ IndexOwned

NodeInv == GenuineStack /\ Owned
PairInv == MapInv /\ NodeInv /\ GenuineWire

-----------------------------------------------------------------------------
(* Drawing an id keeps those drawn before                                   *)

Grows ==
  \A id, a, b : Drawn(minted, id, a, b) => Drawn(minted', id, a, b)

(* A step that draws no id keeps those drawn.                               *)
LEMMA NothingDrawn ==
  ASSUME UNCHANGED minted
  PROVE  Grows
BY DEF Grows

(* Node::connect draws the next one.                                        *)
LEMMA OneDrawn ==
  ASSUME StackTypeOK, NEW a \in NodeID, NEW b \in NodeID,
         minted' = Append(minted, <<a, b>>)
  PROVE  Grows /\ Drawn(minted', Len(minted) + 1, a, b)
<1>1. minted \in Seq(NodeID \X NodeID)
  BY DEF StackTypeOK
<1>2. /\ Len(minted') = Len(minted) + 1 /\ Len(minted) \in Nat
      /\ \A i \in 1 .. Len(minted) : minted'[i] = minted[i]
      /\ minted'[Len(minted) + 1] = <<a, b>>
  BY <1>1, AppendProperties, LenProperties
<1>3. QED
  BY <1>2 DEF Grows, Drawn

(* A genuine handshake stays so.                                            *)
LEMMA GenuineStays ==
  ASSUME Grows, NEW enc, Genuine(enc, minted)
  PROVE  Genuine(enc, minted')
BY DEF Grows, Genuine

-----------------------------------------------------------------------------
(* What a node sends is genuine                                             *)

LEMMA EmitGenuine ==
  ASSUME StackTypeOK, GenuineSent, Grows, NEW p \in Outgoing \cup {None},
         p # None => Genuine(p.encryption, minted'), Emit(p)
  PROVE  GenuineSent'
<1>1. CASE outgoing' = outgoing
  BY <1>1, GenuineStays DEF GenuineSent
<1>2. CASE p # None /\ outgoing' = Append(outgoing, p)
  <2>1. outgoing \in Seq(Outgoing) /\ p \in Outgoing
    BY <1>2 DEF StackTypeOK
  <2>2. /\ DOMAIN outgoing' = 1 .. Len(outgoing) + 1 /\ Len(outgoing) \in Nat
        /\ DOMAIN outgoing = 1 .. Len(outgoing)
        /\ \A i \in 1 .. Len(outgoing) : outgoing'[i] = outgoing[i]
        /\ outgoing'[Len(outgoing) + 1] = p
    BY <1>2, <2>1, AppendProperties, LenProperties
  <2>3. ASSUME NEW i \in DOMAIN outgoing'
        PROVE  Genuine(outgoing'[i].encryption, minted')
    <3>1. CASE i \in 1 .. Len(outgoing)
      BY <2>2, <3>1, GenuineStays DEF GenuineSent
    <3>2. CASE i = Len(outgoing) + 1
      BY <1>2, <2>2, <3>2
    <3>3. QED
      BY <2>2, <3>1, <3>2
  <2>4. QED
    BY <2>3 DEF GenuineSent
<1>3. QED
  BY <1>1, <1>2 DEF Emit

(* Nothing sent; and packets sent in a loop, each in a session.             *)
LEMMA NothingGenuine ==
  ASSUME GenuineSent, Grows, UNCHANGED outgoing
  PROVE  GenuineSent'
BY GenuineStays DEF GenuineSent

(* Packets sent in sessions carry no handshake, so what was sent stays      *)
(* genuine.                                                                 *)
LEMMA AddsGenuine ==
  ASSUME StackTypeOK, GenuineSent, Grows, NEW X, Adds(X), InTunnels(X)
  PROVE  GenuineSent'
<1>1. /\ outgoing \in Seq(Outgoing) /\ X \in Seq(Outgoing)
      /\ outgoing' = outgoing \o X
  BY DEF StackTypeOK, Adds
<1>2. /\ Len(outgoing) \in Nat /\ Len(X) \in Nat
      /\ DOMAIN outgoing = 1 .. Len(outgoing) /\ DOMAIN X = 1 .. Len(X)
      /\ \A i \in 1 .. Len(X) : X[i] \in Outgoing
  BY <1>1, LenProperties
<1>3. /\ DOMAIN outgoing' = 1 .. Len(outgoing) + Len(X)
      /\ \A i \in 1 .. Len(outgoing) + Len(X) :
           outgoing'[i] = IF i <= Len(outgoing) THEN outgoing[i]
                                                ELSE X[i - Len(outgoing)]
  BY <1>1, ConcatProperties, LenProperties
<1>4. ASSUME NEW j \in DOMAIN X
      PROVE  Genuine(X[j].encryption, minted')
  <2>1. X[j] \in Outgoing
    BY <1>2
  <2>2. CASE X[j].request = None
    BY <2>2 DEF InTunnels, Tunnelled, Genuine
  <2>3. CASE X[j].encryption = None
    BY <2>3 DEF Genuine
  <2>4. QED
    BY <2>1, <2>2, <2>3 DEF Outgoing
<1>5. ASSUME NEW i \in DOMAIN outgoing'
      PROVE  Genuine(outgoing'[i].encryption, minted')
  <2>1. CASE i <= Len(outgoing)
    <3>1. i \in DOMAIN outgoing /\ outgoing'[i] = outgoing[i]
      BY <1>2, <1>3, <2>1
    <3>2. QED
      BY <3>1, GenuineStays DEF GenuineSent
  <2>2. CASE ~(i <= Len(outgoing))
    <3>1. /\ i - Len(outgoing) \in DOMAIN X
          /\ outgoing'[i] = X[i - Len(outgoing)]
      BY <1>2, <1>3, <2>2
    <3>2. QED
      BY <1>4, <3>1
  <2>3. QED
    BY <2>1, <2>2
<1>6. QED
  BY <1>5 DEF GenuineSent

(* RemoteSession::gen_packet and Node::send_packet pass a handshake on as   *)
(* it is.                                                                   *)
LEMMA GenPacketGenuine ==
  ASSUME StackTypeOK, GenuineSent, Grows, NEW self \in SelfType,
         NEW s \in Session, NEW enc \in Encryption, Genuine(enc, minted'),
         NEW p \in GenPacket(self, s, enc), Emit(p)
  PROVE  GenuineSent'
<1>1. Carries(p, enc.core)
  BY GenPacketKeepsCore
<1>2. p \in Outgoing \cup {None} /\ (p # None => Genuine(p.encryption, minted'))
  BY <1>1, EncryptionFields DEF Carries, Genuine
<1>3. QED
  BY <1>2, EmitGenuine

(* A packet in a session is genuine if the handshake of a Traverse is.      *)
LEMMA SendPacketGenuine ==
  ASSUME StackTypeOK, GenuineSent, Grows, NEW self \in SelfType,
         NEW m \in NodeID, NEW packet \in NodePacket,
         packet.type = "Traverse" => Genuine(packet.encryption, minted'),
         NEW p \in SendPacket(self, m, packet), Emit(p)
  PROVE  GenuineSent'
<1>1. Sent(p, packet)
  BY SendPacketKeepsCore
<1>2. packet.type = "Traverse" => packet.encryption # None
  BY PacketFields, EncryptionFields
<1>3. p \in Outgoing \cup {None} /\ (p # None => Genuine(p.encryption, minted'))
  BY <1>1, <1>2 DEF Sent, Genuine
<1>4. QED
  BY <1>3, EmitGenuine

-----------------------------------------------------------------------------
(* What a node keeps                                                        *)

(* An id is kept, dropped or filed under a remote it was drawn with.        *)
LEMMA OwnedStays ==
  ASSUME Owned, Grows, UNCHANGED node_id,
         \A a \in Nodes, m \in NodeID :
           /\ pending_session'[a][m] # None =>
                \/ pending_session'[a][m] = pending_session[a][m]
                \/ Drawn(minted', pending_session'[a][m].session_id,
                         node_id[a], m)
           /\ session'[a][m] # None =>
                \/ /\ session[a][m] # None
                   /\ session'[a][m].session_id = session[a][m].session_id
                \/ Ours(minted', session'[a][m].session_id, node_id[a], m)
           /\ sessions'[a][m] # None =>
                \/ sessions'[a][m] = sessions[a][m]
                \/ Ours(minted', sessions'[a][m], node_id[a], m)
  PROVE  Owned'
<1>1. Nodes' = Nodes /\ node_id' = node_id
  BY DEF Nodes
<1>2. PendingOwned'
  BY <1>1 DEF Owned, PendingOwned, Grows
<1>3. SessionOwned'
  BY <1>1 DEF Owned, SessionOwned, Ours, Grows
<1>4. IndexOwned'
  BY <1>1 DEF Owned, IndexOwned, Ours, Grows
<1>5. QED
  BY <1>2, <1>3, <1>4 DEF Owned

(* Where sessions are changed in place, and nothing else is.                *)
SameIDs ==
  \A a \in NetAddr, m \in NodeID :
    session'[a][m] # None =>
      /\ session[a][m] # None
      /\ session'[a][m].session_id = session[a][m].session_id

(* Steps that leave sessions alone change no id.                            *)
LEMMA UntouchedSameIDs ==
  ASSUME UNCHANGED session
  PROVE  SameIDs
BY DEF SameIDs

(* Sessions may be updated in place: their ids have the same owners.        *)
LEMMA OwnedInPlace ==
  ASSUME Owned, Grows, SameIDs,
         UNCHANGED <<node_id, pending_session, sessions>>
  PROVE  Owned'
<1>1. Nodes \subseteq NetAddr
  BY DEF Nodes
<1>2. QED
  BY <1>1, OwnedStays DEF SameIDs

(* Received and the last acknowledged ping are noted in place.              *)
LEMMA ReceivedSameIDs ==
  ASSUME NodeTypeOK, NEW n \in NetAddr, NEW m \in NodeID, NEW type,
         session[n][m] # None, Received(n, m, type)
  PROVE  SameIDs
<1> DEFINE s == session[n][m]
           t == [s EXCEPT !.last[type] = ticks[n]]
<1>1. s \in Session
  BY DEF NodeTypeOK
<1>2. t.session_id = s.session_id
  BY <1>1 DEF Session
<1>3. session' = [session EXCEPT ![n][m] = t]
  BY DEF Received
<1> HIDE DEF t
<1>4. QED
  BY <1>2, <1>3 DEF NodeTypeOK, SameIDs

(* Packets still to parse stay as they are.                                 *)
WorkLeft == \A i \in DOMAIN work' : \E j \in DOMAIN work : work'[i] = work[j]

(* The packets still to parse stay genuine.                                 *)
LEMMA WorkGenuine ==
  ASSUME GenuineWork, Grows, WorkLeft
  PROVE  GenuineWork'
BY GenuineStays DEF GenuineWork, WorkLeft

(* A step that draws no id, and parses or hands on what was there.          *)
LEMMA PlainStep ==
  ASSUME NodeInv, UNCHANGED <<node_id, minted>>,
         GenuineSent', rx' \in {None, rx}, WorkLeft, Owned'
  PROVE  NodeInv'
<1>1. Grows
  BY NothingDrawn
<1>2. GenuineWork'
  BY <1>1, WorkGenuine DEF NodeInv, GenuineStack
<1>3. GenuineRead'
  BY <1>1, GenuineStays DEF NodeInv, GenuineStack, GenuineRead
<1>4. QED
  BY <1>2, <1>3 DEF NodeInv, GenuineStack

(* One that changes sessions in place and sends nothing of its own.         *)
LEMMA QuietStep ==
  ASSUME NodeInv, SameIDs, rx' \in {None, rx}, WorkLeft,
         UNCHANGED <<node_id, minted, pending_session, sessions, outgoing>>
  PROVE  NodeInv'
<1>1. GenuineSent' /\ Owned'
  BY NothingDrawn, NothingGenuine, OwnedInPlace DEF NodeInv, GenuineStack
<1>2. QED
  BY <1>1, PlainStep

(* One session set, one index entry made: BiHashMap::insert may drop others.*)
LEMMA SetSessionIDs ==
  ASSUME NodeTypeOK, NEW n \in NetAddr, NEW m \in NodeID, NEW s,
         session' = [session EXCEPT ![n][m] = s]
  PROVE  \A a \in NetAddr, k \in NodeID :
           \/ session'[a][k] = session[a][k]
           \/ a = n /\ k = m /\ session'[a][k] = s
BY DEF NodeTypeOK

(* Remote::insert_session gives its remote the new id; the index of another *)
(* remote stays, or goes if it had that id.                                 *)
LEMMA InsertSessionIDs ==
  ASSUME NodeTypeOK, NEW n \in NetAddr, NEW m \in NodeID, NEW id,
         InsertSession(n, m, id)
  PROVE  \A a \in NetAddr, k \in NodeID :
           \/ sessions'[a][k] \in {None, sessions[a][k]}
           \/ a = n /\ k = m /\ sessions'[a][k] = id
<1> DEFINE I == [k \in NodeID |-> IF k = m THEN id
                                  ELSE IF sessions[n][k] = id THEN None
                                  ELSE sessions[n][k]]
<1>1. sessions' = [sessions EXCEPT ![n] = I]
  BY DEF InsertSession
<1>2. \A k \in NodeID : I[k] \in {None, sessions[n][k]} \/ (k = m /\ I[k] = id)
  OBVIOUS
<1> HIDE DEF I
<1>3. QED
  BY <1>1, <1>2 DEF NodeTypeOK

-----------------------------------------------------------------------------
(* Handshakes                                                               *)

(* A handshake for this node was drawn by its signer for this node.         *)
LEMMA ParseHandshakeKeepsPairs ==
  ASSUME NEW n \in NetAddr, TypeInv(n), node_id[n] \in NodeID, NodeInv,
         ParseHandshake(n)
  PROVE  NodeInv'
<1> USE DEF TypeInv
<1> DEFINE c == rx.encryption.core
           s == NewSession(c.session_id, rx.via, ticks[n])
           m == c.signer
           ack == Acknowledge(c.session_id, node_id[n])
<1>1. /\ rx # None /\ rx.request = None
      /\ c.type = "Handshake" /\ rx.encryption \in Encryption
      /\ c.session_id \in SessionID /\ m \in NodeID /\ rx.via \in SessionType
  BY ParsingFields, CoreFields DEF ParseHandshake, Parsing
<1>2. /\ UNCHANGED <<node_id, work, minted>> /\ rx' = None
      /\ WorkLeft
  BY DEF ParseHandshake, Parsed, WorkLeft
<1>3. Grows
  BY <1>2, NothingDrawn
<1>4. CASE UNCHANGED <<pending_session, session, sessions, outgoing>>
  BY <1>2, <1>4, UntouchedSameIDs, QuietStep
<1>5. CASE IsRecipient(n, c)
  <2>1. Drawn(minted, c.session_id, m, node_id[n])
    BY <1>1, <1>5, EncryptionFields
       DEF NodeInv, GenuineStack, GenuineRead, Genuine, IsRecipient
  <2>2. s \in Session /\ s.session_id = c.session_id
    BY <1>1, NewSessionIsSession DEF NodeTypeOK, NewSession
  <2>3. ack \in Encryption /\ Genuine(ack, minted')
    BY <1>1, EncryptionConstructors DEF Genuine, Acknowledge, Bare
  <2>4. PICK p \in GenPacket(Self(n), s, ack) :
          /\ Emit(p)
          /\ IF p = None
               THEN UNCHANGED <<session, sessions>>
               ELSE /\ session' = [session EXCEPT ![n][m] = s]
                    /\ InsertSession(n, m, c.session_id)
    BY <1>5 DEF ParseHandshake
  <2>5. pending_session' = [pending_session EXCEPT ![n][m] =
                               YieldPending(n, m)]
    BY <1>5 DEF ParseHandshake
  <2> HIDE DEF c, s, m, ack
  <2>6. GenuineSent'
    BY <1>3, <2>2, <2>3, <2>4, SelfTypes, GenPacketGenuine
       DEF NodeInv, GenuineStack
  <2>7. \A a \in NetAddr, k \in NodeID :
          pending_session'[a][k] \in {None, pending_session[a][k]}
    BY <1>1, <2>5 DEF NodeTypeOK, YieldPending
  <2>8. Ours(minted', c.session_id, node_id[n], m)
    BY <1>2, <2>1 DEF Ours
  <2>9. \A a \in NetAddr, k \in NodeID :
          /\ \/ session'[a][k] = session[a][k]
             \/ a = n /\ k = m /\ session'[a][k] = s
          /\ \/ sessions'[a][k] \in {None, sessions[a][k]}
             \/ a = n /\ k = m /\ sessions'[a][k] = c.session_id
    <3>1. CASE p = None
      BY <2>4, <3>1
    <3>2. CASE p # None
      <4>1. session' = [session EXCEPT ![n][m] = s]
            /\ InsertSession(n, m, c.session_id)
        BY <2>4, <3>2
      <4>2. QED
        BY <1>1, <4>1, SetSessionIDs, InsertSessionIDs
    <3>3. QED
      BY <3>1, <3>2
  <2>10. Owned'
    <3>1. \A a \in Nodes, k \in NodeID :
            /\ pending_session'[a][k] # None =>
                  pending_session'[a][k] = pending_session[a][k]
            /\ session'[a][k] # None =>
                 \/ /\ session[a][k] # None
                    /\ session'[a][k].session_id = session[a][k].session_id
                 \/ Ours(minted', session'[a][k].session_id, node_id[a], k)
            /\ sessions'[a][k] # None =>
                 \/ sessions'[a][k] = sessions[a][k]
                 \/ Ours(minted', sessions'[a][k], node_id[a], k)
      <4>1. Nodes \subseteq NetAddr
        BY DEF Nodes
      <4>2. QED
        BY <2>2, <2>7, <2>8, <2>9, <4>1
    <3>2. QED
      BY <1>2, <1>3, <3>1, OwnedStays DEF NodeInv
  <2>11. QED
    BY <1>2, <2>6, <2>10, PlainStep
<1>6. QED
  BY <1>4, <1>5 DEF ParseHandshake

(* The first packet back is one.                                            *)
LEMMA FirstPacketTypes ==
  ASSUME NodeTypeOK, FiniteTests, NEW n \in NetAddr, NEW id \in SessionID,
         NEW p \in PendingSession
  PROVE  LET first == ConnectionInit(id, UpdateConnectionPackets(n, p.packets))
         IN  first \in NodePacket /\ first.type # "Traverse"
<1> DEFINE packets == UpdateConnectionPackets(n, p.packets)
<1>1. p.packets \in Seq(InitialPacket)
  BY DEF PendingSession
<1>2. DOMAIN p.packets = 1 .. Len(p.packets) /\ Len(p.packets) \in Nat
      /\ p.packets \in [1 .. Len(p.packets) -> InitialPacket]
  BY <1>1, LenProperties
<1>3. ExchangeInfo(route_coord[n], Cardinality(remotes[n])) \in InitialPacket
  BY CountTypes, PacketConstructors DEF NodeTypeOK
<1>4. packets \in [1 .. Len(p.packets) -> InitialPacket]
  BY <1>2, <1>3 DEF UpdateConnectionPackets
<1> HIDE DEF packets
<1>5. packets \in Seq(InitialPacket)
  BY <1>2, <1>4
<1>6. ConnectionInit(id, packets) \in NodePacket
      /\ ConnectionInit(id, packets).type # "Traverse"
  BY <1>5, PacketConstructors, PlainPacketIsPacket
<1>7. QED
  BY <1>6 DEF packets

(* An acknowledged id is the one this node drew for the remote.             *)
LEMMA ParseAcknowledgeKeepsPairs ==
  ASSUME NEW n \in NetAddr, TypeInv(n), node_id[n] \in NodeID, NodeInv,
         ParseAcknowledge(n)
  PROVE  NodeInv'
<1> USE DEF TypeInv
<1> DEFINE c == rx.encryption.core
           m == c.acknowledger
           p == pending_session[n][m]
           new == NewSession(c.session_id, p.session_type, None)
           s == [session[n] EXCEPT ![m] = new]
           packets == UpdateConnectionPackets(n, p.packets)
           first == ConnectionInit(c.session_id, packets)
           d == Distance(ticks[n], p.sent)
<1>1. c.session_id \in SessionID /\ m \in NodeID
  BY ParsingFields, CoreFields DEF ParseAcknowledge, Parsing
<1>2. /\ UNCHANGED <<node_id, work, minted>> /\ rx' = None /\ WorkLeft
      /\ pending_session' = [pending_session EXCEPT ![n][m] = None]
  BY DEF ParseAcknowledge, Parsed, WorkLeft
<1>3. Grows
  BY <1>2, NothingDrawn
<1>4. \A a \in NetAddr, k \in NodeID :
        pending_session'[a][k] \in {None, pending_session[a][k]}
  BY <1>1, <1>2 DEF NodeTypeOK
<1>5. Nodes \subseteq NetAddr /\ n \in Nodes
  BY NoneIsNoValue, NodeIDAssumption DEF Nodes
<1>6. CASE UNCHANGED <<session, tableVars, outgoing>>
  <2>1. Owned'
    BY <1>2, <1>3, <1>4, <1>5, <1>6, OwnedStays DEF NodeInv
  <2>2. GenuineSent'
    BY <1>3, <1>6, NothingGenuine DEF NodeInv, GenuineStack
  <2>3. QED
    BY <1>2, <2>1, <2>2, PlainStep
<1>7. CASE /\ IF p = None THEN FALSE ELSE p.session_id = c.session_id
           /\ session' = [session EXCEPT ![n] = s]
           /\ \E init \in SendPacket([Self(n) EXCEPT !.session = s], m, first) :
                /\ Emit(init)
                /\ IF init = None
                     THEN UNCHANGED tableVars
                     ELSE InsertSession(n, m, c.session_id)
                          /\ InsertDirect(n, d, m)
  <2>1. p \in PendingSession /\ p # None /\ p.session_id = c.session_id
    BY <1>1, <1>7 DEF NodeTypeOK
  <2>2. /\ new \in Session /\ new.session_id = c.session_id
        /\ s \in [NodeID -> Session \cup {None}]
        /\ session' = [session EXCEPT ![n][m] = new]
    BY <1>1, <1>7, <2>1, NewSessionIsSession
       DEF PendingSession, NodeTypeOK, NewSession
  <2>3. first \in NodePacket /\ first.type # "Traverse"
    BY <1>1, <2>1, FirstPacketTypes
  <2>4. PICK init \in SendPacket([Self(n) EXCEPT !.session = s], m, first) :
          /\ Emit(init)
          /\ IF init = None
               THEN UNCHANGED tableVars
               ELSE InsertSession(n, m, c.session_id) /\ InsertDirect(n, d, m)
    BY <1>7
  <2>5. [Self(n) EXCEPT !.session = s] \in SelfType
    BY <2>2, SelfTypes DEF SelfType
  <2>6. Ours(minted', c.session_id, node_id[n], m)
    BY <1>1, <1>2, <1>5, <2>1
       DEF NodeInv, Owned, PendingOwned, Ours
  <2> HIDE DEF c, m, p, new, s, packets, first, d
  <2>7. GenuineSent'
    BY <1>1, <1>3, <2>3, <2>4, <2>5, SendPacketGenuine
       DEF NodeInv, GenuineStack
  <2>8. \A a \in NetAddr, k \in NodeID :
          /\ \/ session'[a][k] = session[a][k]
             \/ a = n /\ k = m /\ session'[a][k] = new
          /\ \/ sessions'[a][k] \in {None, sessions[a][k]}
             \/ a = n /\ k = m /\ sessions'[a][k] = c.session_id
    <3>1. \A a \in NetAddr, k \in NodeID :
            \/ session'[a][k] = session[a][k]
            \/ a = n /\ k = m /\ session'[a][k] = new
      BY <1>1, <2>2, SetSessionIDs
    <3>2. CASE init = None
      BY <2>4, <3>1, <3>2
    <3>3. CASE init # None
      <4>1. InsertSession(n, m, c.session_id)
        BY <2>4, <3>3
      <4>2. QED
        BY <1>1, <3>1, <4>1, InsertSessionIDs
    <3>4. QED
      BY <3>2, <3>3
  <2>9. Owned'
    <3>1. \A a \in Nodes, k \in NodeID :
            /\ pending_session'[a][k] # None =>
                  pending_session'[a][k] = pending_session[a][k]
            /\ session'[a][k] # None =>
                 \/ /\ session[a][k] # None
                    /\ session'[a][k].session_id = session[a][k].session_id
                 \/ Ours(minted', session'[a][k].session_id, node_id[a], k)
            /\ sessions'[a][k] # None =>
                 \/ sessions'[a][k] = sessions[a][k]
                 \/ Ours(minted', sessions'[a][k], node_id[a], k)
      BY <1>4, <1>5, <2>2, <2>6, <2>8
    <3>2. QED
      BY <1>2, <1>3, <3>1, OwnedStays DEF NodeInv
  <2>10. QED
    BY <1>2, <2>7, <2>9, PlainStep
<1>8. QED
  BY <1>6, <1>7 DEF ParseAcknowledge

(* A session's packet hands on what is wrapped.                             *)
LEMMA ParseSessionKeepsPairs ==
  ASSUME NEW n \in NetAddr, TypeInv(n), NodeInv, ParseSession(n)
  PROVE  NodeInv'
<1> USE DEF TypeInv
<1> DEFINE enc == rx.encryption
<1>1. enc \in Encryption /\ IsSession(enc) /\ rx # None
  BY ParsingFields DEF ParseSession
<1>2. /\ UNCHANGED <<node_id, pending_session, session, sessions, minted,
                     outgoing>>
      /\ rx' = None
  BY DEF ParseSession
<1>3. \/ work' = <<>>
      \/ \E m \in NodeID : work' = <<[from |-> m, packet |-> OuterPacket(enc)]>>
  BY DEF ParseSession
<1>4. Genuine(enc, minted)
  BY <1>1 DEF NodeInv, GenuineStack, GenuineRead
<1>5. GenuineWork'
  <2>1. CASE work' = <<>>
    BY <2>1 DEF GenuineWork
  <2>2. CASE \E m \in NodeID :
               work' = <<[from |-> m, packet |-> OuterPacket(enc)]>>
    <3>1. PICK m \in NodeID :
            work' = <<[from |-> m, packet |-> OuterPacket(enc)]>>
      BY <2>2
    <3>2. OuterPacket(enc).type = "Traverse" =>
            Genuine(OuterPacket(enc).encryption, minted')
      <4>1. ASSUME OuterPacket(enc).type = "Traverse"
            PROVE  Genuine(OuterPacket(enc).encryption, minted')
        <5>1. OuterPacket(enc).encryption.core = enc.core
          BY <1>1, <4>1, OuterPacketKeepsCore
        <5> HIDE DEF enc
        <5>2. QED
          BY <1>1, <1>2, <1>4, <5>1, EncryptionFields DEF Genuine
      <4>2. QED
        BY <4>1
    <3>3. DOMAIN work' = {1} /\ work'[1].packet = OuterPacket(enc)
      BY <3>1
    <3>4. QED
      BY <3>2, <3>3 DEF GenuineWork
  <2>3. QED
    BY <1>3, <2>1, <2>2
<1>6. Grows
  BY <1>2, NothingDrawn
<1>7. GenuineSent' /\ Owned'
  BY <1>2, <1>6, NothingGenuine, UntouchedSameIDs, OwnedInPlace
     DEF NodeInv, GenuineStack
<1>8. QED
  BY <1>2, <1>5, <1>7 DEF NodeInv, GenuineStack, GenuineRead

(* parse_packet and parse_node_encryption.                                  *)
LEMMA ParseKeepsPairs ==
  ASSUME NEW n \in NetAddr, TypeInv(n), node_id[n] \in NodeID, NodeInv, Parse(n)
  PROVE  NodeInv'
<1>1. CASE ParseResponse(n) \/ ParseNotify(n)
  BY <1>1, UntouchedSameIDs, QuietStep DEF ParseResponse, ParseNotify, WorkLeft
<1>2. QED
  BY <1>1, ParseHandshakeKeepsPairs, ParseAcknowledgeKeepsPairs,
     ParseSessionKeepsPairs DEF Parse

-----------------------------------------------------------------------------
(* Node packets                                                             *)

(* A handler that ends, whether or not with an error.                       *)
LEMMA EndsLeft ==
  ASSUME StackTypeOK, work # <<>>, NEW ok \in BOOLEAN, End(ok)
  PROVE  rx' = rx /\ WorkLeft
BY EndTypes DEF WorkLeft

(* The packets inside a ConnectionInit are no Traverse.                     *)
LEMMA HandleConnectionInitKeepsPairs ==
  ASSUME NEW n \in NetAddr, TypeInv(n), NodeInv, HandleConnectionInit(n)
  PROVE  NodeInv'
<1> USE DEF TypeInv
<1> DEFINE m == Head(work).from
           p == Head(work).packet
           s == session[n][m]
           Inner == [i \in DOMAIN p.packets |->
                       [from |-> m, packet |-> p.packets[i]]]
<1>1. /\ rx = None /\ work # <<>> /\ m \in NodeID /\ p \in NodePacket
      /\ p.type = "ConnectionInit" /\ s \in Session /\ s # None
  BY HandlingHead DEF HandleConnectionInit
<1>2. UNCHANGED <<node_id, pending_session, sessions, outgoing, minted>>
  BY DEF HandleConnectionInit
<1>3. Grows
  BY <1>2, NothingDrawn
<1>4. CASE s.ping_sent # None /\ s.session_id = p.ping
  <2> DEFINE t == [s EXCEPT !.ping_sent = None]
  <2>1. session' = [session EXCEPT ![n][m] = t]
        /\ work' = Inner \o Tail(work) /\ UNCHANGED rx
    BY <1>4 DEF HandleConnectionInit
  <2>2. t.session_id = s.session_id
    BY <1>1 DEF Session
  <2> HIDE DEF t
  <2>3. SameIDs
    BY <1>1, <2>1, <2>2 DEF SameIDs, NodeTypeOK
  <2>4. GenuineWork'
    <3>1. DOMAIN p.packets = 1 .. Len(p.packets) /\ Len(p.packets) \in Nat
          /\ p.packets \in [1 .. Len(p.packets) -> InitialPacket]
      <4>1. p.packets \in Seq(InitialPacket)
        BY <1>1, PacketFields
      <4>2. QED
        BY <4>1, LenProperties
    <3>2. \A i \in 1 .. Len(p.packets) :
            Inner[i] \in Work /\ Inner[i].packet.type # "Traverse"
      <4>1. ASSUME NEW i \in 1 .. Len(p.packets)
            PROVE  Inner[i] \in Work /\ Inner[i].packet.type # "Traverse"
        <5>1. p.packets[i] \in InitialPacket
          BY <3>1
        <5>2. p.packets[i].type # "Traverse" /\ p.packets[i] \in NodePacket
          BY <5>1, InitialPacketIsPacket DEF InitialPacket, AcceptWantPing
        <5>3. Inner[i] = [from |-> m, packet |-> p.packets[i]]
          BY <3>1
        <5>4. QED
          BY <1>1, <5>2, <5>3 DEF Work
      <4>2. QED
        BY <4>1
    <3>3. Inner \in Seq(Work) /\ Len(Inner) = Len(p.packets)
      <4>1. Inner \in [1 .. Len(p.packets) -> Work]
        BY <3>1, <3>2
      <4> HIDE DEF Inner
      <4>2. QED
        BY <3>1, <4>1
    <3>4. Tail(work) \in Seq(Work) /\ Len(Tail(work)) = Len(work) - 1
          /\ \A i \in 1 .. Len(Tail(work)) : Tail(work)[i] = work[i + 1]
          /\ Len(work) \in Nat /\ DOMAIN work = 1 .. Len(work)
      BY <1>1, HeadTailProperties, LenProperties DEF StackTypeOK, Work
    <3> HIDE DEF Inner, p
    <3>5. ASSUME NEW i \in DOMAIN work'
          PROVE  work'[i].packet.type = "Traverse" =>
                   Genuine(work'[i].packet.encryption, minted')
      <4>1. /\ i \in 1 .. Len(Inner) + Len(Tail(work))
            /\ work'[i] = IF i <= Len(Inner) THEN Inner[i]
                           ELSE Tail(work)[i - Len(Inner)]
        BY <2>1, <3>3, <3>4, ConcatProperties, LenProperties
      <4>2. CASE i <= Len(Inner)
        BY <3>1, <3>2, <3>3, <4>1, <4>2
      <4>3. CASE ~(i <= Len(Inner))
        <5>1. i - Len(Inner) + 1 \in DOMAIN work
              /\ work'[i] = work[i - Len(Inner) + 1]
          BY <3>1, <3>3, <3>4, <4>1, <4>3
        <5>2. QED
          BY <1>3, <5>1, GenuineStays DEF NodeInv, GenuineStack, GenuineWork
      <4>4. QED
        BY <4>2, <4>3
    <3>6. QED
      BY <3>5 DEF GenuineWork
  <2>5. GenuineSent' /\ GenuineRead' /\ Owned'
    BY <1>1, <1>2, <1>3, <2>1, <2>3, NothingGenuine, OwnedInPlace
       DEF NodeInv, GenuineStack, GenuineRead
  <2>6. QED
    BY <2>4, <2>5 DEF NodeInv, GenuineStack
<1>5. CASE ~(s.ping_sent # None /\ s.session_id = p.ping)
  <2>1. End(FALSE) /\ UNCHANGED session
    BY <1>5 DEF HandleConnectionInit, Fail
  <2>2. QED
    BY <1>1, <1>2, <2>1, EndsLeft, UntouchedSameIDs, QuietStep
<1>6. QED
  BY <1>4, <1>5

(* A node answers in the session it was asked in.                           *)
LEMMA AnsweringKeepsPairs ==
  ASSUME NEW n \in NetAddr, TypeInv(n), NodeInv,
         HandleExchangeInfo(n) \/ HandleAcceptWantPing(n)
  PROVE  NodeInv'
<1> USE DEF TypeInv
<1> DEFINE m == Head(work).from
           p == Head(work).packet
<1>1. /\ work # <<>> /\ m \in NodeID
      /\ session[n][m] \in Session /\ session[n][m] # None
  BY HandlingHead DEF HandleExchangeInfo, HandleAcceptWantPing
<1>2. UNCHANGED <<node_id, pending_session, sessions, minted>>
  BY DEF HandleExchangeInfo, HandleAcceptWantPing
<1>3. Grows
  BY <1>2, NothingDrawn
<1>4. SameIDs
  BY <1>1, ReceivedSameIDs, UntouchedSameIDs
     DEF HandleExchangeInfo, HandleAcceptWantPing
<1>5. \/ UNCHANGED outgoing /\ (Done \/ Fail)
      \/ \E self \in SelfType, packet \in NodePacket :
           /\ packet.type # "Traverse"
           /\ \E r \in SendPacket(self, m, packet) : Emit(r) /\ End(r # None)
  <2>1. CASE HandleExchangeInfo(n)
    <3> DEFINE coord == IF IsGenesis(n) THEN deus_ex_data[n] ELSE route_coord[n]
               self == [Self(n) EXCEPT !.coord = coord]
               reply == ExchangeInfoResponse(coord,
                                             Cardinality(direct_sorted[n]))
    <3>1. coord \in MaybeCoord
      BY DEF NodeTypeOK
    <3>2. self \in SelfType
      BY <3>1, SelfTypes DEF SelfType
    <3>3. reply \in NodePacket /\ reply.type # "Traverse"
      BY <3>1, CountTypes, PacketConstructors, PlainPacketIsPacket
    <3>4. \/ UNCHANGED outgoing /\ Fail
          \/ \E r \in SendPacket(self, m, reply) : Emit(r) /\ End(r # None)
      BY <2>1 DEF HandleExchangeInfo
    <3> HIDE DEF self, reply
    <3>5. QED
      BY <3>2, <3>3, <3>4
  <2>2. CASE HandleAcceptWantPing(n)
    <3> DEFINE packet == ExchangeInfo(route_coord[n],
                                      Cardinality(direct_sorted[n]))
    <3>1. packet \in NodePacket /\ packet.type # "Traverse"
      BY CountTypes, PacketConstructors, InitialPacketIsPacket
         DEF NodeTypeOK, ExchangeInfo
    <3>2. \/ UNCHANGED outgoing /\ Done
          \/ \E r \in SendPacket(Self(n), m, packet) : Emit(r) /\ End(r # None)
      BY <2>2 DEF HandleAcceptWantPing
    <3> HIDE DEF packet
    <3>3. QED
      BY <3>1, <3>2, SelfTypes
  <2>3. QED
    BY <2>1, <2>2
<1>6. GenuineSent' /\ \E ok \in BOOLEAN : End(ok)
  <2>1. CASE UNCHANGED outgoing /\ (Done \/ Fail)
    BY <1>3, <2>1, NothingGenuine DEF NodeInv, GenuineStack, Done, Fail
  <2>2. ASSUME NEW self \in SelfType, NEW packet \in NodePacket,
               packet.type # "Traverse",
               NEW r \in SendPacket(self, m, packet),
               Emit(r), End(r # None)
        PROVE  GenuineSent' /\ \E ok \in BOOLEAN : End(ok)
    BY <1>1, <1>3, <2>2, SendPacketGenuine DEF NodeInv, GenuineStack
  <2>3. QED
    BY <1>5, <2>1, <2>2
<1>7. rx' = rx /\ WorkLeft
  BY <1>1, <1>6, EndsLeft
<1>8. Owned'
  BY <1>2, <1>3, <1>4, OwnedInPlace DEF NodeInv
<1>9. QED
  BY <1>2, <1>6, <1>7, <1>8, PlainStep

(* A traversed encryption is parsed, or passed on, as it is.                *)
LEMMA HandleTraverseKeepsPairs ==
  ASSUME NEW n \in NetAddr, TypeInv(n), NodeInv, HandleTraverse(n)
  PROVE  NodeInv'
<1> USE DEF TypeInv
<1> DEFINE m == Head(work).from
           p == Head(work).packet
           closest == ClosestPeers(peer_list[n], p.destination)
<1>1. /\ rx = None /\ work # <<>> /\ p \in NodePacket
      /\ p.type = "Traverse"
  BY HandlingHead DEF HandleTraverse
<1>2. UNCHANGED <<node_id, pending_session, session, sessions, minted>>
  BY DEF HandleTraverse
<1>3. Grows
  BY <1>2, NothingDrawn
<1>4. Genuine(p.encryption, minted')
  <2>1. 1 \in DOMAIN work /\ work[1] = Head(work)
    BY <1>1, LenProperties, HeadTailProperties DEF StackTypeOK
  <2>2. QED
    BY <1>1, <1>2, <2>1 DEF NodeInv, GenuineStack, GenuineWork
<1>5. Owned'
  BY <1>2, <1>3, UntouchedSameIDs, OwnedInPlace DEF NodeInv
<1>6. CASE UNCHANGED outgoing /\ (Done \/ Fail)
  BY <1>1, <1>2, <1>6, EndsLeft, UntouchedSameIDs, QuietStep DEF Done, Fail
<1>7. CASE /\ rx' = [request |-> None, encryption |-> p.encryption,
                      via |-> TraversedType(p.origin)]
           /\ work' = Tail(work) /\ UNCHANGED outgoing
  <2>1. WorkLeft
    BY <1>1, <1>7, HeadTailProperties, LenProperties DEF StackTypeOK, WorkLeft
  <2>2. GenuineWork' /\ GenuineSent'
    BY <1>3, <1>7, <2>1, WorkGenuine, NothingGenuine DEF NodeInv, GenuineStack
  <2>3. GenuineRead'
    BY <1>4, <1>7 DEF GenuineRead
  <2>4. QED
    BY <1>5, <2>2, <2>3 DEF NodeInv, GenuineStack
<1>8. CASE \E q \in closest : \E r \in SendPacket(Self(n), q, p) :
             Emit(r) /\ End(r # None)
  <2>1. PICK q \in closest : \E r \in SendPacket(Self(n), q, p) :
          Emit(r) /\ End(r # None)
    BY <1>8
  <2>2. PICK r \in SendPacket(Self(n), q, p) : Emit(r) /\ End(r # None)
    BY <2>1
  <2>3. q \in NodeID
    BY DEF ClosestPeers
  <2> HIDE DEF p
  <2>4. GenuineSent'
    BY <1>1, <1>3, <1>4, <2>2, <2>3, SelfTypes, SendPacketGenuine
       DEF NodeInv, GenuineStack
  <2>5. rx' = rx /\ WorkLeft
    BY <1>1, <2>2, EndsLeft
  <2>6. QED
    BY <1>2, <1>5, <2>4, <2>5, PlainStep
<1>9. QED
  BY <1>6, <1>7, <1>8 DEF HandleTraverse

(* The nodes asked to ping are asked each in its session.                   *)
LEMMA HandleRequestPingsKeepsPairs ==
  ASSUME NEW n \in NetAddr, TypeInv(n), NodeInv, HandleRequestPings(n)
  PROVE  NodeInv'
<1> USE DEF TypeInv
<1>1. /\ work # <<>> /\ Head(work).from \in NodeID
      /\ session[n][Head(work).from] # None
  BY HandlingHead DEF HandleRequestPings
<1>2. UNCHANGED <<node_id, pending_session, sessions, minted>>
  BY DEF HandleRequestPings
<1>3. Grows
  BY <1>2, NothingDrawn
<1>4. GenuineSent' /\ rx' = rx /\ WorkLeft
  BY <1>1, <1>3, HandleRequestPingsSends, AddsGenuine, EndsLeft
     DEF NodeInv, GenuineStack
<1>5. Owned'
  BY <1>1, <1>2, <1>3, ReceivedSameIDs, OwnedInPlace
     DEF HandleRequestPings, NodeInv
<1>6. QED
  BY <1>2, <1>4, <1>5, PlainStep

(* A flag set on a session leaves its id.                                   *)
LEMMA SetPeerKeepsID ==
  ASSUME NEW s \in Session, NEW flag, NEW toggle
  PROVE  SetPeer(s, flag, toggle).session_id = s.session_id
BY DEF SetPeer, Session

(* parse_node_packet.                                                       *)
LEMMA HandleKeepsPairs ==
  ASSUME NEW n \in NetAddr, TypeInv(n), NodeInv, Handle(n)
  PROVE  NodeInv'
<1> USE DEF TypeInv
<1>1. CASE HandleExchangeInfoResponse(n) \/ HandleWantPing(n) \/ HandleData(n)
  <2>1. /\ work # <<>> /\ End(TRUE)
        /\ UNCHANGED <<node_id, pending_session, session, sessions, outgoing,
                       minted>>
    BY <1>1 DEF HandleExchangeInfoResponse, HandleWantPing, HandleData,
                Handling, Done
  <2>2. QED
    BY <2>1, EndsLeft, UntouchedSameIDs, QuietStep
<1>2. CASE HandlePeerNotify(n)
  <2> DEFINE m == Head(work).from
             p == Head(work).packet
             t == SetPeer(session[n][m], "Incoming", p.peered)
  <2>1. /\ work # <<>> /\ m \in NodeID
        /\ session[n][m] \in Session /\ session[n][m] # None
    BY <1>2, HandlingHead DEF HandlePeerNotify
  <2>2. /\ Done \/ Fail
        /\ UNCHANGED session \/ session' = [session EXCEPT ![n][m] = t]
        /\ UNCHANGED <<node_id, pending_session, sessions, outgoing, minted>>
    BY <1>2 DEF HandlePeerNotify
  <2>3. t.session_id = session[n][m].session_id
    BY <2>1, SetPeerKeepsID
  <2> HIDE DEF t, m
  <2>4. SameIDs
    <3>1. CASE UNCHANGED session
      BY <3>1, UntouchedSameIDs
    <3>2. CASE session' = [session EXCEPT ![n][m] = t]
      BY <2>1, <2>3, <3>2 DEF SameIDs, NodeTypeOK
    <3>3. QED
      BY <2>2, <3>1, <3>2
  <2>5. rx' = rx /\ WorkLeft
    BY <2>1, <2>2, EndsLeft DEF Done, Fail
  <2>6. QED
    BY <2>2, <2>4, <2>5, QuietStep
<1>3. QED
  BY <1>1, <1>2, HandleConnectionInitKeepsPairs, AnsweringKeepsPairs,
     HandleRequestPingsKeepsPairs, HandleTraverseKeepsPairs DEF Handle

-----------------------------------------------------------------------------
(* Actions                                                                  *)

(* Node::connect draws an id for its handshake and its pending session.     *)
LEMMA ConnectKeepsPairs ==
  ASSUME NEW n \in NetAddr, TypeInv(n), node_id[n] \in NodeID, NodeInv,
         NEW m \in NodeID, NEW type \in SessionType, NEW packets,
         Connect(n, m, type, packets),
         UNCHANGED <<node_id, session, sessions, rx, work>>
  PROVE  NodeInv'
<1> USE DEF TypeInv
<1> DEFINE id == Len(minted) + 1
           hs == Handshake(m, id, node_id[n])
           p == [session_id |-> id, sent |-> ticks[n], packets |-> packets,
                 session_type |-> type]
           packet == Traverse(type.route_coord, hs, route_coord[n])
<1>1. /\ minted' = Append(minted, <<node_id[n], m>>)
      /\ pending_session' = [pending_session EXCEPT ![n][m] = p]
  BY DEF Connect
<1>2. Grows /\ Drawn(minted', id, node_id[n], m)
  BY <1>1, OneDrawn
<1>3. id \in SessionID
  BY LenProperties DEF StackTypeOK, SessionID
<1>4. hs \in Encryption /\ Genuine(hs, minted')
  BY <1>2, <1>3, EncryptionConstructors DEF Genuine, Handshake, Bare
<1>5. p.session_id = id
  OBVIOUS
<1> HIDE DEF id, hs, p
<1>6. GenuineSent'
  <2>1. CASE type.kind = "Direct" /\ Emit(Package(type.net_addr, hs))
    <3>1. type.net_addr \in NetAddr
      BY <2>1 DEF SessionType
    <3>2. QED
      BY <1>2, <1>4, <2>1, <3>1, PackageIsOutgoing, EmitGenuine
         DEF NodeInv, GenuineStack
  <2>2. CASE /\ type.kind = "Traversed" /\ route_coord[n] # None
             /\ \E q \in ClosestPeers(peer_list[n], type.route_coord) :
                  \E r \in SendPacket(Self(n), q, packet) : Emit(r)
    <3>1. PICK q \in ClosestPeers(peer_list[n], type.route_coord) :
            \E r \in SendPacket(Self(n), q, packet) : Emit(r)
      BY <2>2
    <3>2. PICK r \in SendPacket(Self(n), q, packet) : Emit(r)
      BY <3>1
    <3>3. q \in NodeID
      BY DEF ClosestPeers
    <3>4. type.route_coord \in Coord /\ route_coord[n] \in Coord
      BY <2>2 DEF SessionType, NodeTypeOK, MaybeCoord
    <3>5. packet \in NodePacket /\ packet.encryption = hs
      BY <1>4, <3>4, TraverseIsPacket
    <3> HIDE DEF packet
    <3>6. QED
      BY <1>2, <1>4, <3>2, <3>3, <3>5, SelfTypes, SendPacketGenuine
         DEF NodeInv, GenuineStack
  <2>3. CASE UNCHANGED outgoing
    BY <1>2, <2>3, NothingGenuine DEF NodeInv, GenuineStack
  <2>4. QED
    BY <2>1, <2>2, <2>3 DEF Connect, hs, id
<1>7. GenuineRead' /\ GenuineWork'
  BY <1>2, GenuineStays
     DEF NodeInv, GenuineStack, GenuineRead, GenuineWork
<1>8. Owned'
  <2>1. Nodes \subseteq NetAddr
    BY DEF Nodes
  <2>2. \A a \in Nodes, k \in NodeID :
          \/ pending_session'[a][k] = pending_session[a][k]
          \/ Drawn(minted', pending_session'[a][k].session_id, node_id[a], k)
    BY <1>1, <1>2, <1>5, <2>1 DEF NodeTypeOK
  <2>3. QED
    BY <1>2, <2>2, OwnedStays DEF NodeInv
<1>9. QED
  BY <1>6, <1>7, <1>8 DEF NodeInv, GenuineStack

(* An action that sends at most one packet of its own.                      *)
LEMMA SendingStep ==
  ASSUME NEW n \in NetAddr, TypeInv(n), NodeInv, GenuineSent',
         UNCHANGED <<node_id, pending_session, session, sessions, minted, rx,
                     work>>
  PROVE  NodeInv'
<1>1. Owned'
  BY NothingDrawn, UntouchedSameIDs, OwnedInPlace DEF NodeInv
<1>2. WorkLeft
  BY DEF WorkLeft
<1>3. QED
  BY <1>1, <1>2, PlainStep

(* The flags of the tested nodes are set in place.                          *)
LEMMA RunCalculatePeersKeepsPairs ==
  ASSUME NEW n \in NetAddr, TypeInv(n), node_id[n] \in NodeID, NodeInv,
         RunCalculatePeers(n)
  PROVE  NodeInv'
<1> USE DEF TypeInv
<1> DEFINE peers  == PeerList(n)
           tested == {e[2] : e \in Visited(n)}
           Set(m) == SetPeer(session[n][m], "Outgoing", peers[m] # None)
           S == [m \in NodeID |->
                   IF m \in tested /\ IsDirect(session[n][m])
                     THEN Set(m) ELSE session[n][m]]
<1>1. UNCHANGED <<node_id, pending_session, sessions, minted, rx, work>>
  BY DEF RunCalculatePeers
<1>2. UNCHANGED session \/ session' = [session EXCEPT ![n] = S]
  BY DEF RunCalculatePeers
<1>3. \A m \in NodeID :
        S[m] # None => /\ session[n][m] # None
                       /\ S[m].session_id = session[n][m].session_id
  <2>1. ASSUME NEW m \in NodeID, IsDirect(session[n][m])
        PROVE  Set(m).session_id = session[n][m].session_id
    <3>1. session[n][m] \in Session
      BY <2>1 DEF NodeTypeOK, IsDirect
    <3>2. QED
      BY <3>1, SetPeerKeepsID
  <2> HIDE DEF Set, tested
  <2>2. QED
    BY <2>1 DEF IsDirect
<1> HIDE DEF S
<1>4. SameIDs
  <2>1. CASE session' = [session EXCEPT ![n] = S]
    BY <1>3, <2>1 DEF SameIDs, NodeTypeOK
  <2>2. QED
    BY <1>2, <2>1, UntouchedSameIDs
<1>5. Grows
  BY <1>1, NothingDrawn
<1>6. GenuineSent'
  BY <1>5, RunCalculatePeersSends, AddsGenuine DEF NodeInv, GenuineStack
<1>7. Owned' /\ WorkLeft
  BY <1>1, <1>4, <1>5, OwnedInPlace DEF NodeInv, WorkLeft
<1>8. QED
  BY <1>1, <1>6, <1>7, PlainStep

(* Notify sends what is no handshake.                                       *)
LEMMA RunNotifyKeepsPairs ==
  ASSUME NEW n \in NetAddr, TypeInv(n), node_id[n] \in NodeID, NodeInv,
         RunNotify(n)
  PROVE  NodeInv'
<1> USE DEF TypeInv
<1> DEFINE m == Head(queue).id
           s == session[n][m]
           enc == Notify(m, node_id[n])
<1>1. m \in NodeID
  BY RunningHead, ActionFields DEF RunNotify, Running, Awaitable
<1>2. UNCHANGED <<node_id, pending_session, session, sessions, minted, rx, work>>
  BY DEF RunNotify
<1>3. Grows
  BY <1>2, NothingDrawn
<1>4. GenuineSent'
  <2>1. CASE UNCHANGED outgoing
    BY <1>3, <2>1, NothingGenuine DEF NodeInv, GenuineStack
  <2>2. CASE s # None /\ \E p \in GenPacket(Self(n), s, enc) : Emit(p)
    <3>1. s \in Session
      BY <1>1, <2>2 DEF NodeTypeOK
    <3>2. enc \in Encryption
      BY <1>1, EncryptionConstructors, 0 \in SessionID DEF SessionID
    <3>3. Genuine(enc, minted')
      BY DEF Genuine, Notify, Bare
    <3> HIDE DEF s, enc
    <3>4. QED
      BY <1>3, <2>2, <3>1, <3>2, <3>3, SelfTypes, GenPacketGenuine
         DEF NodeInv, GenuineStack
  <2>3. QED
    BY <2>1, <2>2 DEF RunNotify
<1>5. QED
  BY <1>2, <1>4, SendingStep

(* UpdateRemote and SendData send in a session, RequestRouteCoord asks the  *)
(* DHT.                                                                     *)
LEMMA RunSendingKeepsPairs ==
  ASSUME NEW n \in NetAddr, TypeInv(n), NodeInv,
         RunUpdateRemote(n) \/ RunSendData(n) \/ RunRequestRouteCoord(n)
  PROVE  NodeInv'
<1> USE DEF TypeInv
<1> DEFINE m == Head(queue).id
           ask == RequestPings(TARGET_PEER_COUNT, route_coord[n])
           read == [type |-> "RouteCoordDHTRead", id |-> m]
<1>1. m \in NodeID
  BY RunningHead, ActionFields
     DEF RunUpdateRemote, RunSendData, RunRequestRouteCoord, Running
<1>2. UNCHANGED <<node_id, pending_session, session, sessions, minted, rx, work>>
  BY DEF RunUpdateRemote, RunSendData, RunRequestRouteCoord
<1>3. Grows
  BY <1>2, NothingDrawn
<1>4. \A packet \in {ask, Data} :
        packet \in NodePacket /\ packet.type # "Traverse"
  BY NodeConstants, PacketConstructors, PlainPacketIsPacket DEF NodeTypeOK
<1>5. ASSUME NEW packet \in {ask, Data}, NEW p \in SendPacket(Self(n), m, packet),
             Emit(p)
      PROVE  GenuineSent'
  BY <1>1, <1>3, <1>4, <1>5, SelfTypes, SendPacketGenuine
     DEF NodeInv, GenuineStack
<1>6. GenuineSent'
  <2>1. CASE UNCHANGED outgoing
    BY <1>3, <2>1, NothingGenuine DEF NodeInv, GenuineStack
  <2>2. CASE \E packet \in {ask, Data} :
               \E p \in SendPacket(Self(n), m, packet) : Emit(p)
    BY <1>5, <2>2
  <2>3. CASE Emit(GenRequest(n, read))
    <3>1. read \in Request
      BY <1>1 DEF Request
    <3>2. /\ GenRequest(n, read) \in Outgoing
          /\ Genuine(GenRequest(n, read).encryption, minted')
      BY <3>1, GenRequestIsOutgoing DEF Genuine
    <3>3. QED
      BY <1>3, <2>3, <3>2, EmitGenuine DEF NodeInv, GenuineStack
  <2>4. QED
    BY <2>1, <2>2, <2>3 DEF RunUpdateRemote, RunSendData, RunRequestRouteCoord
<1>7. QED
  BY <1>2, <1>6, SendingStep

(* parse_action.                                                            *)
LEMMA RunKeepsPairs ==
  ASSUME NEW n \in NetAddr, TypeInv(n), node_id[n] \in NodeID, NodeInv, Run(n)
  PROVE  NodeInv'
<1> USE DEF TypeInv
<1> DEFINE a == Head(queue)
<1>1. CASE RunBootstrap(n) \/ RunConnect(n)
  <2>1. a.id \in NodeID /\ DirectType(a.addr) \in SessionType
    BY <1>1, RunningHead, ActionFields, DirectTypeIsType
       DEF RunBootstrap, RunConnect, Running
  <2>2. \E packets : Connect(n, a.id, DirectType(a.addr), packets)
    BY <1>1 DEF RunBootstrap, RunConnect
  <2>3. UNCHANGED <<node_id, session, sessions, rx, work>>
    BY <1>1 DEF RunBootstrap, RunConnect
  <2>4. QED
    BY <2>1, <2>2, <2>3, ConnectKeepsPairs
<1>2. CASE RunConnectTraversed(n)
  <2>1. /\ a.id \in NodeID
        /\ UNCHANGED <<node_id, session, sessions, rx, work>>
    BY <1>2, RunningHead, ActionFields
       DEF RunConnectTraversed, Running, Awaitable
  <2>2. CASE /\ remote_coord[n][a.id] # None
             /\ Connect(n, a.id, TraversedType(remote_coord[n][a.id]), <<>>)
    <3>1. TraversedType(remote_coord[n][a.id]) \in SessionType
      BY <2>1, <2>2, TraversedTypeIsType DEF NodeTypeOK, MaybeCoord
    <3>2. QED
      BY <2>1, <2>2, <3>1, ConnectKeepsPairs
  <2>3. CASE UNCHANGED <<pending_session, outgoing, mintVars>>
    <3>1. GenuineSent'
      BY <2>3, NothingDrawn, NothingGenuine DEF NodeInv, GenuineStack
    <3>2. QED
      BY <2>1, <2>3, <3>1, SendingStep
  <2>4. QED
    BY <1>2, <2>2, <2>3 DEF RunConnectTraversed
<1>3. CASE RunCalcRouteCoord(n) \/ RunConnectRouted(n) \/ RunCondition(n)
  <2>1. UNCHANGED <<node_id, pending_session, session, sessions, minted, rx,
                    work, outgoing>>
    BY <1>3 DEF RunCalcRouteCoord, RunConnectRouted, RunCondition
  <2>2. GenuineSent'
    BY <2>1, NothingDrawn, NothingGenuine DEF NodeInv, GenuineStack
  <2>3. QED
    BY <2>1, <2>2, SendingStep
<1>4. QED
  BY <1>1, <1>2, <1>3, RunCalculatePeersKeepsPairs, RunNotifyKeepsPairs,
     RunSendingKeepsPairs DEF Run

-----------------------------------------------------------------------------
(* The network                                                              *)

(* What is on its way keeps being genuine, whatever part of it goes.        *)
LEMMA WireTypes ==
  ASSUME TypeOK
  PROVE  \A n \in NetAddr : Wire[n] \in Seq(Incoming)
<1>1. ASSUME NEW n \in NetAddr
      PROVE  Wire[n] \in Seq(Incoming)
  <2>1. packet_map[n] \in Seq(Latent)
    BY DEF TypeOK, Latent
  <2>2. Wire[n] = Sending(packet_map[n])
    BY DEF Wire, Sending
  <2>3. QED
    BY <2>1, <2>2, SendingTypes
<1>2. QED
  BY <1>1

(* Where only packets of before are on their way, all are genuine.          *)
LEMMA WireStays ==
  ASSUME GenuineWire, Grows,
         \A n \in NetAddr : \A i \in DOMAIN Wire'[n] :
           \E j \in DOMAIN Wire[n] : Wire'[n][i] = Wire[n][j]
  PROVE  GenuineWire'
BY GenuineStays DEF GenuineWire

(* In particular where nothing on its way changes.                          *)
LEMMA SameWireStays ==
  ASSUME GenuineWire, Grows, UNCHANGED Wire
  PROVE  GenuineWire'
BY WireStays

(* A step of the node whose turn it is draws at most one id.                *)
LEMMA NodeStepGrows ==
  ASSUME NEW n \in NetAddr, TypeInv(n), node_id[n] \in NodeID,
         Parse(n) \/ Handle(n) \/ Run(n)
  PROVE  Grows
<1> USE DEF TypeInv
<1>1. CASE Parse(n)
  BY <1>1, NothingDrawn
     DEF Parse, ParseResponse, ParseHandshake, ParseAcknowledge, ParseSession,
         ParseNotify
<1>2. CASE Handle(n)
  BY <1>2, NothingDrawn
     DEF Handle, HandleConnectionInit, HandleExchangeInfo,
         HandleExchangeInfoResponse, HandleRequestPings, HandleWantPing,
         HandleAcceptWantPing, HandlePeerNotify, HandleTraverse, HandleData
<1>3. CASE Run(n)
  <2>1. CASE RunBootstrap(n) \/ RunConnect(n) \/ RunConnectTraversed(n)
    <3>1. Head(queue).id \in NodeID
      BY <2>1, RunningHead, ActionFields
         DEF RunBootstrap, RunConnect, RunConnectTraversed, Running, Awaitable
    <3>2. \/ minted' = Append(minted, <<node_id[n], Head(queue).id>>)
          \/ UNCHANGED minted
      BY <2>1 DEF RunBootstrap, RunConnect, RunConnectTraversed, Connect
    <3>3. QED
      BY <3>1, <3>2, OneDrawn, NothingDrawn
  <2>2. CASE ~(RunBootstrap(n) \/ RunConnect(n) \/ RunConnectTraversed(n))
    <3>1. UNCHANGED minted
      BY <1>3, <2>2
         DEF Run, RunUpdateRemote, RunCalcRouteCoord, RunCalculatePeers,
             RunNotify, RunRequestRouteCoord, RunConnectRouted, RunSendData,
             RunCondition
    <3>2. QED
      BY <3>1, NothingDrawn
  <2>3. QED
    BY <2>1, <2>2
<1>4. QED
  BY <1>1, <1>2, <1>3

(* The steps of a node keep the invariant.                                  *)
LEMMA NodeStepKeepsPairs ==
  ASSUME NEW n \in NetAddr, PairInv,
         ParsePacket(n) \/ ParseNodePacket(n) \/ ParseAction(n)
  PROVE  NodeInv' /\ GenuineWire'
<1>1. Turn(n) /\ UNCHANGED <<netVars, loopVars>>
  BY DEF ParsePacket, ParseNodePacket, ParseAction, NodeStep
<1>2. node_id[n] \in NodeID /\ TypeInv(n)
  BY <1>1, TurnIsNode
     DEF PairInv, MapInv, IInv, StackInv, Turn, TypeInv, TypeOK
<1>3. Parse(n) \/ Handle(n) \/ Run(n)
  BY DEF ParsePacket, ParseNodePacket, ParseAction
<1>4. NodeInv'
  BY <1>2, <1>3, ParseKeepsPairs, HandleKeepsPairs, RunKeepsPairs DEF PairInv
<1>5. UNCHANGED Wire
  BY <1>1 DEF Wire
<1>6. QED
  BY <1>2, <1>3, <1>4, <1>5, NodeStepGrows, SameWireStays DEF PairInv

(* What is delivered was on its way.                                        *)
LEMMA DeliverKeepsPairs ==
  ASSUME NEW n \in NetAddr, PairInv, Deliver(n)
  PROVE  NodeInv' /\ GenuineWire'
<1>1. MapInv /\ TypeOK /\ NodeInv /\ GenuineWire
  BY DEF PairInv, MapInv, IInv
<1>2. UNCHANGED <<node_id, pending_session, session, sessions, work, outgoing,
                  minted>>
  BY DEF Deliver
<1>3. Grows
  BY <1>2, NothingDrawn
<1>4. GenuineRead'
  <2>1. PICK i \in Due(n) : rx'.encryption = packet_map[n][i].packet.encryption
    BY DEF Deliver
  <2>2. i \in DOMAIN Wire[n] /\ Wire[n][i] = packet_map[n][i].packet
    BY <2>1 DEF Due, Wire
  <2>3. Genuine(Wire[n][i].encryption, minted)
    BY <1>1, <2>2 DEF GenuineWire
  <2>4. QED
    BY <1>2, <2>1, <2>2, <2>3 DEF GenuineRead
<1>5. WorkLeft /\ Owned' /\ GenuineSent'
  BY <1>1, <1>2, <1>3, UntouchedSameIDs, OwnedInPlace, NothingGenuine
     DEF WorkLeft, NodeInv, GenuineStack
<1>6. GenuineWork'
  BY <1>1, <1>3, <1>5, WorkGenuine DEF NodeInv, GenuineStack
<1>7. GenuineWire'
  <2>1. PICK i \in 1 .. Len(Wire[n]) :
          Wire' = [Wire EXCEPT ![n] = Without(Wire[n], i)]
    BY <1>1, DeliverReceives DEF Net!Receive, Without
  <2>2. Wire[n] \in Seq(Incoming) /\ DOMAIN Wire = NetAddr
    BY <1>1, WireTypes DEF Wire
  <2>3. \A k \in DOMAIN Without(Wire[n], i) :
          \E j \in DOMAIN Wire[n] : Without(Wire[n], i)[k] = Wire[n][j]
    <3>1. /\ Without(Wire[n], i) \in Seq(Incoming)
          /\ Len(Without(Wire[n], i)) = Len(Wire[n]) - 1
          /\ \A k \in 1 .. Len(Wire[n]) - 1 :
               Without(Wire[n], i)[k] =
                 IF k < i THEN Wire[n][k] ELSE Wire[n][k + 1]
      BY <2>2, WithoutProperties
    <3>2. Len(Wire[n]) \in Nat /\ DOMAIN Wire[n] = 1 .. Len(Wire[n])
          /\ DOMAIN Without(Wire[n], i) = 1 .. Len(Wire[n]) - 1
      BY <2>2, <3>1, LenProperties
    <3>3. \A k \in 1 .. Len(Wire[n]) - 1 :
            k \in 1 .. Len(Wire[n]) /\ k + 1 \in 1 .. Len(Wire[n])
      BY <3>2
    <3>4. QED
      BY <3>1, <3>2, <3>3
  <2>4. \A a \in NetAddr : \A k \in DOMAIN Wire'[a] :
          \E j \in DOMAIN Wire[a] : Wire'[a][k] = Wire[a][j]
    BY <2>1, <2>2, <2>3
  <2>5. QED
    BY <1>1, <1>3, <2>4, WireStays
<1>8. QED
  BY <1>4, <1>5, <1>6, <1>7 DEF NodeInv, GenuineStack

(* One packet is added to those on their way: what was sent, or an answer.  *)
LEMMA RoutePacketPuts ==
  ASSUME NEW n \in NetAddr, PairInv, RoutePacket(n)
  PROVE  \E dest \in NetAddr : \E x :
           /\ Wire' = [Wire EXCEPT ![dest] = Append(Wire[dest], x)]
           /\ x.encryption \in {None, Head(outgoing).encryption}
<1> DEFINE p == Head(outgoing)
<1>1. Outbox[n] = outgoing
  BY DEF Outbox, Acting, RoutePacket, Turn
<1>2. \E dest \in NetAddr : \E request : \E enc \in {None, p.encryption} :
        Net!Put(n, request, enc, dest)
  <2>1. outgoing \in Seq(Outgoing) /\ outgoing # <<>>
    BY DEF PairInv, MapInv, IInv, TypeOK, StackTypeOK, RoutePacket
  <2>2. p.dest_addr \in NetAddr
    BY <2>1, HeadTailProperties DEF Outgoing
  <2>3. Net!Carry(n)
    BY RoutePacketCarries DEF PairInv
  <2> HIDE DEF p
  <2>4. QED
    BY <1>1, <2>2, <2>3 DEF Net!Carry, p
<1>3. \E dest \in NetAddr : \E x :
        /\ Wire' = [Wire EXCEPT ![dest] = Append(Wire[dest], x)]
        /\ x.encryption \in {None, p.encryption}
  <2> HIDE DEF p
  <2>1. PICK dest \in NetAddr :
          \E request : \E enc \in {None, p.encryption} :
            Net!Put(n, request, enc, dest)
    BY <1>2
  <2>2. PICK request :
          \E enc \in {None, p.encryption} : Net!Put(n, request, enc, dest)
    BY <2>1
  <2>3. PICK enc \in {None, p.encryption} : Net!Put(n, request, enc, dest)
    BY <2>2
  <2> DEFINE y == [src_addr |-> n, request |-> request, encryption |-> enc]
  <2>4. y.encryption \in {None, p.encryption}
    BY <2>3
  <2>5. Wire' = [Wire EXCEPT ![dest] = Append(Wire[dest], y)]
    BY <2>3 DEF Net!Put
  <2> HIDE DEF y
  <2>6. QED
    BY <2>4, <2>5
<1>4. QED
  BY <1>3

(* What is routed was sent.                                                 *)
LEMMA RoutePacketKeepsPairs ==
  ASSUME NEW n \in NetAddr, PairInv, RoutePacket(n)
  PROVE  NodeInv' /\ GenuineWire'
<1> DEFINE p == Head(outgoing)
<1>1. MapInv /\ TypeOK /\ NodeInv /\ GenuineWire
  BY DEF PairInv, MapInv, IInv
<1>2. /\ UNCHANGED <<node_id, pending_session, session, sessions, rx, work,
                     minted>>
      /\ outgoing # <<>> /\ outgoing' = Tail(outgoing)
      /\ turn <= Len(order) /\ n = order[turn]
  BY DEF RoutePacket, Turn
<1>3. Grows
  BY <1>2, NothingDrawn
<1>4. /\ outgoing \in Seq(Outgoing) /\ Len(outgoing) \in Nat
      /\ DOMAIN outgoing = 1 .. Len(outgoing)
      /\ 1 \in DOMAIN outgoing /\ p = outgoing[1] /\ p \in Outgoing
      /\ DOMAIN Tail(outgoing) = 1 .. Len(outgoing) - 1
      /\ \A i \in 1 .. Len(outgoing) - 1 : Tail(outgoing)[i] = outgoing[i + 1]
  BY <1>1, <1>2, HeadTailProperties, LenProperties DEF TypeOK, StackTypeOK
<1>5. GenuineSent'
  <2>1. \A i \in DOMAIN outgoing' : \E j \in DOMAIN outgoing :
          outgoing'[i] = outgoing[j]
    <3>1. \A i \in 1 .. Len(outgoing) - 1 : i + 1 \in 1 .. Len(outgoing)
      BY <1>4
    <3>2. QED
      BY <1>2, <1>4, <3>1
  <2>2. QED
    BY <1>1, <1>3, <2>1, GenuineStays DEF NodeInv, GenuineStack, GenuineSent
<1>6. Owned' /\ WorkLeft
  BY <1>1, <1>2, <1>3, UntouchedSameIDs, OwnedInPlace DEF NodeInv, WorkLeft
<1>7. GenuineWire'
  <2>1. \E dest \in NetAddr : \E x :
          /\ Wire' = [Wire EXCEPT ![dest] = Append(Wire[dest], x)]
          /\ x.encryption \in {None, p.encryption}
    BY RoutePacketPuts
  <2>2. PICK dest \in NetAddr :
           \E x : /\ Wire' = [Wire EXCEPT ![dest] = Append(Wire[dest], x)]
                  /\ x.encryption \in {None, p.encryption}
    BY <2>1
  <2>3. PICK x : /\ Wire' = [Wire EXCEPT ![dest] = Append(Wire[dest], x)]
                  /\ x.encryption \in {None, p.encryption}
    BY <2>2
  <2>4. Genuine(x.encryption, minted')
    BY <1>1, <1>2, <1>4, <2>3
       DEF NodeInv, GenuineStack, GenuineSent, Genuine
  <2> DEFINE q == Wire[dest]
  <2>5. DOMAIN Wire = NetAddr /\ q \in Seq(Incoming)
    BY <1>1, WireTypes DEF Wire
  <2>6. /\ Len(q) \in Nat /\ DOMAIN q = 1 .. Len(q)
        /\ DOMAIN Append(q, x) = 1 .. Len(q) + 1
        /\ \A i \in 1 .. Len(q) : Append(q, x)[i] = q[i]
        /\ Append(q, x)[Len(q) + 1] = x
    <3>1. q \in Seq(Incoming \cup {x}) /\ x \in Incoming \cup {x}
      BY <2>5
    <3> HIDE DEF q
    <3>2. QED
      BY <3>1, AppendProperties, LenProperties
  <2>7. Wire'[dest] = Append(q, x)
        /\ \A k \in NetAddr \ {dest} : Wire'[k] = Wire[k]
    BY <2>3, <2>5
  <2>8. ASSUME NEW k \in NetAddr, NEW i \in DOMAIN Wire'[k]
        PROVE  Genuine(Wire'[k][i].encryption, minted')
    <3>1. CASE k = dest /\ i = Len(q) + 1
      <4> HIDE DEF q
      <4>1. QED
        BY <2>4, <2>6, <2>7, <3>1
    <3>2. CASE k = dest /\ i # Len(q) + 1
      <4>1. i \in DOMAIN q /\ Wire'[k][i] = q[i]
        <5> HIDE DEF q
        <5>1. QED
          BY <2>6, <2>7, <3>2
      <4>2. QED
        BY <1>1, <1>3, <4>1, GenuineStays DEF GenuineWire
    <3>3. CASE k # dest
      BY <1>1, <1>3, <2>7, <3>3, GenuineStays DEF GenuineWire
    <3>4. QED
      BY <3>1, <3>2, <3>3
  <2>9. QED
    BY <2>8 DEF GenuineWire
<1>8. QED
  BY <1>1, <1>2, <1>5, <1>6, <1>7, PlainStep

(* The other steps of a tick leave ids alone.                               *)
LEMMA OtherTickKeepsPairs ==
  ASSUME NEW n \in NetAddr, PairInv,
         BeginTick(n) \/ BeginActions(n) \/ EndActions(n) \/ EndTick(n)
  PROVE  NodeInv' /\ GenuineWire'
<1>1. /\ UNCHANGED <<node_id, pending_session, session, sessions, rx, work,
                     outgoing, minted>>
  BY DEF BeginTick, BeginActions, EndActions, EndTick
<1>2. NodeInv'
  BY <1>1, UntouchedSameIDs, QuietStep DEF PairInv, WorkLeft
<1>3. UNCHANGED Wire
  BY OtherTickStutters DEF PairInv, Abstract
<1>4. QED
  BY <1>1, <1>2, <1>3, NothingDrawn, SameWireStays DEF PairInv

-----------------------------------------------------------------------------
(* Commands                                                                 *)

(* What a command leaves of a node's ids it leaves as it was.               *)
LEMMA OwnedLeft ==
  ASSUME Owned, UNCHANGED minted,
         \A a \in Nodes', m \in NodeID :
           /\ pending_session'[a][m] # None =>
                /\ a \in Nodes /\ node_id'[a] = node_id[a]
                /\ pending_session'[a][m] = pending_session[a][m]
           /\ session'[a][m] # None =>
                /\ a \in Nodes /\ node_id'[a] = node_id[a]
                /\ session[a][m] # None
                /\ session'[a][m].session_id = session[a][m].session_id
           /\ sessions'[a][m] # None =>
                /\ a \in Nodes /\ node_id'[a] = node_id[a]
                /\ sessions'[a][m] = sessions[a][m]
  PROVE  Owned'
<1>1. PendingOwned'
  BY DEF Owned, PendingOwned
<1>2. SessionOwned'
  BY DEF Owned, SessionOwned
<1>3. IndexOwned'
  BY DEF Owned, IndexOwned
<1>4. QED
  BY <1>1, <1>2, <1>3 DEF Owned

(* A command leaves every pending session, session and index with its       *)
(* owner, or removes it.                                                    *)
LEMMA CommandKeepsOwned ==
  ASSUME NEW c \in Commands, PairInv, CommandStep(c)
  PROVE  Owned'
<1>1. NodeTypeOK /\ Owned
  BY DEF PairInv, MapInv, IInv, TypeOK, NodeInv
<1>2. UNCHANGED minted
  BY DEF CommandStep, CommandNode, CommandAdd, CommandDel, CommandReload,
         CommandClear, CommandGen, CommandTest, Renewed
<1>3. CASE CommandNode(c) \/ CommandTest(c)
  <2>1. UNCHANGED <<node_id, pending_session, session, sessions>>
    BY <1>3 DEF CommandNode, CommandTest
  <2>2. Nodes' = Nodes
    BY <2>1 DEF Nodes
  <2>3. QED
    BY <1>1, <1>2, <2>1, <2>2, OwnedLeft
<1>4. CASE CommandAdd(c)
  <2>1. PICK b \in NetAddr :
          /\ node_id' = [node_id EXCEPT ![b] = c.id]
          /\ pending_session' = [pending_session EXCEPT ![b] = NoRemote]
          /\ session' = [session EXCEPT ![b] = NoRemote]
          /\ sessions' = [sessions EXCEPT ![b] = NoRemote]
    BY <1>4 DEF CommandAdd
  <2>2. \A m \in NodeID : /\ pending_session'[b][m] = None
                          /\ session'[b][m] = None /\ sessions'[b][m] = None
    BY <1>1, <2>1 DEF NodeTypeOK, NoRemote
  <2>3. \A a \in NetAddr \ {b} :
          /\ pending_session'[a] = pending_session[a]
          /\ session'[a] = session[a] /\ sessions'[a] = sessions[a]
          /\ node_id'[a] = node_id[a]
          /\ a \in Nodes' => a \in Nodes
    BY <1>1, <2>1 DEF NodeTypeOK, Nodes
  <2>4. Nodes' \subseteq NetAddr
    BY DEF Nodes
  <2>5. QED
    BY <1>1, <1>2, <2>2, <2>3, <2>4, OwnedLeft
<1>5. CASE CommandDel(c)
  <2>1. /\ node_id' = [node_id EXCEPT ![c.at] = None]
        /\ UNCHANGED <<pending_session, session, sessions>>
    BY <1>5 DEF CommandDel
  <2>2. \A a \in Nodes' : a \in Nodes /\ node_id'[a] = node_id[a]
    BY <1>1, <2>1 DEF Nodes, NodeTypeOK
  <2>3. QED
    BY <1>1, <1>2, <2>1, <2>2, OwnedLeft
<1>6. CASE CommandReload(c)
  <2>1. /\ pending_session' = [a \in NetAddr |-> NoRemote]
        /\ session' = [a \in NetAddr |->
                         [m \in NodeID |-> Unsaved(session[a][m])]]
        /\ UNCHANGED <<node_id, sessions>>
    BY <1>6 DEF CommandReload
  <2>2. Nodes' = Nodes /\ Nodes \subseteq NetAddr
    BY <2>1 DEF Nodes
  <2>3. \A a \in NetAddr, m \in NodeID :
          session'[a][m] # None =>
            /\ session[a][m] # None
            /\ session'[a][m].session_id = session[a][m].session_id
    <3>1. ASSUME NEW s \in Session
          PROVE  Unsaved(s).session_id = s.session_id
      BY NoneIsNoValue DEF Unsaved, Session
    <3>2. \A a \in NetAddr, m \in NodeID :
            /\ session'[a][m] = Unsaved(session[a][m])
            /\ session[a][m] \in Session \cup {None}
      BY <1>1, <2>1 DEF NodeTypeOK
    <3>3. Unsaved(None) = None
      BY DEF Unsaved
    <3>4. QED
      BY <3>1, <3>2, <3>3
  <2>4. \A a \in NetAddr, m \in NodeID : pending_session'[a][m] = None
    BY <2>1 DEF NoRemote
  <2>5. QED
    BY <1>1, <1>2, <2>1, <2>2, <2>3, <2>4, OwnedLeft
<1>7. CASE CommandClear(c) \/ CommandGen(c)
  <2>1. /\ pending_session' = [a \in NetAddr |-> NoRemote]
        /\ session' = [a \in NetAddr |-> NoRemote]
        /\ sessions' = [a \in NetAddr |-> NoRemote]
    BY <1>7 DEF CommandClear, CommandGen, Renewed
  <2>2. \A a \in NetAddr, m \in NodeID :
          /\ pending_session'[a][m] = None
          /\ session'[a][m] = None /\ sessions'[a][m] = None
    BY <2>1 DEF NoRemote
  <2>3. Nodes' \subseteq NetAddr
    BY DEF Nodes
  <2>4. QED
    BY <1>1, <1>2, <2>2, <2>3, OwnedLeft
<1>8. QED
  BY <1>3, <1>4, <1>5, <1>6, <1>7 DEF CommandStep

(* A command keeps the invariant: it sends nothing, and what was on its way *)
(* stays or is lost.                                                        *)
LEMMA CommandKeepsPairs ==
  ASSUME NEW c \in Commands, PairInv, CommandStep(c)
  PROVE  NodeInv' /\ GenuineWire'
<1>1. UNCHANGED <<rx, work, outgoing, minted>>
  BY DEF CommandStep, CommandNode, CommandAdd, CommandDel, CommandReload,
         CommandClear, CommandGen, CommandTest, Renewed
<1>2. GenuineStack'
  BY <1>1
     DEF PairInv, NodeInv, GenuineStack, GenuineSent, GenuineRead, GenuineWork
<1>3. GenuineWire'
  <2>1. CASE UNCHANGED Abstract
    BY <1>1, <2>1, NothingDrawn, SameWireStays DEF Abstract, PairInv
  <2>2. CASE Net!Lose
    BY <2>2 DEF Net!Lose, GenuineWire
  <2>3. QED
    BY <2>1, <2>2, CommandMaps DEF PairInv
<1>4. QED
  BY <1>2, <1>3, CommandKeepsOwned DEF NodeInv

-----------------------------------------------------------------------------
(* Theorem                                                                  *)

(* Every step keeps the invariant.                                          *)
LEMMA NextKeepsPairs == PairInv /\ [Next]_vars => PairInv'
<1> SUFFICES ASSUME PairInv, [Next]_vars
             PROVE  NodeInv' /\ GenuineWire'
  BY NextKeepsMapInv DEF PairInv
<1>1. CASE \E n \in NetAddr : Tick(n)
  BY <1>1, NodeStepKeepsPairs, DeliverKeepsPairs, RoutePacketKeepsPairs,
     OtherTickKeepsPairs DEF Tick
<1>2. CASE \E c \in Commands : CommandStep(c)
  BY <1>2, CommandKeepsPairs
<1>3. CASE AgendaStep \/ Stop \/ UNCHANGED vars
  <2>1. UNCHANGED <<node_id, pending_session, session, sessions, rx, work,
                    outgoing, minted, packet_map>>
    BY <1>3 DEF AgendaStep, Stop, vars
  <2>2. NodeInv'
    BY <2>1, UntouchedSameIDs, QuietStep DEF PairInv, WorkLeft
  <2>3. UNCHANGED Wire
    BY <2>1 DEF Wire
  <2>4. QED
    BY <2>1, <2>2, <2>3, NothingDrawn, SameWireStays DEF PairInv
<1>4. QED
  BY <1>1, <1>2, <1>3 DEF Next

(* At first there is neither an id nor a packet.                            *)
LEMMA InitPairs == Init => PairInv
<1> SUFFICES ASSUME Init
             PROVE  PairInv
  OBVIOUS
<1>1. MapInv /\ Wire = [n \in NetAddr |-> <<>>]
  BY InitMaps DEF Net!Init
<1>2. GenuineWire
  BY <1>1 DEF GenuineWire
<1>3. GenuineStack
  BY DEF Init, GenuineStack, GenuineSent, GenuineRead, GenuineWork
<1>4. Owned
  <2>1. \A a \in NetAddr, m \in NodeID :
          /\ pending_session[a][m] = None
          /\ session[a][m] = None /\ sessions[a][m] = None
    BY DEF Init, NoRemote
  <2>2. Nodes \subseteq NetAddr
    BY DEF Nodes
  <2>3. QED
    BY <2>1, <2>2 DEF Owned, PendingOwned, SessionOwned, IndexOwned
<1>5. QED
  BY <1>1, <1>2, <1>3, <1>4 DEF PairInv, NodeInv

(* No node files a session, nor takes a packet, as that of a remote which   *)
(* does not own the other end, however handshakes, acknowledgements and     *)
(* commands interleave and however far the packets travel.                  *)
THEOREM SessionsPaired == Spec => []SessionPairing
<1>1. PairInv => SessionPairing
  BY DEF PairInv, NodeInv, Owned, SessionOwned, IndexOwned, Ours, Drawn,
         SessionPairing
<1>2. QED
  BY <1>1, InitPairs, NextKeepsPairs, PTL DEF Spec
=============================================================================
