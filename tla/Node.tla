-------------------------------- MODULE Node --------------------------------
(***************************************************************************)
(* A dbr-sim node (src/node.rs): its state, and one action per packet it    *)
(* parses (parse_packet, parse_node_encryption, parse_node_packet) and per  *)
(* entry of its action list that it runs (parse_action).                    *)
(*                                                                         *)
(* Node::tick is one call: first every incoming packet, then every action   *)
(* listed by then.  Here it is a series of steps, with what the call holds  *)
(* on its stack in rx, work, queue, new_actions and outgoing; NetSim never  *)
(* lets another node step in between, so those variables are not per node.  *)
(* A handler that returns an error keeps what it had changed by then, and   *)
(* the packet (or the action) is dropped: see Fail.                         *)
(***************************************************************************)
EXTENDS Routing

CONSTANTS
  TARGET_PEER_COUNT,       \* 10 in the code
  MAX_REQUEST_PINGS,       \* 10
  RequestPingsInterval,    \* 2000 ticks between two honoured RequestPings
  AcceptWantPingInterval   \* 300 ticks between two honoured AcceptWantPings

ASSUME NodeConstants ==
  /\ TARGET_PEER_COUNT \in Nat \ {0}
  /\ MAX_REQUEST_PINGS \in Nat
  /\ RequestPingsInterval \in Nat
  /\ AcceptWantPingInterval \in Nat

VARIABLES
  node_id,          \* of the node at each address, None where there is none
  route_coord, deus_ex_data, public_route, ticks,
  remotes,          \* the NodeIDs each node has a RemoteNode for
  remote_coord,     \* RemoteNode::route_coord
  pending_session,  \* RemoteNode::pending_session
  session,          \* RemoteNode::session
  sessions,         \* Node::sessions, from remote to session id
  direct_sorted,    \* Node::direct_sorted, a set of <<distance, remote>>
  peer_list,        \* Node::peer_list, from remote to coordinate
  action_list,
  rx,               \* the packet being parsed, or None
  work,             \* node packets still to parse of the one received
  queue,            \* actions taken out of action_list by this tick
  new_actions, outgoing,
  minted,           \* whom each session id was drawn for, see Connect
  panicked          \* some node reached an unimplemented!()

selfVars    == <<node_id, deus_ex_data, ticks>>
remoteVars  == <<remotes, remote_coord, pending_session, session>>
tableVars   == <<sessions, direct_sorted>>
routeVars   == <<route_coord, public_route, peer_list>>
runVars     == <<queue, new_actions>>
mintVars    == <<minted, panicked>>

PendingSession ==
  [session_id : SessionID, sent : Nat, packets : Seq(InitialPacket),
   session_type : SessionType]

(* What a node parses: a packet and the type of a session back.             *)
Arrived ==
  [request : {None}, encryption : Encryption, via : SessionType]
    \cup [request : Response, encryption : {None}, via : SessionType]
(* Rust's None is nothing that arrives, and no pending session.             *)
ASSUME ArrivedAssumption == None \notin Arrived /\ None \notin PendingSession

(* The types of what a node keeps, and of what its tick holds.              *)
NodeTypeOK ==
  /\ node_id \in [NetAddr -> NodeID \cup {None}]
  /\ route_coord \in [NetAddr -> MaybeCoord]
  /\ deus_ex_data \in [NetAddr -> MaybeCoord]
  /\ public_route \in [NetAddr -> MaybeCoord]
  /\ ticks \in [NetAddr -> Nat]
  /\ remotes \in [NetAddr -> SUBSET NodeID]
  /\ remote_coord \in [NetAddr -> [NodeID -> MaybeCoord]]
  /\ pending_session \in [NetAddr -> [NodeID -> PendingSession \cup {None}]]
  /\ session \in [NetAddr -> [NodeID -> Session \cup {None}]]
  /\ sessions \in [NetAddr -> [NodeID -> SessionID \cup {None}]]
  /\ direct_sorted \in [NetAddr -> SUBSET (Nat \X NodeID)]
  /\ peer_list \in [NetAddr -> [NodeID -> MaybeCoord]]
  /\ action_list \in [NetAddr -> Seq(Action)]
StackTypeOK ==
  /\ rx \in Arrived \cup {None}
  /\ work \in Seq([from : NodeID, packet : NodePacket])
  /\ queue \in Seq(Action) /\ new_actions \in Seq(Action)
  /\ outgoing \in Seq(Outgoing)
  /\ minted \in Seq(NodeID \X NodeID) /\ panicked \in BOOLEAN

-----------------------------------------------------------------------------
(* Queries *)

(* What sending a packet reads of &self.                                    *)
Self(n) ==
  [coord |-> route_coord[n], peers |-> peer_list[n], session |-> session[n]]

(* RemoteSession::gen_packet: the packets it may return, or {None} where it *)
(* returns an error.                                                        *)
GenPacket(self, s, enc) ==
  IF IsDirect(s)
    THEN {Package(s.session_type.net_addr, enc)}
    ELSE LET to  == s.session_type.route_coord
             via == ClosestPeers(self.peers, to)
             Through(q) ==
               IF IsDirect(self.session[q]) /\ self.coord # None
                 THEN Package(self.session[q].session_type.net_addr,
                        WrapSession(self.session[q].session_id,
                                    Traverse(to, enc, self.coord)))
                 ELSE None
         IN  IF via = {} THEN {None} ELSE {Through(q) : q \in via}

(* Node::send_packet and RemoteNode::gen_packet, likewise.                  *)
SendPacket(self, m, packet) ==
  LET s == self.session[m]
  IN  IF s = None
        THEN {None}
        ELSE GenPacket(self, s, WrapSession(s.session_id, packet))

(* The k entries of S with the least keys, an entry being <<key, value>>,   *)
(* and the ways to list a set of entries by key.                            *)
Least(S, k) ==
  {T \in SUBSET S :
     /\ Cardinality(T) = IF Cardinality(S) <= k THEN Cardinality(S) ELSE k
     /\ \A t \in T, u \in S \ T : t[1] <= u[1]}
Ascending(S) ==
  {s \in [1 .. Cardinality(S) -> S] :
     \A i, j \in DOMAIN s : i < j => s[i] # s[j] /\ s[i][1] <= s[j][1]}

(* Send an entry's packet to an entry's remote, in order, up to the first   *)
(* error: what may be sent, and whether all of it was.                      *)
SendAll(self, entries) ==
  LET results ==
        {r \in [DOMAIN entries ->
                  UNION {SendPacket(self, entries[i][2].to,
                                    entries[i][2].packet)
                         : i \in DOMAIN entries}] :
           \A i \in DOMAIN entries :
             r[i] \in SendPacket(self, entries[i][2].to, entries[i][2].packet)}
      Stops(r) == {k \in 0 .. Len(entries) :
                     /\ \A i \in 1 .. k : r[i] # None
                     /\ k < Len(entries) => r[k + 1] = None}
  IN  UNION {{[packets |-> SubSeq(r, 1, k), ok |-> k = Len(entries)]
              : k \in Stops(r)} : r \in results}
Letter(key, e, packet) ==     \* to the remote of an entry of direct_sorted
  <<key, [to |-> e[2], at |-> e[1], packet |-> packet]>>

(* The distance a ping gives: half the round trip.                          *)
Swapped(now, sent)       == (sent - now) \div 2                      \* mutant
Distance(now, sent)      == (now - sent) \div 2

AnyRecipient(n, core) == TRUE                                        \* mutant
IsRecipient(n, core)  == core.recipient = node_id[n]

(* NodeEncryption::is_for_node *)
IsForNode(n, enc) ==
  IF IsSession(enc)
    THEN \E m \in NodeID : sessions[n][m] = OuterID(enc)
    ELSE CASE enc.core.type \in {"Handshake", "Notify"} ->
                IsRecipient(n, enc.core)
           [] enc.core.type = "Acknowledge" ->
                LET p == pending_session[n][enc.core.acknowledger]
                IN  p # None /\ p.session_id = enc.core.session_id

-----------------------------------------------------------------------------
(* Updates shared by the handlers *)

AddRemote(n, m) == remotes' = [remotes EXCEPT ![n] = @ \cup {m}]

(* BiHashMap::insert drops the other pair that holds the id.                *)
InsertSession(n, m, id) ==
  sessions' = [sessions EXCEPT ![n] =
    [k \in NodeID |-> IF k = m THEN id
                      ELSE IF @[k] = id THEN None ELSE @[k]]]

(* BTreeMap::insert drops the entry that was at this distance.              *)
InsertDirect(n, distance, m) ==
  direct_sorted' = [direct_sorted EXCEPT ![n] =
    {e \in @ : e[1] # distance} \cup {<<distance, m>>}]

Emit(packet) ==
  outgoing' = IF packet = None THEN outgoing ELSE Append(outgoing, packet)

(* NodeAction pushed by Node::action: it runs later in this same tick.      *)
PushAction(n, action) ==
  action_list' = [action_list EXCEPT ![n] = Append(@, action)]

(* The end of a handler; an error also drops the rest of the packet.        *)
Parsed  == rx' = None /\ UNCHANGED work
End(ok) == UNCHANGED rx /\ work' = IF ok THEN Tail(work) ELSE <<>>
Done    == End(TRUE)
Fail    == End(FALSE)

(* Node::connect.  rand::random() never repeats a session id here: the k-th *)
(* id drawn is k, and minted[k] names its initiator and its recipient.      *)
Connect(n, m, type, packets) ==
  LET id == Len(minted) + 1
      hs == Handshake(m, id, node_id[n])
  IN  /\ minted' = Append(minted, <<node_id[n], m>>)
      /\ AddRemote(n, m)
      /\ pending_session' = [pending_session EXCEPT ![n][m] =
           [session_id |-> id, sent |-> ticks[n], packets |-> packets,
            session_type |-> type]]
      /\ \/ /\ type.kind = "Direct"
            /\ Emit(Package(type.net_addr, hs))
         \/ /\ type.kind = "Traversed"
            /\ route_coord[n] # None
            /\ \E q \in ClosestPeers(peer_list[n], type.route_coord) :
                 \E p \in SendPacket(Self(n), q,
                            Traverse(type.route_coord, hs, route_coord[n])) :
                   Emit(p)
         \/ /\ type.kind = "Traversed"
            /\ \/ route_coord[n] = None
               \/ ClosestPeers(peer_list[n], type.route_coord) = {}
            /\ UNCHANGED outgoing

-----------------------------------------------------------------------------
(* parse_packet and parse_node_encryption: rx holds the packet, from the    *)
(* internet or unwrapped from a Traverse, and the type of a session back.   *)

Parsing(type) ==
  rx # None /\ rx.request = None /\ ~IsSession(rx.encryption)
    /\ rx.encryption.core.type = type

(* Only a found coordinate is recorded, and never over a known one.         *)
ParseResponse(n) ==
  /\ rx # None /\ rx.request # None
  /\ rx' = None
  /\ LET r == rx.request
     IN  IF r.type = "RouteCoordDHTReadResponse" /\ r.coord # None
           THEN /\ AddRemote(n, r.id)
                /\ remote_coord' = [remote_coord EXCEPT ![n][r.id] =
                     IF @ = None THEN r.coord ELSE @]
           ELSE UNCHANGED <<remotes, remote_coord>>
  /\ UNCHANGED <<selfVars, pending_session, session, tableVars, routeVars,
                 action_list, work, runVars, outgoing, mintVars>>

NeverYields(n, m)  == pending_session[n][m]                          \* mutant
AlwaysYields(n, m) == None                                           \* mutant
(* The pending session dropped when two handshakes cross, even if the       *)
(* Acknowledge then cannot be sent.                                         *)
YieldPending(n, m) ==
  IF node_id[n] < m THEN None ELSE pending_session[n][m]

ParseHandshake(n) ==
  /\ Parsing("Handshake")
  /\ LET c == rx.encryption.core
         s == NewSession(c.session_id, rx.via, ticks[n])
     IN  \/ /\ ~IsRecipient(n, c)
            /\ UNCHANGED <<remotes, pending_session, session, sessions,
                           outgoing>>
         \/ /\ IsRecipient(n, c)
            /\ AddRemote(n, c.signer)
            /\ pending_session' = [pending_session EXCEPT ![n][c.signer] =
                                      YieldPending(n, c.signer)]
            /\ \E p \in GenPacket(Self(n), s,
                                 Acknowledge(c.session_id, node_id[n])) :
                 /\ Emit(p)
                 /\ IF p = None
                      THEN UNCHANGED <<session, sessions>>
                      ELSE /\ session' =
                                [session EXCEPT ![n][c.signer] = s]
                           /\ InsertSession(n, c.signer, c.session_id)
  /\ Parsed
  /\ UNCHANGED <<selfVars, remote_coord, direct_sorted, routeVars,
                 action_list, runVars, mintVars>>

AsQueued(n, packets) == packets                                      \* mutant
(* update_connection_packets: an ExchangeInfo is sent with the data of now. *)
UpdateConnectionPackets(n, packets) ==
  [i \in DOMAIN packets |->
     IF packets[i].type = "ExchangeInfo"
       THEN ExchangeInfo(route_coord[n], Cardinality(remotes[n]))
       ELSE packets[i]]

(* The pending session is taken before its id is compared.  The new session *)
(* replaces the old one even if the ConnectionInit then cannot be sent.     *)
ParseAcknowledge(n) ==
  /\ Parsing("Acknowledge")
  /\ LET c == rx.encryption.core
         m == c.acknowledger
         p == pending_session[n][m]
         s == [session[n] EXCEPT ![m] =
                 NewSession(c.session_id, p.session_type, None)]
     IN  /\ pending_session' = [pending_session EXCEPT ![n][m] = None]
         /\ \/ /\ IF p = None THEN TRUE ELSE p.session_id # c.session_id
               /\ UNCHANGED <<session, tableVars, outgoing>>
            \/ /\ IF p = None THEN FALSE ELSE p.session_id = c.session_id
               /\ session' = [session EXCEPT ![n] = s]
               /\ \E init \in SendPacket([Self(n) EXCEPT !.session = s], m,
                                 ConnectionInit(c.session_id,
                                   UpdateConnectionPackets(n, p.packets))) :
                    /\ Emit(init)
                    /\ IF init = None
                         THEN UNCHANGED tableVars
                         ELSE /\ InsertSession(n, m, c.session_id)
                              /\ InsertDirect(n, Distance(ticks[n], p.sent), m)
  /\ Parsed
  /\ UNCHANGED <<selfVars, remotes, remote_coord, routeVars, action_list,
                 runVars, mintVars>>

(* A session's packet goes on to parse_node_packet; an unknown id is an     *)
(* error.                                                                   *)
ParseSession(n) ==
  /\ rx # None /\ rx.request = None /\ IsSession(rx.encryption)
  /\ rx' = None
  /\ LET from == {m \in NodeID : sessions[n][m] = OuterID(rx.encryption)}
     IN  \/ from = {} /\ work' = <<>>
         \/ \E m \in from :
              work' = <<[from |-> m, packet |-> OuterPacket(rx.encryption)]>>
  /\ UNCHANGED <<selfVars, remoteVars, tableVars, routeVars, action_list,
                 runVars, outgoing, mintVars>>

(* unimplemented!(): the program ends.                                      *)
ParseNotify(n) ==
  /\ Parsing("Notify")
  /\ rx' = None /\ panicked' = TRUE
  /\ UNCHANGED <<selfVars, remoteVars, tableVars, routeVars, action_list,
                 work, runVars, outgoing, minted>>

Parse(n) ==
  ParseResponse(n) \/ ParseHandshake(n) \/ ParseAcknowledge(n)
    \/ ParseSession(n) \/ ParseNotify(n)

-----------------------------------------------------------------------------
(* parse_node_packet: the head of work.  Every indexed session id belongs   *)
(* to a remote with a session (NetSim!IndexedSessionExists), so session()?  *)
(* never fails here.                                                        *)

Handling(type) == rx = None /\ work # <<>> /\ Head(work).packet.type = type

(* check_packet_time: when a Limited packet last came; it now came again.   *)
LastReceived(n, m, type) == session[n][m].last[type]
Received(n, m, type) ==
  session' = [session EXCEPT ![n][m].last[type] = ticks[n]]
TooSoon(n, m, type, interval) ==
  LET last == LastReceived(n, m, type)
  IN  IF last = None THEN FALSE ELSE ticks[n] - last < interval

(* acknowledge_ping, then the packets inside, each as if received.          *)
HandleConnectionInit(n) ==
  /\ Handling("ConnectionInit")
  /\ LET m == Head(work).from
         p == Head(work).packet
         s == session[n][m]
         Inner == [i \in DOMAIN p.packets |->
                     [from |-> m, packet |-> p.packets[i]]]
     IN  \/ /\ s.ping_sent # None /\ s.session_id = p.ping
            /\ session' = [session EXCEPT ![n][m].ping_sent = None]
            /\ InsertDirect(n, Distance(ticks[n], s.ping_sent), m)
            /\ work' = Inner \o Tail(work)
            /\ UNCHANGED rx
         \/ /\ ~(s.ping_sent # None /\ s.session_id = p.ping)
            /\ Fail
            /\ UNCHANGED <<session, direct_sorted>>
  /\ UNCHANGED <<selfVars, remotes, remote_coord, pending_session, sessions,
                 routeVars, action_list, runVars, outgoing, mintVars>>

(* The first node names itself at the centre once it has met one other.     *)
IsGenesis(n) ==
  /\ node_id[n] = 0
  /\ Cardinality(direct_sorted[n]) = 1
  /\ route_coord[n] = None

HandleExchangeInfo(n) ==
  /\ Handling("ExchangeInfo")
  /\ LET m == Head(work).from
         p == Head(work).packet
         coord == IF IsGenesis(n) THEN deus_ex_data[n] ELSE route_coord[n]
     IN  IF IsGenesis(n) /\ coord = None
           THEN Fail /\ UNCHANGED <<route_coord, action_list, outgoing>>
           ELSE /\ route_coord' = [route_coord EXCEPT ![n] = coord]
                /\ PushAction(n, UpdateRemote(m, p.coord, p.count))
                /\ \E r \in SendPacket([Self(n) EXCEPT !.coord = coord], m,
                                 ExchangeInfoResponse(coord,
                                   Cardinality(direct_sorted[n]))) :
                     Emit(r) /\ End(r # None)
  /\ UNCHANGED <<selfVars, remoteVars, tableVars, public_route, peer_list,
                 runVars, mintVars>>

HandleExchangeInfoResponse(n) ==
  /\ Handling("ExchangeInfoResponse")
  /\ LET p == Head(work).packet
     IN  PushAction(n, UpdateRemote(Head(work).from, p.coord, p.count))
  /\ Done
  /\ UNCHANGED <<selfVars, remoteVars, tableVars, routeVars, runVars,
                 outgoing, mintVars>>

OnlyByCoord(n, coords, coord) ==                                     \* mutant
  {<<SqDist(coords[e[2]], coord), e>> :
     e \in {f \in direct_sorted[n] : coord # None /\ coords[f[2]] # None}}
(* The tested nodes asked to ping a requester: the closest to its           *)
(* coordinate among those whose coordinate is known, or, if it has none,    *)
(* the fastest.                                                             *)
PingCandidates(n, coords, coord) ==
  IF coord = None
    THEN {<<e[1], e>> : e \in direct_sorted[n]}
    ELSE {<<SqDist(coords[e[2]], coord), e>> :
            e \in {f \in direct_sorted[n] : coords[f[2]] # None}}

HandleRequestPings(n) ==
  /\ Handling("RequestPings")
  /\ LET m == Head(work).from
         p == Head(work).packet
         s == session[n][m]
         coords == [remote_coord[n] EXCEPT ![m] = p.coord]
         number == IF p.number <= MAX_REQUEST_PINGS
                     THEN p.number ELSE MAX_REQUEST_PINGS
     IN  /\ Received(n, m, "RequestPings")
         /\ \/ /\ TooSoon(n, m, "RequestPings", RequestPingsInterval)
               /\ Done
               /\ UNCHANGED <<remote_coord, outgoing>>
            \/ /\ ~TooSoon(n, m, "RequestPings", RequestPingsInterval)
               /\ remote_coord' = [remote_coord EXCEPT ![n] = coords]
               /\ IF ~IsDirect(s)
                    THEN Fail /\ UNCHANGED outgoing
                    ELSE \E T \in Least(PingCandidates(n, coords, p.coord),
                                        number) :
                         \E entries \in
                           Ascending({Letter(t[1], t[2],
                                        WantPing(m, s.session_type.net_addr))
                                      : t \in {u \in T : u[2][2] # m}}) :
                         \E sent \in SendAll(Self(n), entries) :
                           /\ outgoing' = outgoing \o sent.packets
                           /\ End(sent.ok)
  /\ UNCHANGED <<selfVars, remotes, pending_session, tableVars, routeVars,
                 action_list, runVars, mintVars>>

(* The Connect is only listed: the check for a session or a pending one is  *)
(* not repeated when it runs.                                               *)
HandleWantPing(n) ==
  /\ Handling("WantPing")
  /\ LET p == Head(work).packet
     IN  \/ /\ node_id[n] = p.id \/ route_coord[n] = None
            /\ UNCHANGED <<remotes, action_list>>
         \/ /\ node_id[n] # p.id /\ route_coord[n] # None
            /\ AddRemote(n, p.id)
            /\ IF session[n][p.id] = None /\ pending_session[n][p.id] = None
                 THEN PushAction(n, [type |-> "Connect", id |-> p.id,
                                     addr |-> p.addr])
                 ELSE UNCHANGED action_list
  /\ Done
  /\ UNCHANGED <<selfVars, remote_coord, pending_session, session, tableVars,
                 routeVars, runVars, outgoing, mintVars>>

HandleAcceptWantPing(n) ==
  /\ Handling("AcceptWantPing")
  /\ LET m == Head(work).from
     IN  /\ Received(n, m, "AcceptWantPing")
         /\ \/ /\ TooSoon(n, m, "AcceptWantPing", AcceptWantPingInterval)
               /\ Done
               /\ UNCHANGED outgoing
            \/ /\ ~TooSoon(n, m, "AcceptWantPing", AcceptWantPingInterval)
               /\ \E r \in SendPacket(Self(n), m,
                               ExchangeInfo(route_coord[n],
                                 Cardinality(direct_sorted[n]))) :
                    Emit(r) /\ End(r # None)
  /\ UNCHANGED <<selfVars, remotes, remote_coord, pending_session, tableVars,
                 routeVars, action_list, runVars, mintVars>>

(* record_peer_notify and set_peer                                          *)
SetMutual(s, flag, toggle) ==                                        \* mutant
  [s EXCEPT !.session_type.peer_status =
     IF toggle THEN {"Outgoing", "Incoming"} ELSE @ \ {flag}]
SetPeer(s, flag, toggle) ==
  [s EXCEPT !.session_type.peer_status =
     IF toggle THEN @ \cup {flag} ELSE @ \ {flag}]

HandlePeerNotify(n) ==
  /\ Handling("PeerNotify")
  /\ LET m == Head(work).from
         p == Head(work).packet
     IN  IF IsDirect(session[n][m])
           THEN /\ session' = [session EXCEPT ![n][m] =
                                 SetPeer(@, "Incoming", p.peered)]
                /\ PushAction(n, UpdateRemote(m, p.coord, p.count))
                /\ Done
           ELSE Fail /\ UNCHANGED <<session, action_list>>
  /\ UNCHANGED <<selfVars, remotes, remote_coord, pending_session, tableVars,
                 routeVars, runVars, outgoing, mintVars>>

(* Even a packet for this node is dropped if it has no peer.                *)
HandleTraverse(n) ==
  /\ Handling("Traverse")
  /\ LET m == Head(work).from
         p == Head(work).packet
         closest == ClosestPeers(peer_list[n], p.destination)
     IN  \/ closest = {} /\ Fail /\ UNCHANGED outgoing
         \/ /\ closest # {} /\ IsForNode(n, p.encryption)
            /\ rx' = [request |-> None, encryption |-> p.encryption,
                      via |-> TraversedType(p.origin)]
            /\ work' = Tail(work)
            /\ UNCHANGED outgoing
         \/ /\ ~IsForNode(n, p.encryption)
            /\ \E q \in closest :
                 IF q = m
                   THEN Done /\ UNCHANGED outgoing
                   ELSE \E r \in SendPacket(Self(n), q, p) :
                          Emit(r) /\ End(r # None)
  /\ UNCHANGED <<selfVars, remoteVars, tableVars, routeVars, action_list,
                 runVars, mintVars>>

HandleData(n) ==
  /\ Handling("Data")
  /\ Done
  /\ UNCHANGED <<selfVars, remoteVars, tableVars, routeVars, action_list,
                 runVars, outgoing, mintVars>>

Handle(n) ==
  HandleConnectionInit(n) \/ HandleExchangeInfo(n)
    \/ HandleExchangeInfoResponse(n) \/ HandleRequestPings(n)
    \/ HandleWantPing(n) \/ HandleAcceptWantPing(n) \/ HandlePeerNotify(n)
    \/ HandleTraverse(n) \/ HandleData(n)

-----------------------------------------------------------------------------
(* parse_action: the head of queue.                                         *)

Awaited(action) == action.type \in Awaitable /\ action.waits
Running(type) ==
  /\ queue # <<>> /\ Head(queue).type = type /\ ~Awaited(Head(queue))
  /\ queue' = Tail(queue)
Push(actions) == new_actions' = new_actions \o actions

BootstrapOnce(n) ==                                                  \* mutant
  /\ Running("Bootstrap")
  /\ LET a == Head(queue)
     IN  IF pending_session[n][a.id] = None
           THEN Connect(n, a.id, DirectType(a.addr),
                        <<ExchangeInfo(route_coord[n], 0)>>)
           ELSE UNCHANGED <<remotes, pending_session, outgoing, minted>>
  /\ UNCHANGED <<selfVars, remote_coord, session, tableVars, routeVars,
                 action_list, rx, work, new_actions, panicked>>
RunBootstrap(n) ==
  /\ Running("Bootstrap")
  /\ LET a == Head(queue)
     IN  Connect(n, a.id, DirectType(a.addr),
                 <<ExchangeInfo(route_coord[n], 0)>>)
  /\ UNCHANGED <<selfVars, remote_coord, session, tableVars, routeVars,
                 action_list, rx, work, new_actions, panicked>>

RunConnect(n) ==
  /\ Running("Connect")
  /\ LET a == Head(queue)
     IN  Connect(n, a.id, DirectType(a.addr), <<AcceptWantPing>>)
  /\ UNCHANGED <<selfVars, remote_coord, session, tableVars, routeVars,
                 action_list, rx, work, new_actions, panicked>>

(* What an UpdateRemote makes the node work out anew.                       *)
AlwaysAnew(n, a) ==                                                  \* mutant
  IF route_coord[n] = None THEN <<Simple("CalcRouteCoord")>>
                           ELSE <<Simple("CalculatePeers")>>
OnlyIfChanged(n, a) ==                                               \* mutant
  IF remote_coord[n][a.id] # a.coord THEN <<Simple("CalculatePeers")>>
                                     ELSE <<>>
Anew(n, a) ==
  IF route_coord[n] = None THEN <<Simple("CalcRouteCoord")>>
  ELSE IF remote_coord[n][a.id] # a.coord THEN <<Simple("CalculatePeers")>>
  ELSE <<>>

RunUpdateRemote(n) ==
  /\ Running("UpdateRemote")
  /\ LET a == Head(queue)
         wants_peers == /\ Cardinality(direct_sorted[n]) < TARGET_PEER_COUNT
                        /\ a.count >= 2
     IN  \/ /\ a.id \notin remotes[n]
            /\ UNCHANGED <<remote_coord, new_actions, outgoing>>
         \/ /\ a.id \in remotes[n]
            /\ remote_coord' = [remote_coord EXCEPT ![n][a.id] = a.coord]
            /\ Push(Anew(n, a))
            /\ IF wants_peers
                 THEN \E p \in SendPacket(Self(n), a.id,
                          RequestPings(TARGET_PEER_COUNT, route_coord[n])) :
                        Emit(p)
                 ELSE UNCHANGED outgoing
  /\ UNCHANGED <<selfVars, remotes, pending_session, session, tableVars,
                 routeVars, action_list, rx, work, mintVars>>

RunCalcRouteCoord(n) ==
  /\ Running("CalcRouteCoord")
  /\ IF deus_ex_data[n] = None
       THEN UNCHANGED <<route_coord, new_actions>>
       ELSE /\ route_coord' = [route_coord EXCEPT ![n] = deus_ex_data[n]]
            /\ Push(<<Simple("CalculatePeers")>>)
  /\ UNCHANGED <<selfVars, remoteVars, tableVars, public_route, peer_list,
                 action_list, rx, work, outgoing, mintVars>>

(* is_viable_peer; the first TARGET_PEER_COUNT viable tested nodes become   *)
(* the peer list, where the last of those at one coordinate stays.          *)
Viable(n) ==
  {e \in direct_sorted[n] :
     remote_coord[n][e[2]] # None /\ IsDirect(session[n][e[2]])}
Chosen(n) ==
  {e \in Viable(n) :
     Cardinality({f \in Viable(n) : f[1] < e[1]}) < TARGET_PEER_COUNT}
PeerList(n) ==
  LET coord == remote_coord[n]
      Kept(e) == \A f \in Chosen(n) :
                   coord[f[2]] = coord[e[2]] => f[1] <= e[1]
  IN  [m \in NodeID |->
         IF \E e \in Chosen(n) : e[2] = m /\ Kept(e) THEN coord[m] ELSE None]

(* The loop over the tested nodes sends a PeerNotify to one that was a peer *)
(* and stays one, or was none and is none, and stops at the first session   *)
(* that is not direct.  A node tested twice has its flag set when the loop  *)
(* comes to it again.                                                       *)
Visited(n) ==
  {e \in direct_sorted[n] :
     \A f \in direct_sorted[n] : f[1] < e[1] => IsDirect(session[n][f[2]])}
WasPeer(n, peers, e) ==
  IF \E f \in Visited(n) : f[1] < e[1] /\ f[2] = e[2]
    THEN peers[e[2]] # None
    ELSE IsPeer(session[n][e[2]])
PeerNotifications(n, peers) ==
  LET count == Cardinality({m \in NodeID : peers[m] # None})
  IN  {Letter(e[1], e, PeerNotify(peers[e[2]] # None, route_coord[n], count))
       : e \in {v \in Visited(n) :
                  WasPeer(n, peers, v) = (peers[v[2]] # None)}}

RunCalculatePeers(n) ==
  /\ Running("CalculatePeers")
  /\ LET peers  == PeerList(n)
         count  == Cardinality({m \in NodeID : peers[m] # None})
         tested == {e[2] : e \in Visited(n)}
         whole  == \A e \in direct_sorted[n] : IsDirect(session[n][e[2]])
         write  == GenRequest(n, [type |-> "RouteCoordDHTWrite",
                                  id |-> node_id[n], coord |-> route_coord[n]])
     IN  \/ /\ route_coord[n] = None
            /\ UNCHANGED <<peer_list, session, public_route, outgoing>>
         \/ /\ route_coord[n] # None
            /\ peer_list' = [peer_list EXCEPT ![n] = peers]
            /\ session' = [session EXCEPT ![n] =
                 [m \in NodeID |->
                    IF m \in tested /\ IsDirect(@[m])
                      THEN SetPeer(@[m], "Outgoing", peers[m] # None)
                      ELSE @[m]]]
            /\ \E entries \in Ascending(PeerNotifications(n, peers)) :
               \E sent \in SendAll([Self(n) EXCEPT !.peers = peers], entries) :
                 IF /\ whole
                    /\ count >= TARGET_PEER_COUNT
                    /\ public_route[n] # route_coord[n]
                   THEN /\ public_route' =
                             [public_route EXCEPT ![n] = route_coord[n]]
                        /\ outgoing' = outgoing \o sent.packets \o <<write>>
                   ELSE /\ UNCHANGED public_route
                        /\ outgoing' = outgoing \o sent.packets
  /\ UNCHANGED <<selfVars, remotes, remote_coord, pending_session, tableVars,
                 route_coord, action_list, rx, work, new_actions, mintVars>>

(* The three actions that look the remote's coordinate up on the DHT first. *)
LookUp(action, m) == <<RequestRouteCoord(m), Await(action, m)>>

RunNotify(n) ==
  /\ Running("Notify")
  /\ LET m == Head(queue).id
         s == session[n][m]
     IN  IF m \notin remotes[n]
           THEN UNCHANGED <<new_actions, outgoing>>
           ELSE \/ /\ remote_coord[n][m] = None
                   /\ Push(LookUp("Notify", m))
                   /\ UNCHANGED outgoing
                \/ /\ remote_coord[n][m] # None
                   /\ IF s = None
                        THEN UNCHANGED outgoing
                        ELSE \E p \in GenPacket(Self(n), s,
                                           Notify(m, node_id[n])) : Emit(p)
                   /\ UNCHANGED new_actions
  /\ UNCHANGED <<selfVars, remoteVars, tableVars, routeVars, action_list,
                 rx, work, mintVars>>

RunRequestRouteCoord(n) ==
  /\ Running("RequestRouteCoord")
  /\ Emit(GenRequest(n, [type |-> "RouteCoordDHTRead",
                         id |-> Head(queue).id]))
  /\ UNCHANGED <<selfVars, remoteVars, tableVars, routeVars, action_list,
                 rx, work, new_actions, mintVars>>

RunConnectTraversed(n) ==
  /\ Running("ConnectTraversed")
  /\ LET m == Head(queue).id
     IN  \/ /\ remote_coord[n][m] # None
            /\ Connect(n, m, TraversedType(remote_coord[n][m]), <<>>)
            /\ UNCHANGED <<new_actions, panicked>>
         \/ /\ remote_coord[n][m] = None
            /\ AddRemote(n, m)
            /\ Push(LookUp("ConnectTraversed", m))
            /\ UNCHANGED <<pending_session, outgoing, mintVars>>
  /\ UNCHANGED <<selfVars, remote_coord, session, tableVars, routeVars,
                 action_list, rx, work>>

(* Once the coordinate is known, the route is only printed.                 *)
RunConnectRouted(n) ==
  /\ Running("ConnectRouted")
  /\ LET m == Head(queue).id
     IN  IF route_coord[n] = None
           THEN UNCHANGED <<remotes, new_actions>>
           ELSE /\ AddRemote(n, m)
                /\ IF remote_coord[n][m] = None
                     THEN Push(LookUp("ConnectRouted", m))
                     ELSE UNCHANGED new_actions
  /\ UNCHANGED <<selfVars, remote_coord, pending_session, session, tableVars,
                 routeVars, action_list, rx, work, outgoing, mintVars>>

RunSendData(n) ==
  /\ Running("SendData")
  /\ \E p \in SendPacket(Self(n), Head(queue).id, Data) : Emit(p)
  /\ UNCHANGED <<selfVars, remoteVars, tableVars, routeVars, action_list,
                 rx, work, new_actions, mintVars>>

(* NodeActionCondition::check: the action is listed again for the next      *)
(* tick, without its condition once that holds.                             *)
RunCondition(n) ==
  /\ queue # <<>> /\ Awaited(Head(queue))
  /\ queue' = Tail(queue)
  /\ LET a == Head(queue)
     IN  IF a.id \in remotes[n]
           THEN PushAction(n, [a EXCEPT !.waits = remote_coord[n][a.id] = None])
           ELSE UNCHANGED action_list
  /\ UNCHANGED <<selfVars, remoteVars, tableVars, routeVars, rx, work,
                 new_actions, outgoing, mintVars>>

Run(n) ==
  RunBootstrap(n) \/ RunConnect(n) \/ RunUpdateRemote(n)
    \/ RunCalcRouteCoord(n) \/ RunCalculatePeers(n) \/ RunNotify(n)
    \/ RunRequestRouteCoord(n) \/ RunConnectTraversed(n)
    \/ RunConnectRouted(n) \/ RunSendData(n) \/ RunCondition(n)
=============================================================================
