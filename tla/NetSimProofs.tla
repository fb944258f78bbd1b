---------------------------- MODULE NetSimProofs ----------------------------
(***************************************************************************)
(* Theorems about NetSim, for any nodes, positions, commands and bounds:    *)
(* its types, that every remote a node's tables name has a session, and     *)
(* that it implements the abstract internet (Properties!InternetPromise).   *)
(***************************************************************************)
EXTENDS Properties, NodeProofs

(* Only a node that parses packets holds some, and it is the one whose turn *)
(* it is.                                                                   *)
StackInv ==
  /\ phase # "packets" => rx = None /\ work = <<>>
  /\ \A n \in NetAddr :
       (turn <= Len(order) /\ n = order[turn]) => SendersHaveSession(n)

IInv ==
  /\ TypeOK
  /\ FiniteTests /\ NamedHaveSession /\ TimesInPast /\ StackInv

USE DEF netVars, loopVars, nodeVars, selfVars, remoteVars, tableVars,
        routeVars, runVars, mintVars

-----------------------------------------------------------------------------
(* The nodes and their turns                                                *)

(* There are finitely many nodes.                                           *)
LEMMA NodesFinite ==
  /\ IsFiniteSet(Nodes) /\ Nodes \subseteq NetAddr
  /\ Cardinality(Nodes) \in Nat
BY NodeIDAssumption, FS_Subset, FS_CardinalityType DEF Nodes

(* The iteration order lists every node and nothing else.                   *)
LEMMA OrderTypes ==
  ASSUME order \in IterationOrders(Nodes)
  PROVE  /\ Len(order) = Cardinality(Nodes) /\ DOMAIN order = 1 .. Len(order)
         /\ \A i \in 1 .. Len(order) : order[i] \in Nodes
BY NodesFinite DEF IterationOrders

(* The node whose turn it is has a NodeID.                                  *)
LEMMA TurnIsNode ==
  ASSUME NEW n \in NetAddr, TypeOK, Turn(n)
  PROVE  node_id[n] \in NodeID
<1>1. order[turn] \in Nodes
  BY OrderTypes, NodesFinite DEF TypeOK, Turn
<1>2. QED
  BY <1>1 DEF Turn, Nodes, TypeOK, NodeTypeOK

(* What only moves packets and turns keeps what a node's tables say.        *)
LEMMA UnchangedTables ==
  ASSUME FiniteTests, NamedHaveSession, TimesInPast,
         UNCHANGED <<ticks, pending_session, session, sessions, direct_sorted,
                     peer_list>>
  PROVE  FiniteTests' /\ NamedHaveSession' /\ TimesInPast'
BY DEF FiniteTests, NamedHaveSession, Named, TimesInPast

-----------------------------------------------------------------------------
(* Initial states                                                           *)

(* A network nobody has bootstrapped satisfies the invariant.               *)
LEMMA InitEstablishesIInv == Init => IInv
<1> SUFFICES ASSUME Init
             PROVE  IInv
  OBVIOUS
<1>1. NodeTypeOK
  <2>1. node_id \in [NetAddr -> NodeID \cup {None}]
    BY NetSimConstants DEF Init
  <2>2. <<>> \in Seq(Action)
    OBVIOUS
  <2>3. None \in MaybeCoord
    BY DEF MaybeCoord
  <2>4. /\ action_list \in [NetAddr -> Seq(Action)]
        /\ direct_sorted \in [NetAddr -> SUBSET (Nat \X NodeID)]
        /\ remotes \in [NetAddr -> SUBSET NodeID]
        /\ ticks \in [NetAddr -> Nat]
    BY <2>2 DEF Init
  <2>5. /\ route_coord \in [NetAddr -> MaybeCoord]
        /\ deus_ex_data \in [NetAddr -> MaybeCoord]
        /\ public_route \in [NetAddr -> MaybeCoord]
        /\ remote_coord \in [NetAddr -> [NodeID -> MaybeCoord]]
        /\ peer_list \in [NetAddr -> [NodeID -> MaybeCoord]]
    BY <2>3 DEF Init, NoRemote
  <2>6. /\ pending_session \in
             [NetAddr -> [NodeID -> PendingSession \cup {None}]]
        /\ session \in [NetAddr -> [NodeID -> Session \cup {None}]]
        /\ sessions \in [NetAddr -> [NodeID -> SessionID \cup {None}]]
    BY DEF Init, NoRemote
  <2>7. QED
    BY <2>1, <2>4, <2>5, <2>6 DEF NodeTypeOK
<1>2. StackTypeOK
  <2>1. /\ <<>> \in Seq([from : NodeID, packet : NodePacket])
        /\ <<>> \in Seq(Action) /\ <<>> \in Seq(Outgoing)
        /\ <<>> \in Seq(NodeID \X NodeID)
    OBVIOUS
  <2>2. QED
    BY <2>1 DEF Init, StackTypeOK
<1>3. TypeOK
  BY <1>1, <1>2, NetSimConstants DEF Init, TypeOK, NoRemote, MaybeCoord
<1>4. FiniteTests
  BY FS_EmptySet DEF Init, FiniteTests
<1>5. NamedHaveSession /\ TimesInPast
  BY DEF Init, NamedHaveSession, Named, TimesInPast, NoRemote
<1>6. StackInv
  BY DEF Init, StackInv, SendersHaveSession
<1>7. QED
  BY <1>3, <1>4, <1>5, <1>6 DEF IInv

-----------------------------------------------------------------------------
(* A tick                                                                   *)

(* What a node does with a packet or an action keeps the invariant; its     *)
(* NodeID, and so the order of turns, is untouched.                         *)
LEMMA NodeStepKeepsIInv ==
  ASSUME NEW n \in NetAddr, IInv,
         ParsePacket(n) \/ ParseNodePacket(n) \/ ParseAction(n)
  PROVE  IInv'
<1>1. Turn(n) /\ UNCHANGED <<netVars, loopVars>>
  BY DEF ParsePacket, ParseNodePacket, ParseAction, NodeStep
<1>2. node_id[n] \in NodeID
  BY <1>1, TurnIsNode DEF IInv
<1>3. TypeInv(n)
  BY <1>1 DEF IInv, StackInv, Turn, TypeInv, TypeOK
<1>4. TypeInv(n)'
  BY <1>2, <1>3, ParseKeepsTypes, HandleKeepsTypes, RunKeepsTypes
     DEF ParsePacket, ParseNodePacket, ParseAction
<1>5. UNCHANGED node_id
  <2>1. CASE Parse(n)
    BY <2>1 DEF Parse, ParseResponse, ParseHandshake, ParseAcknowledge,
                ParseSession, ParseNotify
  <2>2. CASE Handle(n)
    BY <2>2 DEF Handle, HandleConnectionInit, HandleExchangeInfo,
                HandleExchangeInfoResponse, HandleRequestPings,
                HandleWantPing, HandleAcceptWantPing, HandlePeerNotify,
                HandleTraverse, HandleData
  <2>3. CASE Run(n)
    BY <2>3 DEF Run, RunBootstrap, RunConnect, RunUpdateRemote,
                RunCalcRouteCoord, RunCalculatePeers, RunNotify,
                RunRequestRouteCoord, RunConnectTraversed, RunConnectRouted,
                RunSendData, RunCondition
  <2>4. QED
    BY <2>1, <2>2, <2>3 DEF ParsePacket, ParseNodePacket, ParseAction
<1>6. TypeOK'
  <2>1. Nodes' = Nodes
    BY <1>5 DEF Nodes
  <2>2. IterationOrders(Nodes') = IterationOrders(Nodes)
    BY <2>1
  <2>3. (order \in IterationOrders(Nodes))'
    BY <1>1, <2>1 DEF IInv, TypeOK, IterationOrders
  <2>4. QED
    BY <1>1, <1>4, <2>3 DEF IInv, TypeOK, TypeInv
<1>7. StackInv'
  <2>1. phase' = "actions" => UNCHANGED <<rx, work>>
    BY DEF ParsePacket, ParseNodePacket, ParseAction, NodeStep, Run,
           RunBootstrap, RunConnect, RunUpdateRemote, RunCalcRouteCoord,
           RunCalculatePeers, RunNotify, RunRequestRouteCoord,
           RunConnectTraversed, RunConnectRouted, RunSendData, RunCondition
  <2>2. phase \in {"packets", "actions"}
    BY DEF ParsePacket, ParseNodePacket, ParseAction, NodeStep
  <2>3. QED
    BY <1>1, <1>4, <2>1, <2>2 DEF IInv, StackInv, TypeInv, Turn
<1>8. QED
  BY <1>4, <1>6, <1>7 DEF IInv, TypeInv

(* Steps that touch neither the node types nor the tables.                  *)
LEMMA BeginTickKeepsIInv ==
  ASSUME NEW n \in NetAddr, IInv, BeginTick(n)
  PROVE  IInv'
<1> DEFINE Q == [i \in DOMAIN packet_map[n] |-> CountDown(packet_map[n][i])]
<1>1. Q \in Seq([packet : Incoming, latency : Int])
  <2> DEFINE P == [packet : Incoming, latency : Int]
             q == packet_map[n]
  <2>1. q \in Seq(P)
    BY DEF IInv, TypeOK
  <2>2. DOMAIN q = 1 .. Len(q) /\ Len(q) \in Nat /\ q \in [1 .. Len(q) -> P]
    BY <2>1, LenProperties
  <2>3. \A i \in 1 .. Len(q) : Q[i] \in P
    BY <2>2 DEF CountDown
  <2>4. Q \in [1 .. Len(q) -> P]
    BY <2>2, <2>3
  <2> HIDE DEF Q, q, P
  <2>5. Q \in Seq(P)
    BY <2>2, <2>4
  <2>6. QED
    BY <2>5 DEF P
<1>2. packet_map' = [packet_map EXCEPT ![n] = Q]
  BY DEF BeginTick
<1> HIDE DEF Q
<1>3. packet_map' \in [NetAddr -> Seq([packet : Incoming, latency : Int])]
  BY <1>1, <1>2 DEF IInv, TypeOK
<1>4. NodeTypeOK' /\ StackTypeOK'
  BY DEF BeginTick, IInv, TypeOK, NodeTypeOK, StackTypeOK
<1>5. TypeOK'
  BY <1>3, <1>4 DEF BeginTick, IInv, TypeOK, Nodes, IterationOrders
<1>6. FiniteTests' /\ NamedHaveSession' /\ TimesInPast'
  BY UnchangedTables DEF BeginTick, IInv
<1>7. StackInv'
  BY DEF BeginTick, IInv, StackInv, SendersHaveSession
<1>8. QED
  BY <1>5, <1>6, <1>7 DEF IInv

(* A packet taken from the router is well typed, and nothing was being      *)
(* parsed.                                                                  *)
LEMMA DeliverKeepsIInv ==
  ASSUME NEW n \in NetAddr, IInv, Deliver(n)
  PROVE  IInv'
<1> DEFINE P == [packet : Incoming, latency : Int]
           q == packet_map[n]
<1>1. q \in Seq(P) /\ Len(q) \in Nat /\ DOMAIN q = 1 .. Len(q)
      /\ q \in [1 .. Len(q) -> P]
  BY LenProperties DEF IInv, TypeOK
<1>2. PICK i \in Due(n) :
        /\ rx' = [request |-> q[i].packet.request,
                  encryption |-> q[i].packet.encryption,
                  via |-> DirectType(q[i].packet.src_addr)]
        /\ packet_map' = [packet_map EXCEPT ![n] =
             SubSeq(@, 1, i - 1) \o SubSeq(@, i + 1, Len(@))]
  BY DEF Deliver
<1>3. i \in 1 .. Len(q)
  BY <1>1 DEF Due
<1>4. rx' \in Arrived
  <2>1. q[i].packet \in Incoming
    BY <1>1, <1>3
  <2>2. q[i].packet.src_addr \in NetAddr
    BY <2>1 DEF Incoming
  <2>3. DirectType(q[i].packet.src_addr) \in SessionType
    BY <2>2, DirectTypeIsType
  <2>4. QED
    BY <1>2, <2>1, <2>3 DEF Incoming, Arrived
<1>5. packet_map' \in [NetAddr -> Seq(P)]
  <2> DEFINE rest == SubSeq(q, 1, i - 1) \o SubSeq(q, i + 1, Len(q))
  <2>1. SubSeq(q, 1, i - 1) \in Seq(P) /\ SubSeq(q, i + 1, Len(q)) \in Seq(P)
    <3> HIDE DEF P
    <3>1. \A j \in 1 .. Len(q) : q[j] \in P
      BY <1>1
    <3> HIDE DEF q
    <3>2. \A j \in 1 .. i - 1 : q[j] \in P
      BY <1>1, <1>3, <3>1
    <3>3. \A j \in i + 1 .. Len(q) : q[j] \in P
      BY <1>1, <1>3, <3>1
    <3>4. QED
      BY <1>1, <1>3, <3>2, <3>3, SubSeqProperties
  <2>2. rest \in Seq(P)
    BY <2>1, ConcatProperties
  <2>3. packet_map' = [packet_map EXCEPT ![n] = rest]
    BY <1>2
  <2> HIDE DEF rest, P
  <2>4. packet_map \in [NetAddr -> Seq(P)]
    BY DEF IInv, TypeOK, P
  <2>5. QED
    BY <2>2, <2>3, <2>4
<1>6. NodeTypeOK' /\ StackTypeOK'
  BY <1>4 DEF Deliver, IInv, TypeOK, NodeTypeOK, StackTypeOK
<1>0. UNCHANGED <<node_id, route_coord_dht, jitters, position, order, round,
                  turn, phase, issued, agenda>>
  BY DEF Deliver
<1> HIDE DEF q
<1>7. TypeOK'
  BY <1>0, <1>5, <1>6 DEF IInv, TypeOK, Nodes, IterationOrders
<1>8. FiniteTests' /\ NamedHaveSession' /\ TimesInPast'
  BY UnchangedTables DEF Deliver, IInv
<1>9. StackInv'
  BY DEF Deliver, IInv, StackInv, SendersHaveSession
<1>10. QED
  BY <1>7, <1>8, <1>9 DEF IInv

(* The action list moves to the queue whole.                                *)
LEMMA BeginActionsKeepsIInv ==
  ASSUME NEW n \in NetAddr, IInv, BeginActions(n)
  PROVE  IInv'
<1>1. /\ queue' \in Seq(Action)
      /\ action_list' \in [NetAddr -> Seq(Action)]
  BY DEF BeginActions, IInv, TypeOK, NodeTypeOK
<1>2. NodeTypeOK' /\ StackTypeOK'
  BY <1>1 DEF BeginActions, IInv, TypeOK, NodeTypeOK, StackTypeOK
<1>3. TypeOK'
  BY <1>2 DEF BeginActions, IInv, TypeOK, Nodes, IterationOrders
<1>4. FiniteTests' /\ NamedHaveSession' /\ TimesInPast'
  BY UnchangedTables DEF BeginActions, IInv
<1>5. StackInv'
  BY DEF BeginActions, Stackless, IInv, StackInv, SendersHaveSession
<1>6. QED
  BY <1>3, <1>4, <1>5 DEF IInv

(* The clock advances, so what was sent in the past stays there.            *)
LEMMA EndActionsKeepsIInv ==
  ASSUME NEW n \in NetAddr, IInv, EndActions(n)
  PROVE  IInv'
<1>1. /\ action_list' \in [NetAddr -> Seq(Action)]
      /\ new_actions' \in Seq(Action)
  <2>1. action_list[n] \o new_actions \in Seq(Action)
    BY ConcatProperties DEF IInv, TypeOK, NodeTypeOK, StackTypeOK
  <2>2. QED
    BY <2>1 DEF EndActions, IInv, TypeOK, NodeTypeOK
<1>2. /\ ticks' \in [NetAddr -> Nat]
      /\ \A a \in NetAddr : ticks[a] <= ticks'[a]
  BY DEF EndActions, IInv, TypeOK, NodeTypeOK
<1>3. NodeTypeOK' /\ StackTypeOK'
  BY <1>1, <1>2 DEF EndActions, IInv, TypeOK, NodeTypeOK, StackTypeOK
<1>4. TypeOK'
  BY <1>3 DEF EndActions, IInv, TypeOK, Nodes, IterationOrders
<1>5. FiniteTests' /\ NamedHaveSession'
  BY DEF EndActions, IInv, FiniteTests, NamedHaveSession, Named
<1>6. TimesInPast'
  <2>1. ASSUME NEW a \in NetAddr, NEW t \in Nat, t <= ticks[a]
        PROVE  t <= ticks'[a]
    BY <1>2, <2>1 DEF IInv, TypeOK, NodeTypeOK
  <2>2. ASSUME NEW a \in NetAddr, NEW m \in NodeID
        PROVE  /\ pending_session[a][m] # None => pending_session[a][m].sent \in Nat
               /\ session[a][m] # None =>
                    session[a][m].ping_sent \in Nat \cup {None}
    BY SessionTypeFields DEF IInv, TypeOK, NodeTypeOK, PendingSession
  <2>3. QED
    BY <2>1, <2>2 DEF EndActions, IInv, TimesInPast
<1>7. StackInv'
  BY DEF EndActions, IInv, StackInv, SendersHaveSession
<1>8. QED
  BY <1>4, <1>5, <1>6, <1>7 DEF IInv

(* A packet is added with an integer latency.                               *)
LEMMA AddPacketTypes ==
  ASSUME TypeOK, NEW packet \in Incoming, NEW src \in NetAddr,
         NEW dest \in NetAddr, AddPacket(packet, src, dest)
  PROVE  /\ packet_map' \in [NetAddr -> Seq([packet : Incoming, latency : Int])]
         /\ jitters' \in Nat /\ position' = position
<1> DEFINE P == [packet : Incoming, latency : Int]
<1>1. SqDist(position[src], position[dest]) \in Int
  BY DEF TypeOK, Coord, SqDist
<1>2. PICK d \in Truncated(position[src], position[dest]) :
       \E l \in Latencies(d) :
        /\ jitters' = IF l = AtLeastOne(d) THEN jitters ELSE jitters + 1
        /\ packet_map' = [packet_map EXCEPT ![dest] =
                            Append(@, [packet |-> packet, latency |-> l])]
  BY DEF AddPacket
<1>3. d \in Int
  BY <1>1 DEF Truncated
<1>4. PICK l \in Latencies(d) :
        /\ jitters' = IF l = AtLeastOne(d) THEN jitters ELSE jitters + 1
        /\ packet_map' = [packet_map EXCEPT ![dest] =
                            Append(@, [packet |-> packet, latency |-> l])]
  BY <1>2
<1>5. l \in Int
  BY <1>3 DEF Latencies, AtLeastOne, VARIANCE
<1>6. packet_map \in [NetAddr -> Seq(P)]
  BY DEF TypeOK
<1>7. Append(packet_map[dest], [packet |-> packet, latency |-> l]) \in Seq(P)
  BY <1>5, <1>6, AppendProperties
<1> HIDE DEF P
<1>8. packet_map' \in [NetAddr -> Seq(P)]
  BY <1>4, <1>6, <1>7
<1>9. jitters' \in Nat
  BY <1>4 DEF TypeOK
<1>10. position' = position
  BY DEF AddPacket
<1>11. QED
  BY <1>8, <1>9, <1>10 DEF P

(* A packet routed keeps its encryption; a request becomes a response.      *)
LEMMA RoutePacketKeepsIInv ==
  ASSUME NEW n \in NetAddr, IInv, RoutePacket(n)
  PROVE  IInv'
<1> DEFINE p == Head(outgoing)
           stamped == Stamped(n, p.encryption)
           answer == [src_addr |-> n, request |-> Answer(p.request),
                      encryption |-> None]
<1>1. p \in Outgoing /\ outgoing' \in Seq(Outgoing)
  BY HeadTailProperties DEF RoutePacket, IInv, TypeOK, StackTypeOK
<1>2. /\ packet_map' \in [NetAddr -> Seq([packet : Incoming, latency : Int])]
      /\ jitters' \in Nat /\ position' = position
      /\ route_coord_dht' \in [NodeID -> MaybeCoord]
  <2>1. CASE p.request = None
    <3>1. p.encryption \in Encryption /\ p.dest_addr \in NetAddr
      BY <1>1, <2>1, NoneIsNoValue DEF Outgoing
    <3>2. stamped \in Incoming
      BY <3>1 DEF Stamped, Incoming
    <3>3. AddPacket(stamped, n, p.dest_addr) /\ UNCHANGED route_coord_dht
      BY <2>1 DEF RoutePacket
    <3> HIDE DEF p, stamped
    <3>4. QED
      BY <3>1, <3>2, <3>3, AddPacketTypes DEF IInv, TypeOK
  <2>2. CASE p.request # None
    <3>1. p.request \in Request
      BY <1>1, <2>2 DEF Outgoing
    <3>2. Answer(p.request) \in Response
      BY <3>1 DEF Answer, Request, Response, IInv, TypeOK
    <3>3. answer \in Incoming
      BY <3>2 DEF Incoming
    <3>4. AddPacket(answer, n, n)
      BY <2>2 DEF RoutePacket
    <3>5. route_coord_dht' \in [NodeID -> MaybeCoord]
      <4>1. CASE p.request.type = "RouteCoordDHTWrite"
        <5>1. p.request.id \in NodeID /\ p.request.coord \in MaybeCoord
          BY <3>1, <4>1 DEF Request, MaybeCoord
        <5>2. route_coord_dht' =
                [route_coord_dht EXCEPT ![p.request.id] = p.request.coord]
          BY <2>2, <4>1 DEF RoutePacket
        <5> HIDE DEF p
        <5>3. QED
          BY <5>1, <5>2 DEF IInv, TypeOK
      <4>2. CASE p.request.type # "RouteCoordDHTWrite"
        BY <2>2, <4>2 DEF RoutePacket, IInv, TypeOK
      <4>3. QED
        BY <4>1, <4>2
    <3> HIDE DEF p, answer
    <3>6. QED
      BY <3>3, <3>4, <3>5, AddPacketTypes DEF IInv
  <2>3. QED
    BY <2>1, <2>2
<1>3. NodeTypeOK' /\ StackTypeOK'
  BY <1>1 DEF RoutePacket, IInv, TypeOK, NodeTypeOK, StackTypeOK
<1>4. TypeOK'
  BY <1>2, <1>3 DEF RoutePacket, IInv, TypeOK, Nodes, IterationOrders
<1>5. FiniteTests' /\ NamedHaveSession' /\ TimesInPast'
  BY UnchangedTables DEF RoutePacket, IInv
<1>6. StackInv'
  BY DEF RoutePacket, IInv, StackInv, SendersHaveSession
<1>7. QED
  BY <1>4, <1>5, <1>6 DEF IInv

(* The turn passes to the next node, with no packet left half parsed.       *)
LEMMA EndTickKeepsIInv ==
  ASSUME NEW n \in NetAddr, IInv, EndTick(n)
  PROVE  IInv'
<1>1. deus_ex_data' \in [NetAddr -> MaybeCoord]
  BY NetSimConstants DEF EndTick, IInv, TypeOK, NodeTypeOK, MaybeCoord
<1>2. NodeTypeOK' /\ StackTypeOK'
  BY <1>1 DEF EndTick, IInv, TypeOK, NodeTypeOK, StackTypeOK
<1>3. turn' \in Nat \ {0} /\ round' \in Nat
  BY DEF EndTick, IInv, TypeOK
<1>4. TypeOK'
  BY <1>2, <1>3 DEF EndTick, IInv, TypeOK, Nodes, IterationOrders
<1>5. FiniteTests' /\ NamedHaveSession' /\ TimesInPast'
  BY UnchangedTables DEF EndTick, IInv
<1>6. StackInv'
  BY DEF EndTick, IInv, StackInv, SendersHaveSession
<1>7. QED
  BY <1>4, <1>5, <1>6 DEF IInv

-----------------------------------------------------------------------------
(* Commands, between two rounds                                             *)

(* No node holds a packet then.                                             *)
LEMMA IssuedBetween ==
  ASSUME NEW c \in Commands, IInv, Issue(c)
  PROVE  /\ rx = None /\ work = <<>>
         /\ issued' \subseteq Commands /\ c \in Command
BY NetSimConstants DEF Issue, Between, IInv, StackInv, TypeOK

(* The fields of a command.                                                 *)
LEMMA CommandFields ==
  ASSUME NEW c \in Command
  PROVE  /\ c.type \in Awaitable \cup {"Bootstrap", "SendData"} =>
              c.at \in NetAddr /\ ActionOf(c) \in Action
         /\ c.type = "add" => c.id \in NodeID
         /\ c.type = "del" => c.at \in NetAddr
         /\ c.type = "gen" =>
              /\ c.number \in Nat \ {0}
              /\ 0 .. c.number - 1 \subseteq NetAddr \cap NodeID
         /\ c.type = "test" =>
              c.at \in NetAddr /\ c.id \in NodeID \cap NetAddr
BY DEF Command, ActionOf, Action, Awaitable

(* A command lists an action, if there is a node to list it.                *)
LEMMA CommandNodeKeepsIInv ==
  ASSUME NEW c \in Commands, IInv, CommandNode(c)
  PROVE  IInv'
<1>1. /\ rx = None /\ work = <<>>
      /\ issued' \subseteq Commands /\ c \in Command
  BY IssuedBetween DEF CommandNode
<1>2. c.at \in NetAddr /\ ActionOf(c) \in Action
  BY <1>1, CommandFields DEF CommandNode
<1>3. action_list' \in [NetAddr -> Seq(Action)]
  BY <1>2, PushActionTypes DEF CommandNode, IInv, TypeOK, NodeTypeOK
<1>4. NodeTypeOK' /\ StackTypeOK'
  BY <1>3 DEF CommandNode, IInv, TypeOK, NodeTypeOK, StackTypeOK
<1>5. TypeOK'
  BY <1>1, <1>4 DEF CommandNode, IInv, TypeOK, Nodes, IterationOrders
<1>6. FiniteTests' /\ NamedHaveSession' /\ TimesInPast'
  BY UnchangedTables DEF CommandNode, IInv
<1>7. StackInv'
  BY <1>1 DEF CommandNode, StackInv, SendersHaveSession
<1>8. QED
  BY <1>5, <1>6, <1>7 DEF IInv

(* A new node starts with empty tables.                                     *)
LEMMA CommandAddKeepsIInv ==
  ASSUME NEW c \in Commands, IInv, CommandAdd(c)
  PROVE  IInv'
<1>0. PICK a \in NetAddr : a = Lease
  BY DEF CommandAdd
<1>1. /\ rx = None /\ work = <<>>
      /\ issued' \subseteq Commands /\ c.id \in NodeID
  BY IssuedBetween, CommandFields DEF CommandAdd
<1>2. UNCHANGED <<rx, work, queue, new_actions, outgoing, minted, panicked,
                  packet_map, route_coord_dht, jitters, position, round,
                  turn, phase, agenda>>
  BY DEF CommandAdd
<1>3. /\ node_id' = [node_id EXCEPT ![a] = c.id]
      /\ IF a \in Nodes THEN UNCHANGED order
         ELSE order' \in IterationOrders(Nodes \cup {a})
      /\ ticks' = [ticks EXCEPT ![a] = 0]
      /\ route_coord' = [route_coord EXCEPT ![a] = None]
      /\ deus_ex_data' = [deus_ex_data EXCEPT ![a] = None]
      /\ public_route' = [public_route EXCEPT ![a] = None]
      /\ remotes' = [remotes EXCEPT ![a] = {}]
      /\ remote_coord' = [remote_coord EXCEPT ![a] = NoRemote]
      /\ pending_session' = [pending_session EXCEPT ![a] = NoRemote]
      /\ session' = [session EXCEPT ![a] = NoRemote]
      /\ sessions' = [sessions EXCEPT ![a] = NoRemote]
      /\ direct_sorted' = [direct_sorted EXCEPT ![a] = {}]
      /\ peer_list' = [peer_list EXCEPT ![a] = NoRemote]
      /\ action_list' = [action_list EXCEPT ![a] = <<>>]
  BY <1>0 DEF CommandAdd
<1>4. /\ \A T : NoRemote \in [NodeID -> T \cup {None}]
      /\ None \in MaybeCoord /\ NoRemote \in [NodeID -> MaybeCoord]
      /\ <<>> \in Seq(Action)
  BY DEF NoRemote, MaybeCoord
<1>5. NodeTypeOK'
  <2>1. /\ node_id' \in [NetAddr -> NodeID \cup {None}]
        /\ ticks' \in [NetAddr -> Nat]
        /\ remotes' \in [NetAddr -> SUBSET NodeID]
        /\ direct_sorted' \in [NetAddr -> SUBSET (Nat \X NodeID)]
        /\ action_list' \in [NetAddr -> Seq(Action)]
    BY <1>1, <1>3, <1>4 DEF IInv, TypeOK, NodeTypeOK
  <2>2. /\ route_coord' \in [NetAddr -> MaybeCoord]
        /\ deus_ex_data' \in [NetAddr -> MaybeCoord]
        /\ public_route' \in [NetAddr -> MaybeCoord]
        /\ remote_coord' \in [NetAddr -> [NodeID -> MaybeCoord]]
        /\ peer_list' \in [NetAddr -> [NodeID -> MaybeCoord]]
    BY <1>1, <1>3, <1>4 DEF IInv, TypeOK, NodeTypeOK
  <2>3. /\ pending_session' \in
             [NetAddr -> [NodeID -> PendingSession \cup {None}]]
        /\ session' \in [NetAddr -> [NodeID -> Session \cup {None}]]
        /\ sessions' \in [NetAddr -> [NodeID -> SessionID \cup {None}]]
    BY <1>1, <1>3, <1>4 DEF IInv, TypeOK, NodeTypeOK
  <2>4. QED
    BY <2>1, <2>2, <2>3 DEF NodeTypeOK
<1>6. StackTypeOK'
  BY <1>2 DEF IInv, TypeOK, StackTypeOK
<1>7. (order \in IterationOrders(Nodes))'
  <2>1. c.id # None
    BY <1>1, NodeIDAssumption, NoneIsNoValue
  <2>2. Nodes' = Nodes \cup {a}
    BY <1>1, <1>3, <2>1 DEF Nodes, IInv, TypeOK, NodeTypeOK
  <2>3. order' \in IterationOrders(Nodes \cup {a})
    <3>1. CASE a \in Nodes
      <4>1. Nodes \cup {a} = Nodes
        BY <3>1
      <4>2. QED
        BY <1>3, <3>1, <4>1 DEF IInv, TypeOK
    <3>2. CASE a \notin Nodes
      BY <1>3, <3>2
    <3>3. QED
      BY <3>1, <3>2
  <2>4. QED
    BY <2>2, <2>3 DEF IterationOrders
<1>8. TypeOK'
  BY <1>1, <1>2, <1>5, <1>6, <1>7 DEF IInv, TypeOK
<1>9. FiniteTests'
  BY <1>1, <1>3, FS_EmptySet DEF IInv, TypeOK, NodeTypeOK, FiniteTests
<1>10. NamedHaveSession'
  <2>1. \A m \in NodeID : ~Named(a, m)'
    <3>1. /\ sessions'[a] = NoRemote /\ peer_list'[a] = NoRemote
          /\ direct_sorted'[a] = {}
      BY <1>1, <1>3 DEF IInv, TypeOK, NodeTypeOK
    <3>2. QED
      BY <3>1 DEF Named, NoRemote
  <2>2. ASSUME NEW b \in NetAddr, b # a
        PROVE  /\ session'[b] = session[b] /\ sessions'[b] = sessions[b]
               /\ peer_list'[b] = peer_list[b]
               /\ direct_sorted'[b] = direct_sorted[b]
    BY <1>1, <1>3, <2>2 DEF IInv, TypeOK, NodeTypeOK
  <2>3. ASSUME NEW b \in NetAddr, b # a, NEW m \in NodeID, Named(b, m)'
        PROVE  session'[b][m] # None
    <3>1. Named(b, m)
      BY <2>2, <2>3 DEF Named
    <3>2. QED
      BY <2>2, <2>3, <3>1 DEF IInv, NamedHaveSession
  <2>4. QED
    BY <2>1, <2>3 DEF NamedHaveSession
<1>11. TimesInPast'
  <2>1. \A m \in NodeID : pending_session'[a][m] = None /\ session'[a][m] = None
    BY <1>1, <1>3 DEF NoRemote, IInv, TypeOK, NodeTypeOK
  <2>2. ASSUME NEW b \in NetAddr, b # a
        PROVE  /\ session'[b] = session[b] /\ ticks'[b] = ticks[b]
               /\ pending_session'[b] = pending_session[b]
    BY <1>1, <1>3, <2>2 DEF IInv, TypeOK, NodeTypeOK
  <2>3. QED
    BY <2>1, <2>2 DEF IInv, TimesInPast
<1>12. StackInv'
  BY <1>1, <1>2 DEF StackInv, SendersHaveSession
<1>13. QED
  BY <1>8, <1>9, <1>10, <1>11, <1>12 DEF IInv

(* A node taken away leaves an order of the others; its tables are dead.    *)
LEMMA CommandDelKeepsIInv ==
  ASSUME NEW c \in Commands, IInv, CommandDel(c)
  PROVE  IInv'
<1>1. /\ rx = None /\ work = <<>>
      /\ issued' \subseteq Commands /\ c.at \in NetAddr
  BY IssuedBetween, CommandFields DEF CommandDel
<1>2. /\ node_id' = [node_id EXCEPT ![c.at] = None]
      /\ order' \in IterationOrders(Nodes \ {c.at})
  BY DEF CommandDel
<1>3. NodeTypeOK' /\ StackTypeOK'
  BY <1>1, <1>2 DEF CommandDel, IInv, TypeOK, NodeTypeOK, StackTypeOK
<1>4. (order \in IterationOrders(Nodes))'
  <2>1. Nodes' = Nodes \ {c.at}
    BY <1>1, <1>2 DEF Nodes, IInv, TypeOK, NodeTypeOK
  <2>2. QED
    BY <1>2, <2>1 DEF IterationOrders
<1>5. TypeOK'
  BY <1>1, <1>3, <1>4 DEF CommandDel, IInv, TypeOK
<1>6. FiniteTests' /\ NamedHaveSession' /\ TimesInPast'
  BY UnchangedTables DEF CommandDel, IInv
<1>7. StackInv'
  BY <1>1 DEF CommandDel, StackInv, SendersHaveSession
<1>8. QED
  BY <1>5, <1>6, <1>7 DEF IInv

(* Loading forgets pings and pending sessions, and no session.              *)
LEMMA CommandReloadKeepsIInv ==
  ASSUME NEW c \in Commands, IInv, CommandReload(c)
  PROVE  IInv'
<1>1. /\ rx = None /\ work = <<>> /\ issued' \subseteq Commands
  BY IssuedBetween DEF CommandReload
<1>2. UNCHANGED <<node_id, deus_ex_data, ticks, remotes, remote_coord, sessions,
                  direct_sorted, route_coord, public_route, peer_list, rx,
                  work, queue, new_actions, outgoing, minted, panicked,
                  route_coord_dht, jitters, position, round, turn, phase,
                  agenda>>
  BY DEF CommandReload
<1>3. ASSUME NEW s \in Session
      PROVE  /\ Unsaved(s) \in Session /\ Unsaved(s) # None
             /\ Unsaved(s).ping_sent = None
  <2>1. s # None
    BY NoneIsNoValue
  <2>2. /\ Unsaved(s) \in Session /\ Unsaved(s).ping_sent = None
    BY <2>1 DEF Unsaved, Session
  <2>3. QED
    BY <2>2, NoneIsNoValue
<1>4. ASSUME NEW b \in NetAddr, NEW m \in NodeID
      PROVE  /\ session'[b][m] \in Session \cup {None}
             /\ session[b][m] # None => session'[b][m] # None
             /\ session'[b][m] # None => session'[b][m].ping_sent = None
             /\ pending_session'[b][m] = None
  <2>1. /\ session'[b][m] = Unsaved(session[b][m])
        /\ pending_session'[b][m] = None
    BY DEF CommandReload, NoRemote
  <2>2. session[b][m] \in Session \cup {None}
    BY DEF IInv, TypeOK, NodeTypeOK
  <2>3. session[b][m] = None => Unsaved(session[b][m]) = None
    BY DEF Unsaved
  <2>4. QED
    BY <1>3, <2>1, <2>2, <2>3, NoneIsNoValue
<1>5. /\ session' \in [NetAddr -> [NodeID -> Session \cup {None}]]
      /\ pending_session' \in
           [NetAddr -> [NodeID -> PendingSession \cup {None}]]
  <2>1. session' = [b \in NetAddr |-> [m \in NodeID |-> session'[b][m]]]
    BY DEF CommandReload
  <2>2. pending_session' = [b \in NetAddr |-> [m \in NodeID |-> None]]
    BY DEF CommandReload, NoRemote
  <2>3. QED
    BY <1>4, <2>1, <2>2
<1>6. /\ action_list' \in [NetAddr -> Seq(Action)]
      /\ packet_map' \in [NetAddr -> Seq([packet : Incoming, latency : Int])]
      /\ order' \in IterationOrders(Nodes)
  BY DEF CommandReload
<1>7. NodeTypeOK' /\ StackTypeOK'
  BY <1>2, <1>5, <1>6 DEF IInv, TypeOK, NodeTypeOK, StackTypeOK
<1>8. (order \in IterationOrders(Nodes))'
  BY <1>2, <1>6 DEF IterationOrders, Nodes
<1>9. TypeOK'
  BY <1>1, <1>2, <1>6, <1>7, <1>8 DEF IInv, TypeOK
<1>10. FiniteTests' /\ NamedHaveSession' /\ TimesInPast'
  BY <1>2, <1>4 DEF IInv, FiniteTests, NamedHaveSession, Named, TimesInPast
<1>11. StackInv'
  BY <1>1, <1>2 DEF StackInv, SendersHaveSession
<1>12. QED
  BY <1>9, <1>10, <1>11 DEF IInv

(* A new network has empty tables.                                          *)
LEMMA RenewedKeepsIInv ==
  ASSUME IInv, NEW ids \in [NetAddr -> NodeID \cup {None}], Renewed(ids),
         rx = None, work = <<>>, issued' \subseteq Commands,
         agenda' \in Seq(AgendaItem)
  PROVE  IInv'
<1>1. UNCHANGED <<rx, work, queue, new_actions, outgoing, minted, panicked,
                  jitters, round, turn, phase>>
  BY DEF Renewed
<1>2. /\ None \in MaybeCoord /\ <<>> \in Seq(Action)
      /\ \A T : NoRemote \in [NodeID -> T \cup {None}]
      /\ NoRemote \in [NodeID -> MaybeCoord]
      /\ \A m \in NodeID : NoRemote[m] = None
  BY DEF MaybeCoord, NoRemote
<1>3. NodeTypeOK'
  <2>1. /\ node_id' \in [NetAddr -> NodeID \cup {None}]
        /\ ticks' \in [NetAddr -> Nat]
        /\ remotes' \in [NetAddr -> SUBSET NodeID]
        /\ direct_sorted' \in [NetAddr -> SUBSET (Nat \X NodeID)]
        /\ action_list' \in [NetAddr -> Seq(Action)]
    BY <1>2 DEF Renewed
  <2>2. /\ route_coord' \in [NetAddr -> MaybeCoord]
        /\ deus_ex_data' \in [NetAddr -> MaybeCoord]
        /\ public_route' \in [NetAddr -> MaybeCoord]
        /\ remote_coord' \in [NetAddr -> [NodeID -> MaybeCoord]]
        /\ peer_list' \in [NetAddr -> [NodeID -> MaybeCoord]]
    BY <1>2 DEF Renewed
  <2>3. /\ pending_session' \in
             [NetAddr -> [NodeID -> PendingSession \cup {None}]]
        /\ session' \in [NetAddr -> [NodeID -> Session \cup {None}]]
        /\ sessions' \in [NetAddr -> [NodeID -> SessionID \cup {None}]]
    BY <1>2 DEF Renewed
  <2>4. QED
    BY <2>1, <2>2, <2>3 DEF NodeTypeOK
<1>4. StackTypeOK'
  BY <1>1 DEF IInv, TypeOK, StackTypeOK
<1>5. (order \in IterationOrders(Nodes))'
  BY DEF Renewed, Nodes, IterationOrders
<1>6. TypeOK'
  BY <1>1, <1>2, <1>3, <1>4, <1>5, NetSimConstants DEF IInv, TypeOK, Renewed
<1>7. FiniteTests'
  BY FS_EmptySet DEF Renewed, FiniteTests
<1>8. NamedHaveSession' /\ TimesInPast'
  BY <1>2 DEF Renewed, NamedHaveSession, Named, TimesInPast
<1>9. StackInv'
  BY <1>1 DEF StackInv, SendersHaveSession
<1>10. QED
  BY <1>6, <1>7, <1>8, <1>9 DEF IInv

(* net clear                                                                *)
LEMMA CommandClearKeepsIInv ==
  ASSUME NEW c \in Commands, IInv, CommandClear(c)
  PROVE  IInv'
<1>1. /\ rx = None /\ work = <<>> /\ issued' \subseteq Commands
      /\ agenda' = agenda
  BY IssuedBetween DEF CommandClear
<1>2. agenda \in Seq(AgendaItem)
  BY DEF IInv, TypeOK
<1>3. QED
  BY <1>1, <1>2, RenewedKeepsIInv DEF CommandClear

(* net gen, whose agenda tells nodes it has added to bootstrap.             *)
LEMMA CommandGenKeepsIInv ==
  ASSUME NEW c \in Commands, IInv, CommandGen(c)
  PROVE  IInv'
<1>1. /\ rx = None /\ work = <<>> /\ issued' \subseteq Commands
      /\ c \in Command
  BY IssuedBetween DEF CommandGen
<1>2. /\ c.number \in Nat \ {0}
      /\ 0 .. c.number - 1 \subseteq NetAddr \cap NodeID
  BY <1>1, CommandFields DEF CommandGen
<1>3. [a \in NetAddr |-> IF a < c.number THEN a ELSE None]
        \in [NetAddr -> NodeID \cup {None}]
  BY <1>2, NodeIDAssumption
<1>4. agenda' \in Seq(AgendaItem)
  <2> DEFINE Item(i) ==
        IF i < c.number
          THEN Joins(i, round + (i - 1) * GenInterval)
          ELSE Over(round + (i - 1) * GenInterval + GenSettle)
  <2>1. ASSUME NEW i \in 1 .. c.number
        PROVE  Item(i) \in AgendaItem
    <3>1. round \in Nat /\ GenInterval \in Nat /\ GenSettle \in Nat
      BY NetSimConstants DEF IInv, TypeOK
    <3>2. i - 1 \in Nat /\ (i < c.number => i \in NetAddr)
          /\ 0 \in NetAddr \cap NodeID
      BY <1>2
    <3>3. (i - 1) * GenInterval \in Nat
      BY <3>1, <3>2
    <3>4. QED
      BY <1>2, <3>1, <3>2, <3>3 DEF AgendaItem, Joins, Over
  <2>2. Agenda(c.number) \in [1 .. c.number -> AgendaItem]
    <3>1. Agenda(c.number) = [i \in 1 .. c.number |-> Item(i)]
      BY Zenon DEF Agenda
    <3> HIDE DEF Item
    <3>2. QED
      BY <2>1, <3>1, Zenon
  <2>3. c.number \in Nat
    BY <1>2
  <2>4. Agenda(c.number) \in UNION {[1 .. k -> AgendaItem] : k \in Nat}
    BY <2>2, <2>3, Zenon
  <2>5. Agenda(c.number) \in Seq(AgendaItem)
    BY <2>4, SeqDef, Zenon
  <2>6. QED
    BY <2>5, Zenon DEF CommandGen
<1>5. QED
  BY <1>1, <1>3, <1>4, RenewedKeepsIInv DEF CommandGen

(* test lists an action and notes the rest, if there is a node to list it.  *)
LEMMA CommandTestKeepsIInv ==
  ASSUME NEW c \in Commands, IInv, CommandTest(c)
  PROVE  IInv'
<1>1. /\ rx = None /\ work = <<>>
      /\ issued' \subseteq Commands /\ c \in Command
  BY IssuedBetween DEF CommandTest
<1>2. c.at \in NetAddr /\ c.id \in NodeID \cap NetAddr
  BY <1>1, CommandFields DEF CommandTest
<1>3. action_list' \in [NetAddr -> Seq(Action)]
  <2>1. [type |-> "ConnectTraversed", id |-> c.id, waits |-> FALSE] \in Action
    BY <1>2 DEF Action, Awaitable
  <2>2. QED
    BY <1>2, <2>1, PushActionTypes DEF CommandTest, IInv, TypeOK, NodeTypeOK
<1>4. agenda' \in Seq(AgendaItem)
  <2>1. /\ agenda \in Seq(AgendaItem)
        /\ round + TestInterval \in Nat /\ round + 2 * TestInterval \in Nat
    BY NetSimConstants DEF IInv, TypeOK
  <2>2. /\ [round |-> round + TestInterval, at |-> c.at, to |-> c.id,
             again |-> TRUE] \in AgendaItem
        /\ Over(round + 2 * TestInterval) \in AgendaItem
    BY <1>2, <2>1 DEF AgendaItem, Over
  <2>3. \A i, j \in AgendaItem : <<i, j>> \in Seq(AgendaItem)
    OBVIOUS
  <2>4. QED
    BY <2>1, <2>2, <2>3, Zenon DEF CommandTest
<1>5. NodeTypeOK' /\ StackTypeOK'
  BY <1>3 DEF CommandTest, IInv, TypeOK, NodeTypeOK, StackTypeOK
<1>6. TypeOK'
  BY <1>1, <1>4, <1>5 DEF CommandTest, IInv, TypeOK, Nodes, IterationOrders
<1>7. FiniteTests' /\ NamedHaveSession' /\ TimesInPast'
  BY UnchangedTables DEF CommandTest, IInv
<1>8. StackInv'
  BY <1>1 DEF CommandTest, StackInv, SendersHaveSession
<1>9. QED
  BY <1>6, <1>7, <1>8 DEF IInv

(* A bootstrap that net gen or test lists.                                  *)
LEMMA AgendaStepKeepsIInv ==
  ASSUME IInv, AgendaStep
  PROVE  IInv'
<1>1. rx = None /\ work = <<>>
  BY DEF AgendaStep, Between, IInv, StackInv
<1>2. /\ agenda \in Seq(AgendaItem)
      /\ agenda # <<>>
  BY DEF AgendaStep, IInv, TypeOK
<1>3. /\ Head(agenda) \in AgendaItem
      /\ agenda' \in Seq(AgendaItem)
  <2>1. /\ Head(agenda) \in AgendaItem
        /\ Tail(agenda) \in Seq(AgendaItem) /\ <<>> \in Seq(AgendaItem)
    BY <1>2
  <2>2. agenda' = Tail(agenda) \/ agenda' = <<>>
    BY Zenon DEF AgendaStep
  <2>3. QED
    BY <2>1, <2>2, Zenon
<1>4. action_list' \in [NetAddr -> Seq(Action)]
  <2>1. CASE UNCHANGED action_list
    BY <2>1 DEF IInv, TypeOK, NodeTypeOK
  <2>2. CASE /\ Head(agenda).at # None
             /\ PushAction(Head(agenda).at,
                           [type |-> "Bootstrap", id |-> Head(agenda).to,
                            addr |-> Head(agenda).to])
    <3>1. Head(agenda).at \in NetAddr /\ Head(agenda).to \in NodeID \cap NetAddr
      BY <1>3, <2>2 DEF AgendaItem
    <3>2. [type |-> "Bootstrap", id |-> Head(agenda).to,
           addr |-> Head(agenda).to] \in Action
      BY <3>1 DEF Action
    <3>3. QED
      BY <2>2, <3>1, <3>2, PushActionTypes DEF IInv, TypeOK, NodeTypeOK
  <2>3. QED
    BY <2>1, <2>2 DEF AgendaStep
<1>5. NodeTypeOK' /\ StackTypeOK'
  BY <1>4 DEF AgendaStep, IInv, TypeOK, NodeTypeOK, StackTypeOK
<1>6. TypeOK'
  BY <1>3, <1>5 DEF AgendaStep, IInv, TypeOK, Nodes, IterationOrders
<1>7. FiniteTests' /\ NamedHaveSession' /\ TimesInPast'
  BY UnchangedTables DEF AgendaStep, IInv
<1>8. StackInv'
  BY <1>1 DEF AgendaStep, StackInv, SendersHaveSession
<1>9. QED
  BY <1>6, <1>7, <1>8 DEF IInv

-----------------------------------------------------------------------------
(* Theorems                                                                 *)

(* A step that changes nothing keeps the invariant.                         *)
LEMMA StutterKeepsIInv ==
  ASSUME IInv, UNCHANGED vars
  PROVE  IInv'
<1>1. NodeTypeOK' /\ StackTypeOK'
  BY DEF vars, IInv, TypeOK, NodeTypeOK, StackTypeOK
<1>2. TypeOK'
  BY <1>1 DEF vars, IInv, TypeOK, Nodes, IterationOrders
<1>3. FiniteTests' /\ NamedHaveSession' /\ TimesInPast'
  BY UnchangedTables DEF vars, IInv
<1>4. StackInv'
  BY DEF vars, IInv, StackInv, SendersHaveSession
<1>5. QED
  BY <1>2, <1>3, <1>4 DEF IInv

(* Every step keeps the invariant.                                          *)
LEMMA NextKeepsIInv == IInv /\ [Next]_vars => IInv'
<1> SUFFICES ASSUME IInv, [Next]_vars
             PROVE  IInv'
  OBVIOUS
<1>1. CASE \E n \in NetAddr : Tick(n)
  BY <1>1, BeginTickKeepsIInv, DeliverKeepsIInv, NodeStepKeepsIInv,
     BeginActionsKeepsIInv, EndActionsKeepsIInv, RoutePacketKeepsIInv,
     EndTickKeepsIInv DEF Tick
<1>2. CASE \E c \in Commands : CommandStep(c)
  BY <1>2, CommandNodeKeepsIInv, CommandAddKeepsIInv, CommandDelKeepsIInv,
     CommandReloadKeepsIInv, CommandClearKeepsIInv, CommandGenKeepsIInv,
     CommandTestKeepsIInv DEF CommandStep
<1>3. CASE AgendaStep
  BY <1>3, AgendaStepKeepsIInv
<1>4. CASE Stop \/ UNCHANGED vars
  BY <1>4, StutterKeepsIInv DEF Stop
<1>5. QED
  BY <1>1, <1>2, <1>3, <1>4 DEF Next

(* Whatever the network, its positions and the commands given, the          *)
(* inductive invariant holds in every reachable state.                      *)
THEOREM InductiveInvariant == Spec => []IInv
<1>1. QED
  BY InitEstablishesIInv, NextKeepsIInv, PTL DEF Spec

(* Every variable keeps its type: a distance is never negative (a ping is   *)
(* acknowledged no earlier than it was sent, though net load and add reset  *)
(* clocks), and no field of a packet is read that its variant lacks.        *)
THEOREM TypesHold == Spec => []TypeOK
<1>1. IInv => TypeOK
  BY DEF IInv
<1>2. QED
  BY <1>1, InductiveInvariant, PTL

(* A remote that is indexed, tested or a peer has a session, whatever       *)
(* commands come when.                                                      *)
THEOREM IndexedHaveSessions == Spec => []IndexedSessionExists
<1>1. IInv => IndexedSessionExists
  BY DEF IInv, NamedHaveSession, Named, IndexedSessionExists, Nodes
<1>2. QED
  BY <1>1, InductiveInvariant, PTL

-----------------------------------------------------------------------------
(* The mapping to the abstract internet                                     *)

(* The invariant that the steps of the mapping rest on.                     *)
IdleEmpty == phase = "idle" => outgoing = <<>>
MapInv == IInv /\ IdleEmpty

-----------------------------------------------------------------------------
(* What a node sends                                                        *)

(* A step of a node sends what it sends after what it has sent already.     *)
Extends ==
  /\ Len(outgoing) <= Len(outgoing')
  /\ \A i \in 1 .. Len(outgoing) : outgoing'[i] = outgoing[i]

(* At most one packet more,                                                 *)
LEMMA EmitExtends ==
  ASSUME StackTypeOK, NEW p, Emit(p)
  PROVE  Extends
BY DEF StackTypeOK, Emit, Extends

(* or a series of packets.                                                  *)
LEMMA AddsExtends ==
  ASSUME StackTypeOK, NEW X, Adds(X)
  PROVE  Extends
BY ConcatProperties DEF StackTypeOK, Adds, Extends

(* A step without packets.                                                  *)
LEMMA NothingExtends ==
  ASSUME StackTypeOK, UNCHANGED outgoing
  PROVE  Extends
BY DEF StackTypeOK, Extends

(* Node::connect sends a handshake, or none.                                *)
LEMMA ConnectExtends ==
  ASSUME StackTypeOK, NEW n, NEW m, NEW type, NEW packets,
         Connect(n, m, type, packets)
  PROVE  Extends
BY EmitExtends, NothingExtends DEF Connect

(* parse_packet takes what arrived.                                         *)
LEMMA ParseActs ==
  ASSUME NEW n \in NetAddr, TypeInv(n), Parse(n)
  PROVE  Extends /\ rx' = None
<1> USE DEF TypeInv
<1>1. CASE ParseHandshake(n)
  BY <1>1, EmitExtends, NothingExtends DEF ParseHandshake, Parsed
<1>2. CASE ParseAcknowledge(n)
  BY <1>2, EmitExtends, NothingExtends DEF ParseAcknowledge, Parsed
<1>3. CASE ParseResponse(n) \/ ParseSession(n) \/ ParseNotify(n)
  BY <1>3, NothingExtends DEF ParseResponse, ParseSession, ParseNotify
<1>4. QED
  BY <1>1, <1>2, <1>3 DEF Parse

(* parse_node_packet takes nothing, and what a Traverse holds came through  *)
(* the network.                                                             *)
LEMMA HandleActs ==
  ASSUME NEW n \in NetAddr, TypeInv(n), Handle(n)
  PROVE  /\ Extends
         /\ rx = None
         /\ rx' = None \/ rx'.via.kind = "Traversed"
<1> USE DEF TypeInv
<1>1. CASE HandleRequestPings(n)
  BY <1>1, HandleRequestPingsSends, AddsExtends
     DEF HandleRequestPings, Handling, End
<1>2. CASE HandleExchangeInfo(n) \/ HandleAcceptWantPing(n)
  BY <1>2, EmitExtends, NothingExtends
     DEF HandleExchangeInfo, HandleAcceptWantPing, Handling, Done, Fail, End
<1>3. CASE HandleTraverse(n)
  BY <1>3, EmitExtends, NothingExtends
     DEF HandleTraverse, TraversedType, Handling, Done, Fail, End
<1>4. CASE \/ HandleConnectionInit(n) \/ HandleExchangeInfoResponse(n)
           \/ HandleWantPing(n) \/ HandlePeerNotify(n) \/ HandleData(n)
  BY <1>4, NothingExtends
     DEF HandleConnectionInit, HandleExchangeInfoResponse, HandleWantPing,
         HandlePeerNotify, HandleData, Handling, Done, Fail, End
<1>5. QED
  BY <1>1, <1>2, <1>3, <1>4 DEF Handle

(* parse_action neither takes nor is handed a packet.                       *)
LEMMA RunActs ==
  ASSUME NEW n \in NetAddr, TypeInv(n), node_id[n] \in NodeID, Run(n)
  PROVE  Extends /\ rx' = rx
<1> USE DEF TypeInv
<1>1. CASE RunCalculatePeers(n)
  BY <1>1, RunCalculatePeersSends, AddsExtends DEF RunCalculatePeers
<1>2. CASE RunBootstrap(n) \/ RunConnect(n) \/ RunConnectTraversed(n)
  BY <1>2, ConnectExtends, NothingExtends
     DEF RunBootstrap, RunConnect, RunConnectTraversed
<1>3. CASE \/ RunUpdateRemote(n) \/ RunNotify(n) \/ RunRequestRouteCoord(n)
           \/ RunSendData(n)
  BY <1>3, EmitExtends, NothingExtends
     DEF RunUpdateRemote, RunNotify, RunRequestRouteCoord, RunSendData
<1>4. CASE RunCalcRouteCoord(n) \/ RunConnectRouted(n) \/ RunCondition(n)
  BY <1>4, NothingExtends DEF RunCalcRouteCoord, RunConnectRouted, RunCondition
<1>5. QED
  BY <1>1, <1>2, <1>3, <1>4 DEF Run

-----------------------------------------------------------------------------
(* The wire                                                                 *)

(* What is on its way, without its latency.                                 *)
Sending(q) == [i \in DOMAIN q |-> q[i].packet]
Latent == [packet : Incoming, latency : Int]

(* Dropping latencies commutes with adding a packet and with taking one.    *)
LEMMA SendingAppend ==
  ASSUME NEW q \in Seq(Latent), NEW x \in Latent
  PROVE  Sending(Append(q, x)) = Append(Sending(q), x.packet)
BY DEF Sending

(* Each packet on its way keeps its place.                                  *)
LEMMA SendingTypes ==
  ASSUME NEW q \in Seq(Latent)
  PROVE  /\ Sending(q) \in Seq(Incoming) /\ Len(Sending(q)) = Len(q)
         /\ \A i \in 1 .. Len(q) : Sending(q)[i] = q[i].packet
<1>1. \A i \in 1 .. Len(q) : q[i].packet \in Incoming
  <2>1. \A i \in 1 .. Len(q) : q[i] \in Latent
    BY ElementOfSeq
  <2>2. QED
    BY <2>1 DEF Latent
<1>2. Sending(q) = [i \in 1 .. Len(q) |-> q[i].packet] /\ Len(q) \in Nat
  BY LenProperties DEF Sending
<1>3. QED
  BY <1>1, <1>2

(* A sequence without its i-th element.                                     *)
Without(q, i) == SubSeq(q, 1, i - 1) \o SubSeq(q, i + 1, Len(q))
LEMMA WithoutProperties ==
  ASSUME NEW S, NEW q \in Seq(S), NEW i \in 1 .. Len(q)
  PROVE  /\ Without(q, i) \in Seq(S)
         /\ Len(Without(q, i)) = Len(q) - 1
         /\ \A j \in 1 .. Len(q) - 1 :
              Without(q, i)[j] = IF j < i THEN q[j] ELSE q[j + 1]
<1> DEFINE first == SubSeq(q, 1, i - 1)
           last  == SubSeq(q, i + 1, Len(q))
<1>1. Len(q) \in Nat /\ \A j \in 1 .. Len(q) : q[j] \in S
  BY LenProperties
<1>2. /\ first \in Seq(S) /\ Len(first) = i - 1
      /\ \A j \in 1 .. i - 1 : first[j] = q[j]
  <2>1. \A j \in 1 .. i - 1 : q[j] \in S
    BY <1>1
  <2>2. i - 1 \in Int /\ 1 \in Int
    OBVIOUS
  <2>3. QED
    BY <1>1, <2>1, <2>2, SubSeqProperties
<1>3. /\ last \in Seq(S) /\ Len(last) = Len(q) - i
      /\ \A j \in 1 .. Len(q) - i : last[j] = q[i + j]
  <2>1. \A j \in i + 1 .. Len(q) : q[j] \in S
    BY <1>1
  <2>2. i + 1 \in Int /\ Len(q) \in Int
    BY <1>1
  <2>3. QED
    BY <1>1, <2>1, <2>2, SubSeqProperties
<1> HIDE DEF first, last
<1>4. /\ first \o last \in Seq(S)
      /\ Len(first \o last) = Len(first) + Len(last)
      /\ \A j \in 1 .. Len(first) + Len(last) :
           (first \o last)[j] = IF j <= Len(first) THEN first[j]
                                ELSE last[j - Len(first)]
  BY <1>2, <1>3, ConcatProperties
<1>5. Without(q, i) = first \o last
  BY DEF Without, first, last
<1>6. Len(first) + Len(last) = Len(q) - 1
  BY <1>1, <1>2, <1>3
<1>7. ASSUME NEW j \in 1 .. Len(q) - 1
      PROVE  (first \o last)[j] = IF j < i THEN q[j] ELSE q[j + 1]
  <2>1. CASE j < i
    BY <1>1, <1>2, <1>4, <1>6, <2>1
  <2>2. CASE ~(j < i)
    <3>1. (first \o last)[j] = last[j - (i - 1)]
      BY <1>1, <1>2, <1>4, <1>6, <2>2
    <3>2. /\ j - (i - 1) \in 1 .. Len(q) - i
          /\ i + (j - (i - 1)) = j + 1
      BY <1>1, <2>2
    <3>3. last[j - (i - 1)] = q[j + 1]
      BY <1>3, <3>2
    <3>4. QED
      BY <2>2, <3>1, <3>3
  <2>3. QED
    BY <2>1, <2>2
<1>8. QED
  BY <1>4, <1>5, <1>6, <1>7

LEMMA SendingRemove ==
  ASSUME NEW q \in Seq(Latent), NEW i \in 1 .. Len(q)
  PROVE  Sending(Without(q, i)) = Without(Sending(q), i)
<1> DEFINE one == Without(q, i)
           two == Without(Sending(q), i)
<1>1. /\ one \in Seq(Latent) /\ Len(one) = Len(q) - 1
      /\ \A j \in 1 .. Len(q) - 1 : one[j] = IF j < i THEN q[j] ELSE q[j + 1]
  BY WithoutProperties
<1>2. /\ Sending(q) \in Seq(Incoming) /\ Len(Sending(q)) = Len(q)
      /\ \A j \in 1 .. Len(q) : Sending(q)[j] = q[j].packet
  BY SendingTypes
<1>3. /\ two \in Seq(Incoming) /\ Len(two) = Len(q) - 1
      /\ \A j \in 1 .. Len(q) - 1 :
           two[j] = IF j < i THEN Sending(q)[j] ELSE Sending(q)[j + 1]
  BY <1>2, WithoutProperties
<1> HIDE DEF one, two
<1>4. /\ Sending(one) \in Seq(Incoming) /\ Len(Sending(one)) = Len(one)
      /\ \A j \in 1 .. Len(one) : Sending(one)[j] = one[j].packet
  BY <1>1, SendingTypes
<1>5. Len(q) \in Nat
  BY LenProperties
<1>6. ASSUME NEW j \in 1 .. Len(Sending(one))
      PROVE  Sending(one)[j] = two[j]
  <2>1. j \in 1 .. Len(q) - 1 /\ j \in 1 .. Len(q) /\ j + 1 \in 1 .. Len(q)
    BY <1>1, <1>4, <1>5
  <2>2. Sending(one)[j] = (IF j < i THEN q[j] ELSE q[j + 1]).packet
    BY <1>1, <1>4, <2>1
  <2>3. two[j] = IF j < i THEN q[j].packet ELSE q[j + 1].packet
    BY <1>2, <1>3, <2>1
  <2>4. QED
    BY <2>2, <2>3
<1>7. Sending(one) = two
  BY <1>1, <1>3, <1>4, <1>6, SeqEqual
<1>8. QED
  BY <1>7 DEF one, two

-----------------------------------------------------------------------------
(* The mapping, step by step                                                *)

Abstract == <<Outbox, Wire, Inbox, route_coord_dht>>

(* Between ticks no node holds a packet.                                    *)
LEMMA IdleHoldsNothing ==
  ASSUME MapInv, phase = "idle"
  PROVE  /\ Outbox = [n \in NetAddr |-> <<>>]
         /\ Inbox = [n \in NetAddr |-> None]
BY DEF MapInv, IdleEmpty, IInv, StackInv, Outbox, Inbox

(* A step that leaves what is mapped alone.                                 *)
LEMMA SameMapping ==
  ASSUME UNCHANGED <<rx, outgoing, packet_map, route_coord_dht, order, turn>>
  PROVE  UNCHANGED Abstract
BY DEF Abstract, Outbox, Wire, Inbox, Acting

(* A step of the node whose turn it is, on its stack and its tables.        *)
LEMMA NodeStepActs ==
  ASSUME NEW n \in NetAddr, MapInv,
         ParsePacket(n) \/ ParseNodePacket(n) \/ ParseAction(n)
  PROVE  Net!Act(n)
<1>1. Turn(n) /\ UNCHANGED <<netVars, loopVars>>
  BY DEF ParsePacket, ParseNodePacket, ParseAction, NodeStep
<1>2. node_id[n] \in NodeID /\ TypeInv(n)
  BY <1>1, TurnIsNode DEF MapInv, IInv, StackInv, Turn, TypeInv, TypeOK
<1>3. /\ Extends
      /\ \/ rx' = None \/ rx' = rx
         \/ rx = None /\ rx'.via.kind = "Traversed"
  BY <1>2, ParseActs, HandleActs, RunActs
     DEF ParsePacket, ParseNodePacket, ParseAction
<1>4. \A k \in NetAddr : Acting(k) <=> k = n
  BY <1>1 DEF Acting, Turn
<1>5. \A k \in NetAddr : Acting(k)' <=> Acting(k)
  BY <1>1 DEF Acting
<1>6. /\ Outbox[n] = outgoing /\ Outbox'[n] = outgoing'
      /\ \A k \in NetAddr \ {n} : Outbox[k] = <<>> /\ Outbox'[k] = <<>>
  BY <1>4, <1>5 DEF Outbox
<1>7. /\ Inbox'[n] \in {Inbox[n], None}
      /\ \A k \in NetAddr \ {n} : Inbox[k] = None /\ Inbox'[k] = None
  BY <1>3, <1>4, <1>5 DEF Inbox
<1>8. UNCHANGED <<Wire, route_coord_dht>>
  BY <1>1 DEF Wire
<1>9. QED
  BY <1>3, <1>6, <1>7, <1>8 DEF Net!Act, Extends

(* tick_node hands a packet over with its sender's address.                 *)
LEMMA DeliverReceives ==
  ASSUME NEW n \in NetAddr, MapInv, Deliver(n)
  PROVE  Net!Receive(n)
<1> DEFINE q == packet_map[n]
<1>1. packet_map \in [NetAddr -> Seq(Latent)] /\ q \in Seq(Latent)
  BY DEF MapInv, IInv, TypeOK, Latent
<1>2. PICK i \in Due(n) :
        /\ rx' = [request |-> q[i].packet.request,
                  encryption |-> q[i].packet.encryption,
                  via |-> DirectType(q[i].packet.src_addr)]
        /\ packet_map' = [packet_map EXCEPT ![n] = Without(q, i)]
  BY DEF Deliver, Without
<1>3. i \in 1 .. Len(q)
  BY <1>1, LenProperties DEF Due
<1>4. /\ Turn(n) /\ rx = None
      /\ UNCHANGED <<outgoing, route_coord_dht, order, turn>>
  BY DEF Deliver, Stackless
<1>5. q[i].packet \in Incoming
  <2>1. q[i] \in Latent
    BY <1>1, <1>3, ElementOfSeq
  <2>2. QED
    BY <2>1 DEF Latent
<1>6. /\ rx' # None /\ rx'.via.kind = "Direct"
      /\ [src_addr |-> rx'.via.net_addr, request |-> rx'.request,
          encryption |-> rx'.encryption] = q[i].packet
  <2>1. DirectType(q[i].packet.src_addr) \in SessionType
    BY <1>5, DirectTypeIsType DEF Incoming
  <2>2. rx' \in Arrived
    BY <1>2, <1>5, <2>1 DEF Arrived, Incoming
  <2>3. rx' # None
    BY <2>2, ArrivedAssumption
  <2>4. QED
    BY <1>2, <1>5, <2>3 DEF DirectType, Incoming
<1>7. \A k \in NetAddr : (Acting(k) <=> k = n) /\ (Acting(k)' <=> k = n)
  BY <1>4 DEF Acting, Turn
<1>8. /\ Inbox[n] = None
      /\ Inbox' = [Inbox EXCEPT ![n] = q[i].packet]
  BY <1>4, <1>6, <1>7 DEF Inbox
<1>9. Outbox' = Outbox
  BY <1>4, <1>7 DEF Outbox
<1>10. /\ Wire[n] = Sending(q) /\ Len(Wire[n]) = Len(q)
       /\ Wire[n][i] = q[i].packet
       /\ Wire' = [Wire EXCEPT ![n] = Without(Wire[n], i)]
  <2>1. Wire = [k \in NetAddr |-> Sending(packet_map[k])]
        /\ Wire' = [k \in NetAddr |-> Sending(packet_map'[k])]
    BY DEF Wire, Sending
  <2>2. packet_map' = [k \in NetAddr |->
                         IF k = n THEN Without(q, i) ELSE packet_map[k]]
    BY <1>1, <1>2
  <2>3. Sending(Without(q, i)) = Without(Sending(q), i)
    BY <1>1, <1>3, SendingRemove
  <2>4. Wire[n] = Sending(q)
    BY <2>1
  <2>5. Wire' = [k \in NetAddr |-> IF k = n THEN Without(Wire[n], i)
                                            ELSE Wire[k]]
    BY <2>1, <2>2, <2>3, <2>4
  <2>6. Len(Sending(q)) = Len(q) /\ Sending(q)[i] = q[i].packet
    BY <1>1, <1>3, SendingTypes
  <2>7. QED
    BY <2>1, <2>4, <2>5, <2>6
<1>11. QED
  BY <1>3, <1>4, <1>8, <1>9, <1>10 DEF Net!Receive, Without

(* add_packets puts a packet on its way to its destination.                 *)
LEMMA AddPacketPuts ==
  ASSUME TypeOK, NEW packet \in Incoming, NEW src \in NetAddr,
         NEW dest \in NetAddr, AddPacket(packet, src, dest)
  PROVE  Wire' = [Wire EXCEPT ![dest] = Append(@, packet)]
<1>1. PICK d \in Truncated(position[src], position[dest]) :
       \E l \in Latencies(d) :
        packet_map' = [packet_map EXCEPT ![dest] =
                         Append(@, [packet |-> packet, latency |-> l])]
  BY DEF AddPacket
<1>2. PICK l \in Latencies(d) :
        packet_map' = [packet_map EXCEPT ![dest] =
                         Append(@, [packet |-> packet, latency |-> l])]
  BY <1>1
<1> DEFINE x == [packet |-> packet, latency |-> l]
           q == packet_map[dest]
<1>3. x \in Latent
  <2>1. SqDist(position[src], position[dest]) \in Int
    BY DEF TypeOK, Coord, SqDist
  <2>2. d \in Int
    BY <2>1 DEF Truncated
  <2>3. l \in Int
    BY <2>2 DEF Latencies, AtLeastOne, VARIANCE
  <2>4. QED
    BY <2>3 DEF Latent
<1>4. packet_map \in [NetAddr -> Seq(Latent)] /\ q \in Seq(Latent)
  BY DEF TypeOK, Latent
<1>5. Sending(Append(q, x)) = Append(Sending(q), packet)
  <2>1. x.packet = packet
    OBVIOUS
  <2> HIDE DEF x, q
  <2>2. QED
    BY <1>3, <1>4, <2>1, SendingAppend
<1>6. packet_map' = [k \in NetAddr |->
                       IF k = dest THEN Append(q, x) ELSE packet_map[k]]
  BY <1>2, <1>4
<1> HIDE DEF x
<1>7. /\ Wire = [k \in NetAddr |-> Sending(packet_map[k])]
      /\ Wire' = [k \in NetAddr |-> Sending(packet_map'[k])]
  BY DEF Wire, Sending
<1>8. Wire' = [k \in NetAddr |->
                 IF k = dest THEN Append(Wire[dest], packet) ELSE Wire[k]]
  BY <1>5, <1>6, <1>7
<1>9. QED
  BY <1>7, <1>8

(* A packet or a request of the node whose turn it is gets carried.         *)
LEMMA RoutePacketCarries ==
  ASSUME NEW n \in NetAddr, MapInv, RoutePacket(n)
  PROVE  Net!Carry(n)
<1> DEFINE p == Head(outgoing)
           answer == [src_addr |-> n, request |-> Answer(p.request),
                      encryption |-> None]
<1>1. /\ Turn(n) /\ phase = "route" /\ outgoing # <<>>
      /\ outgoing' = Tail(outgoing)
      /\ UNCHANGED <<rx, order, turn>>
  BY DEF RoutePacket
<1>2. p \in Outgoing /\ TypeOK /\ rx = None
  BY <1>1, HeadTailProperties DEF MapInv, IInv, StackInv, TypeOK, StackTypeOK
<1>3. \A k \in NetAddr : (Acting(k) <=> k = n) /\ (Acting(k)' <=> k = n)
  BY <1>1 DEF Acting, Turn
<1>4. /\ Outbox[n] = outgoing
      /\ Outbox' = [Outbox EXCEPT ![n] = Tail(@)]
      /\ Inbox' = Inbox
  BY <1>1, <1>2, <1>3 DEF Outbox, Inbox
<1>5. CASE p.request = None
  <2>1. p.encryption \in Encryption /\ p.dest_addr \in NetAddr
    BY <1>2, <1>5, NoneIsNoValue DEF Outgoing
  <2>2. Stamped(n, p.encryption) \in Incoming
    BY <2>1 DEF Stamped, Incoming
  <2>3. /\ AddPacket(Stamped(n, p.encryption), n, p.dest_addr)
        /\ UNCHANGED route_coord_dht
    BY <1>5 DEF RoutePacket
  <2> HIDE DEF p
  <2>4. Net!Put(n, None, p.encryption, p.dest_addr)
    BY <1>2, <2>1, <2>2, <2>3, AddPacketPuts DEF Net!Put, Stamped
  <2>5. QED
    BY <1>1, <1>4, <1>5, <2>3, <2>4 DEF Net!Carry, p
<1>6. CASE p.request # None
  <2>1. p.request \in Request
    BY <1>2, <1>6 DEF Outgoing
  <2>2. Answer(p.request) \in Response
    BY <1>2, <2>1 DEF Answer, Request, Response, TypeOK
  <2>3. answer \in Incoming
    BY <2>2 DEF Incoming
  <2>4. /\ AddPacket(answer, n, n)
        /\ route_coord_dht' =
             IF p.request.type = "RouteCoordDHTWrite"
               THEN [route_coord_dht EXCEPT ![p.request.id] =
                       p.request.coord]
               ELSE route_coord_dht
    BY <1>6 DEF RoutePacket
  <2>5. Wire' = [Wire EXCEPT ![n] = Append(@, answer)]
    <3> HIDE DEF answer
    <3>1. QED
      BY <1>2, <2>3, <2>4, AddPacketPuts
  <2>6. Net!Put(n, Answer(p.request), None, n)
    BY <2>5 DEF Net!Put
  <2>7. CASE p.request.type = "RouteCoordDHTRead"
    <3>1. Answer(p.request) =
            [type |-> "RouteCoordDHTReadResponse", id |-> p.request.id,
             coord |-> route_coord_dht[p.request.id]]
      BY <2>7 DEF Answer
    <3>2. UNCHANGED route_coord_dht
      BY <2>4, <2>7
    <3> HIDE DEF p
    <3>3. QED
      BY <1>1, <1>4, <1>6, <2>6, <2>7, <3>1, <3>2 DEF Net!Carry, p
  <2>8. CASE p.request.type = "RouteCoordDHTWrite"
    <3>1. Answer(p.request) = [type |-> "RouteCoordDHTWriteResponse"]
      BY <2>8 DEF Answer
    <3>2. route_coord_dht' =
            [route_coord_dht EXCEPT ![p.request.id] = p.request.coord]
      BY <2>4, <2>8
    <3> HIDE DEF p
    <3>3. QED
      BY <1>1, <1>4, <1>6, <2>6, <2>8, <3>1, <3>2 DEF Net!Carry, p
  <2>9. QED
    BY <2>1, <2>7, <2>8 DEF Request
<1>7. QED
  BY <1>5, <1>6

(* The other steps of a tick are the node's own.                            *)
LEMMA OtherTickStutters ==
  ASSUME NEW n \in NetAddr, MapInv,
         BeginTick(n) \/ BeginActions(n) \/ EndActions(n) \/ EndTick(n)
  PROVE  UNCHANGED Abstract
<1>1. CASE BeginTick(n)
  <2> DEFINE Q == [i \in DOMAIN packet_map[n] |-> CountDown(packet_map[n][i])]
  <2>1. /\ packet_map' = [packet_map EXCEPT ![n] = Q]
        /\ UNCHANGED <<rx, outgoing, route_coord_dht, order, turn>>
    BY <1>1 DEF BeginTick
  <2>2. Sending(Q) = Sending(packet_map[n])
    <3>1. DOMAIN Q = DOMAIN packet_map[n]
      OBVIOUS
    <3>2. \A i \in DOMAIN packet_map[n] : Q[i].packet = packet_map[n][i].packet
      BY ElementOfSeq, LenProperties
         DEF CountDown, MapInv, IInv, TypeOK
    <3> HIDE DEF Q
    <3>3. QED
      BY <3>1, <3>2 DEF Sending
  <2>3. packet_map \in [NetAddr -> Seq(Latent)]
    BY DEF MapInv, IInv, TypeOK, Latent
  <2> HIDE DEF Q
  <2>4. \A k \in NetAddr : Sending(packet_map'[k]) = Sending(packet_map[k])
    BY <2>1, <2>2, <2>3
  <2>5. UNCHANGED Wire
    BY <2>4 DEF Wire, Sending
  <2>6. UNCHANGED <<Outbox, Inbox>>
    BY <2>1 DEF Outbox, Inbox, Acting
  <2>7. QED
    BY <2>1, <2>5, <2>6 DEF Abstract
<1>2. CASE BeginActions(n) \/ EndActions(n)
  BY <1>2, SameMapping DEF BeginActions, EndActions
<1>3. CASE EndTick(n)
  <2>1. /\ outgoing = <<>> /\ rx = None
        /\ UNCHANGED <<rx, outgoing, packet_map, route_coord_dht>>
    BY <1>3 DEF EndTick, MapInv, IInv, StackInv
  <2>2. QED
    BY <2>1 DEF Abstract, Outbox, Inbox, Wire
<1>4. QED
  BY <1>1, <1>2, <1>3

-----------------------------------------------------------------------------
(* Commands, which find no node with a packet                               *)

(* Whatever becomes of the nodes, none holds a packet afterwards.           *)
LEMMA IdleStaysEmpty ==
  ASSUME MapInv, phase = "idle", UNCHANGED <<rx, outgoing>>
  PROVE  UNCHANGED <<Outbox, Inbox>>
BY DEF MapInv, IdleEmpty, IInv, StackInv, Outbox, Inbox

(* A command that loses what is on its way, and maybe the DHT,              *)
LEMMA EmptiedLoses ==
  ASSUME MapInv, phase = "idle", UNCHANGED <<rx, outgoing>>,
         packet_map' = [a \in NetAddr |-> <<>>],
         route_coord_dht' = route_coord_dht \/ route_coord_dht' = NoRemote
  PROVE  Net!Lose
<1>1. Wire' = [n \in NetAddr |-> <<>>]
  <2>1. ASSUME NEW n \in NetAddr
        PROVE  Wire'[n] = <<>>
    <3>1. packet_map'[n] = <<>>
      OBVIOUS
    <3>2. Wire'[n] = [i \in {} |-> packet_map'[n][i].packet]
      BY <3>1 DEF Wire
    <3>3. QED
      BY <3>2
  <2>2. Wire' = [n \in NetAddr |-> Wire'[n]]
    BY DEF Wire
  <2>3. QED
    BY <2>1, <2>2
<1>2. QED
  BY <1>1, IdleStaysEmpty DEF Net!Lose, NoRemote

(* and one that does not.                                                   *)
LEMMA CommandMaps ==
  ASSUME NEW c \in Commands, MapInv, CommandStep(c)
  PROVE  Net!Lose \/ UNCHANGED Abstract
<1>1. phase = "idle"
  BY DEF CommandStep, CommandNode, CommandAdd, CommandDel, CommandReload,
         CommandClear, CommandGen, CommandTest, Issue, Between
<1>2. CASE CommandReload(c)
  BY <1>1, <1>2, EmptiedLoses DEF CommandReload
<1>3. CASE CommandClear(c) \/ CommandGen(c)
  BY <1>1, <1>3, EmptiedLoses DEF CommandClear, CommandGen, Renewed
<1>4. CASE CommandNode(c) \/ CommandAdd(c) \/ CommandDel(c) \/ CommandTest(c)
  <2>1. UNCHANGED <<rx, outgoing, packet_map, route_coord_dht>>
    BY <1>4 DEF CommandNode, CommandAdd, CommandDel, CommandTest
  <2>2. QED
    BY <1>1, <2>1, IdleStaysEmpty DEF Abstract, Wire
<1>5. QED
  BY <1>2, <1>3, <1>4 DEF CommandStep

-----------------------------------------------------------------------------
(* Theorems                                                                 *)

(* A turn ends when all is routed.                                          *)
LEMMA NextKeepsMapInv == MapInv /\ [Next]_vars => MapInv'
<1> SUFFICES ASSUME MapInv, [Next]_vars
             PROVE  IdleEmpty'
  BY NextKeepsIInv DEF MapInv
<1>1. CASE \E n \in NetAddr : Tick(n)
  <2>1. PICK n \in NetAddr : Tick(n)
    BY <1>1
  <2>2. CASE ParsePacket(n) \/ ParseNodePacket(n) \/ ParseAction(n)
    BY <2>2 DEF ParsePacket, ParseNodePacket, ParseAction, NodeStep, IdleEmpty
  <2>3. CASE \/ BeginTick(n) \/ Deliver(n) \/ BeginActions(n) \/ EndActions(n)
             \/ RoutePacket(n) \/ EndTick(n)
    BY <2>3 DEF BeginTick, Deliver, BeginActions, EndActions, RoutePacket,
                EndTick, IdleEmpty
  <2>4. QED
    BY <2>1, <2>2, <2>3 DEF Tick
<1>2. CASE \E c \in Commands : CommandStep(c)
  <2>1. UNCHANGED <<phase, outgoing>>
    BY <1>2 DEF CommandStep, CommandNode, CommandAdd, CommandDel,
                CommandReload, CommandClear, CommandGen, CommandTest, Renewed
  <2>2. QED
    BY <2>1 DEF MapInv, IdleEmpty
<1>3. CASE AgendaStep \/ Stop \/ UNCHANGED vars
  BY <1>3 DEF AgendaStep, Stop, vars, MapInv, IdleEmpty
<1>4. QED
  BY <1>1, <1>2, <1>3 DEF Next

(* Every step is one of the internet, or none.                              *)
LEMMA NextMaps == MapInv /\ [Next]_vars => [Net!Next]_(Net!vars)
<1> SUFFICES ASSUME MapInv, [Next]_vars
             PROVE  Net!Next \/ UNCHANGED Abstract
  BY DEF Abstract, Net!vars
<1>1. CASE \E n \in NetAddr : Tick(n)
  <2>1. PICK n \in NetAddr : Tick(n)
    BY <1>1
  <2>2. CASE ParsePacket(n) \/ ParseNodePacket(n) \/ ParseAction(n)
    BY <2>2, NodeStepActs DEF Net!Next
  <2>3. CASE Deliver(n)
    BY <2>3, DeliverReceives DEF Net!Next
  <2>4. CASE RoutePacket(n)
    BY <2>4, RoutePacketCarries DEF Net!Next
  <2>5. CASE BeginTick(n) \/ BeginActions(n) \/ EndActions(n) \/ EndTick(n)
    BY <2>5, OtherTickStutters
  <2>6. QED
    BY <2>1, <2>2, <2>3, <2>4, <2>5 DEF Tick
<1>2. CASE \E c \in Commands : CommandStep(c)
  BY <1>2, CommandMaps DEF Net!Next
<1>3. CASE AgendaStep \/ Stop \/ UNCHANGED vars
  BY <1>3, SameMapping DEF AgendaStep, Stop, vars
<1>4. QED
  BY <1>1, <1>2, <1>3 DEF Next

(* Before the first tick nothing is sent or recorded.                       *)
LEMMA InitMaps == Init => MapInv /\ Net!Init
<1> SUFFICES ASSUME Init
             PROVE  MapInv /\ Net!Init
  OBVIOUS
<1>1. MapInv
  BY InitEstablishesIInv DEF Init, MapInv, IdleEmpty
<1>2. Outbox = [n \in NetAddr |-> <<>>] /\ Inbox = [n \in NetAddr |-> None]
  BY <1>1, IdleHoldsNothing DEF Init
<1>3. Wire = [n \in NetAddr |-> <<>>]
  <2>1. ASSUME NEW n \in NetAddr
        PROVE  Wire[n] = <<>>
    <3>1. packet_map[n] = <<>>
      BY DEF Init
    <3>2. Wire[n] = [i \in {} |-> packet_map[n][i].packet]
      BY <3>1 DEF Wire
    <3>3. QED
      BY <3>2
  <2>2. Wire = [n \in NetAddr |-> Wire[n]]
    BY DEF Wire
  <2>3. QED
    BY <2>1, <2>2
<1>4. QED
  BY <1>1, <1>2, <1>3 DEF Init, NoRemote, Net!Init

(* The router, the tick loop and the commands together deliver no packet    *)
(* that was not sent, none twice, to another address or under another one's *)
(* name, and answer each lookup with what was recorded last.                *)
THEOREM NetSimImplementsInternet == Spec => InternetPromise
<1>1. Spec => []MapInv
  BY InitMaps, NextKeepsMapInv, PTL DEF Spec
<1>2. QED
  BY <1>1, InitMaps, NextMaps, PTL DEF Spec, InternetPromise, Net!Spec
=============================================================================
