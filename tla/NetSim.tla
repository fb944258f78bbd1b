------------------------------- MODULE NetSim -------------------------------
(***************************************************************************)
(* The simulated internet (src/internet/) around the nodes: the router with *)
(* its random latencies, the DHT of route coordinates, the tick loop that   *)
(* gives every node its turn, and the commands a user types between two     *)
(* ticks (src/main.rs).                                                     *)
(***************************************************************************)
EXTENDS Node

CONSTANTS
  Genesis,        \* NodeID the network starts with at each address, or None
  Positions,      \* what a network may draw: a position for each address
  Commands,       \* the commands a user may give, each once
  GenInterval,    \* 4000 ticks between two bootstraps of net gen
  GenSettle,      \* 10000 ticks after the last
  TestInterval,   \* 3000 ticks after each of the two steps of test
  (* Bounds *)
  MaxRounds,      \* rounds the simulation runs
  MaxJitter       \* packets that take a latency other than the plain distance

VARIABLES
  packet_map,       \* NetSimRouter::packet_map, the packets on their way
  route_coord_dht,
  order,            \* iteration order of NetSim::nodes
  round,            \* rounds since the start
  turn,             \* index in order of the node that ticks
  phase,            \* where in its tick that node is
  issued,           \* commands given
  agenda,           \* what a command has still to do, and before which rounds
  jitters,          \* packets that took another latency
  position          \* RouterNode::position of each address

netVars   == <<packet_map, route_coord_dht, jitters, position>>
loopVars  == <<order, round, turn, phase, issued, agenda>>
nodeVars  == <<selfVars, remoteVars, tableVars, routeVars, action_list>>
vars == <<nodeVars, rx, work, runVars, outgoing, mintVars, netVars, loopVars>>

Nodes == {n \in NetAddr : node_id[n] # None}
IterationOrders(S) ==
  {p \in [1 .. Cardinality(S) -> S] :
     \A i, j \in DOMAIN p : i # j => p[i] # p[j]}

(* A command of the scenario and the rounds before one of which the user    *)
(* gives it.                                                                *)
Rounds == SUBSET Nat \ {{}}
Command ==
  [type : {"Bootstrap"}, at : NetAddr, id : NodeID, addr : NetAddr,
   when : Rounds]
    \cup [type : Awaitable \cup {"SendData"}, at : NetAddr, id : NodeID,
          when : Rounds]
    \cup [type : {"add"}, id : NodeID, when : Rounds]
    \cup [type : {"del"}, at : NetAddr, when : Rounds]
    \cup [type : {"reload", "clear"}, when : Rounds]
    \cup [type : {"test"}, at : NetAddr, id : NodeID \cap NetAddr,
          when : Rounds]
    \cup [type : {"gen"}, when : Rounds,
          number : {k \in Nat \ {0} : 0 .. k - 1 \subseteq NetAddr \cap NodeID}]

(* What net gen and test do before a round: they have the node at an        *)
(* address bootstrap onto a node at the address equal to its id, if need be *)
(* only where there is a session between the two already, or they end.      *)
AgendaItem ==
  [round : Nat, at : NetAddr, to : NodeID \cap NetAddr, again : BOOLEAN]
    \cup [round : Nat, at : {None}]

ASSUME NetSimConstants ==
  /\ Genesis \in [NetAddr -> NodeID \cup {None}]
  /\ Positions \subseteq [NetAddr -> Coord]
  /\ Commands \subseteq Command
  /\ {GenInterval, GenSettle, TestInterval, MaxRounds, MaxJitter}
       \subseteq Nat

-----------------------------------------------------------------------------
(* Router *)

(* add_packets for one packet.  Any packet may take any latency; MaxJitter  *)
(* bounds how many take another one than the distance.                      *)
AddPacket(packet, src, dest) ==
  \E d \in Truncated(position[src], position[dest]) : \E l \in Latencies(d) :
    /\ l # AtLeastOne(d) => jitters < MaxJitter
    /\ jitters' = IF l = AtLeastOne(d) THEN jitters ELSE jitters + 1
    /\ packet_map' = [packet_map EXCEPT ![dest] =
                        Append(@, [packet |-> packet, latency |-> l])]
    /\ UNCHANGED position

-----------------------------------------------------------------------------
(* NetSim::tick: in each round every node in turn receives what is due,     *)
(* runs its actions, and has its packets routed.                            *)

Between == turn = 1 /\ phase = "idle"      \* between two rounds
Turn(n) == ~panicked /\ turn <= Len(order) /\ n = order[turn]

(* tick_node counts down the latency of every packet on its way to n.       *)
CountDown(p) == [p EXCEPT !.latency = @ - 1]

(* No command is due for the last time, nor is one at work that is due.     *)
TimeMayPass ==
  IF agenda = <<>>
    THEN \A c \in Commands \ issued :
           round \in c.when => \E r \in c.when : r > round
    ELSE Head(agenda).round > round

BeginTick(n) ==
  /\ Turn(n) /\ phase = "idle"
  /\ round < MaxRounds
  /\ Between => TimeMayPass
  /\ phase' = "packets"
  /\ packet_map' = [packet_map EXCEPT ![n] =
       [i \in DOMAIN @ |-> CountDown(@[i])]]
  /\ UNCHANGED <<nodeVars, rx, work, runVars, outgoing, mintVars,
                 route_coord_dht, jitters, position, order, round, turn,
                 issued, agenda>>

(* drain_filter: the packets now due are parsed in the order they were sent.*)
Due(n) == {i \in DOMAIN packet_map[n] : packet_map[n][i].latency <= 0}
Stackless == rx = None /\ work = <<>>

Deliver(n) ==
  /\ Turn(n) /\ phase = "packets" /\ Stackless
  /\ \E i \in Due(n) :
       /\ \A j \in Due(n) : i <= j
       /\ LET p == packet_map[n][i].packet
          IN  rx' = [request |-> p.request, encryption |-> p.encryption,
                     via |-> DirectType(p.src_addr)]
       /\ packet_map' = [packet_map EXCEPT ![n] =
            SubSeq(@, 1, i - 1) \o SubSeq(@, i + 1, Len(@))]
  /\ UNCHANGED <<nodeVars, work, runVars, outgoing, mintVars,
                 route_coord_dht, jitters, position, loopVars>>

(* mem::replace takes the whole action list.                                *)
BeginActions(n) ==
  /\ Turn(n) /\ phase = "packets" /\ Stackless /\ Due(n) = {}
  /\ phase' = "actions"
  /\ queue' = action_list[n]
  /\ action_list' = [action_list EXCEPT ![n] = <<>>]
  /\ UNCHANGED <<selfVars, remoteVars, tableVars, routeVars, rx, work,
                 new_actions, outgoing, mintVars, netVars, order, round, turn,
                 issued, agenda>>

(* The conditions kept come first, then the new actions.                    *)
EndActions(n) ==
  /\ Turn(n) /\ phase = "actions" /\ queue = <<>>
  /\ phase' = "route"
  /\ action_list' = [action_list EXCEPT ![n] = @ \o new_actions]
  /\ new_actions' = <<>>
  /\ ticks' = [ticks EXCEPT ![n] = @ + 1]
  /\ UNCHANGED <<node_id, deus_ex_data, remoteVars, tableVars, routeVars, rx,
                 work, queue, outgoing, mintVars, netVars, order, round, turn,
                 issued, agenda>>

(* A request is answered by the DHT and the answer sent to the requester    *)
(* itself.                                                                  *)
Unrecorded(r) ==                                                     \* mutant
  IF r.type = "RouteCoordDHTRead"
    THEN [type |-> "RouteCoordDHTReadResponse", id |-> r.id, coord |-> None]
    ELSE [type |-> "RouteCoordDHTWriteResponse"]
Answer(r) ==
  IF r.type = "RouteCoordDHTRead"
    THEN [type |-> "RouteCoordDHTReadResponse", id |-> r.id,
          coord |-> route_coord_dht[r.id]]
    ELSE [type |-> "RouteCoordDHTWriteResponse"]

(* Every packet gets the true address of its sender.                        *)
Unstamped(n, encryption) ==                                          \* mutant
  [src_addr |-> 0, request |-> None, encryption |-> encryption]
Stamped(n, encryption) ==
  [src_addr |-> n, request |-> None, encryption |-> encryption]

RoutePacket(n) ==
  /\ Turn(n) /\ phase = "route" /\ outgoing # <<>>
  /\ outgoing' = Tail(outgoing)
  /\ LET p == Head(outgoing)
     IN  \/ /\ p.request = None
            /\ AddPacket(Stamped(n, p.encryption), n, p.dest_addr)
            /\ UNCHANGED route_coord_dht
         \/ /\ p.request # None
            /\ AddPacket([src_addr |-> n, request |-> Answer(p.request),
                          encryption |-> None], n, n)
            /\ route_coord_dht' =
                 IF p.request.type = "RouteCoordDHTWrite"
                   THEN [route_coord_dht EXCEPT ![p.request.id] =
                           p.request.coord]
                   ELSE route_coord_dht
  /\ UNCHANGED <<nodeVars, rx, work, runVars, mintVars, loopVars>>

EndTick(n) ==
  /\ Turn(n) /\ phase = "route" /\ outgoing = <<>>
  /\ phase' = "idle"
  /\ turn' = IF turn = Len(order) THEN 1 ELSE turn + 1
  /\ round' = IF turn = Len(order) THEN round + 1 ELSE round
  /\ deus_ex_data' = [deus_ex_data EXCEPT ![n] = position[n]]
  /\ UNCHANGED <<node_id, ticks, remoteVars, tableVars, routeVars,
                 action_list, rx, work, runVars, outgoing, mintVars, netVars,
                 order, issued, agenda>>

(* What the node does with a packet or an action.                           *)
NodeStep(n, step) == Turn(n) /\ phase = step /\ UNCHANGED <<netVars, loopVars>>
ParsePacket(n)     == NodeStep(n, "packets") /\ Parse(n)
ParseNodePacket(n) == NodeStep(n, "packets") /\ Handle(n)
ParseAction(n)     == NodeStep(n, "actions") /\ Run(n)

Tick(n) ==
  BeginTick(n) \/ Deliver(n) \/ ParsePacket(n) \/ ParseNodePacket(n)
    \/ BeginActions(n) \/ ParseAction(n) \/ EndActions(n)
    \/ RoutePacket(n) \/ EndTick(n)

-----------------------------------------------------------------------------
(* Commands (parse_command), between two rounds.                            *)

Issue(c) ==
  /\ Between /\ ~panicked /\ agenda = <<>>
  /\ c \in Commands \ issued
  /\ round \in c.when
  /\ issued' = issued \cup {c}

OntoItself(c) ==                                                         \* mutant
  [type |-> "Bootstrap", id |-> c.id, addr |-> c.at]
(* node <addr> bootstrap | notify | traverse | route | send                 *)
ActionOf(c) ==
  IF c.type = "Bootstrap"
    THEN [type |-> "Bootstrap", id |-> c.id, addr |-> c.addr]
  ELSE IF c.type = "SendData"
    THEN [type |-> "SendData", id |-> c.id]
  ELSE [type |-> c.type, id |-> c.id, waits |-> FALSE]

CommandNode(c) ==
  /\ c.type \in Awaitable \cup {"Bootstrap", "SendData"}
  /\ Issue(c)
  /\ IF c.at \in Nodes THEN PushAction(c.at, ActionOf(c))
                       ELSE UNCHANGED action_list
  /\ UNCHANGED <<selfVars, remoteVars, tableVars, routeVars, rx, work,
                 runVars, outgoing, mintVars, netVars, order, round, turn,
                 phase, agenda>>

(* add <NodeID>: the address leased is the number of nodes.  Whatever was   *)
(* there is replaced by a new node; position and packets stay.              *)
Lease == Cardinality(Nodes)
NoRemote == [m \in NodeID |-> None]

CommandAdd(c) ==
  /\ c.type = "add"
  /\ Issue(c)
  /\ Lease \in NetAddr
  /\ LET a == Lease
     IN  /\ node_id' = [node_id EXCEPT ![a] = c.id]
         /\ IF a \in Nodes THEN UNCHANGED order
            ELSE order' \in IterationOrders(Nodes \cup {a})
         /\ ticks' = [ticks EXCEPT ![a] = 0]
         /\ route_coord' = [route_coord EXCEPT ![a] = None]
         /\ deus_ex_data' = [deus_ex_data EXCEPT ![a] = None]
         /\ public_route' = [public_route EXCEPT ![a] = None]
         /\ remotes' = [remotes EXCEPT ![a] = {}]
         /\ remote_coord' = [remote_coord EXCEPT ![a] = NoRemote]
         /\ pending_session' = [pending_session EXCEPT ![a] = NoRemote]
         /\ session' = [session EXCEPT ![a] = NoRemote]
         /\ sessions' = [sessions EXCEPT ![a] = NoRemote]
         /\ direct_sorted' = [direct_sorted EXCEPT ![a] = {}]
         /\ peer_list' = [peer_list EXCEPT ![a] = NoRemote]
         /\ action_list' = [action_list EXCEPT ![a] = <<>>]
  /\ UNCHANGED <<rx, work, runVars, outgoing, mintVars, netVars, round, turn,
                 phase, agenda>>

(* HashMap::remove leaves the others in their order.                        *)
CommandDel(c) ==
  /\ c.type = "del"
  /\ Issue(c)
  /\ node_id' = [node_id EXCEPT ![c.at] = None]
  /\ order' \in IterationOrders(Nodes \ {c.at})
  /\ \A i, j \in DOMAIN order' : i < j =>
       \E k, l \in DOMAIN order :
         k < l /\ order[k] = order'[i] /\ order[l] = order'[j]
  /\ UNCHANGED <<deus_ex_data, ticks, remoteVars, tableVars, routeVars,
                 action_list, rx, work, runVars, outgoing, mintVars, netVars,
                 round, turn, phase, agenda>>

Forgotten(s) == None                                                 \* mutant
(* net save or net cache, then net load or a restart: the fields marked     *)
(* #[serde(skip)] come back empty.                                          *)
Unsaved(s) ==
  IF s = None THEN None
  ELSE [s EXCEPT !.ping_sent = None, !.last = [k \in Limited |-> None]]

CommandReload(c) ==
  /\ c.type = "reload"
  /\ Issue(c)
  /\ order' \in IterationOrders(Nodes)
  /\ packet_map' = [a \in NetAddr |-> <<>>]
  /\ pending_session' = [a \in NetAddr |-> NoRemote]
  /\ session' = [a \in NetAddr |-> [m \in NodeID |-> Unsaved(session[a][m])]]
  /\ action_list' = [a \in NetAddr |-> <<>>]
  /\ UNCHANGED <<selfVars, remotes, remote_coord, tableVars, routeVars, rx,
                 work, runVars, outgoing, mintVars, route_coord_dht, jitters,
                 position, round, turn, phase, agenda>>

(* A new network, with the node ids[a] at each address a and new positions. *)
(* What is kept of the old one is only the record of session ids drawn.     *)
Renewed(ids) ==
  /\ node_id' = ids
  /\ order' \in IterationOrders({a \in NetAddr : ids[a] # None})
  /\ ticks' = [a \in NetAddr |-> 0]
  /\ route_coord' = [a \in NetAddr |-> None]
  /\ deus_ex_data' = [a \in NetAddr |-> None]
  /\ public_route' = [a \in NetAddr |-> None]
  /\ remotes' = [a \in NetAddr |-> {}]
  /\ remote_coord' = [a \in NetAddr |-> NoRemote]
  /\ pending_session' = [a \in NetAddr |-> NoRemote]
  /\ session' = [a \in NetAddr |-> NoRemote]
  /\ sessions' = [a \in NetAddr |-> NoRemote]
  /\ direct_sorted' = [a \in NetAddr |-> {}]
  /\ peer_list' = [a \in NetAddr |-> NoRemote]
  /\ action_list' = [a \in NetAddr |-> <<>>]
  /\ packet_map' = [a \in NetAddr |-> <<>>]
  /\ route_coord_dht' = NoRemote
  /\ position' \in Positions
  /\ UNCHANGED <<rx, work, runVars, outgoing, mintVars, jitters, round, turn,
                 phase>>

CommandClear(c) ==
  /\ c.type = "clear"
  /\ Issue(c)
  /\ Renewed([a \in NetAddr |-> None])
  /\ UNCHANGED agenda

(* net gen <number>: after GenInterval ticks each, the nodes 1, 2, ... are  *)
(* told to bootstrap onto node 0; it ends GenSettle ticks later.            *)
Joins(a, when) == [round |-> when, at |-> a, to |-> 0, again |-> FALSE]
Over(when)     == [round |-> when, at |-> None]
AllButLast(number) ==                                                \* mutant
  [i \in 1 .. number |->
     IF i < number - 1 THEN Joins(i, round + (i - 1) * GenInterval)
                       ELSE Over(round + (i - 1) * GenInterval + GenSettle)]
Agenda(number) ==
  [i \in 1 .. number |->
     IF i < number THEN Joins(i, round + (i - 1) * GenInterval)
                   ELSE Over(round + (i - 1) * GenInterval + GenSettle)]

CommandGen(c) ==
  /\ c.type = "gen"
  /\ Issue(c)
  /\ Renewed([a \in NetAddr |-> IF a < c.number THEN a ELSE None])
  /\ agenda' = Agenda(c.number)

(* test: a node (1 in the code) connects to another (19) through the        *)
(* network, and if that has given a session, then bootstraps onto it.       *)
CommandTest(c) ==
  /\ c.type = "test"
  /\ Issue(c)
  /\ IF c.at \in Nodes
       THEN /\ PushAction(c.at, [type |-> "ConnectTraversed", id |-> c.id,
                                 waits |-> FALSE])
            /\ agenda' =
                 <<[round |-> round + TestInterval, at |-> c.at, to |-> c.id,
                    again |-> TRUE],
                   Over(round + 2 * TestInterval)>>
       ELSE UNCHANGED <<action_list, agenda>>
  /\ UNCHANGED <<selfVars, remoteVars, tableVars, routeVars, rx, work,
                 runVars, outgoing, mintVars, netVars, order, round, turn,
                 phase>>

(* The next step of net gen or test; test ends if there is no session yet.  *)
AgendaStep ==
  /\ Between /\ ~panicked
  /\ agenda # <<>> /\ Head(agenda).round = round
  /\ LET next == Head(agenda)
         Fails == next.again /\ session[next.at][next.to] = None
     IN  \/ /\ next.at = None
            /\ agenda' = Tail(agenda)
            /\ UNCHANGED action_list
         \/ /\ next.at # None /\ Fails
            /\ agenda' = <<>>
            /\ UNCHANGED action_list
         \/ /\ next.at # None /\ ~Fails
            /\ agenda' = Tail(agenda)
            /\ PushAction(next.at, [type |-> "Bootstrap", id |-> next.to,
                                    addr |-> next.to])
  /\ UNCHANGED <<selfVars, remoteVars, tableVars, routeVars, rx, work,
                 runVars, outgoing, mintVars, netVars, order, round, turn,
                 phase, issued>>

CommandStep(c) ==
  CommandNode(c) \/ CommandAdd(c) \/ CommandDel(c) \/ CommandReload(c)
    \/ CommandClear(c) \/ CommandGen(c) \/ CommandTest(c)

-----------------------------------------------------------------------------
(* add <NodeID> repeated, then no tick yet.                                 *)
Init ==
  /\ node_id = Genesis
  /\ route_coord = [a \in NetAddr |-> None]
  /\ deus_ex_data = [a \in NetAddr |-> None]
  /\ public_route = [a \in NetAddr |-> None]
  /\ ticks = [a \in NetAddr |-> 0]
  /\ remotes = [a \in NetAddr |-> {}]
  /\ remote_coord = [a \in NetAddr |-> NoRemote]
  /\ pending_session = [a \in NetAddr |-> NoRemote]
  /\ session = [a \in NetAddr |-> NoRemote]
  /\ sessions = [a \in NetAddr |-> NoRemote]
  /\ direct_sorted = [a \in NetAddr |-> {}]
  /\ peer_list = [a \in NetAddr |-> NoRemote]
  /\ action_list = [a \in NetAddr |-> <<>>]
  /\ rx = None /\ work = <<>> /\ queue = <<>> /\ new_actions = <<>>
  /\ outgoing = <<>> /\ minted = <<>> /\ panicked = FALSE
  /\ packet_map = [a \in NetAddr |-> <<>>]
  /\ route_coord_dht = NoRemote
  /\ position \in Positions
  /\ order \in IterationOrders(Nodes)
  /\ round = 0 /\ turn = 1 /\ phase = "idle" /\ issued = {} /\ jitters = 0
  /\ agenda = <<>>

(* Where the bound on rounds, a panic, or the last del ends the run.         *)
Stop ==
  /\ \/ panicked
     \/ order = <<>>
     \/ round = MaxRounds
  /\ UNCHANGED vars

Next ==
  \/ \E n \in NetAddr : Tick(n)
  \/ \E c \in Commands : CommandStep(c)
  \/ AgendaStep
  \/ Stop

Spec == Init /\ [][Next]_vars
(* tick <usize> is a loop, and each node has its turn in every round; the   *)
(* user gives the commands of the scenario.                                 *)
FairSpec == Spec /\ WF_vars(Next)

-----------------------------------------------------------------------------
(* Types *)

TypeOK ==
  /\ NodeTypeOK /\ StackTypeOK
  /\ packet_map \in [NetAddr -> Seq([packet : Incoming, latency : Int])]
  /\ route_coord_dht \in [NodeID -> MaybeCoord]
  /\ order \in IterationOrders(Nodes) /\ round \in Nat
  /\ turn \in Nat \ {0}
  /\ phase \in {"idle", "packets", "actions", "route"}
  /\ issued \subseteq Commands /\ jitters \in Nat
  /\ position \in [NetAddr -> Coord]
  /\ agenda \in Seq(AgendaItem)
=============================================================================
