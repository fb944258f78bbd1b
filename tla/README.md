# Verification of dbr-sim

TLA+ models, TLC runs and TLAPS proofs for dbr-sim, a simulator of
distance-based routing. Paths below are relative to the repository (`src/` is
its source directory). Run TLC as `tlc -config Pair.cfg MCNetSim.tla`, the
proofs as `tlapm NetSimProofs.tla`.

## 1. Inventory of the system

| Component | State | Operations | Interacts with |
|---|---|---|---|
| Handshake and sessions (`node.rs`, `node/session.rs`, `node/remote.rs`, `node/packet.rs`) | per remote: coordinate, one pending session, one session with its tracker; index of session ids | `connect`; parsing of Handshake, Acknowledge, Session; ConnectionInit | packets through the router; everything a node sends needs a session |
| Node tick and action list (`node.rs`) | `action_list`, `ticks` | `tick`, `parse_action`, `action`, `NodeActionCondition::check` | handlers list actions for later in the same tick, actions list actions for the next |
| Self-organisation (`node.rs`) | `direct_sorted`, `peer_list`, `route_coord`, `public_route`, peer flags of sessions | ExchangeInfo and response, UpdateRemote, CalcRouteCoord, CalculatePeers, RequestPings, WantPing, AcceptWantPing, PeerNotify | reads sessions, writes the peer list that routing uses, publishes coordinates on the DHT |
| Greedy routing (`node.rs`, `node/session.rs`) | none of its own | `find_closest_peer`, Traverse, traversed sessions in `gen_packet` | reads peer lists; carries handshakes, acknowledgements and sessions of nodes that cannot reach each other directly |
| Lookups and routes (`node.rs`) | actions waiting for a coordinate | Notify, RequestRouteCoord, ConnectTraversed, ConnectRouted, SendData | DHT, then sessions through the network |
| Simulated internet (`internet/mod.rs`) | nodes by address, DHT of coordinates | `lease`, `add_node`, `del_node`, `tick` | gives each node its turn, stamps addresses, answers DHT requests |
| Router (`internet/router.rs`) | position of each address, packets on their way with their latency | `add_packets`, `tick_node` | between any two addresses |
| Commands (`main.rs`) | what `net gen` and `test` have still to do | `add`, `del`, `tick`, `net ...`, `node ...`, `test ...` | act between two ticks of the whole network |
| Plotting, printing, statistics files, the commented-out MDS | none | output | not modelled |

What is hard here is not parallel threads, there is one, but the order of
events: nodes take turns in the arbitrary order of a HashMap, packets
overtake each other because every one draws its own latency, what a handler
finds out is acted on later, users add, delete, save and load at any moment,
and nothing has a timeout; `net gen` and `test` just wait a fixed number of ticks. `PROJECT.json` lists the hazards at their lines.

What makes each component correct:

- Sessions: an id passes from one end to the other and back, each step at most
  once and only between the two it was drawn for (`TunnelPromise`); both ends of
  a session belong to the same handshake (`SessionPairing`), agree on its id once
  the network is quiet (`TunnelAgreement`), lead to the right address
  (`AddressCorrect`); no handshake is left half done (`HandshakesFinish`),
  and one that nobody answers does not keep two nodes apart (`RetryConnects`).
- Tables: what a node's tables name has a session (`IndexedSessionExists`);
  tested nodes stay listed (`TestedListed`); coordinates are not forgotten
  (`CoordNeverForgotten`).
- Self-organisation: flags are those of listed peers (`OutgoingIsPeer`);
  peers are told (`PeerNotifiedOnChange`); a node with enough of them publishes its
  coordinate (`PublishedWhenFull`); a node that bootstraps joins
  (`BootstrapJoins`) and is introduced to the others (`Introduced`); it all
  comes to rest (`Settles`).
- Routing: a traversed handshake connects (`TraverseConnects`); a packet gets
  nearer (`TwoHopsNearer`), stops (`HopBound`) and is not lost where it was to go
  (`NotLostAtEnd`), and the sample of `test sample-artificial` tells the
  distance of its way (`SampleHonest`).
- Internet: no packet is made up, delivered twice, misdirected or under a false
  address, and lookups are answered from one table (`InternetPromise`).
- Commands: what `net gen` builds is a network whose nodes have joined
  (`GenJoins`); `test` measures the two ways it says it does (`TestComparesWays`).
- DHT lookups are repeated until answered (`LookupRetried`); adding a node takes none away
  (`AddKeepsNodes`).

## 2. Modules

    Packet       data: packets, encryptions, sessions, actions
      Routing    the nearest peer, distances and latencies
        Node       a node: its state, one action per packet and per action it runs
          NetSim   router, DHT, tick loop and commands around the nodes
            Properties   invariants, action and liveness properties, refinements
              MCNetSim   small networks and scenarios for TLC
        Greedy     one packet over any peer lists, and the sample of the test command
          MCGreedy   four nodes for TLC
      Internet   abstract: what the simulated internet promises
      Tunnel     abstract: what the handshakes promise
    NodeProofs                   lemmas: constructors, and each step of a node
      NetSimProofs               types and tables; NetSim implements Internet
        SessionProofs            sessions are filed under the right remote
          TunnelProofs           NetSim implements Tunnel
            AddressProofs        addresses of nodes and sessions, peer flags
              AgreementProofs    the two ends of a session agree
                FinishProofs     no handshake is left half done
    GreedyProofs                 hops, progress and arrival of a packet, and the sample

**Packet** has the message types of `packet.rs`, sessions of `session.rs`, the
internet packets of `internet/mod.rs` and `NodeAction` of `node.rs`. A
`NodeEncryption` is a core (Handshake, Acknowledge, Session, Notify) under a
sequence of layers, one for each `Session{Traverse}` around it, so that nesting
needs no recursion. Left out are the payload of Data and Notify and the
distances that packets carry: they only reach `route_map` and `dist_avg` of
other nodes, which nothing reads. Ranks are 0 or "not a peer".

**Node** holds the fields of all nodes as functions from address, and from
address and remote (`NodeIdx` and `NodeID` are one to one). `Node::tick` is one
call in the code. In the model it is a series of steps - one per packet parsed
(`ParseHandshake`, ...), per node packet handled (`HandleRequestPings`, ...),
per action run (`RunCalculatePeers`, ...) - and the call's locals are the
variables `rx`, `work`, `queue`, `new_actions` and `outgoing`. No other node
steps in between, so nothing is interleaved that the code does not interleave;
the steps only make each branch an action that coverage and proofs can name.
A `?` that returns early keeps what was assigned before it, which is why
several actions change state and then `Fail`.

- `rand::random()` for session and ping ids never repeats: the k-th id is k, and
  `minted[k]` remembers which two nodes it was drawn for. `minted` is a history
  variable; no guard reads anything of it but its length. The u32 session ids
  could collide in the code; that is not modelled.
- A session's tracker holds one ping in its life (`gen_ping` runs as the session is
  created), so the average distance is that one measurement, and one id names
  the session and its ping.
- `peer_list` is a one-to-one map between remotes and coordinates: of two peers
  with one coordinate the last stays (`PeerList`).
- `find_closest_peer` takes any of the nearest, as map iteration order decides.

**NetSim** is the loop of `NetSim::tick`: `BeginTick` counts latencies down,
`Deliver` takes the packets due in the order they were sent, `BeginActions` moves
the action list to the queue, `EndActions` puts back what is kept and advances
the clock, `RoutePacket` stamps the sender and draws a latency or answers a DHT
request, `EndTick` tells the node its position. The commands (`CommandNode`,
`CommandAdd`, `CommandDel`, `CommandReload`, `CommandClear`, `CommandGen`,
`CommandTest`) happen between two rounds, each once, at one of the rounds that
the scenario allows. `net gen` and `test` run rounds themselves: what they have
still to do is the variable `agenda`, whose next entry `AgendaStep` takes when
its round has come; until then no other command is given. `clear` and `gen`
replace the whole network by a new one (`Renewed`). `net save` or `net cache`
followed by `net load` or a restart is one command, `reload`: fields marked
`#[serde(skip)]` are emptied, and the node order may change. Loading an older
file is not modelled.

**Greedy** is a network that has settled: every choice of peer lists within
`TARGET_PEER_COUNT`, mutual or not, and one packet on its way between any two
nodes, with the guards of `connect` and of the Traverse handler in their order.
Before it, `Walk` is the loop of `test sample-artificial` (main.rs:245), which
follows `find_closest_peer` from node to node without sending anything, so that
what it measures can be compared with what the packet does. What two nodes have measured of each
other (`dist`) is not their distance: it is half a round trip in whole ticks, of which one
round may be the same for both packets, so it varies with the latencies and is 0 between
near nodes (`Measured`). `Distances` are the measurements a run considers, any that
`Measured` allows. A listed peer may have got a session through the network since
(`traversed`): the walk unwraps its direct session and panics, the packet is dropped,
because the way to the peer would lead through the peer. `travelled`, the sum of
`dist` along the packet's way, is a history variable for `SampleHonest`.

**Internet** and **Tunnel** are abstract specifications, and `Properties` has the
refinement mappings.

- `Internet` has an outbox, a wire and an inbox per address and one table of
  coordinates. A node acts on its own inbox and outbox only; `Carry` takes the head
  of an outbox to the wire it names, under the true address, or answers a
  request; `Receive` takes any one packet off a wire; `Lose` empties the wires.
  In NetSim only the node whose turn it is holds packets, so `Outbox` is
  `outgoing` there and empty elsewhere, `Inbox` what `rx` got from the router (and
  not from inside a Traverse), and `Wire` is `packet_map` without latencies.
  Ticks, rounds, latencies and commands are stutters or `Lose`.
- `Tunnel` has the ids offered, the ids on their way in a Handshake, an
  Acknowledge or a ConnectionInit, and what each node has with each remote. Each
  of `Offer`, `Accept`, `Confirm` and `Establish` moves one id on; ids may be
  lost, nodes replaced and the network loaded. The mapping finds the ids wherever
  they are: on the wire, in `outgoing`, in `rx`, in `work`, or in layers of
  sessions that carry them through the network. A tunnel is `open` when no ping
  is unanswered; a load opens all, because it empties the tracker (`Load`).

A definition marked `\* mutant` belongs to no specification: it is a plausible
slip in the definition that follows it, and stands beside it so that a run can
be repeated with the slip in place; `PROJECT.json` says which property then
fails.

## 3. Runs

The module of all is `MCNetSim`, but of Greedy it is `MCGreedy`.
`TARGET_PEER_COUNT`, `MAX_REQUEST_PINGS`, the intervals of Limited packets (10, 10,
2000 and 300 in the code), `GenInterval`, `GenSettle`, `TestInterval` (4000, 10000
and 3000) and `TIMEOUT` (10) are constants, so that they are reached with two to
four nodes and within a run's rounds. A scenario's `gen` and `test` intervals are
still longer than what they wait for takes, as in the code; in Lifecycle
`TestInterval` is shorter, so that the wait ends too early.

| Run | Network and scenario | Checks |
|---|---|---|
| Pair | 2 nodes, each bootstraps onto the other at any of rounds 0 to 3, fixed latency, then `net gen` among their handshakes or after, at the old positions or others, or not at all | `TunnelAgreement`, `HandshakesFinish`, `Orderly`, `Settles`, `GenJoins` |
| Crossing | the same without `gen`, two packets delayed or early, a wrong NodeID, a bootstrap onto itself, a second bootstrap before and after the first is acknowledged, a traversed session over a direct one | `SessionPairing`, `AddressCorrect`, `CoordNeverForgotten`, `InternetPromise`, `TunnelPromise` |
| Quad | 4 nodes, three bootstrap onto node 0 at chosen rounds; two nodes at most are asked for pings | `OutgoingIsPeer`, `Orderly`, `BootstrapJoins`, `Introduced` |
| Traverse | 4 nodes in a chain, coordinates published, a lookup, a traversed handshake, data through it, a lookup for a route, and `test`; the last node may first give a wrong address | `TypeOK`, `RetryConnects`, `TraverseConnects`, `TestComparesWays`, `TunnelPromise` |
| Lifecycle | 2 nodes and a third identity; deletions, additions (of a NodeID in use as well), reloads, `clear`, `gen`, `test` and bootstraps at several rounds each | `SessionPairing`, `IndexedSessionExists`, `InternetPromise`, `TunnelPromise` |
| Greedy | 4 nodes, every choice of at most two peers for each, at most one of them behind a session through the network, every start and end, at most 9 hops counted; measured distances are short one way, so that they are 0 between near nodes | `SampleHonest`, `HopBound`, `NotLostAtEnd`, `TwoHopsNearer` |

Six more runs each show a disagreement between code and comment; TLC's
counterexample is the scenario.

| Run | Comment | What the code does |
|---|---|---|
| Reordered | packet.rs:81, an acknowledged tunnel may be used in both directions | two nodes that connect to each other at once, with one packet delayed, end with different session ids |
| Raced | packet.rs:81, as above | a bootstrap in the very tick of a WantPing: the Connect listed by then does not look again (node.rs:491) and replaces the handshake begun; the first acknowledgement then removes the second attempt (node.rs:637), and one end has no session |
| Unpublished | node.rs:339 "If have enough peers & want to host node as public, write RouteCoord to DHT" | a nearer session through the network ends the loop before that (node.rs:336) |
| PeerNotify | node.rs:319 "Notify Peers if just became peer" | those that just became peers are the ones not notified (node.rs:325) |
| Lookup | node.rs:363 "Wait for RouteCoord DHT to resolve before re-running" | a read answered with nothing is not repeated (node.rs:597) |
| SameDistance | node.rs:176 "All nodes that have been tested, sorted by lowest value" | an equal distance replaces the node filed under it (node.rs:417) |

Two more differences show in single steps and have no run. The recipient of a Notify reaches
`unimplemented!()` (node.rs:664; `ParseNotify`, in Lifecycle), though node.rs:88 says that it "Sends
a packet out onto the network for a specific recipient". And `add`, which is to "add a node to network"
(main.rs:71), leases the number of nodes as an address (internet/mod.rs:76): after a `del` that may be
another node's, which is lost (`CommandAdd`, in Lifecycle; see `NodesKept`).

**Bounds.** `MaxRounds` ends a run some rounds after the traffic of its scenario has
died out: `Settles` and the other liveness properties fail if it has not, because
`Stop` then repeats an unquiet state for ever. `MaxJitter` bounds how
many packets take a latency other than the plain distance; 0 is a network
without reordering on a link, 2 is enough for a handshake and an
acknowledgement each to be overtaken. Distances are at most 9, as only the
order of latencies matters. `Positions` are those that a network may draw: one set of them in most
runs, two in Pair. `MaxTraversed` is 1 in Greedy, as the first such peer on a way ends it, and
`Distances` one table, of early packets one way and plain ones the other, as it
has zeros, and every way is taken in both directions. Each scenario gives a command at one of a few rounds, chosen so that it
falls before, among and after the packets of the others. Addresses are
those of `NetAddr`: an `add` that would lease one beyond does not happen.

**Fairness.** `FairSpec` is weak fairness of `Next`: `tick <n>` is a plain loop in which
every node has its turn, so some step always happens, and `BeginTick` of the next
round waits until no command is due for the last time, so a scenario is played
in full. No fairness is assumed of deliveries: latencies count down in every round.

**Reach.** Some branches need what the program cannot produce or the scenarios do not
contain: an AcceptWantPing too soon (it is sent once in a session), a
ConnectionInit with an unknown ping, an UpdateRemote, Notify or condition whose
remote is unknown to a node that lists it, CalculatePeers without a coordinate, an
ExchangeInfo before the end of the first tick, which tells a node its `deus_ex` coordinate.
Scenarios do not contain: a traversed packet bounced back (Greedy has it), and
RequestPings or PeerNotify over a traversed session. `OutgoingIsPeer` holds in Quad, where
all tested nodes are direct and at different distances. In the scenario of Crossing it
does not: the distance of a node to itself, onto which it has bootstrapped, is taken by another
node, and nothing takes the flag of the first session back. `TunnelAgreement` and `HandshakesFinish` need that
the network is `Orderly`, as it is in Pair and Quad; in Crossing packets overtake each other and a
second bootstrap finds the first under way. `Introduced` depends on who is near: a requester that was
tested itself takes one of the places of `MAX_REQUEST_PINGS` (node.rs:480), and if later
joiners are nearer to node 0 than earlier ones, the last and the first never meet.
In Pair, `GenJoins` speaks of the nodes that bootstrap; node 0 of a network of two
never gets a peer, because of what the PeerNotify run shows.
`SampleHonest` and the other properties of routing suppose that no two nodes are equally
far from the end (then the map's order decides) and, but for `SampleHonest`, that
peer lists are mutual: without that TLC finds packets that go round for ever.

## 4. Proofs

TLAPS proves, for every set of nodes, positions, scenario and bound that satisfies
the assumptions of the modules:

| Theorem | Module | States |
|---|---|---|
| `InductiveInvariant` | NetSimProofs | `Spec => []IInv` |
| `TypesHold` | NetSimProofs | `Spec => []TypeOK` |
| `IndexedHaveSessions` | NetSimProofs | `Spec => []IndexedSessionExists` |
| `NetSimImplementsInternet` | NetSimProofs | `Spec => InternetPromise` |
| `SessionsPaired` | SessionProofs | `Spec => []SessionPairing` |
| `NetSimImplementsTunnel` | TunnelProofs | `Spec => TunnelPromise` |
| `AddressesCorrect` | AddressProofs | `Spec => []AddressCorrect`, if nothing is deleted |
| `NodesKept` | AddressProofs | `Spec => AddKeepsNodes`, if nothing is deleted or generated |
| `TunnelsAgree` | AgreementProofs | `Spec /\ []Orderly => []TunnelAgreement`, if nothing is deleted or loaded |
| `HandshakesDone` | FinishProofs | `Spec /\ []Orderly => []HandshakesFinish`, if nothing is deleted or loaded |
| `FlagsFollowList` | AddressProofs | `Spec /\ []PeersVisited => []OutgoingIsPeer` |
| `HopsBounded` | GreedyProofs | `Spec => []HopBound` |
| `EveryTwoHopsNearer` | GreedyProofs | `Spec => TwoHopsNearer` |
| `DeliveredAtEnd` | GreedyProofs | `Spec => []NotLostAtEnd` |
| `SampleIsHonest` | GreedyProofs | `Spec => []SampleHonest` |

**Types and tables.** Neither property is inductive. `TypeOK` says that a measured
distance is a natural
number, which needs that a ping, and the handshake of a pending session, were
not sent later than the clock of the node that measures: `TimesInPast`. The clock
only grows, but `add` starts a new node with clock 0 at an old address, and must
then clear both. `TypeOK` also needs the number of tested nodes to be a number:
`FiniteTests`. A handler that reads its sender's session needs `StackInv`: the
sender of a packet still to be handled has a session (`ParseSession` finds it by
the index, and `NamedHaveSession` says that what the index names has one), and nothing
is left half parsed when a turn ends. Sessions are replaced but never removed
from a living node, so `NamedHaveSession` is kept; a reload must keep the sessions
because it keeps the tables. `IInv` is the conjunction of these. `NodeProofs`
states what constructors return and has one lemma per action of a node;
`NetSimProofs` one per action of the loop and per command, then `NextKeepsIInv`.

**Internet.** The mapping rests on `MapInv`: `IInv` and that nothing is left to send
when a turn is over (`IdleEmpty`). Each step of a node adds to `outgoing` at the end
(`Extends`, from what its handlers send) and leaves `rx` empty or with what came out
of a Traverse, which is `Net!Act` (`NodeStepActs`); `DeliverReceives` and
`RoutePacketCarries` need that dropping latencies commutes with appending to and
removing from a queue (`SendingAppend`, `SendingRemove`); commands find all outboxes
and inboxes empty (`CommandMaps`); every other step of a tick leaves the mapped state
alone. `NextMaps` puts the cases together.

**Sessions.** That a session belongs to the remote it is filed under follows from what
was sent, so the invariant `PairInv` follows an id from where `connect` draws it. Every
handshake is `Genuine`, wherever it is: its id was drawn by its signer for its recipient,
in `outgoing`, among the queued packets, in `rx` and inside a Traverse still in `work`.
A pending session was drawn by the node that keeps it (`PendingOwned`), so an
acknowledgement, which must match the pending id, files a session drawn by the node for
that remote; a handshake accepted files one drawn by the remote for the node
(`SessionOwned`, `IndexOwned`). `Grows`: an id once drawn keeps its two ends. Updates of
a session in place keep its id (`SameIDs`). Addresses play no part, which
is why it survives `del`, `add` at the same address, reordering and traversal.

**Tunnel.** The mapping gives Tunnel the ids it finds on the wire (`OnTheWay`), in
`outgoing` (`ToSend`), in `rx` (`ToRead`) and in `work` (`ToParse`). Moving an id on is a
step of Tunnel only if the id is nowhere else, so the invariant `TunnelInv` adds three
parts to `PairInv`. `Once`: no id is in two places, on two wires or twice on one, whatever
layers of sessions it is under, and every id on its way has been drawn, so that a fresh
one is on none. `AcceptedOwned`: a session whose ping is unanswered is one that its remote
offered, so the acknowledgement that a node sends out is for the one that drew the id. Then
each step is one of Tunnel or a stutter: `connect` draws and offers an id (`DrawOnce`); a
handler takes one in and sends the next (`Exchange`); an unwrapped or forwarded Traverse
changes the place of what it carries (`UnwrapOnce`, `HandedOnOnce`), as deliveries and
the router do (`DeliverOnce`, `RoutePacketOnce`); commands lose ids, replace nodes or
empty trackers (`CommandOnce`).

**Addresses.** Nothing that a node receives names the address it came from; the router
stamps that. A session takes its address in one of two ways, and `AddressInv` adds to
`TunnelInv` what makes each right. Who accepts a handshake files its source address under
its signer: `SourceTrue` says that a handshake inside no session travels under its
signer's address, because every packet that a node hands on for another is inside a session
(`SendPacketInside`). Who is acknowledged takes the address that was written to, which came from a user
or a WantPing and may well be another node's: `PendingAimed` says that the handshake of a
pending direct session is on its way only straight to that address (`Straight`), and that its
acknowledgement exists only if the remote it was meant for is there (`Acked`). An id is in one place at a time
(`Once`), so it has not been acknowledged while its handshake is somewhere (`Handed`,
`AcknowledgesOwn`). Steps that only move packets keep all three (`Moves`), and steps that
only flag or measure a session keep its way (`SameWay`). The theorem supposes that no
command deletes (`NothingDeleted`) and that at first the nodes have the first addresses, as
a network built by `add` has (`Leased`); `Contiguous` keeps it so, and then `add` leases
an address that nobody has. After a `del` the property is false: a session with the
deleted node stays, and its address, or that of a node alive, goes
to the next one added. `NodesKept` says that only a deletion leads there: `Contiguous` makes every
address leased one that nobody has. `gen` is excluded only because it makes the network anew.

**Agreement.** Two nodes that offer each other a session at once make two, and each keeps the one
it finished last; that this is the same one is the work of the comparison in node.rs:618.
`AgreementInv` adds two parts to `AddressInv`. `HomeInv` says that an offer or its acknowledgement
goes straight from the one node of its names to the other and never in a session, so that
those of two nodes are under one source address each way, and in order. `SettlingInv`
says of two names x < y how far they are: y awaits what it has offered until x has
accepted and the acknowledgement has come (`HigherAwaits`); what x has accepted is all that x holds
(`LowerHolds`), as x gives up its own attempt with it; x's own offer is either still awaited, and
then y will have read x's acknowledgements before it, or given up, and then y will read it
before the acknowledgement that x sent instead and replace it by that (`LowerOffers`); what y has accepted of an
attempt that x still awaits is all that y holds, and x has accepted nothing since (`LowerAccepted`); and
when neither kind of acknowledgement is under way they hold the same (`Agreed`). None of the five is
kept without the others. Steps that carry an id on keep which of two arrives first (`Ahead`;
`DeliverCalm`, `RoutePacketCalm`, and `MovesKeepHome` for where it goes); a step that offers,
accepts or confirms is a case of `NextKeepsAgreement`; every other leaves ids and sessions as they
are (`UntouchedCalm`). In a quiet network no id is under way (`QuietTokens`), so `Agreed` has its
premises and `QuietAgrees` follows. The theorem's suppositions are all needed. `Orderly` has four parts: names are
unique (`add` does not see to that), a pending handshake is direct and addressed to its
recipient (a traversed one can be overtaken, one to a wrong address is answered
by nobody and pends for ever), packets of one sender to one recipient arrive in order (the Reordered run has
them not), and a node does not offer another a second session while the first offer or its
acknowledgement is under way (a second bootstrap; node.rs:637 then drops the new attempt). They are
invariants of Pair and Quad. A reload or a deletion leaves one end without what the other holds.

**Finishing.** Nothing times a handshake out, so each must be answered. `FinishInv` adds to
`AgreementInv` why it is. What a node awaits is under way, as an offer or as its acknowledgement
(`AwaitedUnderWay`), and a node that offers itself a session awaits what is under way (`SelfAwaits`).
What a node has accepted and whose ping is not answered yet has one of three futures
(`UnansweredUnderWay`, `ToAnswer`): its acknowledgement is on its way to a node that still awaits
it and will send the first packet back; that packet is on its way; or an offer of its own has
been accepted by the other, and what it awaits so will replace the session. The third is the
case of crossed offers: there an acknowledgement may reach a node that has given up
(node.rs:659), and the session it was for would never be answered. That the packet
back is taken as the answer needs `BegunInv` (it goes straight to where the accepting node is, and is parsed
before anything else that came with it) and `UnansweredIndexed` (that node knows the session by the packet's
id; if it does not any more, the session was replaced and nobody waits). `ParseHandshakeAnswers` and the lemmas
after it, one per handler, show which of these an id passes to (`Answering`); `NextKeepsFinish` puts them together.
In a quiet network nothing is under way, so nothing is awaited and nothing unanswered (`QuietFinishes`).

**Peer flags.** A session's flag and the peer list are kept apart in the code. `FlagInv`
says that a flagged session is of a listed peer at every address (`FlaggedListed`), and that
what sessions are made of, the type pending and that of `rx`, has no flag. New
sessions then have none (`ParseFlagsNone`), handlers only set the other flag
(`HandleFlagsNone`), commands clear or keep both together (`CommandKeepsFlags`), and
CalculatePeers writes list and flags of all that it comes to. What it does not come to is
flagged wrongly if it was flagged: hence the supposition `PeersVisited`, which a network
may fail in just two ways (node.rs:336 and node.rs:417), as Crossing does.
Where every tested session is direct and no two distances are equal, as in Quad, it holds at
once, so no run has it as a property. The theorem is about flags that are set; a listed peer may
well have no flag, if it was tested again, and the early end of the loop costs more than flags (Unpublished).

**Routing.** The invariant is that a moving packet's node is a nearest peer, towards the
end, of the one it came from. If lists are mutual, that one is a peer of the
packet's node, so a next hop other than back is strictly nearer to the end than it
was. For `HopBound`, `Rank(n)` counts the nodes nearer to the end; the ranks of the
packet's node and the last fall with the hops, and cannot fall below zero. When the
packet has arrived its last sender is a peer, so the recipient has one.

**Sample.** The walk of the sample and the packet choose by the same rule, but the walk may
turn back, and neither knows of the other. `SampleInv` says that the walk went
along some way `p`, at each step to a nearest peer with a direct session (`Came`), that
`s[i]` is what it had measured after `i` steps (`Adds`), and that the packet, which starts when
the walk is over, is at `p[hops]` and has travelled `s[hops]` as long as the walk went on
(`Follows`). `Distinct` makes the nearest
peer unique, so the two can only part where the packet is stopped: at a peer with a session
through the network, where the walk has panicked, or at a node whose nearest peer
is the one it came from. There the walk goes to and fro between the same two nodes for
ever (`SameEnds`) and does not arrive. So both arrive together and have added up the same
distances, and the test for a sum of 0 decides alike of both. Nothing is supposed of the
distances measured, which may be 0, and no mutuality is needed.

The assumptions used are `NoneAssumption` and `ArrivedAssumption` (Rust's None is no
value of the types it is joined to: a packet, a session, a pending one), `NodeIDAssumption` (finite sets of numbers),
`NodeConstants`, `NetSimConstants`, `TunnelAssumption` (None is no tunnel),
`GreedyConstants`, which no proof needs more of than that measured distances are natural
numbers (`DistancesAreMeasured` says which the code can produce), and `CountsSample` (the hops counted of a packet are not fewer than those of a
sample, a bound of the model).

Only model-checked are these, for these reasons.

- `Orderly` depends on when the commands of a scenario come and on `MaxJitter`; it is what
  `TunnelsAgree` and `HandshakesDone` suppose, and Pair and Quad show that ordinary networks have it.
- `TestComparesWays` depends on the positions and the commands of its scenario: it needs a
  `test` that waits for long enough.
- `CoordNeverForgotten` depends on which messages can overtake each other, as no handler
  prefers a coordinate to none; and a network made anew has none (`gen` in Pair).
- `Settles`, `GenJoins`, `BootstrapJoins`, `Introduced`, `RetryConnects` and `TraverseConnects` are liveness:
  fairness and ENABLED are outside what the prover does. `HandshakesDone` says that a network which
  has come to rest has finished its handshakes; that it comes to rest is `Settles`.

No module declares a RECURSIVE operator.

## 5. Not modelled

Printing, listing, plotting and the CSV files of `test` only show or write what the
state is. The MDS computation is commented out. No code constructs a
`SessionType::Routed`, `NodeEncryption::Request`, `ProposeRouteCoords`, `RandomNodeRequest`,
`ExchangeInformation`, `RequestPeers` or a condition other than
`RemoteRouteCoord`, so their branches are unreachable. A file loaded is one of the
current network, not an older one, and collisions of 32-bit session ids do not occur.

## 6. Plan

Done, in this order of importance: handshake, action list, self-organisation,
routing, network, commands; types and table invariants proved; greedy routing over
any peer lists; `net clear`, `net gen` and `test`; the abstract internet and the
abstract handshake with their refinements, both proved; `SessionPairing`,
`AddressCorrect` (nothing deleted), `TunnelAgreement` and `HandshakesFinish` (in an orderly network), `OutgoingIsPeer`
(given `PeersVisited`) and `SampleHonest` proved.

Next:

1. Peer flags when tested nodes are at one distance or behind the network: an abstract
   statement of what CalculatePeers repairs, and when.
2. `Lease`: addresses under `add` and `del`, and which sequences of commands keep nodes.
3. Loading an older file: a network whose clocks and sessions go back in time.
