------------------------------- MODULE Greedy -------------------------------
(***************************************************************************)
(* Greedy routing over the peer lists of a network that has settled: a      *)
(* packet that travels from peer to peer (connect and Traverse of           *)
(* src/node.rs), and the shortcut that "test sample-artificial"             *)
(* (src/main.rs) takes to measure such a way without sending a packet.      *)
(*                                                                         *)
(* Node n is at address n, and its coordinate is Position[n].  The lists    *)
(* need not be mutual: a list is cut at TARGET_PEER_COUNT, a tested node is *)
(* displaced by another at the same distance, or its coordinate is unknown. *)
(* A node is listed for a direct session, but a later session with it may   *)
(* lead through the network: such a pair of nodes is in traversed.          *)
(***************************************************************************)
EXTENDS Routing

CONSTANTS
  Position,            \* the coordinate of each node
  TARGET_PEER_COUNT,   \* 10 in the code
  TIMEOUT,             \* hops after which a sample is given up: 10
  Distances,           \* what the nodes may have measured between them
  (* Bounds *)
  MaxTraversed,        \* peers with a session through the network
  MaxHops              \* hops of a packet are counted up to here

(* What a node may have measured of another (SessionTracker::               *)
(* acknowledge_ping): half of a round trip, in whole ticks.  Of the rounds  *)
(* that the two packets take, one is the same for both, as whichever node   *)
(* has its turn later reads in the round in which the other has sent.  A    *)
(* session that has not been measured says 0.                               *)
Measured(a, b) ==
  LET Lat == UNION {Latencies(d) : d \in Truncated(Position[a], Position[b])}
  IN  {0} \cup {(there + back - 1) \div 2 : there \in Lat, back \in Lat}

ASSUME GreedyConstants ==
  /\ Position \in [NodeID -> Coord]
  /\ TARGET_PEER_COUNT \in Nat \ {0}
  /\ TIMEOUT \in Nat \ {0}
  /\ {MaxTraversed, MaxHops} \subseteq Nat
  /\ Distances \subseteq [NodeID \X NodeID -> Nat]
ASSUME DistancesAreMeasured ==
  \A f \in Distances : \A a, b \in NodeID : f[<<a, b>>] \in Measured(a, b)
(* A packet's hops are counted at least as far as those of a sample.        *)
ASSUME CountsSample == MaxHops >= TIMEOUT

VARIABLES
  peer_list,          \* of each node, from remote to coordinate
  dist,               \* dist() of the session of one node with another
  traversed,          \* <<n, m>> if n has a session with its peer m that
                      \* leads through the network
  start, end,         \* of the sample and of the packet
  sample,             \* "walking", "kept", "skipped" or "panicked"
  current_node, timeout, routed_times_sum,
  packet,             \* "unsent", "moving", "delivered" or "dropped"
  at, from,           \* the node that has the packet, and who sent it there
  hops, travelled     \* of the packet, and the sum of dist over its hops

netVars  == <<peer_list, dist, traversed, start, end>>
walkVars == <<sample, current_node, timeout, routed_times_sum>>
packVars == <<packet, at, from, hops, travelled>>
vars == <<netVars, walkVars, packVars>>

PeerSets(n) ==
  {S \in SUBSET (NodeID \ {n}) : Cardinality(S) <= TARGET_PEER_COUNT}
ListOf(S) == [m \in NodeID |-> IF m \in S THEN Position[m] ELSE None]

Listed == {e \in NodeID \X NodeID : peer_list[e[1]][e[2]] # None}

(* The nodes that node n takes as the nearest to the end.                   *)
Closest(n) == ClosestPeers(peer_list[n], Position[end])

-----------------------------------------------------------------------------
(* test sample-artificial, for one pair of nodes                            *)

(* find_closest_peer(..).unwrap() ends the program at a node without peers, *)
(* and direct().unwrap() at a peer with a session through the network.      *)
Walk ==
  /\ sample = "walking"
  /\ current_node # end /\ timeout > 0
  /\ \/ /\ \/ Closest(current_node) = {}
           \/ \E next \in Closest(current_node) :
                <<current_node, next>> \in traversed
        /\ sample' = "panicked"
        /\ UNCHANGED <<current_node, timeout, routed_times_sum>>
     \/ \E next \in Closest(current_node) :
          /\ <<current_node, next>> \notin traversed
          /\ routed_times_sum' = routed_times_sum + dist[<<current_node, next>>]
          /\ current_node' = next
          /\ timeout' = timeout - 1
          /\ UNCHANGED sample
  /\ UNCHANGED <<netVars, packVars>>

KeptAnyway(left, sum) == sum # 0                                     \* mutant
(* Also given up: a sample that used its last hop to arrive.                *)
Kept(left, sum) == left > 0 /\ sum # 0

WalkEnds ==
  /\ sample = "walking"
  /\ current_node = end \/ timeout <= 0
  /\ sample' = IF Kept(timeout, routed_times_sum) THEN "kept" ELSE "skipped"
  /\ UNCHANGED <<netVars, current_node, timeout, routed_times_sum, packVars>>

-----------------------------------------------------------------------------
(* A packet to the end, sent after the sample: connect or gen_packet at the *)
(* start, parse_node_packet: Traverse at every other node.                  *)

MoveTo(n) ==
  /\ packet' = "moving"
  /\ from' = at /\ at' = n
  /\ hops' = IF hops < MaxHops THEN hops + 1 ELSE hops
  /\ travelled' = IF hops < MaxHops THEN travelled + dist[<<at, n>>]
                                    ELSE travelled
Drop == packet' = "dropped" /\ UNCHANGED <<at, from, hops, travelled>>

(* gen_packet fails if the session with the nearest peer is itself to lead  *)
(* through that peer.                                                       *)
Reaches(n) == <<at, n>> \notin traversed

Send ==
  /\ sample \in {"kept", "skipped"} /\ packet = "unsent"
  /\ \/ Closest(at) = {} /\ Drop
     \/ \E n \in Closest(at) : IF Reaches(n) THEN MoveTo(n) ELSE Drop
  /\ UNCHANGED <<netVars, walkVars>>

CheckedForReturn(n) == Closest(n) \ {from} # {}                      \* mutant
(* Even a packet for this node is dropped if it has no peer.                *)
Accepted(n) == \E m \in NodeID : peer_list[n][m] # None

Arrive ==
  /\ packet = "moving" /\ at = end
  /\ packet' = IF Accepted(at) THEN "delivered" ELSE "dropped"
  /\ UNCHANGED <<netVars, walkVars, at, from, hops, travelled>>

NeverBack(n) == FALSE                                                \* mutant
(* A packet does not go back to the node it has just come from.             *)
Back(n) == n = from

Forward ==
  /\ packet = "moving" /\ at # end
  /\ \/ Closest(at) = {} /\ Drop
     \/ \E n \in Closest(at) :
          IF Back(n) \/ ~Reaches(n) THEN Drop ELSE MoveTo(n)
  /\ UNCHANGED <<netVars, walkVars>>

(* A panic ends the program, and the packet's way ends in either manner.    *)
Stop ==
  /\ sample = "panicked" \/ packet \in {"delivered", "dropped"}
  /\ UNCHANGED vars

-----------------------------------------------------------------------------
Init ==
  /\ \E chosen \in [NodeID -> SUBSET NodeID] :
       /\ \A n \in NodeID : chosen[n] \in PeerSets(n)
       /\ peer_list = [n \in NodeID |-> ListOf(chosen[n])]
  /\ dist \in Distances
  /\ traversed \in {S \in SUBSET Listed : Cardinality(S) <= MaxTraversed}
  /\ start \in NodeID /\ end \in NodeID
  /\ sample = "walking" /\ current_node = start
  /\ timeout = TIMEOUT /\ routed_times_sum = 0
  /\ packet = "unsent" /\ at = start /\ from = start
  /\ hops = 0 /\ travelled = 0

Next == Walk \/ WalkEnds \/ Send \/ Arrive \/ Forward \/ Stop

Spec == Init /\ [][Next]_vars

-----------------------------------------------------------------------------
(* Properties *)

ToEnd(n) == SqDist(Position[n], Position[end])
Mutual ==
  \A m, n \in NodeID : peer_list[m][n] # None <=> peer_list[n][m] # None
(* No two nodes are equally far from the end.                               *)
Distinct == \A m, n \in NodeID : m # n => ToEnd(m) # ToEnd(n)

(* The sample stands for a packet: the distance that a kept sample tells is *)
(* that of the way which a packet takes from one node to the other, in      *)
(* fewer than TIMEOUT hops and not turned back or dropped on it; and no     *)
(* such way is left out, but for those that were measured to take no time   *)
(* (test sample-artificial).                                                *)
SampleHonest ==
  /\ Distinct /\ start # end
  /\ packet \in {"delivered", "dropped"}
  => /\ sample = "kept" <=> at = end /\ hops < TIMEOUT /\ travelled # 0
     /\ sample = "kept" => routed_times_sum = travelled

(* Between nodes that list each other a packet gets ahead in every two      *)
(* hops: the next node is strictly nearer to the end than the last one, so  *)
(* that the check for the last sender (Traverse) is enough against circles. *)
TwoHopsNearer ==
  [][Mutual /\ Distinct /\ packet = "moving" /\ at' # at
       => ToEnd(at') < ToEnd(from)]_vars

(* So it stops after at most two hops per node.  Lists that are not mutual  *)
(* can send it round for ever: a Traverse packet carries no hop count.      *)
HopBound == Mutual /\ Distinct => hops < 2 * Cardinality(NodeID)

(* And when it reaches its recipient it is not dropped there for want of a  *)
(* peer, a check (find_closest_peer(..)? in Traverse) which comes before    *)
(* the one whether the packet is for this node.                             *)
NotLostAtEnd == Mutual /\ at = end /\ start # end => packet # "dropped"
=============================================================================
