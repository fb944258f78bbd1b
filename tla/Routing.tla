------------------------------ MODULE Routing ------------------------------
(***************************************************************************)
(* Distances.  Greedy routing: the next node on the way to a coordinate is  *)
(* the peer nearest to it (Node::find_closest_peer of src/node.rs).         *)
(* Latencies: what a packet takes from one position to another              *)
(* (src/internet/router.rs).                                                *)
(***************************************************************************)
EXTENDS Packet

SqDist(p, q) ==
  (p[1] - q[1]) * (p[1] - q[1]) + (p[2] - q[2]) * (p[2] - q[2])

FarthestPeers(peers, to) ==                                          \* mutant
  LET P == {m \in NodeID : peers[m] # None}
  IN  {m \in P : \A k \in P : SqDist(peers[m], to) >= SqDist(peers[k], to)}
(* find_closest_peer; an iteration order of the map breaks ties.            *)
ClosestPeers(peers, to) ==
  LET P == {m \in NodeID : peers[m] # None}
  IN  {m \in P : \A k \in P : SqDist(peers[m], to) <= SqDist(peers[k], to)}

(* RouterNode::generate truncates the distance to an integer and adds an    *)
(* integer of -2 .. 1.  tick_node counts a latency down before it looks at  *)
(* it, so one below 1 works like 1.                                         *)
VARIANCE == 2
Truncated(p, q) ==    \* the one integer part of the distance from p to q
  LET sq == SqDist(p, q)
  IN  {d \in 0 .. sq : d * d <= sq /\ sq < (d + 1) * (d + 1)}
AtLeastOne(l) == IF l < 1 THEN 1 ELSE l
Latencies(d)  == {AtLeastOne(d + v) : v \in -VARIANCE .. VARIANCE - 1}
=============================================================================
