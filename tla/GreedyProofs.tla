---------------------------- MODULE GreedyProofs ----------------------------
(***************************************************************************)
(* Progress of greedy routing, for every set of nodes, every position and   *)
(* every choice of peers: what Greedy's runs check for four nodes.          *)
(***************************************************************************)
EXTENDS Greedy, FiniteSetTheorems, TLAPS

(* How many nodes are nearer to the end than node n.                        *)
Nearer(n) == {k \in NodeID : ToEnd(k) < ToEnd(n)}
Rank(n)   == Cardinality(Nearer(n))

(* What a list says of a remote's coordinate is true.                       *)
Truthful ==
  /\ peer_list \in [NodeID -> [NodeID -> MaybeCoord]]
  /\ \A m, n \in NodeID : peer_list[m][n] \in {None, Position[n]}

Travels ==
  /\ {start, end, at, from} \subseteq NodeID
  /\ hops \in Nat /\ travelled \in Nat
  /\ dist \in [NodeID \X NodeID -> Nat]
  /\ packet = "unsent" =>
       at = start /\ from = start /\ hops = 0 /\ travelled = 0
  /\ packet = "moving" => peer_list[from][at] # None

(* The two last nodes a packet was at are ranked lower with every hop.      *)
RanksFall ==
  Mutual /\ Distinct =>
    hops + Rank(at) + Rank(from) < 2 * Cardinality(NodeID)

IInv == Truthful /\ Travels /\ NotLostAtEnd /\ RanksFall

(* How many hops the sample has made, and what it and the packet then know. *)
Walked == TIMEOUT - timeout
Sampled ==
  /\ current_node \in NodeID /\ timeout \in 0 .. TIMEOUT
  /\ routed_times_sum \in Nat
  /\ sample \in {"walking", "panicked"} => packet = "unsent"
  /\ sample \in {"walking", "panicked", "kept", "skipped"}
  /\ sample \in {"kept", "skipped"} =>
       /\ current_node = end \/ timeout = 0
       /\ sample = "kept" <=> timeout > 0 /\ routed_times_sum # 0

(* The sample has come along p, over direct sessions, and if it turned back *)
(* then to go to and fro between the same two nodes.                        *)
Came(p) ==
  /\ p \in [0 .. TIMEOUT -> NodeID]
  /\ p[0] = start /\ p[Walked] = current_node
  /\ \A i \in 0 .. Walked - 1 :
       /\ p[i] # end /\ p[i + 1] \in Closest(p[i])
       /\ <<p[i], p[i + 1]>> \notin traversed
  /\ \A i, j \in 0 .. Walked :
       i <= j /\ i + 2 <= Walked /\ p[i + 2] = p[i] => p[j] \in {p[i], p[i + 1]}

(* What s adds up are the distances of its hops.                            *)
Adds(p, s) ==
  /\ s \in [0 .. TIMEOUT -> Nat]
  /\ s[0] = 0 /\ s[Walked] = routed_times_sum
  /\ \A i \in 0 .. Walked - 1 : s[i + 1] = s[i] + dist[<<p[i], p[i + 1]>>]

(* The packet is on the same way, as far as the sample went.                *)
Follows(p, s) ==
  /\ hops < TIMEOUT /\ hops <= Walked =>
       /\ at = p[hops] /\ travelled = s[hops]
       /\ hops > 0 => from = p[hops - 1]
  /\ current_node = end /\ timeout > 0 => hops <= Walked
Ends ==
  /\ packet = "moving" => hops > 0
  /\ packet = "delivered" => at = end
  /\ packet = "dropped" /\ at # end =>
       \/ Closest(at) = {}
       \/ hops > 0 /\ from \in Closest(at)
       \/ \E n \in Closest(at) : <<at, n>> \in traversed

SameWay ==
  Distinct /\ start # end =>
    \E p \in [0 .. TIMEOUT -> NodeID], s \in [0 .. TIMEOUT -> Nat] :
      Came(p) /\ Adds(p, s) /\ Follows(p, s)
SampleInv == IInv /\ Sampled /\ Ends /\ SameWay

-----------------------------------------------------------------------------
(* Distances are integers, and a position is no None.                       *)
LEMMA DistancesAreIntegers ==
  ASSUME NEW m \in NodeID, end \in NodeID
  PROVE  ToEnd(m) \in Int /\ Position[m] # None /\ Position[m] \in Coord
<1>1. Position[m] \in Int \X Int /\ Position[end] \in Int \X Int
  BY GreedyConstants DEF Coord
<1>2. Position[m] # None
  BY <1>1, NoneAssumption DEF Coord
<1>3. QED
  BY <1>1, <1>2 DEF ToEnd, SqDist, Coord

(* A rank is a natural number below the number of nodes.                    *)
LEMMA RankBounded ==
  ASSUME NEW m \in NodeID, end \in NodeID
  PROVE  /\ Rank(m) \in Nat /\ Rank(m) < Cardinality(NodeID)
         /\ Cardinality(NodeID) \in Nat /\ IsFiniteSet(Nearer(m))
<1>1. IsFiniteSet(NodeID) /\ Nearer(m) \in SUBSET NodeID
  BY NodeIDAssumption DEF Nearer
<1>2. m \notin Nearer(m)
  BY DistancesAreIntegers DEF Nearer
<1>3. Cardinality(NodeID) \in Nat
  BY <1>1, FS_CardinalityType
<1>4. /\ IsFiniteSet(Nearer(m))
      /\ Cardinality(Nearer(m)) <= Cardinality(NodeID)
      /\ Cardinality(NodeID) = Cardinality(Nearer(m)) => NodeID = Nearer(m)
  BY <1>1, FS_Subset
<1>5. Cardinality(Nearer(m)) \in Nat
  BY <1>4, FS_CardinalityType
<1>6. QED
  BY <1>2, <1>3, <1>4, <1>5 DEF Rank

(* A node that is nearer has a lower rank.                                  *)
LEMMA NearerRanksLower ==
  ASSUME NEW m \in NodeID, NEW n \in NodeID, end \in NodeID,
         ToEnd(m) < ToEnd(n)
  PROVE  Rank(m) < Rank(n)
<1>1. \A k \in NodeID : ToEnd(k) \in Int
  BY DistancesAreIntegers
<1>2. Nearer(m) \in SUBSET Nearer(n) /\ m \in Nearer(n) /\ m \notin Nearer(m)
  BY <1>1 DEF Nearer
<1>3. /\ IsFiniteSet(Nearer(n)) /\ Rank(m) \in Nat /\ Rank(n) \in Nat
  BY RankBounded
<1>4. /\ Cardinality(Nearer(m)) <= Cardinality(Nearer(n))
      /\ Cardinality(Nearer(n)) = Cardinality(Nearer(m))
           => Nearer(n) = Nearer(m)
  BY <1>2, <1>3, FS_Subset
<1>5. QED
  BY <1>2, <1>3, <1>4 DEF Rank

(* find_closest_peer returns a peer, and none is nearer.                    *)
LEMMA ClosestIsNearest ==
  ASSUME Truthful, end \in NodeID,
         NEW a \in NodeID, NEW n \in Closest(a)
  PROVE  /\ n \in NodeID /\ peer_list[a][n] # None
         /\ \A k \in NodeID : peer_list[a][k] # None => ToEnd(n) <= ToEnd(k)
BY DEF Closest, ClosestPeers, Truthful, ToEnd

(* From a node reached from one that it lists, the next is strictly nearer  *)
(* than that one, unless it is that one.                                    *)
LEMMA OnwardIsNearer ==
  ASSUME Truthful, Travels, Mutual, Distinct, packet = "moving",
         NEW n \in Closest(at), n # from
  PROVE  n \in NodeID /\ ToEnd(n) < ToEnd(from)
<1>1. {at, from, end} \subseteq NodeID /\ peer_list[at][from] # None
  BY DEF Travels, Mutual
<1>2. n \in NodeID /\ ToEnd(n) <= ToEnd(from)
  BY <1>1, ClosestIsNearest
<1>3. ToEnd(n) # ToEnd(from) /\ ToEnd(n) \in Int /\ ToEnd(from) \in Int
  BY <1>1, <1>2, DistancesAreIntegers DEF Distinct
<1>4. QED
  BY <1>2, <1>3

-----------------------------------------------------------------------------
(* The lists and the two ends never change.                                 *)
LEMMA FixedUnchanged ==
  ASSUME UNCHANGED netVars
  PROVE  /\ Truthful' <=> Truthful
         /\ Mutual' <=> Mutual
         /\ Distinct' <=> Distinct
         /\ \A n \in NodeID : Rank(n)' = Rank(n) /\ Closest(n)' = Closest(n)
         /\ dist' = dist /\ traversed' = traversed
<1>1. /\ peer_list' = peer_list /\ start' = start /\ end' = end
      /\ dist' = dist /\ traversed' = traversed
  BY DEF netVars
<1>2. QED
  BY <1>1 DEF Truthful, Mutual, Distinct, Rank, Nearer, ToEnd, Closest

LEMMA InitIInv == Init => IInv
<1> SUFFICES ASSUME Init PROVE IInv
  OBVIOUS
<1>1. PICK chosen \in [NodeID -> SUBSET NodeID] :
        peer_list = [n \in NodeID |-> ListOf(chosen[n])]
  BY DEF Init
<1>2. Truthful
  <2>1. \A m \in NodeID : Position[m] \in Coord
    BY GreedyConstants
  <2>2. \A n \in NodeID :
          peer_list[n] = [m \in NodeID |-> IF m \in chosen[n]
                                             THEN Position[m] ELSE None]
    BY <1>1 DEF ListOf
  <2>3. peer_list = [n \in NodeID |-> peer_list[n]]
    BY <1>1
  <2>4. \A n \in NodeID : peer_list[n] \in [NodeID -> MaybeCoord]
    BY <2>1, <2>2 DEF MaybeCoord
  <2>5. QED
    BY <2>2, <2>3, <2>4 DEF Truthful
<1>3. Travels
  BY GreedyConstants DEF Init, Travels
<1>4. NotLostAtEnd
  BY DEF Init, NotLostAtEnd
<1>5. RanksFall
  <2>1. at \in NodeID /\ from = at /\ end \in NodeID /\ hops = 0
    BY DEF Init
  <2>2. QED
    BY <2>1, RankBounded DEF RanksFall
<1>6. QED
  BY <1>2, <1>3, <1>4, <1>5 DEF IInv

(* A hop from a node to one of those it takes as nearest.                   *)
LEMMA MoveKeepsIInv ==
  ASSUME IInv, NEW n \in Closest(at), MoveTo(n), UNCHANGED netVars,
         \/ packet = "unsent"
         \/ packet = "moving" /\ n # from
  PROVE  IInv'
<1>1. Truthful /\ Travels /\ NotLostAtEnd /\ RanksFall
  BY DEF IInv
<1>2. /\ {at, from, end, start} \subseteq NodeID /\ hops \in Nat
      /\ travelled \in Nat /\ dist \in [NodeID \X NodeID -> Nat]
  BY <1>1 DEF Travels
<1>3. n \in NodeID /\ peer_list[at][n] # None
  BY <1>1, <1>2, ClosestIsNearest
<1>4. /\ packet' = "moving" /\ from' = at /\ at' = n
      /\ peer_list' = peer_list /\ start' = start /\ end' = end
      /\ hops' \in Nat /\ hops' <= hops + 1
      /\ travelled' \in Nat /\ dist' = dist
  <2>1. <<at, n>> \in NodeID \X NodeID
    BY <1>2, <1>3
  <2>2. dist[<<at, n>>] \in Nat
    BY <1>2, <2>1
  <2>3. travelled' \in Nat
    BY <1>2, <2>2 DEF MoveTo
  <2>4. QED
    BY <1>2, <2>3, GreedyConstants DEF MoveTo, netVars
<1>5. Truthful'
  BY <1>1, FixedUnchanged
<1>6. Travels'
  BY <1>2, <1>3, <1>4 DEF Travels
<1>7. NotLostAtEnd'
  BY <1>4 DEF NotLostAtEnd
<1>8. RanksFall'
  <2> SUFFICES ASSUME Mutual', Distinct'
               PROVE  hops' + Rank(at)' + Rank(from)' < 2 * Cardinality(NodeID)
    BY DEF RanksFall
  <2>1. Mutual /\ Distinct
    BY FixedUnchanged
  <2>2. Rank(at)' = Rank(n) /\ Rank(from)' = Rank(at)
    BY <1>2, <1>3, <1>4 DEF Rank, Nearer, ToEnd
  <2>3. /\ Rank(n) \in Nat /\ Rank(at) \in Nat /\ Rank(from) \in Nat
        /\ Rank(n) < Cardinality(NodeID) /\ Rank(at) < Cardinality(NodeID)
        /\ Cardinality(NodeID) \in Nat
    BY <1>2, <1>3, RankBounded
  <2>4. CASE packet = "unsent"
    <3>1. hops = 0
      BY <2>4, <1>1 DEF Travels
    <3>2. QED
      BY <3>1, <1>4, <2>2, <2>3
  <2>5. CASE packet = "moving" /\ n # from
    <3>1. ToEnd(n) < ToEnd(from)
      BY <2>5, <1>1, <2>1, OnwardIsNearer
    <3>2. Rank(n) < Rank(from)
      BY <3>1, <1>2, <1>3, NearerRanksLower
    <3>3. hops + Rank(at) + Rank(from) < 2 * Cardinality(NodeID)
      BY <1>1, <2>1 DEF RanksFall
    <3>4. QED
      BY <3>2, <3>3, <1>2, <1>4, <2>2, <2>3
  <2>6. QED
    BY <2>4, <2>5
<1>9. QED
  BY <1>5, <1>6, <1>7, <1>8 DEF IInv

(* A step on which the packet stays where it is keeps all but, perhaps,     *)
(* NotLostAtEnd.                                                            *)
LEMMA StayKeepsRest ==
  ASSUME IInv, UNCHANGED <<netVars, at, from, hops, travelled>>,
         \/ packet' = packet
         \/ packet' \in {"delivered", "dropped"}
  PROVE  Truthful' /\ Travels' /\ RanksFall'
<1>1. Truthful /\ Travels /\ RanksFall
  BY DEF IInv
<1>2. /\ at' = at /\ from' = from /\ hops' = hops
      /\ travelled' = travelled /\ dist' = dist
      /\ peer_list' = peer_list /\ start' = start /\ end' = end
  BY DEF netVars
<1>3. Truthful'
  BY <1>1, <1>2 DEF Truthful
<1>4. Travels'
  BY <1>1, <1>2 DEF Travels
<1>5. RanksFall'
  BY <1>1, <1>2 DEF RanksFall, Mutual, Distinct, Rank, Nearer, ToEnd
<1>6. QED
  BY <1>3, <1>4, <1>5

LEMMA NextKeepsIInv == IInv /\ [Next]_vars => IInv'
<1> SUFFICES ASSUME IInv, [Next]_vars PROVE IInv'
  OBVIOUS
<1>1. Truthful /\ Travels /\ NotLostAtEnd /\ RanksFall
  BY DEF IInv
<1>2. CASE UNCHANGED vars \/ Walk \/ WalkEnds \/ Stop
  <2>1. UNCHANGED <<netVars, at, from, hops, travelled>> /\ packet' = packet
    BY <1>2 DEF vars, packVars, Walk, WalkEnds, Stop
  <2>2. NotLostAtEnd'
    BY <1>1, <2>1 DEF NotLostAtEnd, Mutual, netVars
  <2>3. QED
    BY <2>1, <2>2, StayKeepsRest DEF IInv
<1>3. CASE Send
  <2>1. CASE Drop
    <3>1. /\ UNCHANGED <<netVars, at, from, hops, travelled>>
          /\ packet' = "dropped"
      BY <1>3, <2>1 DEF Send, Drop
    <3>2. at = start
      BY <1>1, <1>3 DEF Travels, Send
    <3>3. NotLostAtEnd'
      BY <3>1, <3>2 DEF NotLostAtEnd, netVars
    <3>4. QED
      BY <3>1, <3>3, StayKeepsRest DEF IInv
  <2>2. CASE \E n \in Closest(at) : MoveTo(n)
    BY <2>2, <1>3, MoveKeepsIInv DEF Send
  <2>3. QED
    BY <1>3, <2>1, <2>2 DEF Send
<1>4. CASE Arrive
  <2>1. /\ UNCHANGED <<netVars, at, from, hops, travelled>>
        /\ packet' \in {"delivered", "dropped"}
        /\ packet' = "dropped" => ~Accepted(at)
    BY <1>4 DEF Arrive
  <2>2. Mutual => Accepted(at)
    BY <1>1, <1>4 DEF Arrive, Travels, Mutual, Accepted
  <2>3. NotLostAtEnd'
    BY <2>1, <2>2 DEF NotLostAtEnd, Mutual, netVars
  <2>4. QED
    BY <2>1, <2>3, StayKeepsRest DEF IInv
<1>5. CASE Forward
  <2>1. CASE Drop
    <3>1. /\ UNCHANGED <<netVars, at, from, hops, travelled>>
          /\ packet' = "dropped"
      BY <1>5, <2>1 DEF Forward, Drop
    <3>2. NotLostAtEnd'
      BY <1>5, <3>1 DEF NotLostAtEnd, Forward, netVars
    <3>3. QED
      BY <3>1, <3>2, StayKeepsRest DEF IInv
  <2>2. CASE \E n \in Closest(at) : ~Back(n) /\ MoveTo(n)
    <3>1. PICK n \in Closest(at) : n # from /\ MoveTo(n)
      BY <2>2 DEF Back
    <3>2. QED
      BY <3>1, <1>5, MoveKeepsIInv DEF Forward
  <2>3. QED
    BY <1>5, <2>1, <2>2 DEF Forward
<1>6. QED
  BY <1>2, <1>3, <1>4, <1>5 DEF Next

-----------------------------------------------------------------------------
(* The sample and the packet                                                *)

(* With no two nodes equally far from the end there is one nearest peer.    *)
LEMMA ClosestIsUnique ==
  ASSUME Truthful, Distinct, end \in NodeID,
         NEW a \in NodeID, NEW m \in Closest(a), NEW n \in Closest(a)
  PROVE  m = n
<1>1. /\ m \in NodeID /\ n \in NodeID
      /\ ToEnd(m) <= ToEnd(n) /\ ToEnd(n) <= ToEnd(m)
  BY ClosestIsNearest
<1>2. ToEnd(m) \in Int /\ ToEnd(n) \in Int
  BY <1>1, DistancesAreIntegers
<1>3. QED
  BY <1>1, <1>2 DEF Distinct

(* At first the sample is at its start, and so is the packet.               *)
LEMMA InitSample == Init => SampleInv
<1> SUFFICES ASSUME Init PROVE SampleInv
  OBVIOUS
<1>1. /\ sample = "walking" /\ current_node = start /\ timeout = TIMEOUT
      /\ routed_times_sum = 0 /\ packet = "unsent"
      /\ hops = 0 /\ travelled = 0
      /\ at = start /\ start \in NodeID
      /\ TIMEOUT \in Nat \ {0} /\ Walked = 0
  BY GreedyConstants DEF Init, Walked
<1>2. Sampled /\ Ends
  BY <1>1 DEF Sampled, Ends
<1>3. ASSUME start # end
      PROVE  \E p \in [0 .. TIMEOUT -> NodeID], s \in [0 .. TIMEOUT -> Nat] :
               Came(p) /\ Adds(p, s) /\ Follows(p, s)
  <2> DEFINE p == [i \in 0 .. TIMEOUT |-> start]
             s == [i \in 0 .. TIMEOUT |-> 0]
  <2>1. /\ p \in [0 .. TIMEOUT -> NodeID] /\ p[0] = start
        /\ s \in [0 .. TIMEOUT -> Nat] /\ s[0] = 0
    BY <1>1
  <2> HIDE DEF p, s
  <2>2. Came(p) /\ Adds(p, s)
    BY <1>1, <2>1 DEF Came, Adds
  <2>3. Follows(p, s)
    BY <1>1, <2>1, <1>3 DEF Follows
  <2>4. QED
    BY <2>1, <2>2, <2>3
<1>4. QED
  BY <1>2, <1>3, InitIInv DEF SampleInv, SameWay

(* One more hop of the sample makes its way one longer.                     *)
LEMMA WalkLengthens ==
  ASSUME SampleInv, Distinct, start # end, sample = "walking",
         current_node # end, timeout > 0,
         NEW p \in [0 .. TIMEOUT -> NodeID],
         NEW s \in [0 .. TIMEOUT -> Nat],
         Came(p), Adds(p, s), Follows(p, s),
         NEW next \in Closest(current_node),
         <<current_node, next>> \notin traversed,
         current_node' = next, timeout' = timeout - 1,
         routed_times_sum' = routed_times_sum + dist[<<current_node, next>>],
         routed_times_sum' \in Nat,
         UNCHANGED <<netVars, packVars>>
  PROVE  \E q \in [0 .. TIMEOUT -> NodeID], r \in [0 .. TIMEOUT -> Nat] :
           Came(q)' /\ Adds(q, r)' /\ Follows(q, r)'
<1> DEFINE K == Walked
<1>1. /\ Truthful /\ end \in NodeID /\ current_node \in NodeID
      /\ timeout \in 0 .. TIMEOUT /\ TIMEOUT \in Nat /\ packet = "unsent"
  BY GreedyConstants DEF SampleInv, IInv, Travels, Sampled
<1>2. K \in Nat /\ K + 1 \in 0 .. TIMEOUT /\ Walked' = K + 1
  BY <1>1 DEF Walked
<1>3. next \in NodeID
  BY <1>1, ClosestIsNearest
<1>4. PICK q \in [0 .. TIMEOUT -> NodeID] :
        /\ \A i \in 0 .. K : q[i] = p[i]
        /\ q[K + 1] = next
  <2> DEFINE longer == [p EXCEPT ![K + 1] = next]
  <2>1. longer \in [0 .. TIMEOUT -> NodeID] /\ longer[K + 1] = next
    BY <1>2, <1>3
  <2>2. \A i \in 0 .. K : longer[i] = p[i]
    BY <1>2
  <2>3. QED
    BY <2>1, <2>2
<1>5. /\ peer_list' = peer_list /\ start' = start /\ end' = end
      /\ dist' = dist /\ traversed' = traversed
      /\ packet' = packet /\ at' = at /\ from' = from /\ hops' = hops
      /\ travelled' = travelled
  BY DEF netVars, packVars
<1>6. /\ p[0] = start /\ p[K] = current_node
      /\ \A i \in 0 .. K - 1 :
           /\ p[i] # end /\ p[i + 1] \in Closest(p[i])
           /\ <<p[i], p[i + 1]>> \notin traversed
      /\ \A i, j \in 0 .. K :
           i <= j /\ i + 2 <= K /\ p[i + 2] = p[i] => p[j] \in {p[i], p[i + 1]}
  BY DEF Came
<1>7. /\ s[0] = 0 /\ s[K] = routed_times_sum
       /\ \A i \in 0 .. K - 1 : s[i + 1] = s[i] + dist[<<p[i], p[i + 1]>>]
  BY DEF Adds
<1>8. \A i, j \in 0 .. K :
         i <= j /\ i + 2 <= K /\ p[i + 2] = p[i] => p[j] \in {p[i], p[i + 1]}
  BY <1>6
<1> HIDE DEF K
<1>9. PICK r \in [0 .. TIMEOUT -> Nat] :
         /\ \A i \in 0 .. K : r[i] = s[i]
         /\ r[K + 1] = routed_times_sum'
  <2> DEFINE more == [s EXCEPT ![K + 1] = routed_times_sum']
  <2>1. more \in [0 .. TIMEOUT -> Nat] /\ more[K + 1] = routed_times_sum'
    BY <1>2
  <2>2. \A i \in 0 .. K : more[i] = s[i]
    BY <1>2
  <2>3. QED
    BY <2>1, <2>2
<1>10. \A i \in 0 .. K :
        /\ q[i] # end /\ q[i + 1] \in Closest(q[i])
        /\ <<q[i], q[i + 1]>> \notin traversed
        /\ r[i + 1] = r[i] + dist[<<q[i], q[i + 1]>>]
  <2> TAKE i \in 0 .. K
  <2>1. CASE i = K
    BY <2>1, <1>2, <1>4, <1>6, <1>7, <1>9
  <2>2. CASE i # K
    <3>1. i \in 0 .. K - 1 /\ i + 1 \in 0 .. K
      BY <2>2, <1>2
    <3>2. QED
      BY <3>1, <1>4, <1>6, <1>7, <1>9
  <2>3. QED
    BY <2>1, <2>2
<1>11. \A i, j \in 0 .. K + 1 :
        i <= j /\ i + 2 <= K + 1 /\ q[i + 2] = q[i] => q[j] \in {q[i], q[i + 1]}
  <2> SUFFICES ASSUME NEW i \in 0 .. K + 1, NEW j \in 0 .. K + 1,
                      i <= j, i + 2 <= K + 1, q[i + 2] = q[i]
               PROVE  q[j] \in {q[i], q[i + 1]}
    OBVIOUS
  <2>1. i \in 0 .. K - 1 /\ i + 1 \in 0 .. K /\ i \in 0 .. K /\ K \in 0 .. K
    BY <1>2
  <2>2. CASE i + 2 = K + 1
    <3>1. j \in {i, i + 1, i + 2}
      BY <2>2, <1>2
    <3>2. QED
      BY <3>1
  <2>3. CASE i + 2 <= K
    <3>1. i + 2 \in 0 .. K /\ p[i + 2] = p[i] /\ q[i] = p[i] /\ q[i + 1] = p[i + 1]
      BY <2>1, <2>3, <1>4
    <3>2. CASE j \in 0 .. K
      <4>1. p[j] \in {p[i], p[i + 1]}
        BY <3>1, <3>2, <2>1, <2>3, <1>8
      <4>2. QED
        BY <3>1, <3>2, <4>1, <1>4
    <3>3. CASE j = K + 1
      <4>1. p[K] \in {p[i], p[i + 1]}
        BY <3>1, <2>1, <2>3, <1>6
      <4>2. /\ p[i + 1] \in Closest(p[i]) /\ p[i] \in NodeID
            /\ p[i + 1] \in NodeID
        <5>1. i \in 0 .. TIMEOUT /\ i + 1 \in 0 .. TIMEOUT
          BY <2>1, <1>1, <1>2
        <5>2. QED
          BY <2>1, <5>1, <1>6
      <4>3. i + 1 \in 0 .. K - 1 /\ (i + 1) + 1 = i + 2
        BY <2>1, <2>3, <1>2
      <4>4. p[i] \in Closest(p[i + 1])
        BY <4>3, <3>1, <1>6
      <4>5. next \in Closest(p[K]) /\ q[j] = next
        BY <1>4, <1>6, <3>3
      <4>6. CASE p[K] = p[i]
        BY <4>2, <4>5, <4>6, <1>1, <3>1, ClosestIsUnique
      <4>7. CASE p[K] = p[i + 1]
        BY <4>2, <4>4, <4>5, <4>7, <1>1, <3>1, ClosestIsUnique
      <4>8. QED
        BY <4>1, <4>6, <4>7
    <3>4. QED
      BY <3>2, <3>3, <1>2
  <2>4. QED
    BY <2>1, <2>2, <2>3, <1>2
<1>12. Came(q)'
  <2>1. \A a \in NodeID : Closest(a)' = Closest(a)
    BY <1>5 DEF Closest
  <2>2. \A i \in 0 .. K : i \in 0 .. TIMEOUT /\ q[i] \in NodeID
    BY <1>1, <1>2
  <2>3. \A i \in 0 .. Walked' - 1 :
          /\ q[i] # end' /\ q[i + 1] \in Closest(q[i])'
          /\ <<q[i], q[i + 1]>> \notin traversed'
    BY <1>2, <1>5, <1>10, <2>1, <2>2
  <2>4. q[0] = start' /\ q[Walked'] = current_node'
    BY <1>2, <1>4, <1>5, <1>6
  <2>5. \A i, j \in 0 .. Walked' :
          i <= j /\ i + 2 <= Walked' /\ q[i + 2] = q[i]
            => q[j] \in {q[i], q[i + 1]}
    BY <1>2, <1>11
  <2>6. QED
    BY <2>3, <2>4, <2>5 DEF Came
<1>13. Adds(q, r)'
  <2>1. r[0] = 0 /\ r[Walked'] = routed_times_sum'
    BY <1>2, <1>7, <1>9
  <2>2. \A i \in 0 .. Walked' - 1 :
          r[i + 1] = r[i] + dist'[<<q[i], q[i + 1]>>]
    BY <1>2, <1>5, <1>10
  <2>3. QED
    BY <2>1, <2>2 DEF Adds
<1>14. Follows(q, r)'
  <2>1. hops = 0 /\ at = start /\ travelled = 0
    BY <1>1 DEF SampleInv, IInv, Travels
  <2>2. q[0] = start /\ r[0] = 0
    BY <1>2, <1>4, <1>6, <1>7, <1>9
  <2>3. QED
    BY <2>1, <2>2, <1>2, <1>5 DEF Follows
<1>15. QED
  BY <1>4, <1>12, <1>14, <1>9, <1>13

(* A hop of the sample.                                                     *)
LEMMA WalkKeepsSample ==
  ASSUME SampleInv, Walk
  PROVE  Sampled' /\ Ends' /\ SameWay'
<1>1. /\ IInv /\ Sampled /\ Ends /\ SameWay
      /\ sample = "walking" /\ current_node # end /\ timeout > 0
      /\ UNCHANGED <<netVars, packVars>>
  BY DEF SampleInv, Walk
<1>2. /\ peer_list' = peer_list /\ start' = start /\ end' = end
      /\ dist' = dist /\ traversed' = traversed
      /\ packet' = packet /\ at' = at /\ from' = from /\ hops' = hops
      /\ travelled' = travelled
  BY <1>1 DEF netVars, packVars
<1>3. Ends'
  BY <1>1, <1>2 DEF Ends, Closest
<1>4. Distinct' <=> Distinct
  BY <1>1, FixedUnchanged
<1>5. CASE /\ sample' = "panicked"
           /\ UNCHANGED <<current_node, timeout, routed_times_sum>>
  <2>1. Sampled'
    BY <1>1, <1>2, <1>4, <1>5 DEF Sampled, Walked
  <2>2. ASSUME NEW p, NEW s, Came(p), Adds(p, s), Follows(p, s)
        PROVE  Came(p)' /\ Adds(p, s)' /\ Follows(p, s)'
    BY <2>2, <1>2, <1>5 DEF Came, Adds, Follows, Walked, Closest
  <2>3. SameWay'
    BY <1>1, <1>2, <1>4, <2>2 DEF SameWay
  <2>4. QED
    BY <1>3, <2>1, <2>3
<1>6. ASSUME NEW next \in Closest(current_node),
             <<current_node, next>> \notin traversed,
             routed_times_sum' = routed_times_sum + dist[<<current_node, next>>],
             current_node' = next, timeout' = timeout - 1, sample' = sample
      PROVE  Sampled' /\ Ends' /\ SameWay'
  <2>1. /\ current_node \in NodeID /\ end \in NodeID /\ Truthful
        /\ timeout \in 0 .. TIMEOUT /\ TIMEOUT \in Nat /\ packet = "unsent"
        /\ routed_times_sum \in Nat /\ dist \in [NodeID \X NodeID -> Nat]
    BY <1>1, GreedyConstants DEF IInv, Travels, Sampled
  <2>2. next \in NodeID
    BY <2>1, <1>6, ClosestIsNearest
  <2>3. dist[<<current_node, next>>] \in Nat
    BY <2>1, <2>2
  <2>4. timeout' \in 0 .. TIMEOUT /\ routed_times_sum' \in Nat
    BY <1>1, <1>6, <2>1, <2>3
  <2>6. Sampled'
    BY <1>1, <1>2, <1>6, <2>1, <2>2, <2>4 DEF Sampled
  <2>7. SameWay'
    <3> SUFFICES ASSUME Distinct, start # end
                 PROVE  \E q \in [0 .. TIMEOUT -> NodeID],
                           r \in [0 .. TIMEOUT -> Nat] :
                          Came(q)' /\ Adds(q, r)' /\ Follows(q, r)'
      BY <1>2, <1>4 DEF SameWay
    <3>1. PICK p \in [0 .. TIMEOUT -> NodeID], s \in [0 .. TIMEOUT -> Nat] :
            Came(p) /\ Adds(p, s) /\ Follows(p, s)
      BY <1>1 DEF SameWay
    <3>2. QED
      BY <1>1, <1>6, <2>4, <3>1, WalkLengthens
  <2>8. QED
    BY <1>3, <2>6, <2>7
<1>7. QED
  BY <1>5, <1>6 DEF Walk

(* A hop of the packet, from a node to the one it takes as nearest.         *)
LEMMA MoveFollows ==
  ASSUME SampleInv, NEW n \in Closest(at), MoveTo(n),
         UNCHANGED <<netVars, walkVars>>, sample \in {"kept", "skipped"},
         packet = "unsent" \/ at # end
  PROVE  Sampled' /\ Ends' /\ SameWay'
<1>1. IInv /\ Sampled /\ Ends /\ SameWay
  BY DEF SampleInv
<1>2. /\ peer_list' = peer_list /\ start' = start /\ end' = end
      /\ dist' = dist /\ traversed' = traversed
      /\ sample' = sample /\ current_node' = current_node
      /\ timeout' = timeout /\ routed_times_sum' = routed_times_sum
      /\ packet' = "moving" /\ from' = at /\ at' = n
  BY DEF netVars, walkVars, MoveTo
<1>3. Distinct' <=> Distinct
  BY FixedUnchanged
<1>4. Sampled'
  BY <1>1, <1>2, <1>3 DEF Sampled, Walked
<1>5. Ends'
  <2>1. hops \in Nat /\ MaxHops > 0
    BY <1>1, GreedyConstants, CountsSample DEF IInv, Travels
  <2>2. hops' > 0
    BY <2>1 DEF MoveTo
  <2>3. QED
    BY <1>2, <2>2 DEF Ends
<1>6. SameWay'
  <2> SUFFICES ASSUME Distinct, start # end
               PROVE  \E p \in [0 .. TIMEOUT -> NodeID],
                         s \in [0 .. TIMEOUT -> Nat] :
                        Came(p)' /\ Adds(p, s)' /\ Follows(p, s)'
    BY <1>2, <1>3 DEF SameWay
  <2>1. PICK p \in [0 .. TIMEOUT -> NodeID], s \in [0 .. TIMEOUT -> Nat] :
          Came(p) /\ Adds(p, s) /\ Follows(p, s)
    BY <1>1 DEF SameWay
  <2>2. Came(p)' /\ Adds(p, s)'
    BY <2>1, <1>2 DEF Came, Adds, Walked, Closest
  <2>3. /\ Truthful /\ end \in NodeID /\ at \in NodeID /\ hops \in Nat
        /\ timeout \in 0 .. TIMEOUT /\ TIMEOUT \in Nat \ {0} /\ MaxHops \in Nat
        /\ packet = "unsent" => at = start
    BY <1>1, GreedyConstants DEF IInv, Travels, Sampled
  <2>4. /\ p[Walked] = current_node
        /\ \A i \in 0 .. Walked - 1 :
             /\ p[i + 1] \in Closest(p[i])
             /\ s[i + 1] = s[i] + dist[<<p[i], p[i + 1]>>]
        /\ Walked \in 0 .. TIMEOUT /\ Walked' = Walked
    <3>1. Walked \in 0 .. TIMEOUT /\ Walked' = Walked
      BY <2>3, <1>2 DEF Walked
    <3>2. QED
      BY <2>1, <3>1 DEF Came, Adds
  <2>5. at # end
    BY <2>3
  <2>6. /\ hops' = (IF hops < MaxHops THEN hops + 1 ELSE hops)
        /\ hops < MaxHops => travelled' = travelled + dist[<<at, n>>]
    BY DEF MoveTo
  <2>7. /\ hops < TIMEOUT /\ hops <= Walked =>
             at = p[hops] /\ travelled = s[hops]
        /\ current_node = end /\ timeout > 0 => hops <= Walked
    BY <2>1 DEF Follows
  <2>8. ASSUME hops' < TIMEOUT, hops' <= Walked
        PROVE  /\ at' = p[hops'] /\ travelled' = s[hops']
               /\ hops' > 0 => from' = p[hops' - 1]
    <3>1. /\ hops' = hops + 1 /\ hops < TIMEOUT /\ hops <= Walked
          /\ hops < MaxHops
      BY <2>3, <2>4, <2>6, <2>8, CountsSample
    <3>2. hops \in 0 .. Walked - 1
      BY <3>1, <2>3, <2>4, <2>8
    <3>3. /\ p[hops + 1] \in Closest(at) /\ at = p[hops]
          /\ s[hops + 1] = s[hops] + dist[<<at, p[hops + 1]>>]
      BY <3>1, <3>2, <2>4, <2>7
    <3>4. n = p[hops + 1]
      BY <3>3, <2>3, ClosestIsUnique
    <3>5. hops' - 1 = hops
      BY <3>1, <2>3
    <3>6. travelled' = s[hops + 1]
      BY <3>1, <3>3, <3>4, <2>6, <2>7
    <3>7. QED
      BY <3>1, <3>3, <3>4, <3>5, <3>6, <1>2
  <2>9. ASSUME current_node = end, timeout > 0
        PROVE  hops' <= Walked
    <3>1. hops <= Walked /\ Walked < TIMEOUT
      BY <2>3, <2>7, <2>9 DEF Walked
    <3>2. hops # Walked
      BY <3>1, <2>3, <2>4, <2>5, <2>7, <2>9
    <3>3. QED
      BY <3>1, <3>2, <2>3, <2>4, <2>6
  <2>10. Follows(p, s)'
    BY <2>4, <2>8, <2>9, <1>2 DEF Follows
  <2>11. QED
    BY <2>1, <2>2, <2>10
<1>7. QED
  BY <1>4, <1>5, <1>6

(* A step that neither walks nor moves the packet.                          *)
LEMMA RestFollows ==
  ASSUME SampleInv, UNCHANGED <<netVars, at, from, hops, travelled,
                                current_node, timeout, routed_times_sum>>
  PROVE  SameWay'
<1>1. /\ peer_list' = peer_list /\ start' = start /\ end' = end
      /\ dist' = dist /\ traversed' = traversed
      /\ at' = at /\ from' = from /\ hops' = hops /\ travelled' = travelled
      /\ current_node' = current_node /\ timeout' = timeout
      /\ routed_times_sum' = routed_times_sum
  BY DEF netVars
<1>2. Distinct' <=> Distinct
  BY FixedUnchanged
<1>3. ASSUME NEW p, NEW s, Came(p), Adds(p, s), Follows(p, s)
      PROVE  Came(p)' /\ Adds(p, s)' /\ Follows(p, s)'
  BY <1>3, <1>1 DEF Came, Adds, Follows, Walked, Closest
<1>4. QED
  BY <1>1, <1>2, <1>3 DEF SampleInv, SameWay

LEMMA NextKeepsSample == SampleInv /\ [Next]_vars => SampleInv'
<1> SUFFICES ASSUME SampleInv, [Next]_vars
             PROVE  Sampled' /\ Ends' /\ SameWay'
  BY NextKeepsIInv DEF SampleInv
<1>1. IInv /\ Sampled /\ Ends
  BY DEF SampleInv
<1>2. CASE Walk
  BY <1>2, WalkKeepsSample
<1>3. CASE WalkEnds
  <2>1. /\ UNCHANGED <<netVars, current_node, timeout, routed_times_sum>>
        /\ packet' = packet /\ at' = at /\ from' = from /\ hops' = hops
        /\ travelled' = travelled
        /\ sample' = IF Kept(timeout, routed_times_sum) THEN "kept" ELSE "skipped"
        /\ current_node = end \/ timeout <= 0
    BY <1>3 DEF WalkEnds, packVars
  <2>2. Distinct' <=> Distinct
    BY <2>1, FixedUnchanged
  <2>3. /\ timeout \in 0 .. TIMEOUT /\ routed_times_sum \in Nat
        /\ TIMEOUT \in Nat
    BY <1>1, GreedyConstants DEF Sampled
  <2>4. /\ current_node = end \/ timeout = 0
        /\ Kept(timeout, routed_times_sum)
             <=> timeout > 0 /\ routed_times_sum # 0
    BY <2>1, <2>3 DEF Kept
  <2>5. Sampled'
    BY <1>1, <2>1, <2>2, <2>3, <2>4 DEF Sampled, Walked, netVars
  <2>6. Ends'
    BY <1>1, <2>1 DEF Ends, Closest, netVars
  <2>7. QED
    BY <2>1, <2>5, <2>6, RestFollows
<1>4. CASE UNCHANGED vars \/ Stop
  <2>1. UNCHANGED vars
    BY <1>4 DEF Stop
  <2>2. /\ UNCHANGED <<netVars, at, from, hops, travelled,
                         current_node, timeout, routed_times_sum>>
        /\ end' = end
    BY <2>1 DEF vars, walkVars, packVars, netVars
  <2>3. Distinct' <=> Distinct
    BY <2>2, FixedUnchanged
  <2>4. Sampled' /\ Ends'
    BY <1>1, <2>1, <2>3
       DEF Sampled, Ends, Walked, Closest, vars, netVars, walkVars, packVars
  <2>5. QED
    BY <2>2, <2>4, RestFollows
<1>5. ASSUME UNCHANGED <<netVars, walkVars, at, from, hops, travelled>>,
             sample \in {"kept", "skipped"},
             \/ packet' = "delivered" /\ at = end
             \/ packet' = "dropped" /\ (\/ at = end \/ Closest(at) = {}
                                        \/ hops > 0 /\ from \in Closest(at)
                                        \/ \E n \in Closest(at) : ~Reaches(n))
      PROVE  Sampled' /\ Ends' /\ SameWay'
  <2>1. /\ current_node' = current_node /\ timeout' = timeout /\ end' = end
        /\ sample' = sample /\ routed_times_sum' = routed_times_sum
        /\ peer_list' = peer_list /\ traversed' = traversed /\ at' = at
    BY <1>5 DEF walkVars, netVars
  <2>2. Distinct' <=> Distinct
    BY <1>5, FixedUnchanged
  <2>3. Sampled'
    BY <1>1, <1>5, <2>1, <2>2 DEF Sampled, Walked
  <2>4. Ends'
    BY <1>5, <2>1 DEF Ends, Closest, Reaches
  <2>5. QED
    BY <1>5, <2>1, <2>3, <2>4, RestFollows
<1>6. CASE Send
  <2>1. CASE Closest(at) = {} /\ Drop
    BY <1>5, <1>6, <2>1 DEF Send, Drop
  <2>2. CASE \E n \in Closest(at) : MoveTo(n)
    BY <1>6, <2>2, MoveFollows DEF Send
  <2>3. CASE \E n \in Closest(at) : ~Reaches(n) /\ Drop
    BY <1>5, <1>6, <2>3 DEF Send, Drop
  <2>4. QED
    BY <1>6, <2>1, <2>2, <2>3 DEF Send
<1>7. CASE Arrive
  BY <1>1, <1>5, <1>7 DEF Arrive, Sampled
<1>8. CASE Forward
  <2>1. sample \in {"kept", "skipped"} /\ at # end /\ UNCHANGED <<netVars, walkVars>>
    BY <1>1, <1>8 DEF Forward, Sampled
  <2>2. CASE Closest(at) = {} /\ Drop
    BY <1>5, <2>1, <2>2 DEF Drop
  <2>3. CASE \E n \in Closest(at) : Back(n) /\ Drop
    <3>1. hops > 0
      BY <1>1, <1>8 DEF Forward, Ends
    <3>2. QED
      BY <1>5, <2>1, <2>3, <3>1 DEF Back, Drop
  <2>4. CASE \E n \in Closest(at) : ~Reaches(n) /\ Drop
    BY <1>5, <2>1, <2>4 DEF Drop
  <2>5. CASE \E n \in Closest(at) : MoveTo(n)
    BY <2>1, <2>5, MoveFollows
  <2>6. QED
    BY <1>8, <2>2, <2>3, <2>4, <2>5 DEF Forward
<1>9. QED
  BY <1>2, <1>3, <1>4, <1>6, <1>7, <1>8 DEF Next

(* A packet that has ended short of its recipient on the way of a sample    *)
(* that arrived would have had somewhere to go.                             *)
LEMMA SameEnds ==
  ASSUME SampleInv, Distinct, start # end, packet \in {"delivered", "dropped"}
  PROVE  /\ sample = "kept" <=> at = end /\ hops < TIMEOUT /\ travelled # 0
         /\ sample = "kept" => routed_times_sum = travelled
<1>1. PICK p \in [0 .. TIMEOUT -> NodeID], s \in [0 .. TIMEOUT -> Nat] :
        Came(p) /\ Adds(p, s) /\ Follows(p, s)
  BY DEF SampleInv, SameWay
<1>2. /\ Truthful /\ end \in NodeID /\ at \in NodeID /\ hops \in Nat
      /\ timeout \in 0 .. TIMEOUT /\ TIMEOUT \in Nat /\ routed_times_sum \in Nat
      /\ sample \in {"kept", "skipped"}
  BY GreedyConstants DEF SampleInv, IInv, Travels, Sampled
<1>3. Walked \in 0 .. TIMEOUT /\ (timeout > 0 <=> Walked < TIMEOUT)
  BY <1>2 DEF Walked
<1>4. /\ p[0] = start /\ p[Walked] = current_node
      /\ s[Walked] = routed_times_sum
      /\ \A i \in 0 .. Walked - 1 :
           /\ p[i] # end /\ p[i + 1] \in Closest(p[i])
           /\ <<p[i], p[i + 1]>> \notin traversed
      /\ \A i, j \in 0 .. Walked :
           i <= j /\ i + 2 <= Walked /\ p[i + 2] = p[i]
             => p[j] \in {p[i], p[i + 1]}
  BY <1>1 DEF Came, Adds
<1>6. /\ current_node = end \/ timeout = 0
      /\ sample = "kept" <=> timeout > 0 /\ routed_times_sum # 0
  BY <1>2 DEF SampleInv, Sampled
<1>7. /\ hops < TIMEOUT /\ hops <= Walked =>
           /\ at = p[hops] /\ travelled = s[hops]
           /\ hops > 0 => from = p[hops - 1]
      /\ current_node = end /\ timeout > 0 => hops <= Walked
  BY <1>1 DEF Follows
<1>8. ASSUME timeout > 0, current_node = end
      PROVE  at = end /\ hops < TIMEOUT /\ travelled = routed_times_sum
  <2>1. hops <= Walked /\ Walked < TIMEOUT /\ hops < TIMEOUT
    BY <1>2, <1>3, <1>7, <1>8
  <2>2. ASSUME hops < Walked PROVE FALSE
    <3>1. hops \in 0 .. Walked - 1
      BY <2>2, <1>2, <1>3
    <3>2. at = p[hops] /\ at # end /\ p[hops + 1] \in Closest(at)
      BY <2>1, <3>1, <1>4, <1>7
    <3>3. hops > 0 /\ from \in Closest(at)
      <4>1. \A n \in Closest(at) : n = p[hops + 1]
        BY <3>2, <1>2, ClosestIsUnique
      <4>2. <<at, p[hops + 1]>> \notin traversed
        BY <3>1, <3>2, <1>4
      <4>3. QED
        BY <3>2, <4>1, <4>2 DEF SampleInv, Ends
    <3>4. p[hops + 1] = p[hops - 1]
      BY <2>1, <3>2, <3>3, <1>2, <1>7, ClosestIsUnique
    <3> DEFINE i == hops - 1
    <3>5. /\ i \in 0 .. Walked /\ i + 2 = hops + 1 /\ i + 1 = hops
          /\ i + 2 <= Walked /\ Walked \in 0 .. Walked /\ i <= Walked
          /\ i \in 0 .. Walked - 1
      BY <3>1, <3>3, <1>2, <1>3
    <3>6. p[Walked] \in {p[i], p[i + 1]}
      BY <3>4, <3>5, <1>4
    <3>7. p[i] # end /\ p[i + 1] # end
      BY <3>1, <3>5, <1>4
    <3>8. QED
      BY <3>6, <3>7, <1>4, <1>8
  <2>3. hops = Walked
    BY <2>1, <2>2, <1>2, <1>3
  <2>4. QED
    BY <2>1, <2>3, <1>4, <1>7, <1>8
<1>9. ASSUME at = end, hops < TIMEOUT
      PROVE  timeout > 0 /\ current_node = end
  <2>1. CASE hops <= Walked
    <3>1. p[hops] = end
      BY <2>1, <1>7, <1>9
    <3>2. hops = Walked
      <4>1. \A i \in 0 .. Walked - 1 : p[i] # end
        BY <1>4
      <4>2. hops \notin 0 .. Walked - 1
        BY <3>1, <4>1
      <4>3. QED
        BY <4>2, <2>1, <1>2, <1>3
    <3>3. QED
      BY <3>1, <3>2, <1>3, <1>4, <1>9
  <2>2. CASE Walked < hops
    BY <2>2, <1>2, <1>3, <1>6, <1>9
  <2>3. QED
    BY <2>1, <2>2, <1>2, <1>3
<1>10. QED
  BY <1>6, <1>8, <1>9

-----------------------------------------------------------------------------
(* Main results                                                             *)

LEMMA InductiveInvariant == Spec => []IInv
<1>1. Init => IInv
  BY InitIInv
<1>2. IInv /\ [Next]_vars => IInv'
  BY NextKeepsIInv
<1>3. QED
  BY <1>1, <1>2, PTL DEF Spec

(* Between mutual lists and with no two nodes equally far from the end, a   *)
(* packet makes fewer than two hops per node, however many nodes there are. *)
THEOREM HopsBounded == Spec => []HopBound
<1>1. IInv => HopBound
  <2> SUFFICES ASSUME IInv, Mutual, Distinct
               PROVE  hops < 2 * Cardinality(NodeID)
    BY DEF HopBound
  <2>1. {at, from, end} \subseteq NodeID /\ hops \in Nat
    BY DEF IInv, Travels
  <2>2. /\ Rank(at) \in Nat /\ Rank(from) \in Nat
        /\ Cardinality(NodeID) \in Nat
    BY <2>1, RankBounded
  <2>3. hops + Rank(at) + Rank(from) < 2 * Cardinality(NodeID)
    BY DEF IInv, RanksFall
  <2>4. QED
    BY <2>1, <2>2, <2>3
<1>2. QED
  BY <1>1, InductiveInvariant, PTL

(* Each hop then lands nearer to the end than the last node but one.        *)
THEOREM EveryTwoHopsNearer == Spec => TwoHopsNearer
<1> DEFINE Falls == Mutual /\ Distinct /\ packet = "moving" /\ at' # at
                      => ToEnd(at') < ToEnd(from)
<1>1. IInv /\ [Next]_vars => [Falls]_vars
  <2> SUFFICES ASSUME IInv, Next, Mutual, Distinct, packet = "moving",
                      at' # at
               PROVE  ToEnd(at') < ToEnd(from)
    OBVIOUS
  <2>1. Forward
    BY DEF Next, Walk, WalkEnds, Send, Arrive, Stop, packVars, vars
  <2>2. PICK n \in Closest(at) : n # from /\ at' = n
    BY <2>1 DEF Forward, Drop, MoveTo, Back
  <2>3. QED
    BY <2>2, OnwardIsNearer DEF IInv
<1>2. QED
  BY <1>1, InductiveInvariant, PTL DEF Spec, TwoHopsNearer

(* A packet that has reached its recipient over mutual lists is delivered.  *)
THEOREM DeliveredAtEnd == Spec => []NotLostAtEnd
<1>1. IInv => NotLostAtEnd
  BY DEF IInv
<1>2. QED
  BY <1>1, InductiveInvariant, PTL

(* What the sample command measures is the way a packet takes: with no two  *)
(* nodes equally far from the end, and whatever the lists of peers, mutual  *)
(* or not, the sessions through the network among them and the distances    *)
(* measured, a kept sample tells the distance of the way by which the       *)
(* packet arrives in fewer hops than the sample is given, and of such ways  *)
(* only those of distance 0 are left out.                                   *)
THEOREM SampleIsHonest == Spec => []SampleHonest
<1>1. SampleInv => SampleHonest
  BY SameEnds DEF SampleHonest
<1>2. QED
  BY <1>1, InitSample, NextKeepsSample, PTL DEF Spec
=============================================================================
