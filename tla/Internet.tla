------------------------------ MODULE Internet ------------------------------
(***************************************************************************)
(* What the simulated internet (src/internet/) promises the nodes, without  *)
(* latencies, ticks or turns.  A packet is carried once, to the address it  *)
(* names, under its sender's true address; packets may overtake each other, *)
(* and those on their way are lost when the network is loaded, cleared or   *)
(* generated.  A request is answered out of one table of coordinates, as it *)
(* stands when the request is carried.  NetSim implements this: see         *)
(* Properties!InternetPromise.                                              *)
(***************************************************************************)
EXTENDS Packet

VARIABLES
  outbox,   \* packets that the node at each address has asked to send
  wire,     \* packets on their way to each address
  inbox,    \* the packet handed to it that it has not parsed yet, or None
  dht       \* the coordinate recorded for each NodeID, or None

vars == <<outbox, wire, inbox, dht>>

Init ==
  /\ outbox = [n \in NetAddr |-> <<>>]
  /\ wire = [n \in NetAddr |-> <<>>]
  /\ inbox = [n \in NetAddr |-> None]
  /\ dht = [m \in NodeID |-> None]

(* A node takes what it was handed, or not yet, and asks for more to be sent *)
(* after what it has asked for.                                             *)
Act(n) ==
  /\ \A k \in NetAddr \ {n} : outbox'[k] = outbox[k] /\ inbox'[k] = inbox[k]
  /\ inbox'[n] \in {inbox[n], None}
  /\ Len(outbox[n]) <= Len(outbox'[n])
  /\ \A i \in 1 .. Len(outbox[n]) : outbox'[n][i] = outbox[n][i]
  /\ UNCHANGED <<wire, dht>>

(* One packet or request of a node is carried, in the order it asked.       *)
Put(n, request, encryption, dest) ==
  wire' = [wire EXCEPT ![dest] =
             Append(@, [src_addr |-> n, request |-> request,
                        encryption |-> encryption])]
Carry(n) ==
  /\ outbox[n] # <<>>
  /\ outbox' = [outbox EXCEPT ![n] = Tail(@)]
  /\ LET p == Head(outbox[n])
     IN  \/ /\ p.request = None
            /\ Put(n, None, p.encryption, p.dest_addr)
            /\ UNCHANGED dht
         \/ /\ p.request # None /\ p.request.type = "RouteCoordDHTRead"
            /\ Put(n, [type |-> "RouteCoordDHTReadResponse",
                       id |-> p.request.id, coord |-> dht[p.request.id]],
                   None, n)
            /\ UNCHANGED dht
         \/ /\ p.request # None /\ p.request.type = "RouteCoordDHTWrite"
            /\ Put(n, [type |-> "RouteCoordDHTWriteResponse"], None, n)
            /\ dht' = [dht EXCEPT ![p.request.id] = p.request.coord]
  /\ UNCHANGED inbox

(* Any packet on its way may be the next to arrive, once.                   *)
Receive(n) ==
  /\ inbox[n] = None
  /\ \E i \in 1 .. Len(wire[n]) :
       /\ inbox' = [inbox EXCEPT ![n] = wire[n][i]]
       /\ wire' = [wire EXCEPT ![n] =
            SubSeq(@, 1, i - 1) \o SubSeq(@, i + 1, Len(@))]
  /\ UNCHANGED <<outbox, dht>>

(* Everything on its way is lost, and where the network starts afresh, so   *)
(* are the coordinates recorded.                                            *)
Lose ==
  /\ wire' = [n \in NetAddr |-> <<>>]
  /\ dht' \in {dht, [m \in NodeID |-> None]}
  /\ UNCHANGED <<outbox, inbox>>

Next ==
  \/ \E n \in NetAddr : Act(n) \/ Carry(n) \/ Receive(n)
  \/ Lose

Spec == Init /\ [][Next]_vars
=============================================================================
