------------------------------- MODULE Tunnel -------------------------------
(***************************************************************************)
(* What the handshakes of src/node.rs promise, without packets, sessions    *)
(* tables or ticks: "When the original party receives the Acknowledge, that *)
(* tunnel may now be used for 2-way packet transfer" (src/node/packet.rs).  *)
(* A session id passes from hand to hand - offered by one node, accepted by *)
(* the one it was offered to, confirmed by the first, established at the    *)
(* second - at most once each, or it is lost on the way.  Neither side has  *)
(* a tunnel before its turn, nor one offered to or by anyone else.  NetSim  *)
(* implements this: see Properties!TunnelPromise.                           *)
(***************************************************************************)
EXTENDS Packet

VARIABLES
  name,       \* NodeID of the node at each address, None where there is none
  offers,     \* by whom and to whom each session id was offered
  handshakes, \* the ids on their way to those they were offered to,
  acknowledgements,    \* back,
  inits,      \* and there again
  tunnel      \* what each node has with each remote: an id, and whether it
              \* knows that the other side has it too; or None

vars == <<name, offers, handshakes, acknowledgements, inits, tunnel>>

NoTunnel == [m \in NodeID |-> None]
Set(n, m, id, open) ==
  tunnel' = [tunnel EXCEPT ![n][m] = [id |-> id, open |-> open]]
(* What is passed on may be lost at once: a session through the network may *)
(* have nobody to send through.                                             *)
Passed(S, id) == {S \cup {id}, S}

Init ==
  /\ name \in [NetAddr -> NodeID \cup {None}]
  /\ offers = <<>>
  /\ handshakes = {} /\ acknowledgements = {} /\ inits = {}
  /\ tunnel = [n \in NetAddr |-> NoTunnel]

Offer(n) ==
  /\ \E m \in NodeID : offers' = Append(offers, <<name[n], m>>)
  /\ handshakes' \in Passed(handshakes, Len(offers'))
  /\ UNCHANGED <<name, acknowledgements, inits, tunnel>>

Accept(n) ==
  /\ \E id \in handshakes :
       /\ offers[id][2] = name[n]
       /\ handshakes' = handshakes \ {id}
       /\ acknowledgements' = acknowledgements \cup {id}
       /\ Set(n, offers[id][1], id, FALSE)
  /\ UNCHANGED <<name, offers, inits>>

Confirm(n) ==
  /\ \E id \in acknowledgements :
       /\ offers[id][1] = name[n]
       /\ acknowledgements' = acknowledgements \ {id}
       /\ inits' \in Passed(inits, id)
       /\ Set(n, offers[id][2], id, TRUE)
  /\ UNCHANGED <<name, offers, handshakes>>

Establish(n) ==
  /\ \E id \in inits :
       /\ offers[id][2] = name[n]
       /\ tunnel[n][offers[id][1]] = [id |-> id, open |-> FALSE]
       /\ inits' = inits \ {id}
       /\ Set(n, offers[id][1], id, TRUE)
  /\ UNCHANGED <<name, offers, handshakes, acknowledgements>>

(* Ids that nobody takes up are gone: refused, superseded or not deliverable.*)
MaybeLost ==
  /\ handshakes' \subseteq handshakes
  /\ acknowledgements' \subseteq acknowledgements
  /\ inits' \subseteq inits
Lose == MaybeLost /\ UNCHANGED <<name, offers, tunnel>>

(* A node that comes, or comes in another's place, has no tunnels.          *)
Renew ==
  /\ MaybeLost
  /\ name' \in [NetAddr -> NodeID \cup {None}]
  /\ \A n \in NetAddr :
       tunnel'[n] \in IF name'[n] = name[n] THEN {tunnel[n], NoTunnel}
                                            ELSE {NoTunnel}
  /\ UNCHANGED offers

(* A loaded network takes every tunnel for one that both sides have.        *)
Opened(t) == IF t = None THEN None ELSE [t EXCEPT !.open = TRUE]
Load ==
  /\ handshakes' = {} /\ acknowledgements' = {} /\ inits' = {}
  /\ tunnel' = [n \in NetAddr |-> [m \in NodeID |-> Opened(tunnel[n][m])]]
  /\ UNCHANGED <<name, offers>>

Next ==
  \/ \E n \in NetAddr : Offer(n) \/ Accept(n) \/ Confirm(n) \/ Establish(n)
  \/ Lose \/ Renew \/ Load

Spec == Init /\ [][Next]_vars
=============================================================================
