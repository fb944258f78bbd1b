--------------------------- MODULE AgreementProofs ---------------------------
(***************************************************************************)
(* Two nodes settle on one session: in an orderly network, for any nodes,   *)
(* positions and bounds, the two ends of every session agree on its id once *)
(* the network is quiet (Properties!TunnelAgreement), even when both offer  *)
(* the other one at the same time.                                          *)
(***************************************************************************)
EXTENDS AddressProofs

USE DEF netVars, loopVars, nodeVars, selfVars, remoteVars, tableVars,
        routeVars, runVars, mintVars

(* No command loads nodes: what a node has lost, its remotes still hold.    *)
NothingLoaded == \A c \in Commands : c.type # "reload"

(* A token of a handshake half done, and which way it goes: an offer to the *)
(* remote that its id was drawn for, an acknowledgement back.               *)
Accepted(id) == <<"Acknowledge", id>>
Halfway(t) == t[1] \in {"Handshake", "Acknowledge"}
Link(t, x, y) ==
  \/ t[1] = "Handshake" /\ Drawn(minted, t[2], x, y)
  \/ t[1] = "Acknowledge" /\ Drawn(minted, t[2], y, x)

(* Such a token goes straight from the one's address to the other's.        *)
Homeward(enc, a, b) ==
  \A t \in TokenOf(enc) :
    Halfway(t) =>
      /\ enc.hops = <<>>
      /\ a \in Nodes /\ b \in Nodes
      /\ Link(t, node_id[a], node_id[b])
      /\ t[1] = "Acknowledge" => enc.core.acknowledger = node_id[a]
HomeOnWire ==
  \A n \in NetAddr : \A i \in DOMAIN Wire[n] :
    Homeward(Wire[n][i].encryption, Wire[n][i].src_addr, n)
HomeSent ==
  \A i \in DOMAIN outgoing :
    Homeward(outgoing[i].encryption, order[turn], outgoing[i].dest_addr)
HomeRead ==
  \A t \in ToRead :
    Halfway(t) =>
      /\ rx.via.kind = "Direct"
      /\ Homeward(rx.encryption, rx.via.net_addr, order[turn])
HomeParsed == \A t \in ToParse : ~Halfway(t)
HomeInv == HomeOnWire /\ HomeSent /\ HomeRead /\ HomeParsed

(* What a node of this name holds, and waits for, of this remote.           *)
Holds(x, y, id) ==
  \E a \in At(x) : session[a][y] # None /\ session[a][y].session_id = id
Awaits(x, y, id) ==
  \E a \in At(x) : /\ pending_session[a][y] # None
                   /\ pending_session[a][y].session_id = id

(* Of two tokens that go the same way, t arrives before u.                  *)
Before(q, t, u) ==
  \E i, j \in DOMAIN q :
    i < j /\ t \in TokenOf(q[i].encryption) /\ u \in TokenOf(q[j].encryption)
Ahead(t, u) ==
  \/ t \in ToRead
  \/ t \in OnTheWay /\ u \in ToSend
  \/ \E n \in NetAddr : Before(Wire[n], t, u)
  \/ Before(outgoing, t, u)

(* Two nodes x < y on the way to agreement.  Whoever accepts an offer makes *)
(* the session at once, and the lower one gives up its own attempt with it  *)
(* (parse_node_encryption): so                                              *)
(*  - y awaits the answer to an offer it has under way;                     *)
(*  - what x has accepted is all it holds until y has the acknowledgement;  *)
(*  - x awaits the answer to an offer it has under way, which y gets after  *)
(*    what x accepted before - or has accepted one of y since, of which y   *)
(*    hears later, so that the last to arrive is what both keep;            *)
(*  - what y has accepted and x awaits is all y holds, and x accepts none;  *)
(*  - and when no acknowledgement that counts is under way, they agree.     *)
HigherAwaits(x, y) ==
  \A j : Drawn(minted, j, y, x) /\ (Offered(j) \in Tokens
                                      \/ Accepted(j) \in Tokens) =>
    Awaits(y, x, j)
LowerHolds(x, y) ==
  \A j : Drawn(minted, j, y, x) /\ Accepted(j) \in Tokens =>
    \A id : Holds(x, y, id) <=> id = j
LowerOffers(x, y) ==
  \A i : Drawn(minted, i, x, y) /\ Offered(i) \in Tokens =>
    \/ /\ Awaits(x, y, i)
       /\ \A j : Drawn(minted, j, y, x) /\ Accepted(j) \in Tokens =>
            Ahead(Accepted(j), Offered(i))
    \/ /\ ~Awaits(x, y, i)
       /\ \E j : /\ Drawn(minted, j, y, x) /\ Accepted(j) \in Tokens
                 /\ Ahead(Offered(i), Accepted(j))
LowerAccepted(x, y) ==
  \A i : Drawn(minted, i, x, y) /\ Accepted(i) \in Tokens
           /\ Awaits(x, y, i) =>
    /\ \A id : Holds(y, x, id) <=> id = i
    /\ \A j : Drawn(minted, j, y, x) => Accepted(j) \notin Tokens
Agreed(x, y) ==
  /\ \A j : Drawn(minted, j, y, x) => Accepted(j) \notin Tokens
  /\ \A i : Drawn(minted, i, x, y) /\ Awaits(x, y, i) =>
       Accepted(i) \notin Tokens
  => \A id : Holds(x, y, id) <=> Holds(y, x, id)
Settling(x, y) ==
  /\ HigherAwaits(x, y) /\ LowerHolds(x, y)
  /\ LowerOffers(x, y) /\ LowerAccepted(x, y) /\ Agreed(x, y)
SettlingInv == \A x, y \in NodeID : x < y => Settling(x, y)
AgreementInv == AddressInv /\ HomeInv /\ SettlingInv

-----------------------------------------------------------------------------
(* Each id is in one place                                                  *)

(* An id is only drawn once, and goes one way.                              *)
LEMMA DrawnOnce ==
  ASSUME NEW ids, NEW id, NEW a, NEW b, NEW c, NEW d,
         Drawn(ids, id, a, b), Drawn(ids, id, c, d)
  PROVE  a = c /\ b = d
BY DEF Drawn

(* An id is not both offered and accepted.                                  *)
LEMMA OnePlace ==
  ASSUME Once, NEW t \in Tokens, NEW u \in Tokens, t[2] = u[2]
  PROVE  t = u
<1> USE DEF Apart
<1>1. ASSUME t \in OnTheWay PROVE t = u
  <2>1. u \in OnTheWay
    BY <1>1 DEF Once, PlacesApart, Tokens
  <2>2. PICK n \in NetAddr :
          \E i \in DOMAIN Wire[n] : t \in TokenOf(Wire[n][i].encryption)
    BY <1>1 DEF OnTheWay
  <2>3. PICK k \in NetAddr :
          \E j \in DOMAIN Wire[k] : u \in TokenOf(Wire[k][j].encryption)
    BY <2>1 DEF OnTheWay
  <2>4. \A i \in DOMAIN Wire[n], j \in DOMAIN Wire[k] :
          /\ t \in TokenOf(Wire[n][i].encryption)
          /\ u \in TokenOf(Wire[k][j].encryption)
          => n = k /\ i = j
    BY DEF Once, WireApart
  <2>5. QED
    BY <2>2, <2>3, <2>4, OneToken
<1>2. ASSUME t \in ToSend PROVE t = u
  <2>1. u \in ToSend
    BY <1>2 DEF Once, PlacesApart, Tokens
  <2>2. PICK i \in DOMAIN outgoing : t \in TokenOf(outgoing[i].encryption)
    BY <1>2 DEF ToSend
  <2>3. PICK j \in DOMAIN outgoing : u \in TokenOf(outgoing[j].encryption)
    BY <2>1 DEF ToSend
  <2>4. i = j
    BY <2>2, <2>3 DEF Once, SentApart
  <2>5. QED
    BY <2>2, <2>3, <2>4, OneToken
<1>3. ASSUME t \in ToRead PROVE t = u
  <2>1. u \in ToRead
    BY <1>3 DEF Once, PlacesApart, Tokens
  <2>2. QED
    BY <1>3, <2>1, OneToken DEF ToRead
<1>4. ASSUME t \in ToParse PROVE t = u
  <2>1. u \in ToParse
    BY <1>4 DEF Once, PlacesApart, Tokens
  <2>2. PICK i \in DOMAIN work : t \in TokenIn(work[i].packet)
    BY <1>4 DEF ToParse
  <2>3. PICK j \in DOMAIN work : u \in TokenIn(work[j].packet)
    BY <2>1 DEF ToParse
  <2>4. i = j
    BY <2>2, <2>3 DEF Once, ParsedApart
  <2>5. QED
    BY <2>2, <2>3, <2>4, OneToken
<1>5. QED
  BY <1>1, <1>2, <1>3, <1>4 DEF Tokens

(* So an offer and an acknowledgement have different ids.                   *)
LEMMA NotBoth ==
  ASSUME Once, NEW id
  PROVE  ~(Offered(id) \in Tokens /\ Accepted(id) \in Tokens)
<1>1. /\ Offered(id)[2] = Accepted(id)[2] /\ Offered(id) # Accepted(id)
  BY DEF Offered, Accepted
<1>2. QED
  BY <1>1, OnePlace

(* Nothing arrives before what is being read.                               *)
LEMMA NoneBeforeRead ==
  ASSUME Once, NEW t \in Tokens, NEW u \in ToRead, t # u
  PROVE  ~Ahead(t, u)
<1>1. u \in Tokens /\ u \notin OnTheWay /\ u \notin ToSend
  BY DEF Tokens, Once, PlacesApart, Apart
<1>2. t \notin ToRead
  BY OneToken DEF ToRead
<1>3. \A n \in NetAddr : ~Before(Wire[n], t, u)
  BY <1>1 DEF Before, OnTheWay
<1>4. ~Before(outgoing, t, u)
  BY <1>1 DEF Before, ToSend
<1>5. QED
  BY <1>1, <1>2, <1>3, <1>4 DEF Ahead

(* The handshakes half done from a to b have one and the same id.           *)
UnderOffer(id) == Offered(id) \in Tokens \/ Accepted(id) \in Tokens
LEMMA OneOffer ==
  ASSUME OneAtATime, NEW i, NEW j, NEW a, NEW b,
         Drawn(minted, i, a, b), Drawn(minted, j, a, b),
         UnderOffer(i), UnderOffer(j)
  PROVE  i = j
<1>1. i \in UnderWay /\ j \in UnderWay
  BY TokensArePairs, OfTypeMembers
  DEF UnderWay, InHand, UnderOffer, Offered, Accepted
<1>2. minted[i] = minted[j]
  BY DEF Drawn
<1>3. QED
  BY <1>1, <1>2 DEF OneAtATime
(* And after a step.                                                        *)
LEMMA OneOfferNext ==
  ASSUME OneAtATime', NEW i, NEW j, NEW a, NEW b,
         Drawn(minted', i, a, b), Drawn(minted', j, a, b),
         UnderOffer(i)', UnderOffer(j)'
  PROVE  i = j
<1>1. i \in UnderWay' /\ j \in UnderWay'
  BY NextTokensArePairs, OfTypeMembers
  DEF UnderWay, InHand, UnderOffer, Offered, Accepted
<1>2. minted'[i] = minted'[j]
  BY DEF Drawn
<1>3. QED
  BY <1>1, <1>2 DEF OneAtATime

-----------------------------------------------------------------------------
(* What a step does to a handshake                                          *)

(* Of two tokens that go the same way the first stays the first.            *)
SameLink(t, u) == \E x, y : Link(t, x, y) /\ Link(u, x, y)
KeepsOrder ==
  \A t, u : /\ Halfway(t) /\ Halfway(u) /\ SameLink(t, u)
            /\ t \in Tokens /\ u \in Tokens /\ t \in Tokens' /\ u \in Tokens'
            /\ Ahead(t, u)
            => Ahead(t, u)'
(* The last token arrives after all others.                                 *)
Last(u) == \A t : Halfway(t) /\ t \in Tokens /\ t # u => Ahead(t, u)

(* z offers m a session;                                                    *)
Connects(z, m, k) ==
  /\ k \notin 1 .. Len(minted) /\ minted' = Append(minted, <<z, m>>)
  /\ \A id, a, b : Drawn(minted', id, a, b) <=>
       Drawn(minted, id, a, b) \/ (id = k /\ a = z /\ b = m)
  /\ \A t : Halfway(t) => (t \in Tokens' <=> t \in Tokens \/ t = Offered(k))
  /\ \A a, b \in NodeID : \A id : Holds(a, b, id)' <=> Holds(a, b, id)
  /\ \A a, b \in NodeID : \A id : Awaits(a, b, id)' <=>
       IF a = z /\ b = m THEN id = k ELSE Awaits(a, b, id)
  /\ KeepsOrder /\ Last(Offered(k))'
(* z accepts m's offer;                                                     *)
Accepts(z, m, k) ==
  /\ minted' = minted /\ Drawn(minted, k, m, z) /\ Offered(k) \in ToRead
  /\ \A t : Halfway(t) =>
       (t \in Tokens' <=>
          (t \in Tokens /\ t # Offered(k)) \/ t = Accepted(k))
  /\ \A a, b \in NodeID : \A id : Holds(a, b, id)' <=>
       IF a = z /\ b = m THEN id = k ELSE Holds(a, b, id)
  /\ \A a, b \in NodeID : \A id : Awaits(a, b, id)' <=>
       Awaits(a, b, id) /\ ~(a = z /\ b = m /\ z < m)
  /\ KeepsOrder /\ Last(Accepted(k))'
(* z learns that m has accepted its offer, and may await it still;          *)
Confirms(z, m, k) ==
  /\ minted' = minted /\ Drawn(minted, k, z, m) /\ Accepted(k) \in ToRead
  /\ \A t : Halfway(t) =>
       (t \in Tokens' <=> t \in Tokens /\ t # Accepted(k))
  /\ \A a, b \in NodeID : \A id : Holds(a, b, id)' <=>
       IF a = z /\ b = m /\ Awaits(z, m, k)
         THEN id = k ELSE Holds(a, b, id)
  /\ \A a, b \in NodeID : \A id : Awaits(a, b, id)' <=>
       Awaits(a, b, id) /\ ~(a = z /\ b = m)
  /\ KeepsOrder
(* or nothing happens to any handshake.                                     *)
Calm ==
  /\ minted' = minted
  /\ \A t : Halfway(t) => (t \in Tokens' <=> t \in Tokens)
  /\ \A a, b \in NodeID : \A id : Holds(a, b, id)' <=> Holds(a, b, id)
  /\ \A a, b \in NodeID : \A id : Awaits(a, b, id)' <=> Awaits(a, b, id)
  /\ KeepsOrder

-----------------------------------------------------------------------------
(* Two nodes keep settling                                                  *)

(* The two tokens of two attempts that cross go the same way.               *)
LEMMA StaysAhead ==
  ASSUME KeepsOrder, NEW x, NEW y, NEW i, NEW j,
         Drawn(minted, i, x, y), Drawn(minted, j, y, x),
         Offered(i) \in Tokens, Accepted(j) \in Tokens,
         Offered(i) \in Tokens', Accepted(j) \in Tokens'
  PROVE  /\ Ahead(Offered(i), Accepted(j)) =>
              Ahead(Offered(i), Accepted(j))'
         /\ Ahead(Accepted(j), Offered(i)) =>
              Ahead(Accepted(j), Offered(i))'
<1>1. Halfway(Offered(i)) /\ Halfway(Accepted(j))
  BY DEF Halfway, Offered, Accepted
<1>2. Link(Offered(i), x, y) /\ Link(Accepted(j), x, y)
  BY DEF Link, Offered, Accepted
<1>3. SameLink(Offered(i), Accepted(j)) /\ SameLink(Accepted(j), Offered(i))
  BY <1>2 DEF SameLink
<1>4. QED
  BY <1>1, <1>3 DEF KeepsOrder

(* Tokens that are offers and acknowledgements.                             *)
LEMMA HalfwayTokens ==
  \A i, j : /\ Halfway(Offered(i)) /\ Halfway(Accepted(i))
            /\ Offered(i) # Accepted(j)
            /\ Offered(i) = Offered(j) <=> i = j
            /\ Accepted(i) = Accepted(j) <=> i = j
BY DEF Halfway, Offered, Accepted

(* When nothing happens to the handshakes of the two.                       *)
LEMMA SettlesCalm ==
  ASSUME NEW x \in NodeID, NEW y \in NodeID, Settling(x, y),
         KeepsOrder,
         \A i : /\ Drawn(minted', i, x, y) <=> Drawn(minted, i, x, y)
                /\ Drawn(minted', i, y, x) <=> Drawn(minted, i, y, x),
         \A i : Drawn(minted, i, x, y) \/ Drawn(minted, i, y, x) =>
           /\ Offered(i) \in Tokens' <=> Offered(i) \in Tokens
           /\ Accepted(i) \in Tokens' <=> Accepted(i) \in Tokens,
         \A id : /\ Holds(x, y, id)' <=> Holds(x, y, id)
                 /\ Holds(y, x, id)' <=> Holds(y, x, id)
                 /\ Awaits(x, y, id)' <=> Awaits(x, y, id)
                 /\ Awaits(y, x, id)' <=> Awaits(y, x, id)
  PROVE  Settling(x, y)'
<1>1. HigherAwaits(x, y)' /\ LowerHolds(x, y)'
  BY DEF Settling, HigherAwaits, LowerHolds
<1>2. LowerOffers(x, y)'
  <2>1. SUFFICES ASSUME NEW i, Drawn(minted, i, x, y), Offered(i) \in Tokens
                 PROVE  \/ /\ Awaits(x, y, i)
                           /\ \A j : Drawn(minted, j, y, x)
                                       /\ Accepted(j) \in Tokens' =>
                                Ahead(Accepted(j), Offered(i))'
                        \/ /\ ~Awaits(x, y, i)
                           /\ \E j : /\ Drawn(minted, j, y, x)
                                     /\ Accepted(j) \in Tokens'
                                     /\ Ahead(Offered(i), Accepted(j))'
    BY DEF LowerOffers
  <2>2. Offered(i) \in Tokens'
    BY <2>1
  <2>3. \A j : Drawn(minted, j, y, x) /\ Accepted(j) \in Tokens =>
          /\ Accepted(j) \in Tokens'
          /\ Ahead(Offered(i), Accepted(j)) =>
               Ahead(Offered(i), Accepted(j))'
          /\ Ahead(Accepted(j), Offered(i)) =>
               Ahead(Accepted(j), Offered(i))'
    BY <2>1, <2>2, StaysAhead
  <2>4. QED
    BY <2>1, <2>3 DEF Settling, LowerOffers
<1>3. LowerAccepted(x, y)'
  BY DEF Settling, LowerAccepted
<1>4. Agreed(x, y)'
  BY DEF Settling, Agreed
<1>5. QED
  BY <1>1, <1>2, <1>3, <1>4 DEF Settling

(* When the lower one offers the other a session, it has no other under     *)
(* way: what it awaited is over.                                            *)
LEMMA SettlesLowerConnect ==
  ASSUME Once, OneAtATime', NEW x \in NodeID, NEW y \in NodeID, x # y,
         Settling(x, y), NEW k, Connects(x, y, k)
  PROVE  Settling(x, y)'
<1> USE HalfwayTokens
<1>1. /\ Offered(k) \notin Tokens /\ Accepted(k) \notin Tokens
      /\ Offered(k) \in Tokens' /\ Accepted(k) \notin Tokens'
  <2>1. \A t \in Tokens : t[2] # k
    BY DEF Once, Known, Connects
  <2>2. QED
    BY <2>1 DEF Connects, Offered, Accepted, Halfway
<1>2. Drawn(minted', k, x, y) /\ ~Drawn(minted', k, y, x)
  BY DEF Connects, Drawn
<1>3. \A i : Drawn(minted', i, x, y) /\ UnderOffer(i)' => i = k
  BY <1>1, <1>2, OneOfferNext DEF UnderOffer
<1>4. \A j : Drawn(minted', j, y, x) <=> Drawn(minted, j, y, x)
  BY <1>2 DEF Connects
<1>5. \A j : Accepted(j) \in Tokens' <=> Accepted(j) \in Tokens
  BY DEF Connects
<1>6. \A j : j # k => (Offered(j) \in Tokens' <=> Offered(j) \in Tokens)
  BY DEF Connects
<1>7. \A id : /\ Holds(x, y, id)' <=> Holds(x, y, id)
              /\ Holds(y, x, id)' <=> Holds(y, x, id)
              /\ Awaits(x, y, id)' <=> id = k
              /\ Awaits(y, x, id)' <=> Awaits(y, x, id)
  BY DEF Connects
<1>8. HigherAwaits(x, y)' /\ LowerHolds(x, y)'
  BY <1>2, <1>4, <1>5, <1>6, <1>7 DEF Settling, HigherAwaits, LowerHolds
<1>9. LowerOffers(x, y)'
  <2>1. SUFFICES ASSUME NEW i, Drawn(minted', i, x, y), Offered(i) \in Tokens'
                 PROVE  /\ Awaits(x, y, i)'
                        /\ \A j : Drawn(minted', j, y, x)
                                    /\ Accepted(j) \in Tokens' =>
                             Ahead(Accepted(j), Offered(i))'
    BY DEF LowerOffers
  <2>2. i = k
    BY <1>3, <2>1 DEF UnderOffer
  <2>3. QED
    BY <1>7, <2>2 DEF Connects, Last
<1>10. LowerAccepted(x, y)'
  BY <1>1, <1>7 DEF LowerAccepted
<1>11. Agreed(x, y)'
  <2>1. \A i : Drawn(minted, i, x, y) => Accepted(i) \notin Tokens
    <3>1. \A i : Drawn(minted, i, x, y) => Drawn(minted', i, x, y)
      BY DEF Connects
    <3>2. QED
      BY <1>1, <1>3, <1>5, <3>1 DEF UnderOffer
  <2>2. QED
    BY <1>4, <1>5, <1>7, <2>1 DEF Settling, Agreed
<1>12. QED
  BY <1>8, <1>9, <1>10, <1>11 DEF Settling

(* And so it is when the higher one does.                                   *)
LEMMA SettlesHigherConnect ==
  ASSUME Once, OneAtATime', NEW x \in NodeID, NEW y \in NodeID, x # y,
         Settling(x, y), NEW k, Connects(y, x, k)
  PROVE  Settling(x, y)'
<1> USE HalfwayTokens
<1>1. /\ Offered(k) \notin Tokens /\ Accepted(k) \notin Tokens
      /\ Offered(k) \in Tokens' /\ Accepted(k) \notin Tokens'
  <2>1. \A t \in Tokens : t[2] # k
    BY DEF Once, Known, Connects
  <2>2. QED
    BY <2>1 DEF Connects, Offered, Accepted, Halfway
<1>2. Drawn(minted', k, y, x) /\ ~Drawn(minted', k, x, y)
  BY DEF Connects, Drawn
<1>3. \A j : Drawn(minted', j, y, x) /\ UnderOffer(j)' => j = k
  BY <1>1, <1>2, OneOfferNext DEF UnderOffer
<1>4. \A i : Drawn(minted', i, x, y) <=> Drawn(minted, i, x, y)
  BY <1>2 DEF Connects
<1>5. \A j : Accepted(j) \in Tokens' <=> Accepted(j) \in Tokens
  BY DEF Connects
<1>6. \A j : j # k => (Offered(j) \in Tokens' <=> Offered(j) \in Tokens)
  BY DEF Connects
<1>7. \A id : /\ Holds(x, y, id)' <=> Holds(x, y, id)
              /\ Holds(y, x, id)' <=> Holds(y, x, id)
              /\ Awaits(y, x, id)' <=> id = k
              /\ Awaits(x, y, id)' <=> Awaits(x, y, id)
  BY DEF Connects
<1>8. \A j : Drawn(minted', j, y, x) => Accepted(j) \notin Tokens'
  BY <1>1, <1>3 DEF UnderOffer
<1>9. \A j : Drawn(minted, j, y, x) => Accepted(j) \notin Tokens
  <2>1. \A j : Drawn(minted, j, y, x) => Drawn(minted', j, y, x)
    BY DEF Connects
  <2>2. QED
    BY <1>5, <1>8, <2>1
<1>10. HigherAwaits(x, y)' /\ LowerHolds(x, y)'
  <2>1. HigherAwaits(x, y)'
    BY <1>3, <1>7 DEF HigherAwaits, UnderOffer
  <2>2. LowerHolds(x, y)'
    BY <1>8 DEF LowerHolds
  <2>3. QED
    BY <2>1, <2>2
<1>11. LowerOffers(x, y)'
  <2>1. SUFFICES ASSUME NEW i, Drawn(minted', i, x, y), Offered(i) \in Tokens'
                 PROVE  Awaits(x, y, i)'
    BY <1>8 DEF LowerOffers
  <2>2. Drawn(minted, i, x, y) /\ Offered(i) \in Tokens
    BY <1>2, <1>4, <1>6, <2>1
  <2>3. QED
    BY <1>7, <1>9, <2>2 DEF Settling, LowerOffers
<1>12. LowerAccepted(x, y)' /\ Agreed(x, y)'
  BY <1>4, <1>5, <1>7, <1>8, <1>9 DEF Settling, LowerAccepted, Agreed
<1>13. QED
  BY <1>10, <1>11, <1>12 DEF Settling

(* The lower one accepts an offer: it gives up its own, and holds what the  *)
(* other will hold when it hears of it.                                     *)
LEMMA SettlesLowerAccept ==
  ASSUME Once, Once', OneAtATime', NEW x \in NodeID, NEW y \in NodeID, x < y,
         Settling(x, y), NEW k, Accepts(x, y, k)
  PROVE  Settling(x, y)'
<1> USE HalfwayTokens
<1>1. x # y
  BY NodeIDAssumption
<1>2. Drawn(minted, k, y, x) /\ ~Drawn(minted, k, x, y)
  BY <1>1 DEF Accepts, Drawn
<1>3. Offered(k) \in Tokens /\ Accepted(k) \in Tokens'
  BY DEF Accepts, Tokens
<1>4. \A j : Drawn(minted', j, y, x) /\ UnderOffer(j)' => j = k
  BY <1>2, <1>3, OneOfferNext DEF UnderOffer, Accepts
<1>5. /\ minted' = minted
      /\ \A j : j # k => (Offered(j) \in Tokens' <=> Offered(j) \in Tokens)
  BY DEF Accepts
<1>6. \A id : /\ Holds(x, y, id)' <=> id = k
              /\ Holds(y, x, id)' <=> Holds(y, x, id)
              /\ ~Awaits(x, y, id)'
              /\ Awaits(y, x, id)' <=> Awaits(y, x, id)
  BY <1>1 DEF Accepts
<1>7. HigherAwaits(x, y)'
  <2>1. Awaits(y, x, k)
    BY <1>2, <1>3 DEF Settling, HigherAwaits
  <2>2. QED
    BY <1>4, <1>6, <2>1 DEF HigherAwaits, UnderOffer
<1>8. LowerHolds(x, y)'
  BY <1>4, <1>6 DEF LowerHolds, UnderOffer
<1>9. LowerOffers(x, y)'
  <2>1. SUFFICES ASSUME NEW i, Drawn(minted', i, x, y), Offered(i) \in Tokens'
                 PROVE  /\ ~Awaits(x, y, i)'
                        /\ \E j : /\ Drawn(minted', j, y, x)
                                  /\ Accepted(j) \in Tokens'
                                  /\ Ahead(Offered(i), Accepted(j))'
    BY DEF LowerOffers
  <2>2. Ahead(Offered(i), Accepted(k))'
    BY <2>1 DEF Accepts, Last
  <2>3. QED
    BY <1>2, <1>3, <1>5, <1>6, <2>2
<1>10. LowerAccepted(x, y)'
  BY <1>6 DEF LowerAccepted
<1>11. Agreed(x, y)'
  BY <1>2, <1>3, <1>5 DEF Agreed
<1>12. QED
  BY <1>7, <1>8, <1>9, <1>10, <1>11 DEF Settling

(* The higher one accepts an offer.                                         *)
LEMMA SettlesHigherAccept ==
  ASSUME Once, Once', OneAtATime', NEW x \in NodeID, NEW y \in NodeID, x < y,
         Settling(x, y), NEW k, Accepts(y, x, k)
  PROVE  Settling(x, y)'
<1> USE HalfwayTokens
<1>1. x # y /\ ~(y < x)
  BY NodeIDAssumption
<1>2. Drawn(minted, k, x, y) /\ ~Drawn(minted, k, y, x)
  BY <1>1 DEF Accepts, Drawn
<1>3. /\ Offered(k) \in ToRead /\ Offered(k) \in Tokens
      /\ Accepted(k) \in Tokens' /\ Offered(k) \notin Tokens'
      /\ minted' = minted
  BY NotBoth DEF Accepts, Tokens
<1>4. \A i : Drawn(minted, i, x, y) /\ UnderOffer(i)' => i = k
  BY <1>2, <1>3, OneOfferNext DEF UnderOffer
<1>5. \A j : Drawn(minted, j, y, x) =>
        /\ Offered(j) \in Tokens' <=> Offered(j) \in Tokens
        /\ Accepted(j) \in Tokens' <=> Accepted(j) \in Tokens
  BY <1>2 DEF Accepts
<1>6. \A id : /\ Holds(x, y, id)' <=> Holds(x, y, id)
              /\ Holds(y, x, id)' <=> id = k
              /\ Awaits(x, y, id)' <=> Awaits(x, y, id)
              /\ Awaits(y, x, id)' <=> Awaits(y, x, id)
  BY <1>1 DEF Accepts
<1>7. \A j : Accepted(j) \in Tokens => ~Ahead(Accepted(j), Offered(k))
  BY <1>3, NoneBeforeRead
<1>8. /\ Awaits(x, y, k) =>
           \A j : Drawn(minted, j, y, x) => Accepted(j) \notin Tokens
      /\ ~Awaits(x, y, k) =>
           \E j : Drawn(minted, j, y, x) /\ Accepted(j) \in Tokens
  BY <1>2, <1>3, <1>7 DEF Settling, LowerOffers
<1>9. HigherAwaits(x, y)' /\ LowerHolds(x, y)'
  BY <1>3, <1>5, <1>6 DEF Settling, HigherAwaits, LowerHolds
<1>10. LowerOffers(x, y)'
  BY <1>3, <1>4 DEF LowerOffers, UnderOffer
<1>11. LowerAccepted(x, y)'
  BY <1>3, <1>4, <1>5, <1>6, <1>8 DEF LowerAccepted, UnderOffer
<1>12. Agreed(x, y)'
  BY <1>2, <1>3, <1>5, <1>6, <1>8 DEF Agreed
<1>13. QED
  BY <1>9, <1>10, <1>11, <1>12 DEF Settling

(* The lower one learns that its offer was accepted.                        *)
LEMMA SettlesLowerConfirm ==
  ASSUME Once, OneAtATime, NEW x \in NodeID, NEW y \in NodeID, x # y,
         Settling(x, y), NEW k, Confirms(x, y, k)
  PROVE  Settling(x, y)'
<1> USE HalfwayTokens
<1>1. Drawn(minted, k, x, y) /\ ~Drawn(minted, k, y, x)
  BY DEF Confirms, Drawn
<1>2. /\ Accepted(k) \in Tokens /\ Accepted(k) \notin Tokens'
      /\ Offered(k) \notin Tokens /\ minted' = minted
  BY NotBoth DEF Confirms, Tokens
<1>3. \A i : Drawn(minted, i, x, y) /\ UnderOffer(i) => i = k
  BY <1>1, <1>2, OneOffer DEF UnderOffer
<1>4. \A i : Drawn(minted, i, x, y) => ~UnderOffer(i)'
  BY <1>2, <1>3 DEF UnderOffer, Confirms
<1>5. \A j : Drawn(minted, j, y, x) =>
        /\ Offered(j) \in Tokens' <=> Offered(j) \in Tokens
        /\ Accepted(j) \in Tokens' <=> Accepted(j) \in Tokens
  BY <1>1 DEF Confirms
<1>6. \A id : /\ Holds(x, y, id)' <=>
                   IF Awaits(x, y, k) THEN id = k ELSE Holds(x, y, id)
              /\ Holds(y, x, id)' <=> Holds(y, x, id)
              /\ ~Awaits(x, y, id)'
              /\ Awaits(y, x, id)' <=> Awaits(y, x, id)
  BY DEF Confirms
<1>7. Awaits(x, y, k) =>
        /\ \A id : Holds(y, x, id) <=> id = k
        /\ \A j : Drawn(minted, j, y, x) => Accepted(j) \notin Tokens
  BY <1>1, <1>2 DEF Settling, LowerAccepted
<1>8. HigherAwaits(x, y)'
  BY <1>2, <1>5, <1>6 DEF Settling, HigherAwaits
<1>9. LowerHolds(x, y)'
  BY <1>2, <1>5, <1>6, <1>7 DEF Settling, LowerHolds
<1>10. LowerOffers(x, y)' /\ LowerAccepted(x, y)'
  BY <1>2, <1>4 DEF LowerOffers, LowerAccepted, UnderOffer
<1>11. Agreed(x, y)'
  <2>1. ASSUME Awaits(x, y, k)
        PROVE  \A id : Holds(x, y, id)' <=> Holds(y, x, id)'
    BY <1>6, <1>7, <2>1
  <2>2. ASSUME ~Awaits(x, y, k),
               \A j : Drawn(minted, j, y, x) => Accepted(j) \notin Tokens
        PROVE  \A id : Holds(x, y, id)' <=> Holds(y, x, id)'
    <3>1. \A i : Drawn(minted, i, x, y) /\ Awaits(x, y, i) =>
            Accepted(i) \notin Tokens
      BY <1>3, <2>2 DEF UnderOffer
    <3>2. QED
      BY <1>6, <2>2, <3>1 DEF Settling, Agreed
  <2>3. QED
    BY <1>2, <1>5, <2>1, <2>2 DEF Agreed
<1>12. QED
  BY <1>8, <1>9, <1>10, <1>11 DEF Settling

(* The higher one learns it.                                                *)
LEMMA SettlesHigherConfirm ==
  ASSUME Once, OneAtATime, NEW x \in NodeID, NEW y \in NodeID, x # y,
         Settling(x, y), NEW k, Confirms(y, x, k)
  PROVE  Settling(x, y)'
<1> USE HalfwayTokens
<1>1. Drawn(minted, k, y, x) /\ ~Drawn(minted, k, x, y)
  BY DEF Confirms, Drawn
<1>2. /\ Accepted(k) \in Tokens /\ Accepted(k) \notin Tokens'
      /\ Offered(k) \notin Tokens /\ minted' = minted
      /\ Accepted(k) \in ToRead
  BY NotBoth DEF Confirms, Tokens
<1>3. \A j : Drawn(minted, j, y, x) /\ UnderOffer(j) => j = k
  BY <1>1, <1>2, OneOffer DEF UnderOffer
<1>4. \A j : Drawn(minted, j, y, x) => ~UnderOffer(j)'
  BY <1>2, <1>3 DEF UnderOffer, Confirms
<1>5. \A i : Drawn(minted, i, x, y) =>
        /\ Offered(i) \in Tokens' <=> Offered(i) \in Tokens
        /\ Accepted(i) \in Tokens' <=> Accepted(i) \in Tokens
  BY <1>1 DEF Confirms
<1>6. Awaits(y, x, k) /\ \A id : Holds(x, y, id) <=> id = k
  BY <1>1, <1>2 DEF Settling, HigherAwaits, LowerHolds
<1>7. \A id : /\ Holds(x, y, id)' <=> Holds(x, y, id)
              /\ Holds(y, x, id)' <=> id = k
              /\ Awaits(x, y, id)' <=> Awaits(x, y, id)
  BY <1>6 DEF Confirms
<1>8. HigherAwaits(x, y)' /\ LowerHolds(x, y)'
  BY <1>2, <1>4 DEF HigherAwaits, LowerHolds, UnderOffer
<1>9. LowerOffers(x, y)'
  <2>1. SUFFICES ASSUME NEW i, Drawn(minted, i, x, y), Offered(i) \in Tokens
                 PROVE  Awaits(x, y, i)
    BY <1>2, <1>4, <1>5, <1>7 DEF LowerOffers, UnderOffer
  <2>2. \A j : Drawn(minted, j, y, x) /\ Accepted(j) \in Tokens => j = k
    BY <1>3 DEF UnderOffer
  <2>3. ~Ahead(Offered(i), Accepted(k))
    BY <1>2, <2>1, NoneBeforeRead
  <2>4. QED
    BY <2>1, <2>2, <2>3 DEF Settling, LowerOffers
<1>10. LowerAccepted(x, y)'
  <2>1. \A i : Drawn(minted, i, x, y) /\ Accepted(i) \in Tokens =>
          ~Awaits(x, y, i)
    BY <1>1, <1>2 DEF Settling, LowerAccepted
  <2>2. QED
    BY <1>2, <1>5, <1>7, <2>1 DEF LowerAccepted
<1>11. Agreed(x, y)'
  BY <1>6, <1>7 DEF Agreed
<1>12. QED
  BY <1>8, <1>9, <1>10, <1>11 DEF Settling

(* What a step can do to the handshakes of a network.                       *)
Proceeds ==
  \/ Calm
  \/ \E z, m, k : Connects(z, m, k) \/ Accepts(z, m, k) \/ Confirms(z, m, k)
LEMMA ProceedsSettles ==
  ASSUME Once, Once', OneAtATime, OneAtATime', SettlingInv, Proceeds
  PROVE  SettlingInv'
<1> USE HalfwayTokens
<1> SUFFICES ASSUME NEW x \in NodeID, NEW y \in NodeID, x < y
             PROVE  Settling(x, y)'
  BY DEF SettlingInv
<1>1. Settling(x, y) /\ x # y
  BY NodeIDAssumption DEF SettlingInv
<1>2. CASE Calm
  BY <1>1, <1>2, SettlesCalm DEF Calm
<1>3. CASE ~Calm
  <2>1. PICK z, m, k :
          Connects(z, m, k) \/ Accepts(z, m, k) \/ Confirms(z, m, k)
    BY <1>3 DEF Proceeds
  <2>2. CASE z = x /\ m = y
    BY <1>1, <2>1, <2>2, SettlesLowerConnect, SettlesLowerAccept,
       SettlesLowerConfirm
  <2>3. CASE z = y /\ m = x
    BY <1>1, <2>1, <2>3, SettlesHigherConnect, SettlesHigherAccept,
       SettlesHigherConfirm
  <2>4. CASE ~(z = x /\ m = y) /\ ~(z = y /\ m = x)
    <3>1. \A id : /\ Holds(x, y, id)' <=> Holds(x, y, id)
                  /\ Holds(y, x, id)' <=> Holds(y, x, id)
                  /\ Awaits(x, y, id)' <=> Awaits(x, y, id)
                  /\ Awaits(y, x, id)' <=> Awaits(y, x, id)
      BY <2>1, <2>4 DEF Connects, Accepts, Confirms
    <3>2. KeepsOrder
      BY <2>1 DEF Connects, Accepts, Confirms
    <3>3. \A i : Drawn(minted', i, x, y) \/ Drawn(minted', i, y, x) =>
            /\ Offered(i) \in Tokens' <=> Offered(i) \in Tokens
            /\ Accepted(i) \in Tokens' <=> Accepted(i) \in Tokens
      <4>1. CASE Connects(z, m, k)
        <5>1. Drawn(minted', k, z, m)
          BY <4>1 DEF Connects
        <5>2. \A i : Drawn(minted', i, x, y) \/ Drawn(minted', i, y, x) =>
                i # k
          BY <2>4, <5>1, DrawnOnce
        <5>3. QED
          BY <4>1, <5>2 DEF Connects
      <4>2. CASE Accepts(z, m, k) \/ Confirms(z, m, k)
        <5>1. Drawn(minted', k, z, m) \/ Drawn(minted', k, m, z)
          BY <4>2 DEF Accepts, Confirms
        <5>2. \A i : Drawn(minted', i, x, y) \/ Drawn(minted', i, y, x) =>
                i # k
          BY <2>4, <5>1, DrawnOnce
        <5>3. QED
          BY <4>2, <5>2 DEF Accepts, Confirms
      <4>3. QED
        BY <2>1, <4>1, <4>2
    <3>4. \A i : /\ Drawn(minted', i, x, y) <=> Drawn(minted, i, x, y)
                 /\ Drawn(minted', i, y, x) <=> Drawn(minted, i, y, x)
      BY <2>1, <2>4 DEF Connects, Accepts, Confirms
    <3>5. QED
      BY <1>1, <3>1, <3>2, <3>3, <3>4, SettlesCalm
  <2>5. QED
    BY <2>2, <2>3, <2>4
<1>4. QED
  BY <1>2, <1>3

-----------------------------------------------------------------------------
(* Where the tokens of a node's step are                                    *)

(* What is sent comes last; what was read is gone, or still read.           *)
LEMMA OrderKept ==
  ASSUME TypeOK, TypeOK', UNCHANGED Wire, Extends,
         \A t \in ToRead : Halfway(t) /\ t \in Tokens' => t \in ToRead'
  PROVE  KeepsOrder
<1>1. /\ DOMAIN outgoing = 1 .. Len(outgoing) /\ Len(outgoing) \in Nat
      /\ DOMAIN outgoing' = 1 .. Len(outgoing') /\ Len(outgoing') \in Nat
  BY DEF TypeOK, StackTypeOK
<1>2. \A i \in DOMAIN outgoing : /\ i \in DOMAIN outgoing'
                                 /\ outgoing'[i] = outgoing[i]
  BY <1>1 DEF Extends
<1>3. ToSend \subseteq ToSend'
  BY <1>2 DEF ToSend
<1>4. OnTheWay' = OnTheWay
  BY DEF OnTheWay
<1>5. SUFFICES ASSUME NEW t, NEW u, Halfway(t), t \in Tokens',
                      Ahead(t, u)
               PROVE  Ahead(t, u)'
  BY DEF KeepsOrder
<1>6. CASE t \in ToRead
  BY <1>5, <1>6 DEF Ahead
<1>7. CASE t \in OnTheWay /\ u \in ToSend
  BY <1>3, <1>4, <1>7 DEF Ahead
<1>8. CASE \E n \in NetAddr : Before(Wire[n], t, u)
  BY <1>8 DEF Ahead, Before
<1>9. CASE Before(outgoing, t, u)
  <2>1. PICK i, j \in DOMAIN outgoing :
          /\ i < j /\ t \in TokenOf(outgoing[i].encryption)
          /\ u \in TokenOf(outgoing[j].encryption)
    BY <1>9 DEF Before
  <2>2. /\ i \in DOMAIN outgoing' /\ j \in DOMAIN outgoing'
        /\ outgoing'[i] = outgoing[i] /\ outgoing'[j] = outgoing[j]
    BY <1>2
  <2>3. Before(outgoing, t, u)'
    BY <2>1, <2>2 DEF Before
  <2>4. QED
    BY <2>3 DEF Ahead
<1>10. QED
  BY <1>5, <1>6, <1>7, <1>8, <1>9 DEF Ahead

(* The packet sent last arrives last.                                       *)
LEMMA SentLast ==
  ASSUME TypeOK', HomeParsed', NEW u, NEW k, k = Len(outgoing'), k > 0,
         u \in TokenOf(outgoing'[k].encryption)
  PROVE  Last(u)'
<1>1. DOMAIN outgoing' = 1 .. k /\ k \in Nat
  BY DEF TypeOK, StackTypeOK
<1>2. k \in DOMAIN outgoing'
  BY <1>1
<1>3. u \in ToSend'
  BY <1>2 DEF ToSend
<1>4. SUFFICES ASSUME NEW t, Halfway(t), t \in Tokens', t # u
               PROVE  Ahead(t, u)'
  BY DEF Last
<1>5. CASE t \in ToRead'
  BY <1>5 DEF Ahead
<1>6. CASE t \in OnTheWay'
  BY <1>3, <1>6 DEF Ahead
<1>7. CASE t \in ToSend'
  <2>1. PICK i \in DOMAIN outgoing' : t \in TokenOf(outgoing'[i].encryption)
    BY <1>7 DEF ToSend
  <2>2. i # k
    BY <1>4, <2>1, OneToken
  <2>3. i < k
    BY <1>1, <2>2
  <2>4. Before(outgoing, t, u)'
    BY <1>2, <2>1, <2>3 DEF Before
  <2>5. QED
    BY <2>4 DEF Ahead
<1>8. QED
  BY <1>4, <1>5, <1>6, <1>7 DEF Tokens, HomeParsed

(* What goes home still does, whatever is drawn.                            *)
LEMMA HomewardStays ==
  ASSUME Grows, UNCHANGED node_id, NEW enc, NEW a, NEW b, Homeward(enc, a, b)
  PROVE  Homeward(enc, a, b)'
<1>1. Nodes' = Nodes
  BY DEF Nodes
<1>2. \A t, x, y : Link(t, x, y) => Link(t, x, y)'
  BY DEF Link, Grows
<1>3. QED
  BY <1>1, <1>2 DEF Homeward

(* So all do, if what is new does.                                          *)
SentHome(t) ==
  /\ \A i : Fresh(i) /\ t \in TokenOf(outgoing'[i].encryption) =>
       Homeward(outgoing[i].encryption, order[turn], outgoing[i].dest_addr)'
  /\ t \notin ToRead' /\ t \notin ToParse'
(* Then the whole of HomeInv is kept.                                      *)
LEMMA HomeKept ==
  ASSUME TypeOK, TypeOK', Once', HomeInv, Extends, Grows,
         UNCHANGED <<Wire, node_id, order, turn>>,
         \A t \in ToRead :
           Halfway(t) => rx' = rx \/ t \notin Tokens',
         \A t \in Tokens' :
           Halfway(t) => t \in Tokens \/ SentHome(t)
  PROVE  HomeInv'
<1> USE DEF HomeInv
<1>1. /\ DOMAIN outgoing = 1 .. Len(outgoing) /\ Len(outgoing) \in Nat
      /\ DOMAIN outgoing' = 1 .. Len(outgoing') /\ Len(outgoing') \in Nat
  BY DEF TypeOK, StackTypeOK
<1>2. /\ ToSend' \subseteq Tokens' /\ ToRead' \subseteq Tokens'
      /\ ToParse' \subseteq Tokens' /\ ToSend' \cap ToRead' = {}
  BY DEF Tokens, Once, PlacesApart, Apart
<1>3. HomeOnWire'
  BY HomewardStays DEF HomeOnWire
<1>4. \A t \in ToParse : ~Halfway(t)
  BY DEF HomeParsed
<1>5. HomeSent'
  <2>1. SUFFICES ASSUME NEW i \in DOMAIN outgoing'
                 PROVE  Homeward(outgoing[i].encryption, order[turn],
                                 outgoing[i].dest_addr)'
    BY DEF HomeSent
  <2>2. CASE i \in DOMAIN outgoing
    <3>1. outgoing'[i] = outgoing[i]
      BY <1>1, <2>2 DEF Extends
    <3>2. PICK enc, b : enc = outgoing'[i].encryption
                        /\ b = outgoing'[i].dest_addr
      OBVIOUS
    <3>3. Homeward(enc, order[turn], b)
      BY <2>2, <3>1, <3>2 DEF HomeSent
    <3>4. PICK a : a = order[turn]
      OBVIOUS
    <3>5. Homeward(enc, a, b)'
      BY <3>3, <3>4, HomewardStays
    <3>6. QED
      BY <3>2, <3>4, <3>5
  <2>3. CASE i \notin DOMAIN outgoing
    <3>1. Fresh(i)
      BY <1>1, <2>3 DEF Fresh
    <3>2. SUFFICES ASSUME NEW t \in TokenOf(outgoing'[i].encryption),
                          Halfway(t)
                   PROVE  Homeward(outgoing[i].encryption, order[turn],
                                   outgoing[i].dest_addr)'
      BY DEF Homeward
    <3>3. t \in ToSend'
      BY <3>2 DEF ToSend
    <3>4. CASE t \in Tokens
      <4>1. t \in ToRead \cup ToParse
        BY <3>1, <3>2, <3>4, Handed DEF Fresh
      <4>2. t \in ToRead /\ rx' = rx
        BY <1>2, <1>4, <3>2, <3>3, <4>1
      <4>3. t \in ToRead'
        BY <4>2 DEF ToRead
      <4>4. QED
        BY <1>2, <3>3, <4>3
    <3>5. CASE t \notin Tokens
      BY <1>2, <3>1, <3>2, <3>3, <3>5 DEF SentHome
    <3>6. QED
      BY <3>4, <3>5
  <2>4. QED
    BY <2>2, <2>3
<1>6. ASSUME NEW t, Halfway(t), t \in ToRead' \cup ToParse'
      PROVE  t \in ToRead /\ rx' = rx
  <2>1. t \in Tokens
    BY <1>2, <1>6 DEF SentHome
  <2>2. t \in ToRead \cup ToParse
    BY <1>6, <2>1, Handed
  <2>3. QED
    BY <1>2, <1>4, <1>6, <2>2
<1>7. HomeRead'
  <2>1. SUFFICES ASSUME NEW t \in ToRead', Halfway(t)
                 PROVE  /\ rx'.via.kind = "Direct"
                        /\ Homeward(rx.encryption, rx.via.net_addr,
                                    order[turn])'
    BY DEF HomeRead
  <2>2. t \in ToRead /\ rx' = rx
    BY <1>6, <2>1
  <2>3. PICK enc, a, b : /\ enc = rx'.encryption /\ a = rx'.via.net_addr
                         /\ b = order'[turn']
    OBVIOUS
  <2>4. rx.via.kind = "Direct" /\ Homeward(enc, a, b)
    BY <2>1, <2>2, <2>3 DEF HomeRead
  <2>5. Homeward(enc, a, b)'
    BY <2>4, HomewardStays
  <2>6. QED
    BY <2>2, <2>3, <2>4, <2>5
<1>8. HomeParsed'
  <2>1. SUFFICES ASSUME NEW t \in ToParse', Halfway(t)
                 PROVE  FALSE
    BY DEF HomeParsed
  <2>2. t \in ToRead'
    BY <1>6, <2>1 DEF ToRead
  <2>3. QED
    BY <2>1, <2>2 DEF Once, PlacesApart, Apart
<1>9. QED
  BY <1>3, <1>5, <1>7, <1>8

-----------------------------------------------------------------------------
(* What a node's step does to the session it holds, and the one it awaits   *)

(* A name is that of one node.                                              *)
LEMMA OneName ==
  ASSUME NamesUnique, NEW n \in Nodes
  PROVE  \A x : n \in At(x) => At(x) = {n}
BY DEF NamesUnique, At

(* The node makes a session,                                                *)
LEMMA OneSessionSet ==
  ASSUME TypeOK, NamesUnique, NEW n \in Nodes, UNCHANGED node_id,
         NEW m \in NodeID, NEW s, s # None,
         session' = [session EXCEPT ![n][m] = s]
  PROVE  \A a, b \in NodeID : \A id : Holds(a, b, id)' <=>
           IF a = node_id[n] /\ b = m THEN id = s.session_id
           ELSE Holds(a, b, id)
<1>1. Nodes' = Nodes /\ Nodes \subseteq NetAddr
  BY DEF Nodes
<1>2. session \in [NetAddr -> [NodeID -> Session \cup {None}]]
  BY DEF TypeOK, NodeTypeOK
<1>3. \A k \in NetAddr, b \in NodeID :
        session'[k][b] = IF k = n /\ b = m THEN s ELSE session[k][b]
  BY <1>1, <1>2
<1>4. \A x : At(x)' = At(x) /\ At(x) \subseteq NetAddr
  BY <1>1 DEF At
<1>5. n \in At(node_id[n])
  BY DEF At
<1>6. SUFFICES ASSUME NEW a \in NodeID, NEW b \in NodeID, NEW id
               PROVE  Holds(a, b, id)' <=>
                        IF a = node_id[n] /\ b = m THEN id = s.session_id
                        ELSE Holds(a, b, id)
  OBVIOUS
<1>7. CASE a = node_id[n] /\ b = m
  <2>1. At(a) = {n}
    BY <1>5, <1>7, OneName
  <2>2. QED
    BY <1>1, <1>3, <1>4, <1>7, <2>1 DEF Holds
<1>8. CASE ~(a = node_id[n] /\ b = m)
  <2>1. \A k \in At(a) : session'[k][b] = session[k][b]
    BY <1>3, <1>4, <1>8 DEF At
  <2>2. QED
    BY <1>4, <1>8, <2>1 DEF Holds
<1>9. QED
  BY <1>7, <1>8

(* or sets or clears the pending one.                                       *)
LEMMA OnePendingSet ==
  ASSUME TypeOK, NamesUnique, NEW n \in Nodes, UNCHANGED node_id,
         NEW m \in NodeID, NEW p,
         pending_session' = [pending_session EXCEPT ![n][m] = p]
  PROVE  \A a, b \in NodeID : \A id : Awaits(a, b, id)' <=>
           IF a = node_id[n] /\ b = m THEN p # None /\ p.session_id = id
           ELSE Awaits(a, b, id)
<1>1. Nodes' = Nodes /\ Nodes \subseteq NetAddr
  BY DEF Nodes
<1>2. /\ pending_session = [k \in NetAddr |-> pending_session[k]]
      /\ \A k \in NetAddr :
           pending_session[k] = [b \in NodeID |-> pending_session[k][b]]
  BY DEF TypeOK, NodeTypeOK
<1>3. \A k \in NetAddr, b \in NodeID :
        pending_session'[k][b] =
          IF k = n /\ b = m THEN p ELSE pending_session[k][b]
  BY <1>1, <1>2
<1>4. \A x : At(x)' = At(x) /\ At(x) \subseteq NetAddr
  BY <1>1 DEF At
<1>5. n \in At(node_id[n])
  BY DEF At
<1>6. SUFFICES ASSUME NEW a \in NodeID, NEW b \in NodeID, NEW id
               PROVE  Awaits(a, b, id)' <=>
                        IF a = node_id[n] /\ b = m
                          THEN p # None /\ p.session_id = id
                          ELSE Awaits(a, b, id)
  OBVIOUS
<1>7. CASE a = node_id[n] /\ b = m
  <2>1. At(a) = {n}
    BY <1>5, <1>7, OneName
  <2>2. QED
    BY <1>1, <1>3, <1>4, <1>7, <2>1 DEF Awaits
<1>8. CASE ~(a = node_id[n] /\ b = m)
  <2>1. \A k \in At(a) : pending_session'[k][b] = pending_session[k][b]
    BY <1>3, <1>4, <1>8 DEF At
  <2>2. QED
    BY <1>4, <1>8, <2>1 DEF Awaits
<1>9. QED
  BY <1>7, <1>8

(* Or nothing, but that a session may change in place.                      *)
SameSessionIDs ==
  \A a \in Nodes, m \in NodeID :
    \/ session'[a][m] = session[a][m]
    \/ /\ session'[a][m] # None /\ session[a][m] # None
       /\ session'[a][m].session_id = session[a][m].session_id
(* Then a node of any name holds what it held,                              *)
LEMMA SameHolds ==
  ASSUME SameSessionIDs, UNCHANGED node_id
  PROVE  \A a, b \in NodeID : \A id : Holds(a, b, id)' <=> Holds(a, b, id)
<1>1. \A x : At(x)' = At(x) /\ At(x) \subseteq Nodes
  BY DEF At, Nodes
<1>2. QED
  BY <1>1 DEF SameSessionIDs, Holds
(* and awaits what it awaited.                                              *)
LEMMA SameAwaits ==
  ASSUME UNCHANGED <<pending_session, node_id>>
  PROVE  \A a, b \in NodeID : \A id : Awaits(a, b, id)' <=> Awaits(a, b, id)
<1>1. \A x : At(x)' = At(x)
  BY DEF At, Nodes
<1>2. QED
  BY <1>1 DEF Awaits

-----------------------------------------------------------------------------
(* A handshake is read                                                      *)

(* A packet sent is the last to arrive.                                     *)
LEMMA EmittedLast ==
  ASSUME TypeOK, TypeOK', HomeParsed', NEW p, p # None, Emit(p),
         NEW u \in TokenOf(p.encryption)
  PROVE  Last(u)'
<1>1. outgoing' = Append(outgoing, p) /\ Len(outgoing) \in Nat
  BY DEF Emit, TypeOK, StackTypeOK
<1>2. Len(outgoing') = Len(outgoing) + 1 /\ outgoing'[Len(outgoing')] = p
  BY <1>1, LenProperties DEF TypeOK, StackTypeOK
<1>3. PICK k : k = Len(outgoing')
  OBVIOUS
<1>4. k > 0 /\ u \in TokenOf(outgoing'[k].encryption)
  BY <1>1, <1>2, <1>3
<1>5. QED
  BY <1>3, <1>4, SentLast

(* The one it is for accepts it.                                            *)
LEMMA ParseHandshakeAccepts ==
  ASSUME NEW n \in NetAddr, TunnelInv, TypeOK', NodeSteps(n), HomeInv,
         NamesUnique, ParseHandshake(n)
  PROVE  HomeInv' /\ Proceeds
<1>0. PICK id, m, z, a :
        /\ id = rx.encryption.core.session_id /\ z = node_id[n]
        /\ m = rx.encryption.core.signer /\ a = rx.via.net_addr
  OBVIOUS
<1> DEFINE c == rx.encryption.core
           s == NewSession(id, rx.via, ticks[n])
           ack == Acknowledge(id, z)
           p == Package(a, ack)
<1>1. /\ Turn(n) /\ z \in NodeID /\ TypeInv(n) /\ TypeOK
      /\ n \in Nodes /\ UNCHANGED <<Wire, node_id, order, turn, Nodes>>
      /\ Once /\ Once' /\ Grows /\ Extends /\ NodeInv
  BY <1>0, NodeStepFacts DEF TunnelInv, PairInv
<1>2. /\ rx # None /\ rx.request = None
      /\ c.type = "Handshake" /\ rx.encryption \in Encryption
      /\ id \in SessionID /\ m \in NodeID /\ rx.via \in SessionType
  BY <1>0, <1>1, ParsingFields, CoreFields DEF ParseHandshake, Parsing, TypeInv
<1>3. UNCHANGED <<work, minted>> /\ rx' = None
  BY DEF ParseHandshake, Parsed
<1>4. ToRead = {Offered(id)}
  BY <1>0, <1>2, EncryptionFields DEF ToRead, TokenOf, Offered
<1>5. /\ rx.via.kind = "Direct" /\ a \in Nodes
      /\ Drawn(minted, id, node_id[a], z)
  <2>1. Halfway(Offered(id)) /\ Offered(id)[1] = "Handshake"
        /\ Offered(id)[2] = id /\ order[turn] = n
    BY <1>0, <1>1 DEF Halfway, Offered, Turn
  <2>2. Offered(id) \in TokenOf(rx.encryption)
    BY <1>0, <1>2, <1>4 DEF ToRead
  <2>3. /\ rx.via.kind = "Direct" /\ a \in Nodes
        /\ Link(Offered(id), node_id[a], node_id[n])
    <3> HIDE DEF c
    <3>1. rx.via.kind = "Direct" /\ Homeward(rx.encryption, a, n)
      BY <1>0, <1>4, <2>1 DEF HomeInv, HomeRead
    <3>2. QED
      BY <2>1, <2>2, <3>1 DEF Homeward
  <2>4. QED
    BY <1>0, <2>1, <2>3 DEF Link
<1>6. Drawn(minted, id, m, c.recipient)
  BY <1>0, <1>1, <1>2, EncryptionFields
     DEF NodeInv, GenuineStack, GenuineRead, Genuine
<1>7. m = node_id[a] /\ c.recipient = z
  BY <1>5, <1>6, DrawnOnce
<1>8. IsRecipient(n, c)
  BY <1>0, <1>7 DEF IsRecipient
<1>9. /\ s \in Session /\ s # None /\ s.session_id = id
      /\ s.session_type = rx.via
  BY <1>0, <1>1, <1>2, NewSessionIsSession, NoneIsNoValue
     DEF TypeInv, NodeTypeOK, NewSession
<1>10. GenPacket(Self(n), s, ack) = {p}
  <2> HIDE DEF s, ack
  <2>1. IsDirect(s)
    BY <1>0, <1>5, <1>9 DEF IsDirect
  <2>2. QED
    BY <1>0, <1>9, <2>1 DEF GenPacket
<1>11. ack \in Encryption /\ TokenOf(ack) = {Accepted(id)} /\ ack.hops = <<>>
       /\ ack.core.acknowledger = z
  BY <1>1, <1>2, EncryptionConstructors, EncryptionFields
     DEF TokenOf, Acknowledge, Bare, Accepted
<1>12. p \in Outgoing /\ p.encryption = ack /\ p # None /\ p.dest_addr = a
  <2>1. a \in NetAddr
    BY <1>5 DEF Nodes
  <2> HIDE DEF ack
  <2>2. p \in Outgoing /\ p.encryption = ack /\ p.dest_addr = a
    BY <1>11, <2>1, PackageIsOutgoing DEF Package
  <2>3. QED
    BY <2>2, NoneIsNoValue
<1> HIDE DEF p, ack, s
<1>13. /\ Emit(p) /\ session' = [session EXCEPT ![n][m] = s]
       /\ pending_session' =
            [pending_session EXCEPT ![n][m] = YieldPending(n, m)]
  BY <1>0, <1>8, <1>10, <1>12 DEF ParseHandshake, s, ack
<1> HIDE DEF c
<1>14. Gained(p) = {Accepted(id)}
  BY <1>11, <1>12 DEF Gained
<1>15. Tokens' = (Tokens \ {Offered(id)}) \cup {Accepted(id)}
  <2>1. \A t \in Gained(p) : \E u \in ToRead : t[2] = u[2]
    BY <1>4, <1>14 DEF Accepted, Offered
  <2>2. QED
    BY <1>1, <1>3, <1>4, <1>12, <1>13, <1>14, <2>1, ReadOnce DEF TypeInv
<1>16. Offered(id) \in Tokens /\ Accepted(id) \notin Tokens
  BY <1>1, <1>4, NotBoth DEF Tokens
<1>17. HomeInv'
  <2>1. \A t \in ToRead : t \notin Tokens'
    BY <1>4, <1>15, HalfwayTokens
  <2>2. \A t \in Tokens' : t \in Tokens \/ t = Accepted(id)
    BY <1>15
  <2>3. SentHome(Accepted(id))
    <3>1. Accepted(id) \notin ToRead' /\ Accepted(id) \notin ToParse'
      BY <1>3, <1>16 DEF ToRead, ToParse, Tokens
    <3>2. SUFFICES ASSUME NEW i, Fresh(i)
                   PROVE  Homeward(outgoing[i].encryption, order[turn],
                                   outgoing[i].dest_addr)'
      BY <3>1 DEF SentHome
    <3>3. outgoing'[i] = p /\ order'[turn'] = n
      BY <1>1, <1>13, <3>2, EmitAdded DEF TypeInv, Turn
    <3>4. /\ Link(Accepted(id), node_id[n], node_id[a])'
      BY <1>0, <1>1, <1>3, <1>5 DEF Link, Accepted
    <3>5. PICK enc, b : enc = outgoing'[i].encryption
                        /\ b = outgoing'[i].dest_addr
      OBVIOUS
    <3>6. enc = ack /\ b = a
      BY <1>12, <3>3, <3>5
    <3>7. TokenOf(enc) = {Accepted(id)} /\ enc.hops = <<>>
          /\ enc.core.acknowledger = node_id'[n]
      BY <1>0, <1>1, <1>11, <3>6
    <3>8. n \in Nodes' /\ b \in Nodes'
      BY <1>1, <1>5, <3>6
    <3>9. Homeward(enc, n, b)'
      BY <3>4, <3>6, <3>7, <3>8 DEF Homeward
    <3>10. QED
      BY <3>3, <3>5, <3>9
  <2>4. QED
    BY <1>1, <2>1, <2>2, <2>3, HomeKept
<1>18. KeepsOrder
  <2>1. \A t \in ToRead : t \notin Tokens'
    BY <1>4, <1>15, HalfwayTokens
  <2>2. QED
    BY <1>1, <2>1, OrderKept
<1>19. Last(Accepted(id))'
  BY <1>1, <1>11, <1>12, <1>13, <1>17, EmittedLast DEF HomeInv
<1>20. \A x, y \in NodeID : \A k : Holds(x, y, k)' <=>
         IF x = z /\ y = m THEN k = id ELSE Holds(x, y, k)
  <2>1. m \in NodeID /\ s # None /\ UNCHANGED node_id
    BY <1>0, <1>1, <1>2, <1>9
  <2>2. \A x, y \in NodeID : \A k : Holds(x, y, k)' <=>
          IF x = node_id[n] /\ y = m THEN k = s.session_id
          ELSE Holds(x, y, k)
    BY <1>1, <1>13, <2>1, OneSessionSet
  <2>3. QED
    BY <1>0, <1>9, <2>2
<1>21. \A x, y \in NodeID : \A k : Awaits(x, y, k)' <=>
         Awaits(x, y, k) /\ ~(x = z /\ y = m /\ z < m)
  <2>1. PICK q : q = YieldPending(n, m)
    OBVIOUS
  <2>2. \A x, y \in NodeID : \A k : Awaits(x, y, k)' <=>
          IF x = z /\ y = m THEN q # None /\ q.session_id = k
          ELSE Awaits(x, y, k)
    <3>1. m \in NodeID /\ UNCHANGED node_id
      BY <1>0, <1>1, <1>2
    <3>2. pending_session' = [pending_session EXCEPT ![n][m] = q]
      BY <1>13, <2>1
    <3>3. \A x, y \in NodeID : \A k : Awaits(x, y, k)' <=>
            IF x = node_id[n] /\ y = m THEN q # None /\ q.session_id = k
            ELSE Awaits(x, y, k)
      BY <1>1, <3>1, <3>2, OnePendingSet
    <3>4. QED
      BY <1>0, <3>3
  <2>3. At(z) = {n}
    BY <1>0, <1>1, OneName DEF At
  <2>4. \A k : Awaits(z, m, k) <=>
          /\ pending_session[n][m] # None
          /\ pending_session[n][m].session_id = k
    BY <2>3 DEF Awaits
  <2>5. QED
    BY <1>0, <2>1, <2>2, <2>4 DEF YieldPending
<1>22. Accepts(z, m, id)
  BY <1>3, <1>4, <1>5, <1>7, <1>15, <1>18, <1>19, <1>20, <1>21
     DEF Accepts
<1>23. QED
  BY <1>17, <1>22 DEF Proceeds

(* An acknowledgement is read: it makes a session if it is waited for, and  *)
(* nothing is waited for any more.                                          *)
LEMMA ParseAcknowledgeConfirms ==
  ASSUME NEW n \in NetAddr, TunnelInv, TypeOK', NodeSteps(n), HomeInv,
         NamesUnique, ParseAcknowledge(n)
  PROVE  HomeInv' /\ Proceeds
<1>0. PICK id, m, z, a :
        /\ id = rx.encryption.core.session_id /\ z = node_id[n]
        /\ m = rx.encryption.core.acknowledger /\ a = rx.via.net_addr
  OBVIOUS
<1> DEFINE c == rx.encryption.core
           p == pending_session[n][m]
           new == NewSession(id, p.session_type, None)
           s == [session[n] EXCEPT ![m] = new]
           first == ConnectionInit(id, UpdateConnectionPackets(n, p.packets))
           match == p # None /\ p.session_id = id
<1>1. /\ Turn(n) /\ z \in NodeID /\ TypeInv(n) /\ TypeOK
      /\ n \in Nodes /\ UNCHANGED <<Wire, node_id, order, turn, Nodes>>
      /\ Once /\ Once' /\ Grows /\ Extends /\ NodeInv
  BY <1>0, NodeStepFacts DEF TunnelInv, PairInv
<1>2. /\ rx # None /\ rx.request = None
      /\ c.type = "Acknowledge" /\ rx.encryption \in Encryption
      /\ id \in SessionID /\ m \in NodeID
  BY <1>0, <1>1, ParsingFields, CoreFields
     DEF ParseAcknowledge, Parsing, TypeInv
<1>3. UNCHANGED <<work, minted>> /\ rx' = None
  BY DEF ParseAcknowledge, Parsed
<1>4. ToRead = {Accepted(id)}
  BY <1>0, <1>2, EncryptionFields DEF ToRead, TokenOf, Accepted
<1>5. /\ a \in Nodes /\ Drawn(minted, id, z, node_id[a]) /\ m = node_id[a]
  <2>1. Halfway(Accepted(id)) /\ Accepted(id)[1] = "Acknowledge"
        /\ Accepted(id)[2] = id /\ order[turn] = n
    BY <1>1 DEF Halfway, Accepted, Turn
  <2>2. Accepted(id) \in TokenOf(rx.encryption)
    BY <1>2, <1>4 DEF ToRead
  <2>3. /\ a \in Nodes /\ Link(Accepted(id), node_id[a], node_id[n])
        /\ m = node_id[a]
    <3> HIDE DEF c
    <3>1. Homeward(rx.encryption, a, n)
      BY <1>0, <1>4, <2>1 DEF HomeInv, HomeRead
    <3>2. QED
      BY <1>0, <2>1, <2>2, <3>1 DEF Homeward
  <2>4. QED
    BY <1>0, <2>1, <2>3 DEF Link
<1>6. /\ pending_session' = [pending_session EXCEPT ![n][m] = None]
      /\ \/ ~match /\ UNCHANGED <<session, outgoing>>
         \/ /\ match /\ session' = [session EXCEPT ![n] = s]
            /\ \E init \in SendPacket([Self(n) EXCEPT !.session = s], m, first) :
                 Emit(init)
  BY <1>0 DEF ParseAcknowledge
<1>7. \A k : Awaits(z, m, k) <=> p # None /\ p.session_id = k
  <2>1. At(z) = {n}
    BY <1>0, <1>1, OneName DEF At
  <2>2. QED
    BY <2>1 DEF Awaits
<1>8. match <=> Awaits(z, m, id)
  BY <1>7
<1>9. \A x, y \in NodeID : \A k : Holds(x, y, k)' <=>
        IF x = z /\ y = m /\ Awaits(z, m, id) THEN k = id ELSE Holds(x, y, k)
  <2>1. CASE ~match
    <3>1. SameSessionIDs /\ UNCHANGED node_id
      BY <1>1, <1>6, <2>1 DEF SameSessionIDs
    <3>2. \A x, y \in NodeID : \A k : Holds(x, y, k)' <=> Holds(x, y, k)
      BY <3>1, SameHolds
    <3>3. QED
      BY <1>8, <2>1, <3>2
  <2>2. CASE match
    <3>1. p \in PendingSession /\ p # None /\ p.session_id = id
      BY <1>1, <1>2, <2>2 DEF TypeInv, NodeTypeOK
    <3>2. new \in Session /\ new.session_id = id /\ new # None
      BY <1>2, <3>1, NewSessionIsSession, NoneIsNoValue
         DEF PendingSession, NewSession
    <3>3. session' = [session EXCEPT ![n][m] = new] /\ UNCHANGED node_id
      BY <1>1, <1>6, <2>2
    <3> HIDE DEF new
    <3>4. \A x, y \in NodeID : \A k : Holds(x, y, k)' <=>
            IF x = node_id[n] /\ y = m THEN k = new.session_id
            ELSE Holds(x, y, k)
      BY <1>1, <1>2, <3>2, <3>3, OneSessionSet
    <3>5. QED
      BY <1>0, <1>8, <2>2, <3>2, <3>4
  <2>3. QED
    BY <2>1, <2>2
<1>10. \A x, y \in NodeID : \A k : Awaits(x, y, k)' <=>
         Awaits(x, y, k) /\ ~(x = z /\ y = m)
  <2>1. \A x, y \in NodeID : \A k : Awaits(x, y, k)' <=>
          IF x = node_id[n] /\ y = m THEN None # None /\ None.session_id = k
          ELSE Awaits(x, y, k)
    <3>1. m \in NodeID /\ UNCHANGED node_id
      BY <1>1, <1>2
    <3>2. QED
      BY <1>1, <1>6, <3>1, OnePendingSet
  <2>2. QED
    BY <1>0, <2>1
<1>11. \E G : Tokens' = (Tokens \ ToRead) \cup G /\ \A t \in G : ~Halfway(t)
  <2>1. CASE ~match
    <3>1. Emit(None) /\ Gained(None) = {}
      BY <1>6, <2>1 DEF Emit, Gained
    <3>2. PICK G : G = Gained(None)
      OBVIOUS
    <3>3. Tokens' = (Tokens \ ToRead) \cup G
      BY <1>1, <1>3, <3>1, <3>2, ReadOnce DEF TypeInv
    <3>4. QED
      BY <3>1, <3>2, <3>3
  <2>2. CASE match
    <3>1. p \in PendingSession /\ p # None
      BY <1>1, <1>2, <2>2 DEF TypeInv, NodeTypeOK
    <3>2. new \in Session /\ s \in [NodeID -> Session \cup {None}]
      BY <1>1, <1>2, <3>1, NewSessionIsSession
         DEF PendingSession, TypeInv, NodeTypeOK
    <3>3. first \in NodePacket /\ first.type # "Traverse"
      BY <1>1, <1>2, <3>1, FirstPacketTypes DEF TypeInv
    <3>4. TokenIn(first) = {<<"ConnectionInit", id>>}
      BY DEF TokenIn, ConnectionInit
    <3>5. [Self(n) EXCEPT !.session = s] \in SelfType
      BY <1>1, <3>2, SelfTypes DEF SelfType, TypeInv
    <3>6. PICK init \in SendPacket([Self(n) EXCEPT !.session = s], m, first) :
            Emit(init)
      BY <1>6, <2>2
    <3> HIDE DEF c, p, new, s, first
    <3>7. Sent(init, first)
      BY <1>2, <3>3, <3>5, <3>6, SendPacketKeepsCore
    <3>8. /\ init \in Outgoing \cup {None}
          /\ Gained(init) \subseteq {<<"ConnectionInit", id>>}
      BY <3>3, <3>4, <3>7, WrappedToken DEF Sent, Gained
    <3>9. \A t \in Gained(init) : \E u \in ToRead : t[2] = u[2]
      BY <1>4, <3>8 DEF Accepted
    <3>10. Tokens' = (Tokens \ ToRead) \cup Gained(init)
      BY <1>1, <1>3, <3>6, <3>8, <3>9, ReadOnce DEF TypeInv
    <3>11. QED
      BY <3>8, <3>10 DEF Halfway
  <2>3. QED
    BY <2>1, <2>2
<1>12. \A t : Halfway(t) =>
         (t \in Tokens' <=> t \in Tokens /\ t # Accepted(id))
  BY <1>4, <1>11
<1>13. \A t \in ToRead : Halfway(t) => t \notin Tokens'
  BY <1>4, <1>12
<1>14. HomeInv'
  BY <1>1, <1>12, <1>13, HomeKept
<1>15. KeepsOrder
  BY <1>1, <1>13, OrderKept
<1>16. Confirms(z, m, id)
  BY <1>3, <1>4, <1>5, <1>9, <1>10, <1>12, <1>15 DEF Confirms
<1>17. QED
  BY <1>14, <1>16 DEF Proceeds

-----------------------------------------------------------------------------
(* The other steps of a node                                                *)

(* A tunnel has the id of its session.                                      *)
LEMMA TunnelIDs ==
  ASSUME TypeOK, TypeOK', UNCHANGED node_id,
         NEW a \in Nodes, NEW m \in NodeID
  PROVE  /\ session[a][m] = None <=> Tunnels[a][m] = None
         /\ session[a][m] # None =>
              Tunnels[a][m].id = session[a][m].session_id
         /\ session'[a][m] = None <=> Tunnels'[a][m] = None
         /\ session'[a][m] # None =>
              Tunnels'[a][m].id = session'[a][m].session_id
<1>1. a \in NetAddr /\ a \in Nodes'
  BY DEF Nodes
<1>2. /\ session[a][m] \in Session \cup {None}
      /\ session'[a][m] \in Session \cup {None}
  BY <1>1 DEF TypeOK, NodeTypeOK
<1>3. \A s \in Session :
        [id |-> s.session_id, open |-> s.ping_sent = None] # None
  <2>1. SUFFICES ASSUME NEW s \in Session
                 PROVE  [id |-> s.session_id, open |-> s.ping_sent = None]
                          \in [id : SessionID, open : BOOLEAN]
    BY TunnelAssumption
  <2>2. s.session_id \in SessionID /\ (s.ping_sent = None) \in BOOLEAN
    BY DEF Session
  <2>3. QED
    BY <2>2
<1>4. /\ Tunnels[a][m] = TunnelOf(session[a][m])
      /\ Tunnels'[a][m] = TunnelOf(session'[a][m])
  BY <1>1 DEF Tunnels
<1>5. QED
  BY <1>2, <1>3, <1>4 DEF TunnelOf

(* So a session keeps its id as long as the tunnel does,                    *)
LEMMA SameTunnelIDs ==
  ASSUME TypeOK, TypeOK', UNCHANGED node_id, Tunnels' = Tunnels
  PROVE  SameSessionIDs
<1>1. SUFFICES ASSUME NEW a \in Nodes, NEW m \in NodeID
               PROVE  \/ session'[a][m] = session[a][m]
                      \/ /\ session'[a][m] # None /\ session[a][m] # None
                         /\ session'[a][m].session_id =
                              session[a][m].session_id
  BY DEF SameSessionIDs
<1>2. QED
  BY <1>1, TunnelIDs

(* and when the ConnectionInit has come.                                    *)
LEMMA EstablishedSameIDs ==
  ASSUME TypeOK, TypeOK', Once, UNCHANGED node_id, NEW n \in NetAddr,
         Tun!Establish(n)
  PROVE  SameSessionIDs
<1>1. PICK id \in SessionID :
        /\ Tunnels[n][minted[id][1]] = [id |-> id, open |-> FALSE]
        /\ Tun!Set(n, minted[id][1], id, TRUE)
  <2>1. \A id \in InHand("ConnectionInit") : id \in SessionID
    <3>1. \A t \in Tokens : t[2] \in SessionID
      <4>1. Len(minted) \in Nat
        BY DEF TypeOK, StackTypeOK
      <4>2. \A k \in 1 .. Len(minted) : k \in Nat
        BY <4>1
      <4>3. QED
        BY <4>2 DEF Once, Known, SessionID
    <3>2. QED
      BY <3>1 DEF InHand, OfType
  <2>2. QED
    BY <2>1 DEF Tun!Establish
<1>2. PICK x : x = minted[id][1]
  OBVIOUS
<1>3. Tunnels' = [Tunnels EXCEPT ![n][x] = [id |-> id, open |-> TRUE]]
  BY <1>1, <1>2 DEF Tun!Set
<1>4. SUFFICES ASSUME NEW a \in Nodes, NEW m \in NodeID
               PROVE  \/ session'[a][m] = session[a][m]
                      \/ /\ session'[a][m] # None /\ session[a][m] # None
                         /\ session'[a][m].session_id =
                              session[a][m].session_id
  BY DEF SameSessionIDs
<1>5. a \in NetAddr
  BY DEF Nodes
<1>6. /\ Tunnels = [b \in NetAddr |-> Tunnels[b]]
      /\ Tunnels[a] = [k \in NodeID |-> Tunnels[a][k]]
  BY <1>5 DEF Tunnels
<1>7. CASE a = n /\ m = x
  <2>1. Tunnels'[a][m] = [id |-> id, open |-> TRUE]
    BY <1>3, <1>5, <1>6, <1>7
  <2>2. Tunnels[a][m] = [id |-> id, open |-> FALSE]
    BY <1>1, <1>2, <1>7
  <2>3. Tunnels'[a][m] # None /\ Tunnels[a][m] # None
    <3>1. \A b \in BOOLEAN :
            [id |-> id, open |-> b] \in [id : SessionID, open : BOOLEAN]
      BY <1>1
    <3>2. QED
      BY <2>1, <2>2, <3>1, TunnelAssumption
  <2>4. QED
    BY <2>1, <2>2, <2>3, TunnelIDs
<1>8. CASE ~(a = n /\ m = x)
  <2>1. Tunnels'[a][m] = Tunnels[a][m]
    BY <1>3, <1>5, <1>6, <1>8
  <2>2. QED
    BY <2>1, TunnelIDs
<1>9. QED
  BY <1>7, <1>8

(* What is half done and is not read stays, and nothing new comes: a node   *)
(* that neither reads nor offers one does nothing to a handshake.           *)
LEMMA OthersCalm ==
  ASSUME NEW n \in NetAddr, TunnelInv, TypeOK', NodeSteps(n), HomeInv,
         UNCHANGED <<minted, pending_session>>,
         \A t \in ToRead : Halfway(t) => rx' = rx
  PROVE  HomeInv' /\ Proceeds
<1>1. /\ TypeOK /\ UNCHANGED <<Wire, node_id, order, turn, Nodes>>
      /\ Once /\ Once' /\ Shakes(n) /\ Grows /\ Extends
  BY NodeStepFacts DEF TunnelInv
<1>2. ToSend \subseteq ToSend'
  <2>1. /\ DOMAIN outgoing = 1 .. Len(outgoing) /\ Len(outgoing) \in Nat
        /\ DOMAIN outgoing' = 1 .. Len(outgoing') /\ Len(outgoing') \in Nat
    BY <1>1 DEF TypeOK, StackTypeOK
  <2>2. \A i \in DOMAIN outgoing : /\ i \in DOMAIN outgoing'
                                   /\ outgoing'[i] = outgoing[i]
    BY <1>1, <2>1 DEF Extends
  <2>3. QED
    BY <2>2 DEF ToSend
<1>3. ASSUME NEW t \in Tokens, Halfway(t)
      PROVE  t \in Tokens' /\ (t \in ToRead => t \in ToRead')
  <2>1. t \in ToRead => t \in ToRead'
    BY <1>3 DEF ToRead
  <2>2. OnTheWay' = OnTheWay
    BY <1>1 DEF OnTheWay
  <2>3. QED
    BY <1>2, <1>3, <2>1, <2>2 DEF Tokens, HomeInv, HomeParsed
<1>4. ASSUME NEW t \in Tokens', Halfway(t)
      PROVE  t \in Tokens
  <2>1. PICK id : id = t[2]
    OBVIOUS
  <2>2. id \in 1 .. Len(minted)
    BY <1>1, <1>4, <2>1 DEF Once, Known
  <2>3. t = Offered(id) \/ t = Accepted(id)
    BY <1>4, <2>1, NextTokensArePairs DEF Pairs, Halfway, Offered, Accepted
  <2>4. CASE t = Offered(id)
    BY <1>1, <1>4, <2>2, <2>4, HandshakesLeft
  <2>5. CASE t = Accepted(id)
    <3>1. SUFFICES ASSUME Accepted(id) \notin Tokens
                   PROVE  FALSE
      BY <2>5
    <3>2. Offered(id) \in Tokens /\ Offered(id) \notin Tokens'
      BY <1>1, <1>4, <2>5, <3>1, AcknowledgesOwn DEF Accepted
    <3>3. QED
      BY <1>3, <3>2, HalfwayTokens
  <2>6. QED
    BY <2>3, <2>4, <2>5
<1>5. HomeInv'
  BY <1>1, <1>4, HomeKept
<1>6. KeepsOrder
  <2>1. ToRead \subseteq Tokens
    BY DEF Tokens
  <2>2. QED
    BY <1>1, <1>3, <2>1, OrderKept
<1>7. SameSessionIDs
  <2>1. \A kind, id : /\ <<kind, id>> \in Tokens <=> id \in InHand(kind)
                      /\ <<kind, id>> \in Tokens' <=> id \in InHand(kind)'
    BY TokensArePairs, NextTokensArePairs, OfTypeMembers DEF InHand
  <2>2. \A id : /\ id \in InHand("Handshake") => id \in InHand("Handshake")'
                /\ id \in InHand("Acknowledge") => id \in InHand("Acknowledge")'
    BY <1>3, <2>1, HalfwayTokens DEF Offered, Accepted
  <2>3. ~Tun!Offer(n)
    <3>1. \A e : Len(Append(minted, e)) = Len(minted) + 1
                 /\ Len(minted) \in Nat
      BY <1>1 DEF TypeOK, StackTypeOK
    <3>2. QED
      BY <3>1 DEF Tun!Offer
  <2>4. ~Tun!Accept(n) /\ ~Tun!Confirm(n)
    BY <2>2 DEF Tun!Accept, Tun!Confirm
  <2>5. CASE Tun!Establish(n)
    BY <1>1, <2>5, EstablishedSameIDs
  <2>6. CASE Tun!Lose
    BY <1>1, <2>6, SameTunnelIDs DEF Tun!Lose
  <2>7. QED
    BY <1>1, <2>3, <2>4, <2>5, <2>6 DEF Shakes
<1>8. Calm
  BY <1>1, <1>3, <1>4, <1>6, <1>7, SameHolds, SameAwaits DEF Calm
<1>9. QED
  BY <1>5, <1>8 DEF Proceeds

(* A node offers a session.                                                 *)
LEMMA ConnectOffers ==
  ASSUME NEW n \in NetAddr, TunnelInv, TypeOK', NodeSteps(n), HomeInv,
         NamesUnique, HandshakesAddressed', UNCHANGED <<rx, work>>,
         NEW m \in NodeID, NEW type \in SessionType,
         NEW packets \in Seq(InitialPacket), Connect(n, m, type, packets)
  PROVE  HomeInv' /\ Proceeds
<1>0. PICK k, z, b : /\ k = Len(minted) + 1 /\ z = node_id[n]
                     /\ b = type.net_addr
  OBVIOUS
<1> DEFINE hs == Handshake(m, k, z)
           p == Package(b, hs)
           q == [session_id |-> k, sent |-> ticks[n], packets |-> packets,
                 session_type |-> type]
<1>1. /\ Turn(n) /\ z \in NodeID /\ TypeInv(n) /\ TypeOK
      /\ n \in Nodes /\ UNCHANGED <<Wire, node_id, order, turn, Nodes>>
      /\ Once /\ Once' /\ Shakes(n) /\ Grows /\ Extends
  BY <1>0, NodeStepFacts DEF TunnelInv
<1>2. /\ minted' = Append(minted, <<z, m>>) /\ k \in SessionID
      /\ Len(minted) \in Nat
  BY <1>0, <1>1 DEF Connect, TypeOK, StackTypeOK, SessionID
<1>3. pending_session' = [pending_session EXCEPT ![n][m] = q]
  BY <1>0 DEF Connect
<1>4. q # None /\ q.session_id = k /\ q.session_type = type
  <2>1. ticks[n] \in Nat
    BY <1>1 DEF TypeOK, NodeTypeOK
  <2>2. q \in PendingSession
    BY <1>2, <2>1 DEF PendingSession
  <2>3. QED
    BY <2>2, ArrivedAssumption
<1>5. type.kind = "Direct" /\ b \in Nodes /\ node_id[b] = m
  <2>1. pending_session'[n][m] = q
    BY <1>1, <1>3 DEF TypeOK, NodeTypeOK
  <2> HIDE DEF q
  <2>2. n \in Nodes'
    BY <1>1
  <2>3. q.session_type.kind = "Direct" /\ q.session_type.net_addr \in At(m)'
    BY <1>4, <2>1, <2>2 DEF HandshakesAddressed, IsDirect
  <2>4. QED
    BY <1>0, <1>1, <1>4, <2>3 DEF At
<1>6. Emit(p)
  BY <1>0, <1>5 DEF Connect
<1> HIDE DEF q
<1>7. hs \in Encryption /\ hs.hops = <<>> /\ TokenOf(hs) = {Offered(k)}
  <2>1. hs \in Encryption
    BY <1>1, <1>2, EncryptionConstructors
  <2>2. hs.core.type = "Handshake" /\ hs.core.session_id = k /\ hs.hops = <<>>
    BY DEF Handshake, Bare
  <2>3. hs # None
    BY <2>1, EncryptionFields
  <2> HIDE DEF hs
  <2>4. QED
    BY <2>1, <2>2, <2>3 DEF TokenOf, Offered
<1>8. p \in Outgoing /\ p.encryption = hs /\ p # None /\ p.dest_addr = b
  <2>1. b \in NetAddr
    BY <1>5 DEF Nodes
  <2> HIDE DEF hs
  <2>2. p \in Outgoing /\ p.encryption = hs /\ p.dest_addr = b
    BY <1>7, <2>1, PackageIsOutgoing DEF Package
  <2>3. QED
    BY <2>2, NoneIsNoValue
<1> HIDE DEF p, hs
<1>9. Gained(p) = {Offered(k)}
  BY <1>7, <1>8 DEF Gained
<1>10. Tokens' = Tokens \cup {Offered(k)}
  <2>1. Gained(p) \subseteq {<<"Handshake", Len(minted) + 1>>}
    BY <1>0, <1>9 DEF Offered
  <2>2. QED
    BY <1>1, <1>2, <1>6, <1>8, <1>9, <2>1, DrawOnce DEF TypeInv
<1>11. k \notin 1 .. Len(minted) /\ Offered(k) \notin Tokens
  BY <1>0, <1>1, <1>2 DEF Once, Known, Offered
<1>12. \A id, x, y : Drawn(minted', id, x, y) <=>
         Drawn(minted, id, x, y) \/ (id = k /\ x = z /\ y = m)
  <2>1. /\ Len(minted') = k
        /\ \A i \in 1 .. Len(minted) : minted'[i] = minted[i]
        /\ minted'[k] = <<z, m>>
    BY <1>0, <1>1, <1>2 DEF TypeOK, StackTypeOK
  <2>2. 1 .. k = 1 .. Len(minted) \cup {k}
    BY <1>0, <1>2
  <2>3. \A x, y : <<x, y>> = <<z, m>> <=> x = z /\ y = m
    OBVIOUS
  <2>4. QED
    BY <1>11, <2>1, <2>2, <2>3 DEF Drawn
<1>13. HomeInv'
  <2>1. \A t \in Tokens' : t \in Tokens \/ t = Offered(k)
    BY <1>10
  <2>2. SentHome(Offered(k))
    <3>1. Offered(k) \notin ToRead' /\ Offered(k) \notin ToParse'
      BY <1>11 DEF ToRead, ToParse, Tokens
    <3>2. SUFFICES ASSUME NEW i, Fresh(i)
                   PROVE  Homeward(outgoing[i].encryption, order[turn],
                                   outgoing[i].dest_addr)'
      BY <3>1 DEF SentHome
    <3>3. outgoing'[i] = p /\ order'[turn'] = n
      BY <1>1, <1>6, <3>2, EmitAdded DEF TypeInv, Turn
    <3>4. Drawn(minted', k, z, m)
      BY <1>12
    <3>5. Link(Offered(k), node_id[n], node_id[b])'
      BY <1>0, <1>1, <1>5, <3>4 DEF Link, Offered
    <3>6. PICK enc, d : enc = outgoing'[i].encryption
                        /\ d = outgoing'[i].dest_addr
      OBVIOUS
    <3>7. enc = hs /\ d = b
      BY <1>8, <3>3, <3>6
    <3>8. TokenOf(enc) = {Offered(k)} /\ enc.hops = <<>>
          /\ Offered(k)[1] # "Acknowledge"
      BY <1>7, <3>7 DEF Offered
    <3>9. n \in Nodes' /\ d \in Nodes'
      BY <1>1, <1>5, <3>7
    <3>10. Homeward(enc, n, d)'
      BY <3>5, <3>7, <3>8, <3>9 DEF Homeward
    <3>11. QED
      BY <3>3, <3>6, <3>10
  <2>3. QED
    BY <1>1, <2>1, <2>2, HomeKept
<1>14. KeepsOrder
  <2>1. ToRead' = ToRead
    BY DEF ToRead
  <2>2. QED
    BY <1>1, <2>1, OrderKept
<1>15. Last(Offered(k))'
  BY <1>1, <1>6, <1>7, <1>8, <1>13, EmittedLast DEF HomeInv
<1>16. \A x, y \in NodeID : \A id : Holds(x, y, id)' <=> Holds(x, y, id)
  <2>1. minted' # minted
    <3>1. Len(minted') = Len(minted) + 1
      BY <1>1, <1>2 DEF TypeOK, StackTypeOK
    <3>2. QED
      BY <1>2, <3>1
  <2>2. Tunnels' = Tunnels
    BY <1>1, <2>1 DEF Shakes, Tun!Offer, Tun!Accept, Tun!Confirm,
                      Tun!Establish, Tun!Lose
  <2>3. QED
    BY <1>1, <2>2, SameTunnelIDs, SameHolds
<1>17. \A x, y \in NodeID : \A id : Awaits(x, y, id)' <=>
         IF x = z /\ y = m THEN id = k ELSE Awaits(x, y, id)
  <2>1. PICK v : v = q
    OBVIOUS
  <2>2. \A x, y \in NodeID : \A id : Awaits(x, y, id)' <=>
          IF x = node_id[n] /\ y = m THEN v # None /\ v.session_id = id
          ELSE Awaits(x, y, id)
    BY <1>1, <1>3, <2>1, OnePendingSet
  <2>3. QED
    BY <1>0, <1>4, <2>1, <2>2
<1>18. Connects(z, m, k)
  BY <1>2, <1>10, <1>11, <1>12, <1>14, <1>15, <1>16, <1>17 DEF Connects
<1>19. QED
  BY <1>13, <1>18 DEF Proceeds

(* Every step of a node does one of these to its handshakes.                *)
LEMMA NodeStepProceeds ==
  ASSUME NEW n \in NetAddr, TunnelInv, TypeOK', NodeSteps(n), HomeInv,
         NamesUnique, HandshakesAddressed'
  PROVE  HomeInv' /\ Proceeds
<1>1. /\ Turn(n) /\ node_id[n] \in NodeID /\ TypeInv(n) /\ TypeOK
  BY NodeStepFacts
<1>2. CASE ParseHandshake(n)
  BY <1>2, ParseHandshakeAccepts
<1>3. CASE ParseAcknowledge(n)
  BY <1>3, ParseAcknowledgeConfirms
<1>4. CASE ParseResponse(n) \/ ParseSession(n) \/ ParseNotify(n)
  <2>1. UNCHANGED <<minted, pending_session>>
    BY <1>4 DEF ParseResponse, ParseSession, ParseNotify
  <2>2. \A t \in ToRead : ~Halfway(t)
    <3>1. CASE ParseResponse(n)
      <4>1. rx # None /\ rx.encryption = None
        <5>1. rx # None /\ rx.request # None /\ rx \in Arrived
          BY <1>1, <3>1 DEF ParseResponse, TypeInv, StackTypeOK
        <5>2. QED
          BY <5>1 DEF Arrived
      <4>2. QED
        BY <4>1 DEF ToRead, TokenOf
    <3>2. CASE ParseNotify(n)
      <4>1. rx # None /\ rx.encryption.core.type = "Notify"
        BY <3>2 DEF ParseNotify, Parsing
      <4>2. QED
        BY <4>1 DEF ToRead, TokenOf
    <3>3. CASE ParseSession(n)
      <4>1. rx # None /\ rx.encryption # None /\ IsSession(rx.encryption)
        BY <1>1, <3>3, ParsingFields, EncryptionFields
           DEF ParseSession, TypeInv
      <4>2. SUFFICES ASSUME NEW t \in ToRead, Halfway(t)
                     PROVE  FALSE
        OBVIOUS
      <4>3. t \in TokenOf(rx.encryption)
        BY <4>1, <4>2 DEF ToRead
      <4>4. rx.encryption.hops = <<>>
        BY <4>2, <4>3 DEF HomeInv, HomeRead, Homeward
      <4>5. rx.encryption.core.type = "Session"
        BY <4>1, <4>4 DEF IsSession
      <4>6. QED
        BY <4>2, <4>3, <4>5 DEF TokenOf, Halfway
    <3>4. QED
      BY <1>4, <3>1, <3>2, <3>3
  <2>3. QED
    BY <2>1, <2>2, OthersCalm
<1>5. CASE Handle(n)
  <2>1. UNCHANGED <<minted, pending_session>> /\ rx = None
    BY <1>5 DEF Handle, HandleConnectionInit, HandleExchangeInfo,
         HandleExchangeInfoResponse, HandleRequestPings, HandleWantPing,
         HandleAcceptWantPing, HandlePeerNotify, HandleTraverse, HandleData,
         Handling
  <2>2. ToRead = {}
    BY <2>1 DEF ToRead
  <2>3. QED
    BY <2>1, <2>2, OthersCalm
<1>6. CASE Run(n)
  <2> DEFINE a == Head(queue)
  <2>1. UNCHANGED <<rx, work>>
    BY <1>6, RunReadsNothing
  <2>2. CASE UNCHANGED <<minted, pending_session>>
    BY <2>1, <2>2, OthersCalm
  <2>3. CASE RunBootstrap(n) \/ RunConnect(n)
    <3>1. a.id \in NodeID /\ DirectType(a.addr) \in SessionType
      BY <1>1, <2>3, RunningHead, ActionFields, DirectTypeIsType
         DEF RunBootstrap, RunConnect, Running, TypeInv
    <3>2. ExchangeInfo(route_coord[n], 0) \in InitialPacket
          /\ AcceptWantPing \in InitialPacket
      BY <1>1, PacketConstructors DEF TypeInv, NodeTypeOK
    <3>3. /\ <<ExchangeInfo(route_coord[n], 0)>> \in Seq(InitialPacket)
          /\ <<AcceptWantPing>> \in Seq(InitialPacket)
      BY <3>2
    <3>4. \E packets \in Seq(InitialPacket) :
            Connect(n, a.id, DirectType(a.addr), packets)
      BY <2>3, <3>3 DEF RunBootstrap, RunConnect
    <3>5. QED
      BY <2>1, <3>1, <3>4, ConnectOffers
  <2>4. CASE RunConnectTraversed(n)
    <3> DEFINE coord == remote_coord[n][a.id]
    <3>1. a.id \in NodeID
      BY <1>1, <2>4, RunningHead, ActionFields
         DEF RunConnectTraversed, Running, TypeInv, Awaitable
    <3>2. CASE coord # None /\ Connect(n, a.id, TraversedType(coord), <<>>)
      <4>1. TraversedType(coord) \in SessionType
        BY <1>1, <3>1, <3>2, TraversedTypeIsType
           DEF TypeInv, NodeTypeOK, MaybeCoord
      <4>2. <<>> \in Seq(InitialPacket)
        OBVIOUS
      <4> HIDE DEF a, coord
      <4>3. QED
        BY <2>1, <3>1, <3>2, <4>1, <4>2, ConnectOffers
    <3>3. QED
      BY <2>2, <2>4, <3>2 DEF RunConnectTraversed
  <2>5. QED
    BY <1>6, <2>2, <2>3, <2>4
       DEF Run, RunUpdateRemote, RunCalcRouteCoord, RunCalculatePeers,
           RunNotify, RunRequestRouteCoord, RunConnectRouted, RunSendData,
           RunCondition
<1>7. QED
  BY <1>2, <1>3, <1>4, <1>5, <1>6
     DEF NodeSteps, ParsePacket, ParseNodePacket, ParseAction, Parse

-----------------------------------------------------------------------------
(* The network                                                              *)

(* What goes home still does when packets move and the nodes stay.          *)
LEMMA HomewardMoves ==
  ASSUME NodesStay, UNCHANGED minted, NEW enc, NEW a, NEW b,
         Homeward(enc, a, b)
  PROVE  Homeward(enc, a, b)'
BY DEF Homeward, NodesStay, Link

(* So all do.                                                               *)
LEMMA MovesKeepHome ==
  ASSUME Moves, HomeInv
  PROVE  HomeInv'
<1>1. HomeOnWire /\ HomeSent /\ HomeRead /\ HomeParsed
  BY DEF HomeInv
<1>2. /\ WireMoves /\ SentMoves /\ ReadMoves /\ NodesStay
      /\ UNCHANGED minted /\ ToParse' \subseteq ToParse
  BY DEF Moves
<1>3. HomeOnWire'
  <2>1. ASSUME NEW a \in NetAddr, NEW i \in DOMAIN Wire'[a]
        PROVE  Homeward(Wire'[a][i].encryption, Wire'[a][i].src_addr, a)
    <3>1. CASE \E j \in DOMAIN Wire[a] : Wire'[a][i] = Wire[a][j]
      BY <1>1, <3>1 DEF HomeOnWire
    <3>2. CASE PutBy(Wire'[a][i], a)
      <4> DEFINE x == Wire'[a][i]
      <4> HIDE DEF x
      <4>1. PutBy(x, a)
        BY <3>2 DEF x
      <4>2. CASE x.encryption = None
        BY <4>2 DEF Homeward, TokenOf, x
      <4>3. CASE x.encryption # None
        <5>1. Homeward(x.encryption, x.src_addr, a)
          BY <1>1, <4>1, <4>3 DEF PutBy, HomeSent
        <5>2. QED
          BY <5>1 DEF x
      <4>4. QED
        BY <4>2, <4>3
    <3>3. QED
      BY <1>2, <3>1, <3>2 DEF WireMoves
  <2>2. ASSUME NEW a \in NetAddr, NEW i \in DOMAIN Wire'[a]
        PROVE  Homeward(Wire[a][i].encryption, Wire[a][i].src_addr, a)'
    <3>1. PICK enc, b : enc = Wire'[a][i].encryption
                        /\ b = Wire'[a][i].src_addr
      OBVIOUS
    <3>2. Homeward(enc, b, a)'
      BY <1>2, <2>1, <3>1, HomewardMoves
    <3>3. QED
      BY <3>1, <3>2
  <2>3. QED
    BY <2>2 DEF HomeOnWire
<1>4. HomeSent'
  <2>1. ASSUME NEW i \in DOMAIN outgoing'
        PROVE  Homeward(outgoing[i].encryption, order[turn],
                        outgoing[i].dest_addr)'
    <3>1. PICK enc, a, b : /\ enc = outgoing'[i].encryption
                           /\ a = order'[turn'] /\ b = outgoing'[i].dest_addr
      OBVIOUS
    <3>2. Homeward(enc, a, b)
      BY <1>1, <1>2, <2>1, <3>1 DEF SentMoves, HomeSent
    <3>3. Homeward(enc, a, b)'
      BY <1>2, <3>2, HomewardMoves
    <3>4. QED
      BY <3>1, <3>3
  <2>2. QED
    BY <2>1 DEF HomeSent
<1>5. HomeRead'
  <2>1. SUFFICES ASSUME NEW t \in ToRead', Halfway(t)
                 PROVE  /\ rx'.via.kind = "Direct"
                        /\ Homeward(rx.encryption, rx.via.net_addr,
                                    order[turn])'
    BY DEF HomeRead
  <2>2. PICK enc, a, b : /\ enc = rx'.encryption /\ a = rx'.via.net_addr
                         /\ b = order'[turn']
    OBVIOUS
  <2>3. rx' # None /\ t \in TokenOf(enc)
    BY <2>2 DEF ToRead
  <2>4. rx'.via.kind = "Direct" /\ Homeward(enc, a, b)
    <3>1. CASE rx' = rx /\ order'[turn'] = order[turn]
      BY <1>1, <2>1, <2>2, <2>3, <3>1 DEF HomeRead, ToRead
    <3>2. CASE \E n \in NetAddr : \E j \in DOMAIN Wire[n] :
                 /\ n = order'[turn']
                 /\ rx'.encryption = Wire[n][j].encryption
                 /\ rx'.via = DirectType(Wire[n][j].src_addr)
      <4>1. PICK n \in NetAddr : \E j \in DOMAIN Wire[n] :
              /\ n = order'[turn'] /\ rx'.encryption = Wire[n][j].encryption
              /\ rx'.via = DirectType(Wire[n][j].src_addr)
        BY <3>2
      <4>2. PICK j \in DOMAIN Wire[n] :
              /\ n = order'[turn'] /\ rx'.encryption = Wire[n][j].encryption
              /\ rx'.via = DirectType(Wire[n][j].src_addr)
        BY <4>1
      <4>3. /\ rx'.via.kind = "Direct" /\ a = Wire[n][j].src_addr /\ b = n
            /\ enc = Wire[n][j].encryption
        BY <2>2, <4>2 DEF DirectType
      <4>4. QED
        BY <1>1, <4>3 DEF HomeOnWire
    <3>3. QED
      BY <1>2, <2>3, <3>1, <3>2 DEF ReadMoves
  <2>5. Homeward(enc, a, b)'
    BY <1>2, <2>4, HomewardMoves
  <2>6. QED
    BY <2>2, <2>4, <2>5
<1>6. HomeParsed'
  BY <1>1, <1>2 DEF HomeParsed
<1>7. QED
  BY <1>3, <1>4, <1>5, <1>6 DEF HomeInv

(* A token goes from one node to one.                                       *)
LEMMA OneLink ==
  ASSUME NEW t, NEW a, NEW b, NEW c, NEW d, Link(t, a, b), Link(t, c, d)
  PROVE  a = c /\ b = d
BY DrawnOnce DEF Link

(* Of what is due, what was sent first is read first.                       *)
LEMMA DeliverTakes ==
  ASSUME NEW n \in NetAddr, MapInv, Deliver(n)
  PROVE  \E i \in DOMAIN Wire[n] :
           /\ packet_map[n][i].latency <= 0
           /\ \A j \in DOMAIN Wire[n] : packet_map[n][j].latency <= 0 => i <= j
           /\ rx' # None /\ rx'.encryption = Wire[n][i].encryption
           /\ Wire' = [Wire EXCEPT ![n] = Without(Wire[n], i)]
<1> DEFINE q == packet_map[n]
<1>1. packet_map \in [NetAddr -> Seq(Latent)] /\ q \in Seq(Latent)
  BY DEF MapInv, IInv, TypeOK, Latent
<1>2. PICK i \in Due(n) :
        /\ \A j \in Due(n) : i <= j
        /\ rx' = [request |-> q[i].packet.request,
                  encryption |-> q[i].packet.encryption,
                  via |-> DirectType(q[i].packet.src_addr)]
        /\ packet_map' = [packet_map EXCEPT ![n] = Without(q, i)]
  BY DEF Deliver, Without
<1>3. i \in 1 .. Len(q) /\ i \in DOMAIN q /\ q[i].latency <= 0
  BY <1>1, <1>2, LenProperties DEF Due
<1>4. q[i].packet \in Incoming
  <2>1. q[i] \in Latent
    BY <1>1, <1>3, ElementOfSeq
  <2>2. QED
    BY <2>1 DEF Latent
<1>5. rx' # None
  <2>1. DirectType(q[i].packet.src_addr) \in SessionType
    BY <1>4, DirectTypeIsType DEF Incoming
  <2>2. rx' \in Arrived
    BY <1>2, <1>4, <2>1 DEF Arrived, Incoming
  <2>3. QED
    BY <2>2, ArrivedAssumption
<1>6. Wire' = [Wire EXCEPT ![n] = Without(Wire[n], i)]
  <2>1. Wire = [k \in NetAddr |-> Sending(packet_map[k])]
        /\ Wire' = [k \in NetAddr |-> Sending(packet_map'[k])]
    BY DEF Wire, Sending
  <2>2. packet_map' = [k \in NetAddr |->
                         IF k = n THEN Without(q, i) ELSE packet_map[k]]
    BY <1>1, <1>2
  <2>3. Sending(Without(q, i)) = Without(Sending(q), i)
    BY <1>1, <1>3, SendingRemove
  <2>4. Wire[n] = Sending(q)
    BY <2>1
  <2>5. Wire' = [k \in NetAddr |-> IF k = n THEN Without(Wire[n], i)
                                            ELSE Wire[k]]
    BY <2>1, <2>2, <2>3, <2>4
  <2>6. QED
    BY <2>1, <2>5
<1>7. /\ DOMAIN Wire[n] = DOMAIN q
      /\ \A j \in DOMAIN q : Wire[n][j] = q[j].packet
  BY DEF Wire
<1>8. rx'.encryption = Wire[n][i].encryption
  BY <1>2, <1>3, <1>7
<1>9. \A j \in DOMAIN Wire[n] : q[j].latency <= 0 => i <= j
  BY <1>2, <1>7 DEF Due
<1>10. QED
  BY <1>3, <1>5, <1>6, <1>7, <1>8, <1>9

(* Packets of one link have one sender.                                     *)
LEMMA OneSender ==
  ASSUME NamesUnique, HomeOnWire, NEW n \in NetAddr,
         NEW i \in DOMAIN Wire[n], NEW j \in DOMAIN Wire[n], NEW t, NEW u,
         Halfway(t), Halfway(u), SameLink(t, u),
         t \in TokenOf(Wire[n][i].encryption),
         u \in TokenOf(Wire[n][j].encryption)
  PROVE  Wire[n][i].src_addr = Wire[n][j].src_addr
<1>1. PICK x, y : Link(t, x, y) /\ Link(u, x, y)
  BY DEF SameLink
<1> DEFINE a == Wire[n][i].src_addr
           b == Wire[n][j].src_addr
<1>2. /\ Homeward(Wire[n][i].encryption, a, n)
      /\ Homeward(Wire[n][j].encryption, b, n)
  BY DEF HomeOnWire
<1> HIDE DEF a, b
<1>3. /\ a \in Nodes /\ Link(t, node_id[a], node_id[n])
      /\ b \in Nodes /\ Link(u, node_id[b], node_id[n])
  BY <1>2 DEF Homeward
<1>4. node_id[a] = x /\ node_id[b] = x
  BY <1>1, <1>3, OneLink
<1>5. a = b
  BY <1>3, <1>4 DEF NamesUnique
<1>6. QED
  BY <1>5 DEF a, b

(* None is read before one that was sent before it.                         *)
LEMMA NoneSentBefore ==
  ASSUME NamesUnique, InOrder, TypeOK, HomeOnWire, NEW n \in NetAddr,
         NEW k \in DOMAIN Wire[n], NEW i \in DOMAIN Wire[n], k < i,
         packet_map[n][i].latency <= 0,
         \A j \in DOMAIN Wire[n] : packet_map[n][j].latency <= 0 => i <= j,
         NEW t, NEW u, Halfway(t), Halfway(u), SameLink(t, u),
         t \in TokenOf(Wire[n][k].encryption),
         u \in TokenOf(Wire[n][i].encryption)
  PROVE  FALSE
<1> DEFINE q == packet_map[n]
<1>1. /\ DOMAIN Wire[n] = DOMAIN q
      /\ \A j \in DOMAIN q : Wire[n][j] = q[j].packet
  BY DEF Wire
<1>2. q[k].packet.src_addr = q[i].packet.src_addr
  BY <1>1, OneSender
<1>3. q[k].latency <= q[i].latency
  BY <1>1, <1>2 DEF InOrder
<1>4. q[k].latency \in Int /\ q[i].latency \in Int
  <2>1. q \in Seq(Latent)
    BY DEF TypeOK, Latent
  <2>2. q[k] \in Latent /\ q[i] \in Latent
    BY <1>1, <2>1, ElementOfSeq, LenProperties
  <2>3. QED
    BY <2>2 DEF Latent
<1>5. k \in Int /\ i \in Int
  <2>1. Wire[n] \in Seq(Incoming)
    BY WireTypes
  <2>2. DOMAIN Wire[n] = 1 .. Len(Wire[n])
    BY <2>1, LenProperties
  <2>3. QED
    BY <2>2
<1> HIDE DEF q
<1>6. q[k].latency <= 0
  BY <1>3, <1>4 DEF q
<1>7. i <= k
  BY <1>6 DEF q
<1>8. QED
  BY <1>5, <1>7

(* So handshakes keep their order when one arrives.                         *)
LEMMA DeliverCalm ==
  ASSUME NEW n \in NetAddr, TunnelInv, HomeInv, NamesUnique, InOrder,
         Deliver(n)
  PROVE  Calm /\ Tokens' = Tokens
<1>1. MapInv /\ TypeOK /\ HomeOnWire
  BY DEF TunnelInv, PairInv, MapInv, IInv, HomeInv
<1>2. /\ UNCHANGED <<node_id, session, pending_session, work, outgoing, minted>>
      /\ rx = None
  BY DEF Deliver, Stackless
<1>3. PICK i \in DOMAIN Wire[n] :
        /\ packet_map[n][i].latency <= 0
        /\ \A j \in DOMAIN Wire[n] : packet_map[n][j].latency <= 0 => i <= j
        /\ rx' # None /\ rx'.encryption = Wire[n][i].encryption
        /\ Wire' = [Wire EXCEPT ![n] = Without(Wire[n], i)]
  BY <1>1, DeliverTakes
<1> DEFINE q == Wire[n]
           Now(k) == IF k < i THEN k ELSE k - 1
<1>4. /\ DOMAIN Wire = NetAddr /\ DOMAIN q = 1 .. Len(q) /\ Len(q) \in Nat
      /\ q \in Seq(Incoming)
  <2>1. DOMAIN Wire = NetAddr /\ q \in Seq(Incoming)
    BY <1>1, WireTypes DEF Wire
  <2>2. QED
    BY <2>1, LenProperties
<1>5. /\ Wire'[n] = Without(q, i)
      /\ \A a \in NetAddr \ {n} : Wire'[a] = Wire[a]
  BY <1>3, <1>4
<1>6. /\ \A k \in DOMAIN q \ {i} :
           Now(k) \in DOMAIN Wire'[n] /\ Wire'[n][Now(k)] = q[k]
      /\ \A k, l \in DOMAIN q \ {i} : k < l => Now(k) < Now(l)
  <2>1. i \in 1 .. Len(q)
    BY <1>3, <1>4
  <2>2. /\ Without(q, i) \in Seq(Incoming)
        /\ Len(Without(q, i)) = Len(q) - 1
        /\ \A j \in 1 .. Len(q) - 1 :
             Without(q, i)[j] = IF j < i THEN q[j] ELSE q[j + 1]
    BY <1>4, <2>1, WithoutProperties
  <2>3. DOMAIN Without(q, i) = 1 .. Len(q) - 1
    BY <2>2, LenProperties
  <2> HIDE DEF q
  <2>4. \A k \in 1 .. Len(q) : k # i =>
          Now(k) \in 1 .. Len(q) - 1 /\ Without(q, i)[Now(k)] = q[k]
    BY <1>4, <2>1, <2>2
  <2>5. \A k, l \in 1 .. Len(q) : k # i /\ l # i /\ k < l => Now(k) < Now(l)
    BY <1>4, <2>1
  <2>6. QED
    BY <1>4, <1>5, <2>3, <2>4, <2>5
<1> HIDE DEF Now
<1>7. ToRead' = TokenOf(q[i].encryption)
  BY <1>3 DEF ToRead
<1>8. /\ ToSend' = ToSend /\ ToParse' = ToParse /\ ToRead = {}
  BY <1>2 DEF ToSend, ToParse, ToRead
<1>9. \A t \in OnTheWay : t \in OnTheWay' \cup ToRead'
  <2>1. SUFFICES ASSUME NEW t \in OnTheWay, t \notin ToRead'
                 PROVE  t \in OnTheWay'
    OBVIOUS
  <2>2. PICK a \in NetAddr :
          \E k \in DOMAIN Wire[a] : t \in TokenOf(Wire[a][k].encryption)
    BY DEF OnTheWay
  <2>3. PICK k \in DOMAIN Wire[a] : t \in TokenOf(Wire[a][k].encryption)
    BY <2>2
  <2>4. CASE a # n
    BY <1>5, <2>3, <2>4 DEF OnTheWay
  <2>5. CASE a = n
    <3>1. k # i
      BY <1>7, <2>1, <2>3, <2>5
    <3>2. Now(k) \in DOMAIN Wire'[n] /\ Wire'[n][Now(k)] = Wire[n][k]
      BY <1>6, <2>3, <2>5, <3>1
    <3>3. QED
      BY <2>3, <2>5, <3>2 DEF OnTheWay
  <2>6. QED
    BY <2>4, <2>5
<1> HIDE DEF q
<1>10. \A t : t \in Tokens' <=> t \in Tokens
  <2>1. Tokens' \subseteq Tokens
    BY DeliverOnce
  <2>2. Tokens \subseteq Tokens'
    BY <1>8, <1>9 DEF Tokens
  <2>3. QED
    BY <2>1, <2>2
<1>11. KeepsOrder
  <2>1. SUFFICES ASSUME NEW t, NEW u, Halfway(t), Halfway(u), SameLink(t, u),
                        Ahead(t, u), t \notin ToRead'
                 PROVE  Ahead(t, u)'
    BY DEF KeepsOrder, Ahead
  <2>2. CASE t \in OnTheWay /\ u \in ToSend
    BY <1>8, <1>9, <2>1, <2>2 DEF Ahead
  <2>3. CASE Before(outgoing, t, u)
    BY <1>2, <2>3 DEF Ahead, Before
  <2>4. CASE \E a \in NetAddr : Before(Wire[a], t, u)
    <3>1. PICK a \in NetAddr : Before(Wire[a], t, u)
      BY <2>4
    <3>2. CASE a # n
      <4>1. Before(Wire[a], t, u)'
        BY <1>5, <3>1, <3>2 DEF Before
      <4>2. QED
        BY <4>1 DEF Ahead
    <3>3. CASE a = n
      <4>1. PICK k, l \in DOMAIN Wire[n] :
              /\ k < l /\ t \in TokenOf(Wire[n][k].encryption)
              /\ u \in TokenOf(Wire[n][l].encryption)
        BY <3>1, <3>3 DEF Before
      <4>2. k # i
        BY <1>7, <2>1, <4>1 DEF q
      <4>3. l # i
        BY <1>1, <1>3, <2>1, <4>1, NoneSentBefore
      <4>4. /\ Now(k) \in DOMAIN Wire'[n] /\ Now(l) \in DOMAIN Wire'[n]
            /\ Now(k) < Now(l) /\ Wire'[n][Now(k)] = Wire[n][k]
            /\ Wire'[n][Now(l)] = Wire[n][l]
        BY <1>6, <4>1, <4>2, <4>3 DEF q
      <4>5. Before(Wire[n], t, u)'
        BY <4>1, <4>4 DEF Before
      <4>6. QED
        BY <4>5 DEF Ahead
    <3>4. QED
      BY <3>2, <3>3
  <2>5. QED
    BY <1>8, <2>1, <2>2, <2>3, <2>4 DEF Ahead
<1>12. SameSessionIDs
  BY <1>2 DEF SameSessionIDs
<1>13. QED
  BY <1>2, <1>10, <1>11, <1>12, SameHolds, SameAwaits DEF Calm

(* And when one is sent: the others of its link are where it goes already.  *)
LEMMA RoutePacketCalm ==
  ASSUME NEW n \in NetAddr, TunnelInv, HomeInv, NamesUnique, RoutePacket(n)
  PROVE  Calm /\ Tokens' = Tokens
<1> DEFINE p == Head(outgoing)
<1>1. TypeOK /\ HomeOnWire /\ HomeSent
  BY DEF TunnelInv, PairInv, MapInv, IInv, HomeInv
<1>2. /\ UNCHANGED <<node_id, session, pending_session, rx, work, minted>>
      /\ outgoing # <<>> /\ outgoing' = Tail(outgoing)
      /\ turn <= Len(order) /\ n = order[turn]
  BY DEF RoutePacket, Turn
<1>3. /\ Len(outgoing) \in Nat /\ DOMAIN outgoing = 1 .. Len(outgoing)
      /\ 1 \in DOMAIN outgoing /\ p = outgoing[1]
      /\ DOMAIN Tail(outgoing) = 1 .. Len(outgoing) - 1
      /\ \A i \in 1 .. Len(outgoing) - 1 : Tail(outgoing)[i] = outgoing[i + 1]
  BY <1>1, <1>2, HeadTailProperties, LenProperties DEF TypeOK, StackTypeOK
<1>4. \A i \in DOMAIN outgoing :
        /\ i \in Nat /\ i >= 1
        /\ i # 1 => i - 1 \in DOMAIN outgoing' /\ outgoing'[i - 1] = outgoing[i]
  <2>1. \A i \in 1 .. Len(outgoing) :
          i # 1 => i - 1 \in 1 .. Len(outgoing) - 1 /\ (i - 1) + 1 = i
    BY <1>3
  <2>2. QED
    BY <1>2, <1>3, <2>1
<1> HIDE DEF p
<1>5. PICK dest \in NetAddr : \E x :
        /\ Wire' = [Wire EXCEPT ![dest] = Append(Wire[dest], x)]
        /\ \/ x.encryption = None /\ p.encryption = None
           \/ /\ x.encryption = p.encryption
              /\ x.src_addr = n /\ dest = p.dest_addr
  BY RoutePacketSends DEF p
<1>6. PICK x :
        /\ Wire' = [Wire EXCEPT ![dest] = Append(Wire[dest], x)]
        /\ \/ x.encryption = None /\ p.encryption = None
           \/ /\ x.encryption = p.encryption
              /\ x.src_addr = n /\ dest = p.dest_addr
  BY <1>5
<1> DEFINE q == Wire[dest]
           last == Len(q) + 1
<1>7. /\ Len(q) \in Nat /\ DOMAIN q = 1 .. Len(q)
      /\ Wire'[dest] = Append(q, x)
      /\ \A k \in NetAddr \ {dest} : Wire'[k] = Wire[k]
      /\ DOMAIN Append(q, x) = 1 .. Len(q) + 1
      /\ \A i \in 1 .. Len(q) : Append(q, x)[i] = q[i]
      /\ Append(q, x)[Len(q) + 1] = x
  <2>1. DOMAIN Wire = NetAddr /\ q \in Seq(Incoming)
    BY <1>1, WireTypes DEF Wire
  <2>2. q \in Seq(Incoming \cup {x}) /\ x \in Incoming \cup {x}
    BY <2>1
  <2>3. /\ Wire'[dest] = Append(q, x)
        /\ \A k \in NetAddr \ {dest} : Wire'[k] = Wire[k]
    BY <1>6, <2>1
  <2> HIDE DEF q
  <2>4. QED
    BY <2>2, <2>3, AppendProperties, LenProperties
<1>8. /\ last \in DOMAIN Wire'[dest] /\ Wire'[dest][last] = x
      /\ \A k \in DOMAIN Wire[dest] : k < last
      /\ \A a \in NetAddr : \A k \in DOMAIN Wire[a] :
           k \in DOMAIN Wire'[a] /\ Wire'[a][k] = Wire[a][k]
  <2> HIDE DEF q
  <2>1. /\ last \in DOMAIN Wire'[dest] /\ Wire'[dest][last] = x
        /\ \A k \in DOMAIN q : k < last
        /\ \A k \in DOMAIN q : k \in DOMAIN Wire'[dest] /\ Wire'[dest][k] = q[k]
    BY <1>7
  <2>2. QED
    BY <1>7, <2>1 DEF q
<1> HIDE DEF q, last
<1>9. \A t \in TokenOf(p.encryption) :
        /\ x.encryption = p.encryption /\ dest = p.dest_addr
        /\ t \in OnTheWay'
  <2>1. SUFFICES ASSUME NEW t \in TokenOf(p.encryption)
                 PROVE  /\ x.encryption = p.encryption /\ dest = p.dest_addr
                        /\ t \in OnTheWay'
    OBVIOUS
  <2>2. p.encryption # None
    BY DEF TokenOf
  <2>3. x.encryption = p.encryption /\ dest = p.dest_addr
    BY <1>6, <2>2
  <2>4. t \in TokenOf(Wire'[dest][last].encryption)
    BY <1>8, <2>3
  <2>5. QED
    BY <1>8, <2>3, <2>4 DEF OnTheWay
<1>10. OnTheWay \subseteq OnTheWay'
  BY <1>8 DEF OnTheWay
<1>11. \A t \in ToSend : t \in TokenOf(p.encryption) \/ t \in ToSend'
  BY <1>3, <1>4 DEF ToSend, p
<1>12. ToRead' = ToRead /\ ToParse' = ToParse
  BY <1>2 DEF ToRead, ToParse
<1>13. \A t : t \in Tokens' <=> t \in Tokens
  <2>1. Tokens' \subseteq Tokens
    BY RoutePacketOnce
  <2>2. Tokens \subseteq Tokens'
    BY <1>9, <1>10, <1>11, <1>12 DEF Tokens
  <2>3. QED
    BY <2>1, <2>2
<1>14. KeepsOrder
  <2>1. SUFFICES ASSUME NEW t, NEW u, Halfway(t), Halfway(u), SameLink(t, u),
                        Ahead(t, u)
                 PROVE  Ahead(t, u)'
    BY DEF KeepsOrder
  <2>2. CASE t \in ToRead
    BY <1>12, <2>2 DEF Ahead
  <2>3. CASE t \in OnTheWay /\ u \in ToSend
    <3>1. CASE u \in ToSend'
      BY <1>10, <2>3, <3>1 DEF Ahead
    <3>2. CASE u \in TokenOf(p.encryption)
      <4>1. PICK a \in NetAddr :
              \E k \in DOMAIN Wire[a] : t \in TokenOf(Wire[a][k].encryption)
        BY <2>3 DEF OnTheWay
      <4>2. PICK k \in DOMAIN Wire[a] : t \in TokenOf(Wire[a][k].encryption)
        BY <4>1
      <4>3. a = dest
        <5>1. Homeward(Wire[a][k].encryption, Wire[a][k].src_addr, a)
          BY <1>1 DEF HomeOnWire
        <5>2. a \in Nodes /\ \E c : Link(t, c, node_id[a])
          BY <2>1, <4>2, <5>1 DEF Homeward
        <5>3. Homeward(p.encryption, n, p.dest_addr)
          BY <1>1, <1>2, <1>3 DEF HomeSent
        <5>4. p.dest_addr \in Nodes /\ \E c : Link(u, c, node_id[p.dest_addr])
          BY <2>1, <3>2, <5>3 DEF Homeward
        <5>5. node_id[a] = node_id[p.dest_addr]
          BY <2>1, <5>2, <5>4, OneLink DEF SameLink
        <5>6. a = p.dest_addr
          BY <5>2, <5>4, <5>5 DEF NamesUnique
        <5>7. QED
          BY <1>9, <3>2, <5>6
      <4>4. /\ k \in DOMAIN Wire'[dest] /\ Wire'[dest][k] = Wire[dest][k]
            /\ k < last /\ last \in DOMAIN Wire'[dest]
            /\ Wire'[dest][last].encryption = p.encryption
        BY <1>8, <1>9, <3>2, <4>3
      <4>5. Before(Wire[dest], t, u)'
        BY <3>2, <4>2, <4>3, <4>4 DEF Before
      <4>6. QED
        BY <4>5 DEF Ahead
    <3>3. QED
      BY <1>11, <2>3, <3>1, <3>2
  <2>4. CASE \E a \in NetAddr : Before(Wire[a], t, u)
    <3>1. PICK a \in NetAddr : Before(Wire[a], t, u)
      BY <2>4
    <3>2. PICK k, l \in DOMAIN Wire[a] :
            /\ k < l /\ t \in TokenOf(Wire[a][k].encryption)
            /\ u \in TokenOf(Wire[a][l].encryption)
      BY <3>1 DEF Before
    <3>3. /\ k \in DOMAIN Wire'[a] /\ Wire'[a][k] = Wire[a][k]
          /\ l \in DOMAIN Wire'[a] /\ Wire'[a][l] = Wire[a][l]
      BY <1>8
    <3>4. Before(Wire[a], t, u)'
      BY <3>2, <3>3 DEF Before
    <3>5. QED
      BY <3>4 DEF Ahead
  <2>5. CASE Before(outgoing, t, u)
    <3>1. PICK i, j \in DOMAIN outgoing :
            /\ i < j /\ t \in TokenOf(outgoing[i].encryption)
            /\ u \in TokenOf(outgoing[j].encryption)
      BY <2>5 DEF Before
    <3>2. j # 1 /\ j - 1 \in DOMAIN outgoing' /\ outgoing'[j - 1] = outgoing[j]
      BY <1>4, <3>1
    <3>3. CASE i = 1
      <4>1. t \in OnTheWay'
        BY <1>3, <1>9, <3>1, <3>3
      <4>2. u \in ToSend'
        BY <3>1, <3>2 DEF ToSend
      <4>3. QED
        BY <4>1, <4>2 DEF Ahead
    <3>4. CASE i # 1
      <4>1. /\ i - 1 \in DOMAIN outgoing' /\ outgoing'[i - 1] = outgoing[i]
            /\ i - 1 < j - 1
        BY <1>4, <3>1, <3>4
      <4>2. Before(outgoing, t, u)'
        BY <3>1, <3>2, <4>1 DEF Before
      <4>3. QED
        BY <4>2 DEF Ahead
    <3>5. QED
      BY <3>3, <3>4
  <2>6. QED
    BY <2>1, <2>2, <2>3, <2>4, <2>5 DEF Ahead
<1>15. SameSessionIDs
  BY <1>2 DEF SameSessionIDs
<1>16. QED
  BY <1>2, <1>13, <1>14, <1>15, SameHolds, SameAwaits DEF Calm

-----------------------------------------------------------------------------
(* What is not a step of a node                                             *)

(* Nodes that stay keep what they hold and await, and new ones have nothing.*)
NodesKeep ==
  /\ NodesStay
  /\ \A a \in Nodes, k \in NodeID :
       /\ session'[a][k] = session[a][k]
       /\ pending_session'[a][k] = pending_session[a][k]
  /\ \A a \in Nodes' \ Nodes, k \in NodeID :
       session'[a][k] = None /\ pending_session'[a][k] = None

(* So nothing happens to handshakes when no packet moves either.            *)
LEMMA UntouchedCalm ==
  ASSUME TunnelInv, HomeInv, NodesKeep,
         UNCHANGED <<Wire, rx, work, outgoing, minted>>,
         UNCHANGED <<order, turn>> \/ (outgoing = <<>> /\ rx = None)
  PROVE  HomeInv' /\ Calm /\ Tokens' = Tokens
<1>1. /\ OnTheWay' = OnTheWay /\ ToSend' = ToSend
      /\ ToRead' = ToRead /\ ToParse' = ToParse
  BY DEF OnTheWay, ToSend, ToRead, ToParse
<1>2. Tokens' = Tokens
  BY <1>1 DEF Tokens
<1>3. HomeInv'
  <2>1. Moves
    BY <1>2, UntouchedMoves DEF NodesKeep
  <2>2. QED
    BY <2>1, MovesKeepHome
<1>4. KeepsOrder
  BY <1>1 DEF KeepsOrder, Ahead, Before
<1>5. ASSUME NEW x \in NodeID, NEW y \in NodeID, NEW id
      PROVE  /\ Holds(x, y, id)' <=> Holds(x, y, id)
             /\ Awaits(x, y, id)' <=> Awaits(x, y, id)
  <2>1. \A a \in Nodes : /\ a \in Nodes' /\ node_id'[a] = node_id[a]
                         /\ session'[a][y] = session[a][y]
                         /\ pending_session'[a][y] = pending_session[a][y]
    BY DEF NodesKeep, NodesStay
  <2>2. \A a \in Nodes' : a \in Nodes \/ (/\ session'[a][y] = None
                                         /\ pending_session'[a][y] = None)
    BY DEF NodesKeep
  <2>3. Holds(x, y, id)' <=> Holds(x, y, id)
    BY <2>1, <2>2 DEF Holds, At
  <2>4. Awaits(x, y, id)' <=> Awaits(x, y, id)
    BY <2>1, <2>2 DEF Awaits, At
  <2>5. QED
    BY <2>3, <2>4
<1>6. QED
  BY <1>2, <1>3, <1>4, <1>5 DEF Calm

(* The steps of a tick around a node's own.                                 *)
LEMMA OtherTickCalm ==
  ASSUME NEW n \in NetAddr, TunnelInv, HomeInv, NamesUnique, InOrder,
         OtherTicks(n)
  PROVE  HomeInv' /\ Calm /\ Tokens' = Tokens
<1>1. CASE Deliver(n) \/ RoutePacket(n)
  BY <1>1, DeliverMoves, RoutePacketMoves, MovesKeepHome, DeliverCalm,
     RoutePacketCalm
<1>2. CASE BeginTick(n) \/ BeginActions(n) \/ EndActions(n) \/ EndTick(n)
  <2>1. UNCHANGED <<rx, work, outgoing, minted, node_id, session,
                    pending_session>>
    BY <1>2 DEF BeginTick, BeginActions, EndActions, EndTick
  <2>2. MapInv
    BY DEF TunnelInv, PairInv
  <2>3. Wire' = Wire
    BY <1>2, <2>2, OtherTickStutters DEF Abstract
  <2>4. UNCHANGED <<order, turn>> \/ (outgoing = <<>> /\ rx = None)
    BY <1>2, <2>2 DEF BeginTick, BeginActions, EndActions, EndTick, MapInv,
                      IInv, StackInv
  <2>5. NodesKeep
    BY <2>1 DEF NodesKeep, NodesStay, Nodes
  <2>6. QED
    BY <2>1, <2>3, <2>4, <2>5, UntouchedCalm
<1>3. QED
  BY <1>1, <1>2 DEF OtherTicks

(* add gives the node it adds an address where none is.                     *)
LEMMA AddCalm ==
  ASSUME NEW c \in Commands, AddressInv, HomeInv, CommandAdd(c)
  PROVE  HomeInv' /\ Calm /\ Tokens' = Tokens /\ NodesKeep
<1>1. CommandStep(c)
  BY DEF CommandStep
<1>2. /\ TunnelInv /\ NodeTypeOK /\ Nodes \subseteq NetAddr
      /\ outgoing = <<>> /\ rx = None
      /\ UNCHANGED <<rx, work, outgoing, minted>>
  BY <1>1, CommandFacts
<1>3. PICK k \in Nat : Nodes = 0 .. k - 1
  BY DEF AddressInv, Contiguous
<1>4. Lease = k
  <2>1. Cardinality(0 .. k - 1) = IF 0 > k - 1 THEN 0 ELSE k - 1 - 0 + 1
    BY <1>3, FS_Interval
  <2>2. QED
    BY <1>3, <2>1 DEF Lease
<1>5. /\ k \in NetAddr /\ k \notin Nodes /\ UNCHANGED packet_map
      /\ node_id' = [node_id EXCEPT ![k] = c.id]
      /\ pending_session' = [pending_session EXCEPT ![k] = NoRemote]
      /\ session' = [session EXCEPT ![k] = NoRemote]
  BY <1>3, <1>4 DEF CommandAdd
<1>6. \A a \in NetAddr \ {k} : /\ node_id'[a] = node_id[a]
                              /\ session'[a] = session[a]
                              /\ pending_session'[a] = pending_session[a]
  BY <1>2, <1>5 DEF NodeTypeOK
<1>7. \A m \in NodeID : session'[k][m] = None /\ pending_session'[k][m] = None
  BY <1>2, <1>5 DEF NodeTypeOK, NoRemote
<1>8. \A a \in Nodes : a \in NetAddr \ {k} /\ a \in Nodes'
  BY <1>2, <1>5, <1>6 DEF Nodes
<1>9. \A a \in Nodes' \ Nodes : a = k
  BY <1>6 DEF Nodes
<1>10. NodesKeep
  BY <1>6, <1>7, <1>8, <1>9 DEF NodesKeep, NodesStay
<1>11. Wire' = Wire
  BY <1>5 DEF Wire
<1>12. QED
  BY <1>2, <1>10, <1>11, UntouchedCalm

(* A network made anew has nothing to settle.                               *)
LEMMA RenewedSettles ==
  ASSUME NEW c \in Commands, AddressInv, CommandClear(c) \/ CommandGen(c)
  PROVE  HomeInv' /\ SettlingInv'
<1>1. CommandStep(c)
  BY DEF CommandStep
<1>2. outgoing' = <<>> /\ rx' = None
  BY <1>1, CommandFacts
<1>3. ToSend' = {} /\ ToRead' = {} /\ ToParse' = {}
  BY <1>1, CommandOnce DEF AddressInv
<1>4. /\ pending_session' = [a \in NetAddr |-> NoRemote]
      /\ session' = [a \in NetAddr |-> NoRemote]
      /\ packet_map' = [a \in NetAddr |-> <<>>]
  BY DEF CommandClear, CommandGen, Renewed
<1>5. \A n \in NetAddr : DOMAIN Wire'[n] = {}
  BY <1>4 DEF Wire
<1>6. HomeInv'
  BY <1>2, <1>3, <1>5 DEF HomeInv, HomeOnWire, HomeSent, HomeRead, HomeParsed
<1>7. Tokens' = {}
  BY <1>3, <1>5 DEF Tokens, OnTheWay
<1>8. \A a \in Nodes', m \in NodeID : session'[a][m] = None
  BY <1>4 DEF NoRemote, Nodes
<1>9. ASSUME NEW x \in NodeID, NEW y \in NodeID, NEW id
      PROVE  ~Holds(x, y, id)'
  BY <1>8 DEF Holds, At
<1>10. SettlingInv'
  BY <1>7, <1>9 DEF SettlingInv, Settling, HigherAwaits, LowerHolds,
                    LowerOffers, LowerAccepted, Agreed
<1>11. QED
  BY <1>6, <1>10

-----------------------------------------------------------------------------
(* Every step                                                               *)

(* The nodes keep settling, in an orderly network.                          *)
LEMMA NextKeepsAgreement ==
  ASSUME NothingDeleted, NothingLoaded, Orderly, Orderly', AgreementInv,
         [Next]_vars
  PROVE  AgreementInv'
<1>1. AddressInv'
  BY NextKeepsAddresses DEF AgreementInv
<1>2. /\ AddressInv /\ TunnelInv /\ Once /\ HomeInv /\ SettlingInv
      /\ Once' /\ TypeOK'
  BY <1>1 DEF AgreementInv, AddressInv, TunnelInv, PairInv, MapInv, IInv
<1>3. /\ NamesUnique /\ InOrder /\ OneAtATime /\ OneAtATime'
      /\ HandshakesAddressed'
  BY DEF Orderly
<1>4. CASE \E n \in NetAddr : Tick(n)
  <2>1. PICK n \in NetAddr : Tick(n)
    BY <1>4
  <2>2. NodeSteps(n) \/ OtherTicks(n)
    BY <2>1 DEF Tick, NodeSteps, OtherTicks
  <2>3. HomeInv' /\ Proceeds
    BY <1>2, <1>3, <2>2, NodeStepProceeds, OtherTickCalm DEF Proceeds
  <2>4. QED
    BY <1>1, <1>2, <1>3, <2>3, ProceedsSettles DEF AgreementInv
<1>5. CASE \E c \in Commands : CommandStep(c)
  <2>1. PICK c \in Commands : CommandStep(c)
    BY <1>5
  <2>2. ~CommandDel(c) /\ ~CommandReload(c)
    BY DEF NothingDeleted, NothingLoaded, CommandDel, CommandReload
  <2>3. CASE CommandNode(c) \/ CommandTest(c)
    <3>1. UNCHANGED <<rx, work, outgoing, minted, node_id, session,
                      pending_session, packet_map, order, turn>>
      BY <2>3 DEF CommandNode, CommandTest
    <3>2. Wire' = Wire /\ NodesKeep
      BY <3>1 DEF Wire, NodesKeep, NodesStay, Nodes
    <3>3. HomeInv' /\ Proceeds
      BY <1>2, <3>1, <3>2, UntouchedCalm DEF Proceeds
    <3>4. QED
      BY <1>1, <1>2, <1>3, <3>3, ProceedsSettles DEF AgreementInv
  <2>4. CASE CommandAdd(c)
    BY <1>1, <1>2, <1>3, <2>4, AddCalm, ProceedsSettles
       DEF AgreementInv, Proceeds
  <2>5. CASE CommandClear(c) \/ CommandGen(c)
    BY <1>1, <1>2, <2>5, RenewedSettles DEF AgreementInv
  <2>6. QED
    BY <2>1, <2>2, <2>3, <2>4, <2>5 DEF CommandStep
<1>6. CASE AgendaStep \/ Stop \/ UNCHANGED vars
  <2>1. UNCHANGED <<rx, work, outgoing, minted, node_id, session,
                    pending_session, packet_map, order, turn>>
    BY <1>6 DEF AgendaStep, Stop, vars
  <2>2. Wire' = Wire /\ NodesKeep
    BY <2>1 DEF Wire, NodesKeep, NodesStay, Nodes
  <2>3. HomeInv' /\ Proceeds
    BY <1>2, <2>1, <2>2, UntouchedCalm DEF Proceeds
  <2>4. QED
    BY <1>1, <1>2, <1>3, <2>3, ProceedsSettles DEF AgreementInv
<1>7. QED
  BY <1>4, <1>5, <1>6 DEF Next

(* At first no handshake has begun.                                         *)
LEMMA InitAgreement == Leased /\ Init => AgreementInv
<1> SUFFICES ASSUME Leased, Init
             PROVE  AgreementInv
  OBVIOUS
<1>1. AddressInv
  BY InitAddresses
<1>2. rx = None /\ outgoing = <<>> /\ work = <<>>
  BY DEF Init
<1>3. \A n \in NetAddr : DOMAIN Wire[n] = {}
  BY DEF Init, Wire
<1>4. Tokens = {} /\ ToRead = {} /\ ToParse = {}
  BY <1>2, <1>3 DEF Tokens, OnTheWay, ToSend, ToRead, ToParse
<1>5. HomeInv
  BY <1>2, <1>3, <1>4 DEF HomeInv, HomeOnWire, HomeSent, HomeRead, HomeParsed
<1>6. \A a \in Nodes, m \in NodeID : session[a][m] = None
  BY DEF Init, NoRemote, Nodes
<1>7. \A x, y \in NodeID : \A id : ~Holds(x, y, id)
  BY <1>6 DEF Holds, At
<1>8. SettlingInv
  BY <1>4, <1>7 DEF SettlingInv, Settling, HigherAwaits, LowerHolds,
                    LowerOffers, LowerAccepted, Agreed
<1>9. QED
  BY <1>1, <1>5, <1>8 DEF AgreementInv

(* Between two rounds a token is on its way or nowhere.                     *)
LEMMA QuietTokens ==
  ASSUME AgreementInv, Quiet
  PROVE  \A t \in Tokens : ~Halfway(t)
<1>1. rx = None /\ outgoing = <<>> /\ work = <<>>
  BY DEF AgreementInv, AddressInv, TunnelInv, PairInv, MapInv, IdleEmpty,
         IInv, StackInv, Quiet, Between
<1>2. SUFFICES ASSUME NEW t \in OnTheWay, Halfway(t)
               PROVE  FALSE
  BY <1>1 DEF Tokens, ToSend, ToRead, ToParse
<1>3. PICK n \in NetAddr :
        \E i \in DOMAIN Wire[n] : t \in TokenOf(Wire[n][i].encryption)
  BY DEF OnTheWay
<1>4. PICK i \in DOMAIN Wire[n] : t \in TokenOf(Wire[n][i].encryption)
  BY <1>3
<1>5. n \in Nodes
  BY <1>2, <1>4 DEF AgreementInv, HomeInv, HomeOnWire, Homeward
<1>6. packet_map[n] = <<>>
  BY <1>5 DEF Quiet
<1>7. QED
  BY <1>4, <1>6 DEF Wire

(* So two nodes that are done settling agree.                               *)
LEMMA QuietAgrees ==
  ASSUME AgreementInv, NamesUnique
  PROVE  TunnelAgreement
<1>1. SUFFICES ASSUME Quiet, NEW n \in Nodes, NEW m \in NodeID,
                      session[n][m] # None
               PROVE  \E k \in At(m) :
                        LET back == session[k][node_id[n]]
                        IN  /\ back # None
                            /\ back.session_id = session[n][m].session_id
  BY DEF TunnelAgreement
<1> DEFINE x == node_id[n]
           id == session[n][m].session_id
<1>2. x \in NodeID /\ NodeID \subseteq Nat
  <2>1. NodeTypeOK
    BY DEF AgreementInv, AddressInv, TunnelInv, PairInv, MapInv, IInv, TypeOK
  <2>2. QED
    BY <2>1, NodeIDAssumption DEF NodeTypeOK, Nodes
<1>3. Holds(x, m, id)
  BY <1>1 DEF Holds, At
<1> HIDE DEF x, id
<1>4. \A i : Offered(i) \notin Tokens /\ Accepted(i) \notin Tokens
  BY <1>1, QuietTokens, HalfwayTokens
<1>5. Holds(m, x, id)
  <2>1. CASE m = x
    BY <1>3, <2>1
  <2>2. CASE m # x
    <3>1. Agreed(x, m) \/ Agreed(m, x)
      BY <1>2, <2>2 DEF AgreementInv, SettlingInv, Settling
    <3>2. QED
      BY <1>3, <1>4, <3>1 DEF Agreed
  <2>3. QED
    BY <2>1, <2>2
<1>6. QED
  BY <1>5 DEF Holds, x, id

(* Two nodes settle on one session: in a network built by add, in which     *)
(* nobody is deleted or loaded and which is orderly (names are unique,      *)
(* handshakes are sent straight to their recipient's address, packets of    *)
(* one sender arrive in order, and nobody offers the same node a second     *)
(* session while the first offer is under way), both ends of every session  *)
(* know it by one id once the network is quiet: also when both offered one  *)
(* at the same time, in whichever order the two offers and what answers     *)
(* them arrive (parse_node_encryption keeps or gives up the attempt by the  *)
(* order of the ids), and whoever is added meanwhile.                       *)
THEOREM TunnelsAgree ==
  ASSUME Leased, NothingDeleted, NothingLoaded
  PROVE  Spec /\ []Orderly => []TunnelAgreement
<1>1. Init => AgreementInv
  BY InitAgreement
<1>2. Orderly /\ Orderly' /\ AgreementInv /\ [Next]_vars => AgreementInv'
  BY NextKeepsAgreement
<1>3. Orderly /\ AgreementInv => TunnelAgreement
  BY QuietAgrees DEF Orderly
<1>4. QED
  BY <1>1, <1>2, <1>3, PTL DEF Spec

=============================================================================
