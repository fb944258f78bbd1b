---------------------------- MODULE FinishProofs ----------------------------
(***************************************************************************)
(* No handshake is left half done: in an orderly network, for any nodes,    *)
(* positions and bounds, what a node waits for is under way, and what it    *)
(* has accepted is answered or replaced (Properties!HandshakesFinish).      *)
(***************************************************************************)
EXTENDS AgreementProofs

USE DEF netVars, loopVars, nodeVars, selfVars, remoteVars, tableVars,
        routeVars, runVars, mintVars

-----------------------------------------------------------------------------
(* A handshake that has begun is finished                                   *)

(* The first packet back, in which the one that offered a session sends     *)
(* what the other waits for: it goes straight to where that one is, and is  *)
(* parsed before all else.                                                  *)
Begun(id) == <<"ConnectionInit", id>>
BegunHome(enc, b) ==
  \A id : Begun(id) \in TokenOf(enc) =>
    /\ enc.hops = <<>> /\ enc.core.session_id = id /\ b \in Nodes
    /\ \E x : Drawn(minted, id, x, node_id[b])
BegunOnWire ==
  \A n \in NetAddr : \A i \in DOMAIN Wire[n] :
    BegunHome(Wire[n][i].encryption, n)
BegunSent ==
  \A i \in DOMAIN outgoing :
    BegunHome(outgoing[i].encryption, outgoing[i].dest_addr)
BegunRead ==
  \A id : Begun(id) \in ToRead => BegunHome(rx.encryption, order[turn])
BegunParsed ==
  \A i \in DOMAIN work : \A id :
    Begun(id) \in TokenIn(work[i].packet) =>
      /\ i = 1 /\ rx = None /\ work[i].packet.type = "ConnectionInit"
      /\ Drawn(minted, id, work[i].from, node_id[order[turn]])
BegunInv == BegunOnWire /\ BegunSent /\ BegunRead /\ BegunParsed

(* The session a node of this name has accepted from this remote, as long   *)
(* as it does not know that the remote has it too; it knows it by its id.   *)
Unanswered(x, y, id) ==
  \E a \in At(x) : /\ session[a][y] # None
                   /\ session[a][y].session_id = id
                   /\ session[a][y].ping_sent # None
UnansweredIndexed ==
  \A a \in Nodes, m \in NodeID : \A id :
    Unanswered(node_id[a], m, id) => sessions[a][m] = id

(* Nobody waits for nothing: what a node awaits is under way, also what it  *)
(* offers itself, and what it has accepted will be answered - by the first  *)
(* packet back, when the acknowledgement arrives which the other awaits -   *)
(* or replaced by an offer of its own that the other has accepted.          *)
AwaitedUnderWay ==
  \A x, y \in NodeID : \A i : Awaits(x, y, i) => UnderOffer(i)
SelfAwaits ==
  \A x \in NodeID : \A j :
    Drawn(minted, j, x, x) /\ UnderOffer(j) => Awaits(x, x, j)
ToAnswer(x, y, i) ==
  \/ Accepted(i) \in Tokens /\ Awaits(y, x, i)
  \/ Begun(i) \in Tokens
  \/ \E j : /\ Drawn(minted, j, x, y) /\ Accepted(j) \in Tokens
            /\ Awaits(x, y, j)
UnansweredUnderWay ==
  \A x, y \in NodeID : \A i : Unanswered(x, y, i) => ToAnswer(x, y, i)
WaitInv == AwaitedUnderWay /\ SelfAwaits /\ UnansweredUnderWay
FinishInv == AgreementInv /\ BegunInv /\ UnansweredIndexed /\ WaitInv

-----------------------------------------------------------------------------
(* Nobody comes to wait for nothing                                         *)

(* What a step does to the sessions not yet answered: it makes one with the *)
(* acknowledgement it sends, sends the first packet back when it reads the  *)
(* acknowledgement it awaits, and takes one for answered by that packet.    *)
Answering ==
  /\ \A x, y \in NodeID : \A i : Unanswered(x, y, i)' =>
       \/ Unanswered(x, y, i)
       \/ /\ Drawn(minted, i, y, x)
          /\ Accepted(i) \in Tokens' /\ Accepted(i) \notin Tokens
  /\ \A x, y \in NodeID : \A i : Awaits(x, y, i) /\ Accepted(i) \in Tokens =>
       Accepted(i) \in Tokens' \/ Begun(i) \in Tokens'
  /\ \A i : Begun(i) \in Tokens =>
       \/ Begun(i) \in Tokens'
       \/ \A x, y \in NodeID : ~Unanswered(x, y, i)'

(* What a node awaits was drawn by it for the remote,                       *)
AwaitsOwn ==
  \A x, y \in NodeID : \A i : Awaits(x, y, i) => Drawn(minted, i, x, y)

(* as what is pending was.                                                  *)
LEMMA AwaitsDrawn ==
  ASSUME PendingOwned
  PROVE  AwaitsOwn
BY DEF AwaitsOwn, PendingOwned, Awaits, At

(* What a node awaits stays under way until it has it.                      *)
LEMMA AwaitedStays ==
  ASSUME Once, AwaitsOwn, Proceeds, AwaitedUnderWay
  PROVE  AwaitedUnderWay'
<1> USE HalfwayTokens
<1> SUFFICES ASSUME NEW x \in NodeID, NEW y \in NodeID, NEW i,
                    Awaits(x, y, i)'
             PROVE  Offered(i) \in Tokens' \/ Accepted(i) \in Tokens'
  BY DEF AwaitedUnderWay, UnderOffer
<1>1. Awaits(x, y, i) => Offered(i) \in Tokens \/ Accepted(i) \in Tokens
  BY DEF AwaitedUnderWay, UnderOffer
<1>2. CASE Calm
  BY <1>1, <1>2 DEF Calm
<1>3. CASE ~Calm
  <2>1. PICK z, m, k :
          Connects(z, m, k) \/ Accepts(z, m, k) \/ Confirms(z, m, k)
    BY <1>3 DEF Proceeds
  <2>2. CASE Connects(z, m, k)
    BY <1>1, <2>2 DEF Connects
  <2>3. CASE Accepts(z, m, k)
    BY <1>1, <2>3 DEF Accepts
  <2>4. CASE Confirms(z, m, k)
    <3>1. Awaits(x, y, i) /\ ~(x = z /\ y = m) /\ Drawn(minted, k, z, m)
      BY <2>4 DEF Confirms
    <3>2. i # k
      BY <3>1, DrawnOnce DEF AwaitsOwn
    <3>3. QED
      BY <1>1, <2>4, <3>1, <3>2 DEF Confirms
  <2>5. QED
    BY <2>1, <2>2, <2>3, <2>4
<1>4. QED
  BY <1>2, <1>3

(* A node that shakes hands with itself has one offer under way, as with    *)
(* others, and does not give it up when it accepts it.                      *)
LEMMA SelfAwaitsStays ==
  ASSUME Once, OneAtATime, OneAtATime', Proceeds, SelfAwaits
  PROVE  SelfAwaits'
<1> USE HalfwayTokens
<1> SUFFICES ASSUME NEW x \in NodeID, NEW j, Drawn(minted', j, x, x),
                    UnderOffer(j)'
             PROVE  Awaits(x, x, j)'
  BY DEF SelfAwaits
<1>1. Drawn(minted, j, x, x) /\ UnderOffer(j) => Awaits(x, x, j)
  BY DEF SelfAwaits
<1>2. CASE Calm
  BY <1>1, <1>2 DEF Calm, UnderOffer
<1>3. CASE ~Calm
  <2>1. PICK z, m, k :
          Connects(z, m, k) \/ Accepts(z, m, k) \/ Confirms(z, m, k)
    BY <1>3 DEF Proceeds
  <2>2. CASE Connects(z, m, k)
    <3>1. Drawn(minted', k, z, m) /\ UnderOffer(k)'
      BY <2>2 DEF Connects, UnderOffer
    <3>2. CASE z = x /\ m = x
      <4>1. j = k
        BY <3>1, <3>2, OneOfferNext
      <4>2. QED
        BY <2>2, <3>2, <4>1 DEF Connects
    <3>3. CASE ~(z = x /\ m = x)
      <4>1. j # k
        BY <3>1, <3>3, DrawnOnce
      <4>2. QED
        BY <1>1, <2>2, <3>3, <4>1 DEF Connects, UnderOffer
    <3>4. QED
      BY <3>2, <3>3
  <2>3. CASE Accepts(z, m, k)
    <3>1. Drawn(minted, j, x, x) /\ UnderOffer(j)
      BY <2>3 DEF Accepts, UnderOffer, Tokens
    <3>2. ~(x = z /\ x = m /\ z < m)
      BY NodeIDAssumption
    <3>3. QED
      BY <1>1, <2>3, <3>1, <3>2 DEF Accepts
  <2>4. CASE Confirms(z, m, k)
    <3>1. Drawn(minted, j, x, x) /\ UnderOffer(j)
      BY <2>4 DEF Confirms, UnderOffer
    <3>2. /\ Drawn(minted, k, z, m) /\ UnderOffer(k)
          /\ Accepted(k) \notin Tokens' /\ Offered(k) \notin Tokens'
      BY <2>4, NotBoth DEF Confirms, UnderOffer, Tokens
    <3>3. ~(x = z /\ x = m)
      BY <3>1, <3>2, OneOffer DEF UnderOffer
    <3>4. QED
      BY <1>1, <2>4, <3>1, <3>3 DEF Confirms
  <2>5. QED
    BY <2>1, <2>2, <2>3, <2>4
<1>4. QED
  BY <1>2, <1>3

(* What a node accepts will be answered, or is replaced by what the other   *)
(* one has accepted before.                                                 *)
LEMMA AcceptedAnswered ==
  ASSUME Once, SettlingInv, SelfAwaits, NEW x \in NodeID, NEW y \in NodeID,
         NEW i, Accepts(x, y, i)
  PROVE  ToAnswer(x, y, i)'
<1> USE HalfwayTokens
<1>1. /\ Drawn(minted, i, y, x) /\ minted' = minted
      /\ Offered(i) \in Tokens /\ Accepted(i) \in Tokens'
  BY DEF Accepts, Tokens
<1>2. \A k : /\ Awaits(y, x, k)' <=> Awaits(y, x, k) /\ ~(y = x /\ x < y)
             /\ Awaits(x, y, k)' <=> Awaits(x, y, k) /\ ~(x < y)
  BY DEF Accepts
<1>3. x \in Nat /\ y \in Nat
  BY NodeIDAssumption
<1>4. CASE x = y
  <2>1. Awaits(y, x, i)
    BY <1>1, <1>4 DEF SelfAwaits, UnderOffer
  <2>2. QED
    BY <1>1, <1>2, <1>3, <1>4, <2>1 DEF ToAnswer
<1>5. CASE x < y
  <2>1. Awaits(y, x, i) /\ y # x
    BY <1>1, <1>3, <1>5 DEF SettlingInv, Settling, HigherAwaits
  <2>2. QED
    BY <1>1, <1>2, <2>1 DEF ToAnswer
<1>6. CASE y < x
  <2>1. Settling(y, x) /\ y # x /\ ~(x < y)
    BY <1>3, <1>6 DEF SettlingInv
  <2>2. CASE Awaits(y, x, i)
    BY <1>1, <1>2, <2>1, <2>2 DEF ToAnswer
  <2>3. CASE ~Awaits(y, x, i)
    <3>1. PICK j : Drawn(minted, j, x, y) /\ Accepted(j) \in Tokens
      BY <1>1, <2>1, <2>3 DEF Settling, LowerOffers
    <3>2. Awaits(x, y, j)'
      BY <1>2, <2>1, <3>1 DEF Settling, HigherAwaits
    <3>3. Accepted(j) \in Tokens'
      BY <3>1 DEF Accepts
    <3>4. QED
      BY <1>1, <3>1, <3>2, <3>3 DEF ToAnswer
  <2>4. QED
    BY <2>2, <2>3
<1>7. QED
  BY <1>3, <1>4, <1>5, <1>6

(* What is acknowledged to the one that awaits it stays so, unless that one *)
(* gives it up to accept an offer of the other.                             *)
LEMMA AwaitedAnswered ==
  ASSUME Once, OneAtATime, OneAtATime', SettlingInv, AwaitsOwn, Proceeds,
         NEW x \in NodeID, NEW y \in NodeID, NEW i,
         Accepted(i) \in Tokens, Awaits(y, x, i), Accepted(i) \in Tokens'
  PROVE  ToAnswer(x, y, i)'
<1> USE HalfwayTokens
<1>1. Drawn(minted, i, y, x)
  BY DEF AwaitsOwn
<1>2. CASE Awaits(y, x, i)'
  BY <1>2 DEF ToAnswer
<1>3. CASE ~Awaits(y, x, i)'
  <2>1. PICK z, m, k :
          Connects(z, m, k) \/ Accepts(z, m, k) \/ Confirms(z, m, k)
    BY <1>3 DEF Proceeds, Calm
  <2>2. CASE Connects(z, m, k)
    <3>1. z = y /\ m = x /\ i # k
      BY <1>3, <2>2 DEF Connects
    <3>2. /\ Drawn(minted', k, y, x) /\ Drawn(minted', i, y, x)
          /\ UnderOffer(k)' /\ UnderOffer(i)'
      BY <1>1, <2>2, <3>1 DEF Connects, UnderOffer
    <3>3. QED
      BY <3>1, <3>2, OneOfferNext
  <2>3. CASE Accepts(z, m, k)
    <3>1. z = y /\ m = x /\ y < x
      BY <1>3, <2>3 DEF Accepts
    <3>2. /\ Drawn(minted, k, x, y) /\ minted' = minted
          /\ Offered(k) \in Tokens /\ Accepted(k) \in Tokens'
      BY <2>3, <3>1 DEF Accepts, Tokens
    <3>3. Awaits(x, y, k) /\ x # y
      BY <3>1, <3>2, NodeIDAssumption DEF SettlingInv, Settling, HigherAwaits
    <3>4. Awaits(x, y, k)'
      BY <2>3, <3>1, <3>3 DEF Accepts
    <3>5. QED
      BY <3>2, <3>4 DEF ToAnswer
  <2>4. CASE Confirms(z, m, k)
    <3>1. z = y /\ m = x
      BY <1>3, <2>4 DEF Confirms
    <3>2. /\ Drawn(minted, k, y, x) /\ Accepted(k) \in Tokens
          /\ Accepted(k) \notin Tokens'
      BY <2>4, <3>1 DEF Confirms, Tokens
    <3>3. QED
      BY <1>1, <3>2, OneOffer DEF UnderOffer
  <2>5. QED
    BY <2>1, <2>2, <2>3, <2>4
<1>4. QED
  BY <1>2, <1>3

(* A session that an offer of this node is about to replace.                *)
LEMMA ReplacedAnswered ==
  ASSUME Once, OneAtATime, OneAtATime', AwaitsOwn, Proceeds,
         NEW x \in NodeID, NEW y \in NodeID, NEW i, NEW j,
         ~Accepts(x, y, i), Unanswered(x, y, i)',
         Drawn(minted, j, x, y), Accepted(j) \in Tokens, Awaits(x, y, j),
         Accepted(j) \in Tokens'
  PROVE  ToAnswer(x, y, i)'
<1> USE HalfwayTokens
<1>1. Holds(x, y, i)'
  BY DEF Unanswered, Holds
<1>2. CASE Awaits(x, y, j)'
  <2>1. Drawn(minted', j, x, y)
    BY DEF Proceeds, Calm, Connects, Accepts, Confirms
  <2>2. QED
    BY <1>2, <2>1 DEF ToAnswer
<1>3. CASE ~Awaits(x, y, j)'
  <2>1. PICK z, m, k :
          Connects(z, m, k) \/ Accepts(z, m, k) \/ Confirms(z, m, k)
    BY <1>3 DEF Proceeds, Calm
  <2>2. CASE Connects(z, m, k)
    <3>1. z = x /\ m = y /\ j # k
      BY <1>3, <2>2 DEF Connects
    <3>2. /\ Drawn(minted', k, x, y) /\ Drawn(minted', j, x, y)
          /\ UnderOffer(k)' /\ UnderOffer(j)'
      BY <2>2, <3>1 DEF Connects, UnderOffer
    <3>3. QED
      BY <3>1, <3>2, OneOfferNext
  <2>3. CASE Accepts(z, m, k)
    <3>1. z = x /\ m = y
      BY <1>3, <2>3 DEF Accepts
    <3>2. i = k
      BY <1>1, <2>3, <3>1 DEF Accepts
    <3>3. QED
      BY <2>3, <3>1, <3>2
  <2>4. CASE Confirms(z, m, k)
    <3>1. z = x /\ m = y
      BY <1>3, <2>4 DEF Confirms
    <3>2. /\ Drawn(minted, k, x, y) /\ Accepted(k) \in Tokens
          /\ Accepted(k) \notin Tokens'
      BY <2>4, <3>1 DEF Confirms, Tokens
    <3>3. QED
      BY <3>2, OneOffer DEF UnderOffer
  <2>5. QED
    BY <2>1, <2>2, <2>3, <2>4
<1>4. QED
  BY <1>2, <1>3

(* And when that offer is confirmed, the session is the other one.          *)
LEMMA ConfirmedReplaced ==
  ASSUME Once, Proceeds, AwaitsOwn,
         NEW x \in NodeID, NEW y \in NodeID, NEW i, NEW j,
         Unanswered(x, y, i)', Accepted(j) \in Tokens, Awaits(x, y, j),
         Accepted(j) \notin Tokens'
  PROVE  i = j
<1> USE HalfwayTokens
<1>1. Holds(x, y, i)' /\ Drawn(minted, j, x, y)
  BY DEF Unanswered, Holds, AwaitsOwn
<1>2. PICK z, m, k :
        Connects(z, m, k) \/ Accepts(z, m, k) \/ Confirms(z, m, k)
  BY DEF Proceeds, Calm
<1>3. Confirms(z, m, k) /\ k = j
  BY <1>2 DEF Connects, Accepts, Confirms
<1>4. z = x /\ m = y
  BY <1>1, <1>3, DrawnOnce DEF Confirms
<1>5. QED
  BY <1>1, <1>3, <1>4 DEF Confirms

(* So whoever waits, waits for something under way.                         *)
LEMMA WaitStays ==
  ASSUME Once, OneAtATime, OneAtATime', SettlingInv, AwaitsOwn, WaitInv,
         Proceeds, Answering
  PROVE  WaitInv'
<1> USE HalfwayTokens
<1>1. AwaitedUnderWay' /\ SelfAwaits'
  BY AwaitedStays, SelfAwaitsStays DEF WaitInv
<1>2. UnansweredUnderWay'
  <2>1. SUFFICES ASSUME NEW x \in NodeID, NEW y \in NodeID, NEW i,
                        Unanswered(x, y, i)'
                 PROVE  ToAnswer(x, y, i)'
    BY DEF UnansweredUnderWay
  <2>2. CASE Accepts(x, y, i)
    BY <2>2, AcceptedAnswered DEF WaitInv
  <2>3. CASE ~Accepts(x, y, i)
    <3>1. Unanswered(x, y, i)
      <4>1. SUFFICES ASSUME Drawn(minted, i, y, x),
                            Accepted(i) \in Tokens', Accepted(i) \notin Tokens
                     PROVE  FALSE
        BY <2>1 DEF Answering
      <4>2. PICK z, m, k :
              Connects(z, m, k) \/ Accepts(z, m, k) \/ Confirms(z, m, k)
        BY <4>1 DEF Proceeds, Calm
      <4>3. Accepts(z, m, k) /\ k = i
        BY <4>1, <4>2 DEF Connects, Accepts, Confirms
      <4>4. m = y /\ z = x
        BY <4>1, <4>3, DrawnOnce DEF Accepts
      <4>5. QED
        BY <2>3, <4>3, <4>4
    <3>2. ToAnswer(x, y, i)
      BY <3>1 DEF WaitInv, UnansweredUnderWay
    <3>3. CASE Begun(i) \in Tokens
      BY <2>1, <3>3 DEF Answering, ToAnswer
    <3>4. CASE Accepted(i) \in Tokens /\ Awaits(y, x, i)
      <4>1. Accepted(i) \in Tokens' \/ Begun(i) \in Tokens'
        BY <3>4 DEF Answering
      <4>2. QED
        BY <3>4, <4>1, AwaitedAnswered DEF ToAnswer
    <3>5. ASSUME NEW j, Drawn(minted, j, x, y), Accepted(j) \in Tokens,
                 Awaits(x, y, j)
          PROVE  ToAnswer(x, y, i)'
      <4>1. CASE Accepted(j) \in Tokens'
        BY <2>1, <2>3, <3>5, <4>1, ReplacedAnswered
      <4>2. CASE Accepted(j) \notin Tokens'
        <5>1. i = j
          BY <2>1, <3>5, <4>2, ConfirmedReplaced
        <5>2. Begun(j) \in Tokens'
          BY <3>5, <4>2 DEF Answering
        <5>3. QED
          BY <5>1, <5>2 DEF ToAnswer
      <4>3. QED
        BY <4>1, <4>2
    <3>6. QED
      BY <3>2, <3>3, <3>4, <3>5 DEF ToAnswer
  <2>4. QED
    BY <2>2, <2>3
<1>3. QED
  BY <1>1, <1>2 DEF WaitInv

-----------------------------------------------------------------------------
(* Where the first packet back is                                           *)

(* It still goes where it went, whatever is drawn.                          *)
LEMMA BegunStays ==
  ASSUME Grows, UNCHANGED node_id, NEW enc, NEW b, BegunHome(enc, b)
  PROVE  BegunHome(enc, b)'
<1>1. Nodes' = Nodes
  BY DEF Nodes
<1>2. QED
  BY <1>1 DEF BegunHome, Grows

(* So all do, if what is new does.                                          *)
SentBegun(id) ==
  /\ \A i : Fresh(i) /\ Begun(id) \in TokenOf(outgoing'[i].encryption) =>
       BegunHome(outgoing[i].encryption, outgoing[i].dest_addr)'
  /\ Begun(id) \notin ToRead' /\ Begun(id) \notin ToParse'
BegunKept == \A id : Begun(id) \in Tokens => Begun(id) \in Tokens'

(* Then none is lost by a node that reads and parses none.                  *)
LEMMA BegunLeft ==
  ASSUME TypeOK, TypeOK', Once', BegunInv, Extends, Grows,
         UNCHANGED <<Wire, node_id, order, turn>>,
         \/ \A id : Begun(id) \notin ToRead \cup ToParse
         \/ UNCHANGED <<rx, work>>,
         \A id : Begun(id) \in Tokens' => Begun(id) \in Tokens \/ SentBegun(id)
  PROVE  BegunInv' /\ BegunKept
<1> USE DEF BegunInv
<1>1. /\ DOMAIN outgoing = 1 .. Len(outgoing) /\ Len(outgoing) \in Nat
      /\ DOMAIN outgoing' = 1 .. Len(outgoing') /\ Len(outgoing') \in Nat
  BY DEF TypeOK, StackTypeOK
<1>2. /\ ToSend' \subseteq Tokens' /\ ToRead' \subseteq Tokens'
      /\ ToParse' \subseteq Tokens' /\ OnTheWay' \subseteq Tokens'
      /\ ToSend' \cap (ToRead' \cup ToParse') = {}
  BY DEF Tokens, Once, PlacesApart, Apart
<1>3. BegunOnWire'
  BY BegunStays DEF BegunOnWire
<1>4. \A i \in DOMAIN outgoing : /\ i \in DOMAIN outgoing'
                                 /\ outgoing'[i] = outgoing[i]
  BY <1>1 DEF Extends
<1>5. ASSUME NEW id, Begun(id) \in ToRead' \cup ToParse'
      PROVE  UNCHANGED <<rx, work>>
  <2>1. Begun(id) \in Tokens
    BY <1>2, <1>5 DEF SentBegun
  <2>2. Begun(id) \in ToRead \cup ToParse
    BY <1>5, <2>1, Handed
  <2>3. QED
    BY <2>2
<1>6. UNCHANGED <<rx, work>> => ToRead' = ToRead /\ ToParse' = ToParse
  BY DEF ToRead, ToParse
<1>7. BegunSent'
  <2>1. SUFFICES ASSUME NEW i \in DOMAIN outgoing'
                 PROVE  BegunHome(outgoing[i].encryption,
                                  outgoing[i].dest_addr)'
    BY DEF BegunSent
  <2>2. PICK enc, b : enc = outgoing'[i].encryption
                      /\ b = outgoing'[i].dest_addr
    OBVIOUS
  <2>3. CASE i \in DOMAIN outgoing
    <3>1. BegunHome(enc, b)
      BY <1>4, <2>2, <2>3 DEF BegunSent
    <3>2. BegunHome(enc, b)'
      BY <3>1, BegunStays
    <3>3. QED
      BY <2>2, <3>2
  <2>4. CASE i \notin DOMAIN outgoing
    <3>1. Fresh(i)
      BY <1>1, <2>4 DEF Fresh
    <3>2. SUFFICES ASSUME NEW id, Begun(id) \in TokenOf(enc)
                   PROVE  BegunHome(outgoing[i].encryption,
                                    outgoing[i].dest_addr)'
      BY <2>2 DEF BegunHome
    <3>3. Begun(id) \in ToSend'
      BY <2>2, <3>2 DEF ToSend
    <3>4. Begun(id) \notin Tokens
      <4>1. SUFFICES ASSUME Begun(id) \in Tokens
                     PROVE  FALSE
        OBVIOUS
      <4>2. Begun(id) \in ToRead \cup ToParse
        BY <2>2, <3>1, <3>2, <4>1, Handed DEF Fresh
      <4>3. Begun(id) \in ToRead' \cup ToParse'
        BY <1>6, <4>2
      <4>4. QED
        BY <1>2, <3>3, <4>3
    <3>5. SentBegun(id)
      BY <1>2, <3>3, <3>4
    <3>6. QED
      BY <2>2, <3>1, <3>2, <3>5 DEF SentBegun
  <2>5. QED
    BY <2>3, <2>4
<1>8. BegunRead'
  <2>1. SUFFICES ASSUME NEW id, Begun(id) \in ToRead'
                 PROVE  BegunHome(rx.encryption, order[turn])'
    BY DEF BegunRead
  <2>2. UNCHANGED <<rx, work>> /\ Begun(id) \in ToRead
    BY <1>5, <1>6, <2>1
  <2>3. PICK enc, b : enc = rx'.encryption /\ b = order'[turn']
    OBVIOUS
  <2>4. BegunHome(enc, b)
    BY <2>2, <2>3 DEF BegunRead
  <2>5. BegunHome(enc, b)'
    BY <2>4, BegunStays
  <2>6. QED
    BY <2>3, <2>5
<1>9. BegunParsed'
  <2>1. SUFFICES ASSUME NEW i \in DOMAIN work', NEW id,
                        Begun(id) \in TokenIn(work'[i].packet)
                 PROVE  /\ i = 1 /\ rx' = None
                        /\ work'[i].packet.type = "ConnectionInit"
                        /\ Drawn(minted', id, work'[i].from,
                                 node_id'[order'[turn']])
    BY DEF BegunParsed
  <2>2. UNCHANGED <<rx, work>>
    <3>1. Begun(id) \in ToParse'
      BY <2>1 DEF ToParse
    <3>2. QED
      BY <1>5, <3>1
  <2>3. QED
    BY <2>1, <2>2 DEF BegunParsed, Grows
<1>10. BegunKept
  <2>1. OnTheWay' = OnTheWay /\ ToSend \subseteq ToSend'
    BY <1>4 DEF OnTheWay, ToSend
  <2>2. QED
    BY <1>2, <1>6, <2>1 DEF BegunKept, Tokens
<1>11. QED
  BY <1>3, <1>7, <1>8, <1>9, <1>10

(* One is new when an acknowledgement is read.                              *)
LEMMA BegunConfirms ==
  ASSUME NEW n \in NetAddr, Shakes(n), NEW id,
         Begun(id) \in Tokens', Begun(id) \notin Tokens
  PROVE  Accepted(id) \in Tokens /\ Accepted(id) \notin Tokens'
<1>1. Pairs(Tokens) /\ Pairs(Tokens')
  BY TokensArePairs, NextTokensArePairs
<1>2. id \in InHand("ConnectionInit")' /\ id \notin InHand("ConnectionInit")
  BY <1>1, OfTypeMembers DEF InHand, Begun
<1>3. Tun!Confirm(n)
  BY <1>2 DEF Shakes, Tun!Offer, Tun!Accept, Tun!Establish, Tun!Lose,
              Tun!MaybeLost
<1>4. id \in InHand("Acknowledge") /\ id \notin InHand("Acknowledge")'
  BY <1>2, <1>3 DEF Tun!Confirm, Tun!Passed
<1>5. QED
  BY <1>1, <1>4, OfTypeMembers DEF InHand, Accepted

-----------------------------------------------------------------------------
(* Which sessions a node leaves unanswered                                  *)

(* They are the tunnels that are not open.                                  *)
LEMMA TunnelUnanswered ==
  ASSUME TypeOK, TypeOK', UNCHANGED node_id,
         NEW a \in Nodes, NEW m \in NodeID, NEW id \in SessionID
  PROVE  /\ Tunnels[a][m] = [id |-> id, open |-> FALSE] <=>
              /\ session[a][m] # None
              /\ session[a][m].session_id = id
              /\ session[a][m].ping_sent # None
         /\ Tunnels'[a][m] = [id |-> id, open |-> FALSE] <=>
              /\ session'[a][m] # None
              /\ session'[a][m].session_id = id
              /\ session'[a][m].ping_sent # None
<1>1. a \in NetAddr /\ a \in Nodes'
  BY DEF Nodes
<1>2. [id |-> id, open |-> FALSE] # None
  <2>1. [id |-> id, open |-> FALSE] \in [id : SessionID, open : BOOLEAN]
    OBVIOUS
  <2>2. QED
    BY <2>1, TunnelAssumption
<1>3. \A s : TunnelOf(s) = [id |-> id, open |-> FALSE] <=>
               s # None /\ s.session_id = id /\ s.ping_sent # None
  BY <1>2 DEF TunnelOf
<1>4. /\ Tunnels[a][m] = TunnelOf(session[a][m])
      /\ Tunnels'[a][m] = TunnelOf(session'[a][m])
  BY <1>1 DEF Tunnels
<1>5. QED
  BY <1>3, <1>4

(* A new one has been accepted, and its acknowledgement is new too.         *)
LEMMA UnansweredNext ==
  ASSUME NEW n \in NetAddr, Shakes(n), TypeOK, TypeOK', Once, AcceptedOwned',
         UNCHANGED node_id,
         NEW x \in NodeID, NEW y \in NodeID, NEW id, Unanswered(x, y, id)'
  PROVE  \/ Unanswered(x, y, id)
         \/ /\ Drawn(minted, id, y, x)
            /\ Accepted(id) \in Tokens' /\ Accepted(id) \notin Tokens
<1>1. PICK a \in Nodes : /\ node_id[a] = x
                         /\ session'[a][y] # None
                         /\ session'[a][y].session_id = id
                         /\ session'[a][y].ping_sent # None
  BY DEF Unanswered, At, Nodes
<1>2. id \in SessionID /\ a \in NetAddr
  <2>1. a \in NetAddr
    BY DEF Nodes
  <2>2. session'[a][y] \in Session
    BY <1>1, <2>1 DEF TypeOK, NodeTypeOK
  <2>3. QED
    BY <1>1, <2>1, <2>2 DEF Session
<1>3. Tunnels'[a][y] = [id |-> id, open |-> FALSE]
  BY <1>1, <1>2, TunnelUnanswered
<1>4. CASE Tunnels'[a][y] = Tunnels[a][y]
  BY <1>1, <1>2, <1>3, <1>4, TunnelUnanswered DEF Unanswered, At
<1>5. CASE Tunnels'[a][y] # Tunnels[a][y]
  <2>1. ASSUME NEW m, NEW k, NEW open, Tun!Set(n, m, k, open)
        PROVE  Tunnels'[a][y] = [id |-> k, open |-> open]
    <3>1. Tunnels' = [Tunnels EXCEPT ![n][m] = [id |-> k, open |-> open]]
      BY <2>1 DEF Tun!Set
    <3>2. /\ Tunnels = [b \in NetAddr |-> Tunnels[b]]
          /\ Tunnels[a] = [r \in NodeID |-> Tunnels[a][r]]
      BY <1>2 DEF Tunnels
    <3>3. QED
      BY <1>2, <1>5, <3>1, <3>2
  <2>2. PICK k \in InHand("Handshake") :
          /\ InHand("Acknowledge")' = InHand("Acknowledge") \cup {k}
          /\ Tun!Set(n, minted[k][1], k, FALSE)
          /\ minted' = minted
    <3>1. ASSUME NEW m, NEW k, Tun!Set(n, m, k, TRUE)
          PROVE  FALSE
      <4>1. Tunnels'[a][y] = [id |-> k, open |-> TRUE]
        BY <2>1, <3>1
      <4>2. QED
        BY <1>3, <4>1
    <3>2. Tun!Accept(n)
      BY <1>5, <3>1
         DEF Shakes, Tun!Offer, Tun!Confirm, Tun!Establish, Tun!Lose
    <3>3. QED
      BY <3>2 DEF Tun!Accept
  <2>3. k = id /\ minted' = minted
    <3>1. Tunnels'[a][y] = [id |-> k, open |-> FALSE]
      BY <2>1, <2>2
    <3>2. QED
      BY <1>3, <2>2, <3>1
  <2>4. Accepted(id) \in Tokens' /\ Offered(id) \in Tokens
    BY <2>2, <2>3, TokensArePairs, NextTokensArePairs, OfTypeMembers
       DEF InHand, Accepted, Offered
  <2>5. Drawn(minted, id, y, x)
    BY <1>1, <2>3 DEF AcceptedOwned, Nodes
  <2>6. QED
    BY <2>4, <2>5, NotBoth
<1>6. QED
  BY <1>4, <1>5

(* An acknowledgement that is not read stays.                               *)
LEMMA AcceptedStays ==
  ASSUME Proceeds, NEW id, Accepted(id) \in Tokens,
         Accepted(id) \in ToRead => rx' = rx
  PROVE  Accepted(id) \in Tokens'
<1>1. SUFFICES ASSUME Accepted(id) \notin Tokens'
               PROVE  FALSE
  OBVIOUS
<1>2. PICK z, m, k :
        Connects(z, m, k) \/ Accepts(z, m, k) \/ Confirms(z, m, k)
  BY <1>1, HalfwayTokens DEF Proceeds, Calm
<1>3. Confirms(z, m, k) /\ k = id
  BY <1>1, <1>2, HalfwayTokens DEF Connects, Accepts, Confirms
<1>4. Accepted(id) \in ToRead
  BY <1>3 DEF Confirms
<1>5. Accepted(id) \in ToRead'
  BY <1>4 DEF ToRead
<1>6. QED
  BY <1>1, <1>5 DEF Tokens

(* So a node that reads no acknowledgement answers as it should, if it      *)
(* parses no first packet back either,                                      *)
LEMMA OthersAnswer ==
  ASSUME NEW n \in NetAddr, TunnelInv, TypeOK', NodeSteps(n), BegunInv,
         Proceeds, \A id : Accepted(id) \in ToRead => rx' = rx,
         \/ \A id : Begun(id) \notin ToRead \cup ToParse
         \/ UNCHANGED <<rx, work>>
  PROVE  BegunInv' /\ Answering
<1>1. /\ TypeOK /\ UNCHANGED <<Wire, node_id, order, turn>>
      /\ Once /\ Once' /\ Shakes(n) /\ Grows /\ Extends
  BY NodeStepFacts DEF TunnelInv
<1>2. \A id : Accepted(id) \in Tokens => Accepted(id) \in Tokens'
  BY AcceptedStays
<1>3. \A id : Begun(id) \in Tokens' => Begun(id) \in Tokens
  BY <1>1, <1>2, BegunConfirms
<1>4. BegunInv' /\ BegunKept
  BY <1>1, <1>3, BegunLeft
<1>5. AcceptedOwned'
  BY NodeStepShakes DEF NodeSteps
<1>6. Answering
  BY <1>1, <1>2, <1>4, <1>5, UnansweredNext DEF Answering, BegunKept
<1>7. QED
  BY <1>4, <1>6

(* and if it reads no offer, what it leaves unanswered is in the index.     *)
LEMMA IndexLeft ==
  ASSUME NEW n \in NetAddr, TunnelInv, TypeOK', NodeSteps(n), Proceeds,
         UnansweredIndexed, UNCHANGED sessions,
         \A id : Offered(id) \in ToRead => rx' = rx
  PROVE  UnansweredIndexed'
<1>1. /\ TypeOK /\ UNCHANGED <<node_id, Nodes>> /\ Once /\ Shakes(n)
  BY NodeStepFacts DEF TunnelInv
<1>2. AcceptedOwned'
  BY NodeStepShakes DEF NodeSteps
<1>3. ASSUME NEW id, Accepted(id) \in Tokens', Accepted(id) \notin Tokens
      PROVE  FALSE
  <2>1. PICK z, m, k :
          Connects(z, m, k) \/ Accepts(z, m, k) \/ Confirms(z, m, k)
    BY <1>3, HalfwayTokens DEF Proceeds, Calm
  <2>2. Accepts(z, m, k)
    BY <1>3, <2>1, HalfwayTokens DEF Connects, Accepts, Confirms
  <2>3. Offered(k) \in ToRead /\ Offered(k) \notin Tokens'
    BY <2>2, HalfwayTokens DEF Accepts
  <2>4. Offered(k) \in ToRead'
    BY <2>3 DEF ToRead
  <2>5. QED
    BY <2>3, <2>4 DEF Tokens
<1>4. \A x, y \in NodeID : \A id :
        Unanswered(x, y, id)' => Unanswered(x, y, id)
  BY <1>1, <1>2, <1>3, UnansweredNext
<1>5. \A a \in Nodes : node_id[a] \in NodeID
  BY <1>1 DEF TypeOK, NodeTypeOK, Nodes
<1>6. SUFFICES ASSUME NEW a \in Nodes, NEW m \in NodeID, NEW id,
                      Unanswered(node_id[a], m, id)'
               PROVE  sessions[a][m] = id
  BY <1>1 DEF UnansweredIndexed
<1>7. PICK x : x = node_id[a]
  OBVIOUS
<1>8. Unanswered(x, m, id)'
  BY <1>1, <1>6, <1>7 DEF Unanswered
<1>9. Unanswered(x, m, id)
  BY <1>4, <1>5, <1>7, <1>8
<1>10. QED
  BY <1>7, <1>9 DEF UnansweredIndexed

(* So is what it accepts; and the id it files drops no other from the index.*)
LEMMA IndexSet ==
  ASSUME TypeOK, NamesUnique, AcceptedOwned, UnansweredIndexed,
         UNCHANGED node_id, NEW n \in Nodes, NEW m \in NodeID, NEW id, NEW s,
         session' = [session EXCEPT ![n][m] = s], s # None,
         s.ping_sent # None => s.session_id = id,
         Ours(minted, id, node_id[n], m),
         \/ InsertSession(n, m, id)
         \/ s.ping_sent = None /\ UNCHANGED sessions
  PROVE  UnansweredIndexed'
<1>1. /\ Nodes' = Nodes /\ n \in NetAddr
      /\ \A a \in Nodes : a \in NetAddr /\ node_id[a] \in NodeID
                          /\ At(node_id[a]) = {a}
  <2>1. \A a \in Nodes : a \in At(node_id[a])
    BY DEF At
  <2>2. QED
    BY <2>1, OneName DEF TypeOK, NodeTypeOK, Nodes
<1>2. SUFFICES ASSUME NEW a \in Nodes, NEW k \in NodeID, NEW j,
                      Unanswered(node_id[a], k, j)'
               PROVE  sessions'[a][k] = j
  BY <1>1 DEF UnansweredIndexed
<1>3. /\ session'[a][k] # None /\ session'[a][k].session_id = j
      /\ session'[a][k].ping_sent # None
  <2>1. At(node_id[a])' = {a}
    BY <1>1 DEF At
  <2>2. QED
    BY <1>2, <2>1 DEF Unanswered
<1>4. /\ session \in [NetAddr -> [NodeID -> Session \cup {None}]]
      /\ sessions \in [NetAddr -> [NodeID -> SessionID \cup {None}]]
  BY DEF TypeOK, NodeTypeOK
<1>5. CASE a = n /\ k = m
  <2>1. session'[a][k] = s
    BY <1>1, <1>4, <1>5
  <2>2. s.ping_sent # None /\ j = id /\ InsertSession(n, m, id)
    BY <1>3, <2>1
  <2>3. QED
    BY <1>1, <1>4, <1>5, <2>2 DEF InsertSession
<1>6. CASE ~(a = n /\ k = m)
  <2>1. session'[a][k] = session[a][k]
    BY <1>1, <1>4, <1>6
  <2>2. sessions[a][k] = j
    BY <1>1, <1>3, <2>1 DEF UnansweredIndexed, Unanswered
  <2>3. Drawn(minted, j, k, node_id[a])
    BY <1>3, <2>1 DEF AcceptedOwned
  <2>4. a = n => j # id
    BY <1>6, <2>3, DrawnOnce DEF Ours
  <2>5. QED
    BY <1>1, <1>4, <1>6, <2>2, <2>4 DEF InsertSession
<1>7. QED
  BY <1>5, <1>6

-----------------------------------------------------------------------------
(* What the steps of a node leave unanswered                                *)

(* What stays in the index when the sessions do.                            *)
LEMMA SameUnanswered ==
  ASSUME UnansweredIndexed, UNCHANGED <<session, sessions, node_id>>
  PROVE  UnansweredIndexed'
BY DEF UnansweredIndexed, Unanswered, At, Nodes

(* An offer is accepted.                                                    *)
LEMMA ParseHandshakeAnswers ==
  ASSUME NEW n \in NetAddr, TunnelInv, TypeOK', NodeSteps(n), NamesUnique,
         BegunInv, UnansweredIndexed, Proceeds, ParseHandshake(n)
  PROVE  BegunInv' /\ Answering /\ UnansweredIndexed'
<1> DEFINE c == rx.encryption.core
           id == c.session_id
           m == c.signer
           s == NewSession(id, rx.via, ticks[n])
<1>1. /\ TypeInv(n) /\ TypeOK /\ n \in Nodes /\ UNCHANGED node_id
      /\ NodeInv /\ AcceptedOwned
  BY NodeStepFacts DEF TunnelInv, PairInv
<1>2. /\ rx # None /\ rx.request = None
      /\ c.type = "Handshake" /\ rx.encryption \in Encryption
      /\ id \in SessionID /\ m \in NodeID /\ rx.via \in SessionType
  BY <1>1, ParsingFields, CoreFields DEF ParseHandshake, Parsing, TypeInv
<1>3. ToRead = {Offered(id)}
  BY <1>2, EncryptionFields DEF ToRead, TokenOf, Offered
<1>4. \A k : Begun(k) \notin ToRead \cup ToParse
  BY <1>2, <1>3 DEF BegunInv, BegunParsed, ToParse, Begun, Offered
<1>5. BegunInv' /\ Answering
  BY <1>3, <1>4, HalfwayTokens, OthersAnswer
<1>6. UnansweredIndexed'
  <2>1. CASE UNCHANGED <<session, sessions>>
    BY <1>1, <2>1, SameUnanswered
  <2>2. CASE ~UNCHANGED <<session, sessions>>
    <3>1. /\ IsRecipient(n, c) /\ session' = [session EXCEPT ![n][m] = s]
          /\ InsertSession(n, m, id)
      BY <2>2 DEF ParseHandshake
    <3>2. Drawn(minted, id, m, node_id[n])
      BY <1>1, <1>2, <3>1, EncryptionFields
         DEF NodeInv, GenuineStack, GenuineRead, Genuine, IsRecipient
    <3>3. s # None /\ s.session_id = id
      <4>1. s \in Session
        BY <1>1, <1>2, NewSessionIsSession DEF TypeInv, NodeTypeOK
      <4>2. QED
        BY <4>1, NoneIsNoValue DEF NewSession
    <3> HIDE DEF c, id, m, s
    <3>4. Ours(minted, id, node_id[n], m)
      BY <3>2 DEF Ours
    <3>5. QED
      BY <1>1, <1>2, <3>1, <3>3, <3>4, IndexSet
  <2>3. QED
    BY <2>1, <2>2
<1>7. QED
  BY <1>5, <1>6

(* The first packet back is unwrapped, unless nobody waits for it.          *)
LEMMA ParseSessionAnswers ==
  ASSUME NEW n \in NetAddr, TunnelInv, TypeOK', NodeSteps(n), NamesUnique,
         BegunInv, UnansweredIndexed, Proceeds, ParseSession(n),
         NEW id, Begun(id) \in ToRead
  PROVE  BegunInv' /\ Answering
<1> DEFINE enc == rx.encryption
           packet == OuterPacket(enc)
           from == {m \in NodeID : sessions[n][m] = id}
<1>1. /\ Turn(n) /\ node_id[n] \in NodeID /\ TypeInv(n) /\ TypeOK
      /\ n \in Nodes /\ UNCHANGED <<Wire, node_id, order, turn, Nodes>>
      /\ Once /\ Once' /\ Shakes(n) /\ NodeInv /\ AcceptedOwned
  BY NodeStepFacts DEF TunnelInv, PairInv
<1>2. AcceptedOwned'
  BY NodeStepShakes DEF NodeSteps
<1>3. enc \in Encryption /\ IsSession(enc) /\ rx # None
  BY <1>1, ParsingFields DEF ParseSession, TypeInv
<1>4. /\ UNCHANGED <<session, sessions, outgoing, minted>> /\ rx' = None
  BY DEF ParseSession
<1>5. ToRead = TokenOf(enc) /\ TokenIn(packet) = TokenOf(enc)
  BY <1>3, UnwrappedToken DEF ToRead
<1>6. order[turn] = n
  BY <1>1 DEF Turn
<1>7. PICK x : /\ enc.hops = <<>> /\ enc.core.session_id = id
               /\ Drawn(minted, id, x, node_id[n])
  BY <1>5, <1>6 DEF BegunInv, BegunRead, BegunHome
<1>8. OuterID(enc) = id /\ packet.type = "ConnectionInit"
  BY <1>3, <1>5, <1>7
     DEF OuterID, OuterPacket, IsSession, TokenOf, Begun
<1>9. \/ from = {} /\ work' = <<>>
      \/ \E m \in from : work' = <<[from |-> m, packet |-> packet]>>
  <2>1. PICK i : i = OuterID(enc)
    OBVIOUS
  <2>2. LET F == {m \in NodeID : sessions[n][m] = i}
        IN  \/ F = {} /\ work' = <<>>
            \/ \E m \in F : work' = <<[from |-> m, packet |-> packet]>>
    BY <2>1 DEF ParseSession
  <2>3. i = id
    BY <1>8, <2>1
  <2>4. QED
    BY <2>2, <2>3
<1>10. \A k : Begun(k) \in TokenIn(packet) => k = id
  BY <1>5, OneToken DEF Begun
<1>11. \A k : Begun(k) \notin ToParse
  BY <1>3 DEF BegunInv, BegunParsed, ToParse
<1> HIDE DEF enc, packet
<1>12. BegunParsed'
  <2>1. CASE work' = <<>>
    BY <2>1 DEF BegunParsed
  <2>2. ASSUME NEW m \in from, work' = <<[from |-> m, packet |-> packet]>>
        PROVE  BegunParsed'
    <3>1. Ours(minted, id, node_id[n], m)
      <4>1. id \in Nat
        BY <1>7 DEF Drawn
      <4>2. sessions[n][m] # None /\ sessions[n][m] = id
        BY <4>1, NoneIsNoValue
      <4>3. QED
        BY <1>1, <4>2 DEF NodeInv, Owned, IndexOwned
    <3>2. Drawn(minted, id, m, node_id[n])
      BY <1>7, <3>1, DrawnOnce DEF Ours
    <3>3. DOMAIN work' = {1} /\ work'[1].from = m /\ work'[1].packet = packet
      BY <2>2
    <3>4. QED
      BY <1>1, <1>4, <1>6, <1>8, <1>10, <3>2, <3>3 DEF BegunParsed
  <2>3. QED
    BY <1>9, <2>1, <2>2
<1>13. BegunInv'
  <2>1. BegunOnWire' /\ BegunSent'
    BY <1>1, <1>4 DEF BegunInv, BegunOnWire, BegunSent, BegunHome
  <2>2. BegunRead'
    BY <1>4 DEF BegunRead, ToRead
  <2>3. QED
    BY <1>12, <2>1, <2>2 DEF BegunInv
<1>14. ASSUME NEW k, Begun(k) \in Tokens
       PROVE  \/ Begun(k) \in Tokens'
              \/ \A y, z \in NodeID : ~Unanswered(y, z, k)'
  <2>1. CASE k # id
    <3>1. Begun(k) \in OnTheWay \cup ToSend
      BY <1>5, <1>10, <1>11, <1>14, <2>1 DEF Tokens
    <3>2. OnTheWay' = OnTheWay /\ ToSend' = ToSend
      BY <1>1, <1>4 DEF OnTheWay, ToSend
    <3>3. QED
      BY <3>1, <3>2 DEF Tokens
  <2>2. CASE k = id /\ from # {}
    <3>1. PICK m \in from : work' = <<[from |-> m, packet |-> packet]>>
      BY <1>9, <2>2
    <3>2. DOMAIN work' = {1} /\ work'[1].packet = packet
      BY <3>1
    <3>3. Begun(k) \in TokenIn(work'[1].packet)
      BY <1>5, <2>2, <3>2
    <3>4. QED
      BY <3>2, <3>3 DEF Tokens, ToParse
  <2>3. ASSUME k = id, from = {}, NEW y \in NodeID, NEW z \in NodeID,
               Unanswered(y, z, k)'
        PROVE  FALSE
    <3>1. PICK a \in Nodes : /\ node_id[a] = y /\ session[a][z] # None
                             /\ session[a][z].session_id = id
                             /\ session[a][z].ping_sent # None
      BY <1>1, <1>4, <2>3 DEF Unanswered, At
    <3>2. Drawn(minted, id, z, node_id[a])
      BY <1>1, <3>1 DEF AcceptedOwned
    <3>3. node_id[a] = node_id[n]
      BY <1>7, <3>2, DrawnOnce
    <3>4. a = n
      BY <1>1, <3>3 DEF NamesUnique
    <3>5. sessions[n][z] = id
      BY <3>1, <3>4 DEF UnansweredIndexed, Unanswered, At
    <3>6. QED
      BY <2>3, <3>5
  <2>4. QED
    BY <2>1, <2>2, <2>3
<1>15. ASSUME NEW k, Accepted(k) \in Tokens
       PROVE  Accepted(k) \in Tokens'
  <2>1. Accepted(k) \notin ToRead
    BY <1>5, OneToken DEF Begun, Accepted
  <2>2. QED
    BY <1>15, <2>1, AcceptedStays
<1>16. Answering
  BY <1>1, <1>2, <1>14, <1>15, UnansweredNext DEF Answering
<1>17. QED
  BY <1>13, <1>16

(* An acknowledgement that is awaited is answered.                          *)
LEMMA ParseAcknowledgeAnswers ==
  ASSUME NEW n \in NetAddr, TunnelInv, TypeOK', NodeSteps(n), HomeInv,
         NamesUnique, HandshakesAddressed, BegunInv, UnansweredIndexed,
         AwaitsOwn, Proceeds, ParseAcknowledge(n)
  PROVE  BegunInv' /\ Answering /\ UnansweredIndexed'
<1> DEFINE c == rx.encryption.core
           id == c.session_id
           m == c.acknowledger
           p == pending_session[n][m]
           new == NewSession(id, p.session_type, None)
           s == [session[n] EXCEPT ![m] = new]
           first == ConnectionInit(id, UpdateConnectionPackets(n, p.packets))
           match == p # None /\ p.session_id = id
           to == p.session_type.net_addr
           init == Package(to, WrapSession(id, first))
<1>1. /\ Turn(n) /\ node_id[n] \in NodeID /\ TypeInv(n) /\ TypeOK
      /\ n \in Nodes /\ UNCHANGED <<Wire, node_id, order, turn, Nodes>>
      /\ Once /\ Once' /\ Shakes(n) /\ Grows /\ Extends
      /\ NodeInv /\ AcceptedOwned
  BY NodeStepFacts DEF TunnelInv, PairInv
<1>2. AcceptedOwned'
  BY NodeStepShakes DEF NodeSteps
<1>3. /\ rx # None /\ rx.request = None
      /\ c.type = "Acknowledge" /\ rx.encryption \in Encryption
      /\ id \in SessionID /\ m \in NodeID
  BY <1>1, ParsingFields, CoreFields
     DEF ParseAcknowledge, Parsing, TypeInv
<1>4. UNCHANGED <<work, minted>> /\ rx' = None
  BY DEF ParseAcknowledge, Parsed
<1>5. ToRead = {Accepted(id)} /\ ToRead' = {} /\ ToParse' = ToParse
  BY <1>3, <1>4, EncryptionFields DEF ToRead, TokenOf, Accepted, ToParse
<1>6. \A k : Begun(k) \notin ToRead \cup ToParse
  BY <1>3, <1>5 DEF BegunInv, BegunParsed, ToParse, Begun, Accepted
<1>7. Drawn(minted, id, node_id[n], m)
  <2>1. /\ Halfway(Accepted(id)) /\ Accepted(id)[1] = "Acknowledge"
        /\ Accepted(id)[2] = id /\ order[turn] = n
    BY <1>1 DEF Halfway, Accepted, Turn
  <2>2. Accepted(id) \in TokenOf(rx.encryption)
    BY <1>3, <1>5 DEF ToRead
  <2>3. PICK a : a = rx.via.net_addr
    OBVIOUS
  <2>4. Homeward(rx.encryption, a, n)
    BY <1>5, <2>1, <2>3 DEF HomeInv, HomeRead
  <2>5. /\ Link(Accepted(id), node_id[a], node_id[n])
        /\ m = node_id[a]
    <3>1. PICK e : e = rx.encryption
      OBVIOUS
    <3>2. /\ Link(Accepted(id), node_id[a], node_id[n])
          /\ e.core.acknowledger = node_id[a]
      BY <2>1, <2>2, <2>4, <3>1 DEF Homeward
    <3>3. QED
      BY <3>1, <3>2
  <2>6. QED
    BY <2>1, <2>5 DEF Link
<1>8. /\ ~match => UNCHANGED <<session, sessions, outgoing>>
      /\ match => /\ session' = [session EXCEPT ![n] = s]
                  /\ \E i \in SendPacket([Self(n) EXCEPT !.session = s], m,
                                         first) :
                       /\ Emit(i)
                       /\ InsertSession(n, m, id) \/ UNCHANGED sessions
  BY DEF ParseAcknowledge
<1>9. ASSUME match
      PROVE  /\ new # None /\ new.ping_sent = None
             /\ session' = [session EXCEPT ![n][m] = new]
             /\ Emit(init) /\ init # None /\ to \in Nodes
             /\ Drawn(minted, id, node_id[n], node_id[to])
             /\ TokenOf(init.encryption) = {Begun(id)}
             /\ init.encryption.hops = <<>>
             /\ init.encryption.core.session_id = id /\ init.dest_addr = to
  <2>1. /\ p \in PendingSession /\ p # None /\ p.session_id = id
        /\ session[n] \in [NodeID -> Session \cup {None}]
        /\ session \in [NetAddr -> [NodeID -> Session \cup {None}]]
    BY <1>1, <1>3, <1>9 DEF TypeInv, NodeTypeOK
  <2>2. IsDirect(p) /\ to \in At(m)
    BY <1>1, <1>3, <1>9 DEF HandshakesAddressed
  <2>3. to \in Nodes /\ node_id[to] = m /\ to \in NetAddr
    BY <2>2 DEF At, Nodes
  <2>4. /\ new \in Session /\ new # None /\ new.ping_sent = None
        /\ new.session_id = id /\ new.session_type = p.session_type
    BY <1>3, <2>1, NewSessionIsSession, NoneIsNoValue
       DEF PendingSession, NewSession
  <2>5. session' = [session EXCEPT ![n][m] = new]
    BY <1>1, <1>8, <1>9
  <2>6. first \in NodePacket /\ first.type = "ConnectionInit"
        /\ first.ping = id
    BY <1>1, <1>3, <2>1, FirstPacketTypes DEF TypeInv, ConnectionInit
  <2>7. WrapSession(id, first) =
          Bare([type |-> "Session", session_id |-> id, packet |-> first])
    BY <2>6 DEF WrapSession
  <2>8. WrapSession(id, first) \in Encryption
    BY <1>3, <2>6, WrapSessionKeepsCore
  <2>9. init \in Outgoing /\ init.encryption = WrapSession(id, first)
        /\ init.dest_addr = to
    BY <2>3, <2>8, PackageIsOutgoing DEF Package
  <2>10. TokenOf(init.encryption) = {Begun(id)}
    <3> HIDE DEF first, init
    <3>1. PICK e : e = init.encryption
      OBVIOUS
    <3>2. /\ e # None /\ e.core.type = "Session"
          /\ e.core.packet.type = "ConnectionInit" /\ e.core.packet.ping = id
      BY <2>6, <2>7, <2>8, <2>9, <3>1, EncryptionFields DEF Bare
    <3>3. TokenOf(e) = {Begun(id)}
      BY <3>2 DEF TokenOf, Begun
    <3>4. QED
      BY <3>1, <3>3
  <2>11. Emit(init)
    <3>1. [Self(n) EXCEPT !.session = s].session = s
      BY DEF Self
    <3>2. s[m] = new
      BY <1>3, <2>1
    <3>3. IsDirect(new)
      BY <2>2, <2>4 DEF IsDirect
    <3>4. SendPacket([Self(n) EXCEPT !.session = s], m, first) = {init}
      <4> HIDE DEF new, s, first
      <4>1. PICK me : me = [Self(n) EXCEPT !.session = s]
        OBVIOUS
      <4>2. SendPacket(me, m, first) = {init}
        BY <2>4, <3>1, <3>2, <3>3, <4>1 DEF SendPacket, GenPacket
      <4>3. QED
        BY <4>1, <4>2
    <3>5. QED
      BY <1>8, <1>9, <3>4
  <2>12. init # None
    BY <2>9, NoneIsNoValue
  <2>13. /\ init.encryption.hops = <<>>
         /\ init.encryption.core.session_id = id
    <3> HIDE DEF first, init, id
    <3>1. PICK e : e = init.encryption
      OBVIOUS
    <3>2. e.hops = <<>> /\ e.core.session_id = id
      BY <2>7, <2>9, <3>1 DEF Bare
    <3>3. QED
      BY <3>1, <3>2
  <2>14. Drawn(minted, id, node_id[n], node_id[to])
    BY <1>7, <2>3
  <2> HIDE DEF init, new, to, id, m, match
  <2>15. QED
    BY <2>3, <2>4, <2>5, <2>9, <2>10, <2>11, <2>12, <2>13, <2>14
<1>10. match => Begun(id) \in Tokens'
  <2>1. SUFFICES ASSUME match PROVE Begun(id) \in ToSend'
    BY DEF Tokens
  <2>2. PICK v : v = init
    OBVIOUS
  <2>3. outgoing' = Append(outgoing, v) /\ Begun(id) \in TokenOf(v.encryption)
    BY <1>9, <2>1, <2>2 DEF Emit
  <2>4. /\ outgoing'[Len(outgoing) + 1] = v
        /\ Len(outgoing) + 1 \in DOMAIN outgoing'
    BY <1>1, <2>3 DEF TypeOK, StackTypeOK
  <2>5. QED
    BY <2>3, <2>4 DEF ToSend
<1>11. ASSUME NEW k, Begun(k) \in Tokens', Begun(k) \notin Tokens
       PROVE  SentBegun(k)
  <2>1. Accepted(k) \in Tokens /\ Accepted(k) \notin Tokens'
    BY <1>1, <1>11, BegunConfirms
  <2>2. Accepted(k) \in ToRead
    BY <2>1, AcceptedStays
  <2>3. k = id
    BY <1>5, <2>2, HalfwayTokens
  <2>4. match
    <3>1. SUFFICES ASSUME ~match PROVE FALSE
      OBVIOUS
    <3>2. OnTheWay' = OnTheWay /\ ToSend' = ToSend
      BY <1>1, <1>8, <3>1 DEF OnTheWay, ToSend
    <3>3. QED
      BY <1>5, <1>11, <3>2 DEF Tokens
  <2>5. ASSUME NEW i, Fresh(i)
        PROVE  BegunHome(outgoing[i].encryption, outgoing[i].dest_addr)'
    <3>1. PICK v : v = init
      OBVIOUS
    <3>2. Emit(v) /\ v.dest_addr \in Nodes
      BY <1>9, <2>4, <3>1
    <3>3. outgoing'[i] = v
      BY <1>1, <2>5, <3>2, EmitAdded DEF TypeInv
    <3>4. \A j : Begun(j) \in TokenOf(v.encryption) => j = id
      BY <1>9, <2>4, <3>1 DEF Begun
    <3>5. /\ v.encryption.hops = <<>> /\ v.encryption.core.session_id = id
          /\ Drawn(minted, id, node_id[n], node_id[v.dest_addr])
      BY <1>9, <2>4, <3>1
    <3>6. QED
      BY <1>1, <1>4, <3>2, <3>3, <3>4, <3>5 DEF BegunHome
  <2>6. QED
    BY <1>5, <1>6, <2>5 DEF SentBegun
<1>12. BegunInv' /\ BegunKept
  BY <1>1, <1>6, <1>11, BegunLeft
<1>13. ASSUME NEW x \in NodeID, NEW y \in NodeID, NEW i,
              Awaits(x, y, i), Accepted(i) \in Tokens
       PROVE  Accepted(i) \in Tokens' \/ Begun(i) \in Tokens'
  <2>1. CASE i # id
    <3>1. Accepted(i) \notin ToRead
      BY <1>5, <2>1, HalfwayTokens
    <3>2. QED
      BY <1>13, <3>1, AcceptedStays
  <2>2. CASE i = id
    <3>1. x = node_id[n] /\ y = m
      BY <1>7, <1>13, <2>2, DrawnOnce DEF AwaitsOwn
    <3>2. At(x) = {n}
      BY <1>1, <3>1, OneName DEF At
    <3>3. match
      BY <1>13, <2>2, <3>1, <3>2 DEF Awaits
    <3>4. QED
      BY <1>10, <2>2, <3>3
  <2>3. QED
    BY <2>1, <2>2
<1>14. Answering
  BY <1>1, <1>2, <1>12, <1>13, UnansweredNext DEF Answering, BegunKept
<1>15. UnansweredIndexed'
  <2>1. CASE ~match
    BY <1>1, <1>8, <2>1, SameUnanswered
  <2>2. CASE match
    <3>1. Ours(minted, id, node_id[n], m)
      BY <1>7 DEF Ours
    <3>2. InsertSession(n, m, id) \/ UNCHANGED sessions
      BY <1>8, <2>2
    <3>3. /\ new # None /\ new.ping_sent = None
          /\ session' = [session EXCEPT ![n][m] = new]
      BY <1>9, <2>2
    <3> HIDE DEF new, m, id
    <3>4. QED
      BY <1>1, <1>3, <3>1, <3>2, <3>3, IndexSet
  <2>3. QED
    BY <2>1, <2>2
<1>16. QED
  BY <1>12, <1>14, <1>15

(* The first packet back is taken for the answer it is, or nobody waits for *)
(* it any more.                                                             *)
LEMMA HandleConnectionInitAnswers ==
  ASSUME NEW n \in NetAddr, TunnelInv, TypeOK', NodeSteps(n), NamesUnique,
         BegunInv, UnansweredIndexed, Proceeds, HandleConnectionInit(n)
  PROVE  BegunInv' /\ Answering /\ UnansweredIndexed'
<1>0. PICK id : id = Head(work).packet.ping
  OBVIOUS
<1> DEFINE m == Head(work).from
           p == Head(work).packet
           s == session[n][m]
<1>1. /\ Turn(n) /\ node_id[n] \in NodeID /\ TypeInv(n) /\ TypeOK
      /\ n \in Nodes /\ UNCHANGED <<Wire, node_id, order, turn, Nodes>>
      /\ Once /\ Once' /\ Shakes(n) /\ Grows /\ Extends /\ AcceptedOwned
  BY NodeStepFacts DEF TunnelInv
<1>2. AcceptedOwned'
  BY NodeStepShakes DEF NodeSteps
<1>3. /\ rx = None /\ work # <<>> /\ m \in NodeID /\ p \in NodePacket
      /\ p.type = "ConnectionInit" /\ s \in Session /\ s # None
  BY <1>1, HandlingHead DEF HandleConnectionInit
<1>4. /\ UNCHANGED <<outgoing, minted, sessions>> /\ rx' = None
  BY <1>3 DEF HandleConnectionInit, Fail, End
<1>5. ToRead = {} /\ ToRead' = {} /\ ToSend' = ToSend /\ OnTheWay' = OnTheWay
  BY <1>1, <1>3, <1>4 DEF ToRead, ToSend, OnTheWay
<1>6. TokenIn(p) = {Begun(id)}
  BY <1>0, <1>3 DEF TokenIn, Begun
<1>7. /\ 1 \in DOMAIN work /\ work[1].packet = p /\ work[1].from = m
  BY <1>1, <1>3, HeadTailProperties, LenProperties DEF TypeInv, StackTypeOK
<1>8. order[turn] = n
  BY <1>1 DEF Turn
<1>9. Drawn(minted, id, m, node_id[n])
  BY <1>6, <1>7, <1>8 DEF BegunInv, BegunParsed
<1>10. \A k : Begun(k) \in ToParse => k = id
  <2>1. SUFFICES ASSUME NEW i \in DOMAIN work, NEW k,
                        Begun(k) \in TokenIn(work[i].packet)
                 PROVE  k = id
    BY DEF ToParse
  <2>2. i = 1
    BY <2>1 DEF BegunInv, BegunParsed
  <2>3. QED
    BY <1>6, <1>7, <2>1, <2>2 DEF Begun
<1>11. \A k : Begun(k) \notin ToParse'
  <2>1. CASE s.ping_sent # None /\ s.session_id = id
    <3> DEFINE Inner == [i \in DOMAIN p.packets |->
                           [from |-> m, packet |-> p.packets[i]]]
    <3>1. work' = Inner \o Tail(work) /\ UNCHANGED rx
      BY <1>0, <2>1 DEF HandleConnectionInit
    <3>2. /\ Inner \in Seq(Work)
          /\ \A i \in DOMAIN Inner : TokenIn(Inner[i].packet) = {}
      <4>1. p.packets \in Seq(InitialPacket)
        BY <1>3, PacketFields
      <4>2. QED
        BY <1>3, <4>1, InnerCarryNothing
    <3> HIDE DEF Inner
    <3>3. Unfolds(Inner)
      BY <3>1, <3>2 DEF Unfolds
    <3>4. Tokens' = Tokens \ TokenIn(p)
      BY <1>1, <1>3, <1>4, <3>1, <3>2, <3>3, TakenOnce DEF TypeInv
    <3>5. SUFFICES ASSUME NEW k, Begun(k) \in ToParse'
                   PROVE  FALSE
      OBVIOUS
    <3>6. Begun(k) \in Tokens /\ Begun(k) # Begun(id)
      BY <1>6, <3>4, <3>5 DEF Tokens
    <3>7. Begun(k) \in ToParse
      BY <1>1, <1>5, <3>5, <3>6, Handed
    <3>8. QED
      BY <1>10, <3>6, <3>7
  <2>2. CASE ~(s.ping_sent # None /\ s.session_id = id)
    <3>1. work' = <<>>
      BY <1>0, <2>2 DEF HandleConnectionInit, Fail, End
    <3>2. QED
      BY <3>1 DEF ToParse
  <2>3. QED
    BY <2>1, <2>2
<1>12. BegunInv'
  <2>1. BegunOnWire' /\ BegunSent'
    BY <1>1, <1>4 DEF BegunInv, BegunOnWire, BegunSent, BegunHome
  <2>2. BegunRead'
    BY <1>5 DEF BegunRead
  <2>3. BegunParsed'
    BY <1>11 DEF BegunParsed, ToParse
  <2>4. QED
    BY <2>1, <2>2, <2>3 DEF BegunInv
<1>13. ASSUME NEW x \in NodeID, NEW y \in NodeID
       PROVE  ~Unanswered(x, y, id)'
  <2>1. SUFFICES ASSUME NEW a \in Nodes, node_id[a] = x,
                        session'[a][y] # None,
                        session'[a][y].session_id = id,
                        session'[a][y].ping_sent # None
                 PROVE  FALSE
    BY <1>1 DEF Unanswered, At
  <2>2. Drawn(minted, id, y, x)
    BY <1>1, <1>2, <1>4, <2>1 DEF AcceptedOwned
  <2>3. y = m /\ node_id[a] = node_id[n]
    BY <1>9, <2>1, <2>2, DrawnOnce
  <2>4. a = n
    BY <1>1, <2>3 DEF NamesUnique
  <2>5. CASE s.ping_sent # None /\ s.session_id = id
    <3>1. session' = [session EXCEPT ![n][m].ping_sent = None]
      BY <1>0, <2>5 DEF HandleConnectionInit
    <3>2. session \in [NetAddr -> [NodeID -> Session \cup {None}]]
      BY <1>1 DEF TypeInv, NodeTypeOK
    <3>3. session'[n][m].ping_sent = None
      <4>1. session'[n][m] = [s EXCEPT !.ping_sent = None]
        BY <1>3, <3>1, <3>2
      <4>2. QED
        BY <1>3, <4>1 DEF Session
    <3>4. QED
      BY <2>1, <2>3, <2>4, <3>3
  <2>6. CASE ~(s.ping_sent # None /\ s.session_id = id)
    <3>1. session' = session
      BY <1>0, <2>6 DEF HandleConnectionInit
    <3>2. QED
      BY <2>1, <2>3, <2>4, <2>6, <3>1
  <2>7. QED
    BY <2>5, <2>6
<1>14. ASSUME NEW k, Begun(k) \in Tokens
       PROVE  \/ Begun(k) \in Tokens'
              \/ \A y, z \in NodeID : ~Unanswered(y, z, k)'
  <2>1. CASE k = id
    BY <1>13, <2>1
  <2>2. CASE k # id
    BY <1>5, <1>10, <1>14, <2>2 DEF Tokens
  <2>3. QED
    BY <2>1, <2>2
<1>15. \A k : Accepted(k) \in Tokens => Accepted(k) \in Tokens'
  BY <1>5, AcceptedStays
<1>16. Answering
  BY <1>1, <1>2, <1>14, <1>15, UnansweredNext DEF Answering
<1>17. UnansweredIndexed'
  BY <1>4, <1>5, IndexLeft
<1>18. QED
  BY <1>12, <1>16, <1>17

(* And no other step of a node leaves one unanswered.                       *)
LEMMA NodeStepAnswers ==
  ASSUME NEW n \in NetAddr, TunnelInv, TypeOK', NodeSteps(n), HomeInv,
         NamesUnique, HandshakesAddressed, BegunInv, UnansweredIndexed,
         AwaitsOwn, Proceeds
  PROVE  BegunInv' /\ Answering /\ UnansweredIndexed'
<1>1. /\ TypeInv(n) /\ UNCHANGED node_id
  BY NodeStepFacts
<1>2. CASE ParseHandshake(n)
  BY <1>2, ParseHandshakeAnswers
<1>3. CASE ParseAcknowledge(n)
  BY <1>3, ParseAcknowledgeAnswers
<1>4. CASE ParseSession(n)
  <2>1. /\ rx # None /\ UNCHANGED <<session, sessions>>
    BY <1>4 DEF ParseSession
  <2>2. UnansweredIndexed'
    BY <1>1, <2>1, SameUnanswered
  <2>3. CASE \E id : Begun(id) \in ToRead
    BY <1>4, <2>2, <2>3, ParseSessionAnswers
  <2>4. CASE \A id : Begun(id) \notin ToRead
    <3>1. \A id : Begun(id) \notin ToRead \cup ToParse
      BY <2>1, <2>4 DEF BegunInv, BegunParsed, ToParse
    <3>2. \A id : Accepted(id) \notin ToRead
      <4>1. rx.encryption # None /\ IsSession(rx.encryption)
        BY <1>1, <1>4, ParsingFields, EncryptionFields
           DEF ParseSession, TypeInv
      <4>2. SUFFICES ASSUME NEW id, Accepted(id) \in ToRead
                     PROVE  FALSE
        OBVIOUS
      <4>3. Accepted(id) \in TokenOf(rx.encryption) /\ Halfway(Accepted(id))
        BY <2>1, <4>2, HalfwayTokens DEF ToRead
      <4>4. rx.encryption.hops = <<>>
        BY <4>2, <4>3 DEF HomeInv, HomeRead, Homeward
      <4>5. rx.encryption.core.type = "Session"
        BY <4>1, <4>4 DEF IsSession
      <4>6. QED
        BY <4>3, <4>5 DEF TokenOf, Halfway
    <3>3. QED
      BY <2>2, <3>1, <3>2, OthersAnswer
  <2>5. QED
    BY <2>3, <2>4
<1>5. CASE ParseResponse(n) \/ ParseNotify(n)
  <2>1. /\ rx # None /\ UNCHANGED <<session, sessions>>
    BY <1>5 DEF ParseResponse, ParseNotify, Parsing
  <2>2. ToRead = {}
    <3>1. CASE ParseResponse(n)
      <4>1. rx.encryption = None
        <5>1. rx # None /\ rx.request # None /\ rx \in Arrived
          BY <1>1, <3>1 DEF ParseResponse, TypeInv, StackTypeOK
        <5>2. QED
          BY <5>1 DEF Arrived
      <4>2. QED
        BY <2>1, <4>1 DEF ToRead, TokenOf
    <3>2. CASE ParseNotify(n)
      BY <2>1, <3>2 DEF ParseNotify, Parsing, ToRead, TokenOf
    <3>3. QED
      BY <1>5, <3>1, <3>2
  <2>3. \A id : Begun(id) \notin ToRead \cup ToParse
    BY <2>1, <2>2 DEF BegunInv, BegunParsed, ToParse
  <2>4. QED
    BY <1>1, <2>1, <2>2, <2>3, OthersAnswer, SameUnanswered
<1>6. CASE HandleConnectionInit(n)
  BY <1>6, HandleConnectionInitAnswers
<1>7. CASE Handle(n) /\ ~HandleConnectionInit(n)
  <2>1. /\ rx = None /\ UNCHANGED sessions
        /\ Head(work).packet.type # "ConnectionInit"
    BY <1>7 DEF Handle, HandleExchangeInfo,
         HandleExchangeInfoResponse, HandleRequestPings, HandleWantPing,
         HandleAcceptWantPing, HandlePeerNotify, HandleTraverse, HandleData,
         Handling
  <2>2. ToRead = {}
    BY <2>1 DEF ToRead
  <2>3. \A id : Begun(id) \notin ToRead \cup ToParse
    <3>1. SUFFICES ASSUME NEW i \in DOMAIN work, NEW id,
                          Begun(id) \in TokenIn(work[i].packet)
                   PROVE  FALSE
      BY <2>2 DEF ToParse
    <3>2. i = 1 /\ work[1].packet.type = "ConnectionInit"
      BY <3>1 DEF BegunInv, BegunParsed
    <3>3. QED
      BY <2>1, <3>2
  <2>4. QED
    BY <2>1, <2>2, <2>3, OthersAnswer, IndexLeft
<1>8. CASE Run(n)
  <2>1. UNCHANGED <<rx, work>>
    BY <1>8, RunReadsNothing
  <2>2. UNCHANGED sessions
    BY <1>8 DEF Run, RunUpdateRemote, RunCalcRouteCoord, RunCalculatePeers,
       RunNotify, RunRequestRouteCoord, RunConnectRouted, RunSendData,
       RunCondition, RunBootstrap, RunConnect, RunConnectTraversed, Connect
  <2>3. QED
    BY <2>1, <2>2, OthersAnswer, IndexLeft
<1>9. QED
  BY <1>2, <1>3, <1>4, <1>5, <1>6, <1>7, <1>8
     DEF NodeSteps, ParsePacket, ParseNodePacket, ParseAction, Parse

-----------------------------------------------------------------------------
(* The network leaves the first packet back where it goes                   *)

(* It still goes there when packets move and the nodes stay.                *)
LEMMA BegunMoves ==
  ASSUME NodesStay, UNCHANGED minted, NEW enc, NEW b, BegunHome(enc, b)
  PROVE  BegunHome(enc, b)'
BY DEF BegunHome, NodesStay

(* So all do.                                                               *)
LEMMA MovesKeepBegun ==
  ASSUME Moves, BegunInv,
         ToParse' = {} \/ UNCHANGED <<work, rx, order, turn, node_id>>
  PROVE  BegunInv'
<1>1. BegunOnWire /\ BegunSent /\ BegunRead /\ BegunParsed
  BY DEF BegunInv
<1>2. /\ WireMoves /\ SentMoves /\ ReadMoves /\ NodesStay /\ UNCHANGED minted
  BY DEF Moves
<1>3. BegunOnWire'
  <2>1. ASSUME NEW a \in NetAddr, NEW i \in DOMAIN Wire'[a]
        PROVE  BegunHome(Wire'[a][i].encryption, a)
    <3>1. CASE \E j \in DOMAIN Wire[a] : Wire'[a][i] = Wire[a][j]
      BY <1>1, <3>1 DEF BegunOnWire
    <3>2. CASE PutBy(Wire'[a][i], a)
      <4> DEFINE x == Wire'[a][i]
      <4> HIDE DEF x
      <4>1. PutBy(x, a)
        BY <3>2 DEF x
      <4>2. CASE x.encryption = None
        BY <4>2 DEF BegunHome, TokenOf, x
      <4>3. CASE x.encryption # None
        <5>1. BegunHome(x.encryption, a)
          BY <1>1, <4>1, <4>3 DEF PutBy, BegunSent
        <5>2. QED
          BY <5>1 DEF x
      <4>4. QED
        BY <4>2, <4>3
    <3>3. QED
      BY <1>2, <3>1, <3>2 DEF WireMoves
  <2>2. ASSUME NEW a \in NetAddr, NEW i \in DOMAIN Wire'[a]
        PROVE  BegunHome(Wire[a][i].encryption, a)'
    <3>1. PICK enc : enc = Wire'[a][i].encryption
      OBVIOUS
    <3>2. BegunHome(enc, a)'
      BY <1>2, <2>1, <3>1, BegunMoves
    <3>3. QED
      BY <3>1, <3>2
  <2>3. QED
    BY <2>2 DEF BegunOnWire
<1>4. BegunSent'
  <2>1. ASSUME NEW i \in DOMAIN outgoing'
        PROVE  BegunHome(outgoing[i].encryption, outgoing[i].dest_addr)'
    <3>1. PICK enc, b : /\ enc = outgoing'[i].encryption
                        /\ b = outgoing'[i].dest_addr
      OBVIOUS
    <3>2. BegunHome(enc, b)
      BY <1>1, <1>2, <2>1, <3>1 DEF SentMoves, BegunSent
    <3>3. BegunHome(enc, b)'
      BY <1>2, <3>2, BegunMoves
    <3>4. QED
      BY <3>1, <3>3
  <2>2. QED
    BY <2>1 DEF BegunSent
<1>5. BegunRead'
  <2>1. SUFFICES ASSUME NEW id, Begun(id) \in ToRead'
                 PROVE  BegunHome(rx.encryption, order[turn])'
    BY DEF BegunRead
  <2>2. PICK enc, b : enc = rx'.encryption /\ b = order'[turn']
    OBVIOUS
  <2>3. rx' # None /\ Begun(id) \in TokenOf(enc)
    BY <2>1, <2>2 DEF ToRead
  <2>4. BegunHome(enc, b)
    <3>1. CASE rx' = rx /\ order'[turn'] = order[turn]
      BY <1>1, <2>1, <2>2, <2>3, <3>1 DEF BegunRead, ToRead
    <3>2. CASE \E n \in NetAddr : \E j \in DOMAIN Wire[n] :
                 /\ n = order'[turn']
                 /\ rx'.encryption = Wire[n][j].encryption
                 /\ rx'.via = DirectType(Wire[n][j].src_addr)
      BY <1>1, <2>2, <3>2 DEF BegunOnWire
    <3>3. QED
      BY <1>2, <2>3, <3>1, <3>2 DEF ReadMoves
  <2>5. BegunHome(enc, b)'
    BY <1>2, <2>4, BegunMoves
  <2>6. QED
    BY <2>2, <2>5
<1>6. BegunParsed'
  <2>1. CASE ToParse' = {}
    BY <2>1 DEF BegunParsed, ToParse
  <2>2. CASE UNCHANGED <<work, rx, order, turn, node_id>>
    BY <1>1, <1>2, <2>2 DEF BegunParsed
  <2>3. QED
    BY <2>1, <2>2
<1>7. QED
  BY <1>3, <1>4, <1>5, <1>6 DEF BegunInv

(* And what is not a step of a node answers nothing.                        *)
LEMMA CalmAnswers ==
  ASSUME TypeOK', NodesKeep, NamesUnique', Tokens' = Tokens,
         \A a \in Nodes, k \in NodeID : sessions'[a][k] = sessions[a][k],
         UnansweredIndexed
  PROVE  Answering /\ UnansweredIndexed'
<1>1. \A a \in Nodes : a \in Nodes' /\ node_id'[a] = node_id[a]
  BY DEF NodesKeep, NodesStay
<1>2. ASSUME NEW x \in NodeID, NEW y \in NodeID, NEW id, Unanswered(x, y, id)'
      PROVE  /\ Unanswered(x, y, id)
             /\ \A a \in Nodes' : node_id'[a] = x => a \in Nodes
  <2>1. PICK a \in Nodes' : /\ node_id'[a] = x
                            /\ session'[a][y] # None
                            /\ session'[a][y].session_id = id
                            /\ session'[a][y].ping_sent # None
    BY <1>2 DEF Unanswered, At
  <2>2. a \in Nodes /\ session'[a][y] = session[a][y]
    BY <2>1 DEF NodesKeep
  <2>3. \A b \in Nodes' : node_id'[b] = x => b = a
    BY <2>1 DEF NamesUnique
  <2>4. QED
    BY <1>1, <2>1, <2>2, <2>3 DEF Unanswered, At
<1>3. Answering
  BY <1>2 DEF Answering
<1>4. UnansweredIndexed'
  <2>1. SUFFICES ASSUME NEW a \in Nodes', NEW m \in NodeID, NEW id,
                        Unanswered(node_id[a], m, id)'
                 PROVE  sessions'[a][m] = id
    BY DEF UnansweredIndexed
  <2>2. PICK x : x = node_id'[a]
    OBVIOUS
  <2>3. Unanswered(x, m, id)'
    BY <2>1, <2>2 DEF Unanswered
  <2>4. x \in NodeID
    BY <2>2 DEF TypeOK, NodeTypeOK, Nodes
  <2>5. QED
    BY <1>1, <1>2, <2>2, <2>3, <2>4 DEF UnansweredIndexed
<1>5. QED
  BY <1>3, <1>4

-----------------------------------------------------------------------------
(* Every handshake finishes                                                 *)

(* The steps of a tick that are not a node's own parse nothing.             *)
LEMMA OtherTickAnswers ==
  ASSUME NEW n \in NetAddr, TunnelInv, TypeOK', NamesUnique', BegunInv,
         UnansweredIndexed, Tokens' = Tokens, OtherTicks(n)
  PROVE  BegunInv' /\ Answering /\ UnansweredIndexed'
<1>1. Moves
  BY DeliverMoves, RoutePacketMoves, OtherTickMoves DEF OtherTicks
<1>2. UNCHANGED <<node_id, session, sessions, pending_session, work>>
  BY DEF OtherTicks, Deliver, RoutePacket, BeginTick, BeginActions,
         EndActions, EndTick
<1>3. work = <<>>
  BY DEF OtherTicks, Deliver, RoutePacket, BeginTick, BeginActions,
         EndActions, EndTick, TunnelInv, PairInv, MapInv, IInv, StackInv,
         Stackless
<1>4. ToParse' = {}
  BY <1>2, <1>3 DEF ToParse
<1>5. NodesKeep
  BY <1>2 DEF NodesKeep, NodesStay, Nodes
<1>6. QED
  BY <1>1, <1>2, <1>4, <1>5, MovesKeepBegun, CalmAnswers

(* Nor do those that touch no packet and no session.                        *)
LEMMA UntouchedAnswers ==
  ASSUME TunnelInv, TypeOK', NamesUnique', BegunInv, UnansweredIndexed,
         UNCHANGED <<Wire, rx, work, outgoing, minted, node_id, session,
                     sessions, pending_session, order, turn>>
  PROVE  BegunInv' /\ Answering /\ UnansweredIndexed'
<1>1. NodesKeep
  BY DEF NodesKeep, NodesStay, Nodes
<1>2. Tokens' = Tokens
  BY DEF Tokens, OnTheWay, ToSend, ToRead, ToParse
<1>3. Moves
  BY <1>1, <1>2, UntouchedMoves DEF NodesKeep
<1>4. QED
  BY <1>1, <1>2, <1>3, MovesKeepBegun, CalmAnswers

(* Nor does add.                                                            *)
LEMMA AddAnswers ==
  ASSUME NEW c \in Commands, AddressInv, TypeOK', HomeInv, NamesUnique',
         BegunInv, UnansweredIndexed, CommandAdd(c)
  PROVE  BegunInv' /\ Answering /\ UnansweredIndexed'
<1>1. CommandStep(c)
  BY DEF CommandStep
<1>2. /\ TunnelInv /\ outgoing = <<>> /\ rx = None
      /\ UNCHANGED <<rx, work, outgoing, minted>>
      /\ Wire' \in {Wire, [n \in NetAddr |-> <<>>]}
  BY <1>1, CommandFacts
<1>3. Tokens' = Tokens /\ NodesKeep
  BY AddCalm
<1>4. ToParse' = {}
  BY <1>1, <1>2, CommandOnce
<1>5. Moves
  BY <1>2, <1>3, UntouchedMoves DEF NodesKeep
<1>6. \A a \in Nodes, k \in NodeID : sessions'[a][k] = sessions[a][k]
  <2>1. Lease \notin Nodes
    <3>1. PICK k \in Nat : Nodes = 0 .. k - 1
      BY DEF AddressInv, Contiguous
    <3>2. Cardinality(0 .. k - 1) = IF 0 > k - 1 THEN 0 ELSE k - 1 - 0 + 1
      BY <3>1, FS_Interval
    <3>3. QED
      BY <3>1, <3>2 DEF Lease
  <2>2. \A a \in Nodes : a \in NetAddr
    BY DEF Nodes
  <2>3. sessions' = [sessions EXCEPT ![Lease] = NoRemote]
    BY DEF CommandAdd
  <2>4. sessions \in [NetAddr -> [NodeID -> SessionID \cup {None}]]
    BY <1>2 DEF TunnelInv, PairInv, MapInv, IInv, TypeOK, NodeTypeOK
  <2>5. QED
    BY <2>1, <2>2, <2>3, <2>4
<1>7. QED
  BY <1>3, <1>4, <1>5, <1>6, MovesKeepBegun, CalmAnswers

(* A network made anew has nothing to finish.                               *)
LEMMA RenewedFinishes ==
  ASSUME NEW c \in Commands, AddressInv, CommandClear(c) \/ CommandGen(c)
  PROVE  BegunInv' /\ UnansweredIndexed' /\ WaitInv'
<1>1. CommandStep(c)
  BY DEF CommandStep
<1>2. outgoing' = <<>> /\ rx' = None
  BY <1>1, CommandFacts
<1>3. ToSend' = {} /\ ToRead' = {} /\ ToParse' = {}
  BY <1>1, CommandOnce DEF AddressInv
<1>4. /\ pending_session' = [a \in NetAddr |-> NoRemote]
      /\ session' = [a \in NetAddr |-> NoRemote]
      /\ packet_map' = [a \in NetAddr |-> <<>>]
  BY DEF CommandClear, CommandGen, Renewed
<1>5. \A n \in NetAddr : DOMAIN Wire'[n] = {}
  BY <1>4 DEF Wire
<1>6. BegunInv'
  BY <1>2, <1>3, <1>5
     DEF BegunInv, BegunOnWire, BegunSent, BegunRead, BegunParsed, ToParse
<1>7. Tokens' = {}
  BY <1>3, <1>5 DEF Tokens, OnTheWay
<1>8. \A a \in Nodes', m \in NodeID :
        session'[a][m] = None /\ pending_session'[a][m] = None
  BY <1>4 DEF NoRemote, Nodes
<1>9. \A x : \A y \in NodeID : \A id :
        ~Unanswered(x, y, id)' /\ ~Awaits(x, y, id)'
  BY <1>8 DEF Unanswered, Awaits, At
<1>10. UnansweredIndexed'
  <2>1. SUFFICES ASSUME NEW a \in Nodes', NEW m \in NodeID, NEW id,
                        Unanswered(node_id[a], m, id)'
                 PROVE  FALSE
    BY DEF UnansweredIndexed
  <2>2. PICK x : x = node_id'[a]
    OBVIOUS
  <2>3. Unanswered(x, m, id)'
    BY <2>1, <2>2 DEF Unanswered
  <2>4. QED
    BY <1>9, <2>3
<1>11. WaitInv'
  BY <1>7, <1>9 DEF WaitInv, AwaitedUnderWay, SelfAwaits, UnderOffer,
                    UnansweredUnderWay
<1>12. QED
  BY <1>6, <1>10, <1>11

(* So nobody comes to wait for nothing, in an orderly network.              *)
LEMMA NextKeepsFinish ==
  ASSUME NothingDeleted, NothingLoaded, Orderly, Orderly', FinishInv,
         [Next]_vars
  PROVE  FinishInv'
<1>1. AgreementInv'
  BY NextKeepsAgreement DEF FinishInv
<1>2. /\ AddressInv /\ TunnelInv /\ Once /\ HomeInv /\ SettlingInv
      /\ BegunInv /\ UnansweredIndexed /\ WaitInv /\ TypeOK'
  BY <1>1 DEF FinishInv, AgreementInv, AddressInv, TunnelInv, PairInv, MapInv,
              IInv
<1>3. /\ NamesUnique /\ NamesUnique' /\ InOrder /\ OneAtATime /\ OneAtATime'
      /\ HandshakesAddressed /\ HandshakesAddressed'
  BY DEF Orderly
<1>4. AwaitsOwn
  BY <1>2, AwaitsDrawn DEF TunnelInv, PairInv, NodeInv, Owned
<1>5. BegunInv' /\ Answering /\ UnansweredIndexed' /\ Proceeds => FinishInv'
  BY <1>1, <1>2, <1>3, <1>4, WaitStays DEF FinishInv
<1>6. CASE \E n \in NetAddr : Tick(n)
  <2>1. PICK n \in NetAddr : Tick(n)
    BY <1>6
  <2>2. CASE NodeSteps(n)
    <3>1. Proceeds
      BY <1>2, <1>3, <2>2, NodeStepProceeds
    <3>2. QED
      BY <1>2, <1>3, <1>4, <1>5, <2>2, <3>1, NodeStepAnswers
  <2>3. CASE OtherTicks(n)
    <3>1. Calm /\ Tokens' = Tokens
      BY <1>2, <1>3, <2>3, OtherTickCalm
    <3>2. QED
      BY <1>2, <1>3, <1>5, <2>3, <3>1, OtherTickAnswers DEF Proceeds
  <2>4. QED
    BY <2>1, <2>2, <2>3 DEF Tick, NodeSteps, OtherTicks
<1>7. ASSUME UNCHANGED <<rx, work, outgoing, minted, node_id, session, sessions,
                         pending_session, packet_map, order, turn>>
      PROVE  FinishInv'
  <2>1. Wire' = Wire /\ NodesKeep
    BY <1>7 DEF Wire, NodesKeep, NodesStay, Nodes
  <2>2. Calm
    BY <1>2, <1>7, <2>1, UntouchedCalm
  <2>3. QED
    BY <1>2, <1>3, <1>5, <1>7, <2>1, <2>2, UntouchedAnswers DEF Proceeds
<1>8. CASE \E c \in Commands : CommandStep(c)
  <2>1. PICK c \in Commands : CommandStep(c)
    BY <1>8
  <2>2. ~CommandDel(c) /\ ~CommandReload(c)
    BY DEF NothingDeleted, NothingLoaded, CommandDel, CommandReload
  <2>3. CASE CommandNode(c) \/ CommandTest(c)
    BY <1>7, <2>3 DEF CommandNode, CommandTest
  <2>4. CASE CommandAdd(c)
    <3>1. Proceeds
      BY <1>2, <2>4, AddCalm DEF Proceeds
    <3>2. QED
      BY <1>2, <1>3, <1>5, <2>4, <3>1, AddAnswers
  <2>5. CASE CommandClear(c) \/ CommandGen(c)
    BY <1>1, <1>2, <2>5, RenewedFinishes DEF FinishInv
  <2>6. QED
    BY <2>1, <2>2, <2>3, <2>4, <2>5 DEF CommandStep
<1>9. CASE AgendaStep \/ Stop \/ UNCHANGED vars
  BY <1>7, <1>9 DEF AgendaStep, Stop, vars
<1>10. QED
  BY <1>6, <1>8, <1>9 DEF Next

(* At first no handshake has begun.                                         *)
LEMMA InitFinish == Leased /\ Init => FinishInv
<1> SUFFICES ASSUME Leased, Init
             PROVE  FinishInv
  OBVIOUS
<1>1. AgreementInv
  BY InitAgreement
<1>2. rx = None /\ outgoing = <<>> /\ work = <<>>
  BY DEF Init
<1>3. \A n \in NetAddr : DOMAIN Wire[n] = {}
  BY DEF Init, Wire
<1>4. Tokens = {} /\ ToRead = {}
  BY <1>2, <1>3 DEF Tokens, OnTheWay, ToSend, ToRead, ToParse
<1>5. BegunInv
  BY <1>2, <1>3, <1>4
     DEF BegunInv, BegunOnWire, BegunSent, BegunRead, BegunParsed
<1>6. \A a \in Nodes, m \in NodeID :
        session[a][m] = None /\ pending_session[a][m] = None
  BY DEF Init, NoRemote, Nodes
<1>7. \A x : \A y \in NodeID : \A id :
        ~Unanswered(x, y, id) /\ ~Awaits(x, y, id)
  BY <1>6 DEF Unanswered, Awaits, At
<1>8. UnansweredIndexed /\ WaitInv
  BY <1>4, <1>7 DEF UnansweredIndexed, WaitInv, AwaitedUnderWay, SelfAwaits,
                    UnderOffer, UnansweredUnderWay
<1>9. QED
  BY <1>1, <1>5, <1>8 DEF FinishInv

(* Between two rounds nothing is under way, so nobody waits.                *)
LEMMA QuietFinishes ==
  ASSUME FinishInv
  PROVE  HandshakesFinish
<1>1. SUFFICES ASSUME Quiet, NEW n \in Nodes, NEW m \in NodeID
               PROVE  /\ pending_session[n][m] = None
                      /\ session[n][m] # None =>
                           session[n][m].ping_sent = None
  BY DEF HandshakesFinish
<1>2. \A i : Offered(i) \notin Tokens /\ Accepted(i) \notin Tokens
  BY <1>1, QuietTokens, HalfwayTokens DEF FinishInv
<1>3. rx = None /\ outgoing = <<>> /\ work = <<>>
  BY <1>1 DEF FinishInv, AgreementInv, AddressInv, TunnelInv, PairInv, MapInv,
              IdleEmpty, IInv, StackInv, Quiet, Between
<1>4. ASSUME NEW i, Begun(i) \in Tokens
      PROVE  FALSE
  <2>1. Begun(i) \in OnTheWay
    BY <1>3, <1>4 DEF Tokens, ToSend, ToRead, ToParse
  <2>2. PICK a \in NetAddr :
          \E j \in DOMAIN Wire[a] : Begun(i) \in TokenOf(Wire[a][j].encryption)
    BY <2>1 DEF OnTheWay
  <2>3. PICK j \in DOMAIN Wire[a] :
          Begun(i) \in TokenOf(Wire[a][j].encryption)
    BY <2>2
  <2>4. a \in Nodes
    BY <2>3 DEF FinishInv, BegunInv, BegunOnWire, BegunHome
  <2>5. packet_map[a] = <<>>
    BY <1>1, <2>4 DEF Quiet
  <2>6. QED
    BY <2>3, <2>5 DEF Wire
<1>5. node_id[n] \in NodeID
  <2>1. NodeTypeOK
    BY DEF FinishInv, AgreementInv, AddressInv, TunnelInv, PairInv, MapInv,
           IInv, TypeOK
  <2>2. QED
    BY <2>1 DEF NodeTypeOK, Nodes
<1>6. pending_session[n][m] = None
  <2>1. \A i : ~Awaits(node_id[n], m, i)
    BY <1>2, <1>5 DEF FinishInv, WaitInv, AwaitedUnderWay, UnderOffer
  <2>2. QED
    BY <2>1 DEF Awaits, At
<1>7. session[n][m] # None => session[n][m].ping_sent = None
  <2>1. \A i : ~Unanswered(node_id[n], m, i)
    BY <1>2, <1>4, <1>5
       DEF FinishInv, WaitInv, UnansweredUnderWay, ToAnswer
  <2>2. QED
    BY <2>1 DEF Unanswered, At
<1>8. QED
  BY <1>6, <1>7

(* No handshake is left half done: in such a network (see TunnelsAgree),    *)
(* once it is quiet, no node has a pending session, and every session's     *)
(* ping has been acknowledged - although nothing times either out, an offer *)
(* is dropped when two of them cross, and the first packet back is refused  *)
(* when its session has been replaced meanwhile (parse_node_encryption,     *)
(* acknowledge_ping).                                                       *)
THEOREM HandshakesDone ==
  ASSUME Leased, NothingDeleted, NothingLoaded
  PROVE  Spec /\ []Orderly => []HandshakesFinish
<1>1. Init => FinishInv
  BY InitFinish
<1>2. Orderly /\ Orderly' /\ FinishInv /\ [Next]_vars => FinishInv'
  BY NextKeepsFinish
<1>3. FinishInv => HandshakesFinish
  BY QuietFinishes
<1>4. QED
  BY <1>1, <1>2, <1>3, PTL DEF Spec

=============================================================================
