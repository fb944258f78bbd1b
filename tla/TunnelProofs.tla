---------------------------- MODULE TunnelProofs ----------------------------
(***************************************************************************)
(* The simulated network implements the abstract handshake, for any nodes,  *)
(* positions, commands and bounds: Properties!TunnelPromise.                *)
(***************************************************************************)
EXTENDS SessionProofs

USE DEF netVars, loopVars, nodeVars, selfVars, remoteVars, tableVars,
        routeVars, runVars, mintVars

(* No id is in two places at once, whatever it is carried by.               *)
Apart(S, T) == \A t \in S, u \in T : t[2] # u[2]
SentApart ==
  \A i, j \in DOMAIN outgoing :
    i # j => Apart(TokenOf(outgoing[i].encryption),
                   TokenOf(outgoing[j].encryption))
ParsedApart ==
  \A i, j \in DOMAIN work :
    i # j => Apart(TokenIn(work[i].packet), TokenIn(work[j].packet))
WireApart ==
  \A n, k \in NetAddr : \A i \in DOMAIN Wire[n], j \in DOMAIN Wire[k] :
    n # k \/ i # j => Apart(TokenOf(Wire[n][i].encryption),
                            TokenOf(Wire[k][j].encryption))
PlacesApart ==
  /\ Apart(OnTheWay, ToSend) /\ Apart(OnTheWay, ToRead)
  /\ Apart(OnTheWay, ToParse) /\ Apart(ToSend, ToRead)
  /\ Apart(ToSend, ToParse) /\ Apart(ToRead, ToParse)
(* Every id in hand has been drawn.                                         *)
Known == \A t \in Tokens : t[2] \in 1 .. Len(minted)
Once == SentApart /\ ParsedApart /\ WireApart /\ PlacesApart /\ Known

(* A session whose ping is not yet answered is one its remote offered.      *)
AcceptedOwned ==
  \A n \in Nodes, m \in NodeID :
    session[n][m] # None =>
      (session[n][m].ping_sent # None =>
         Drawn(minted, session[n][m].session_id, m, node_id[n]))

TunnelInv == PairInv /\ Once /\ AcceptedOwned

-----------------------------------------------------------------------------
(* Tokens                                                                   *)

Pairs(S) == \A t \in S : t = <<t[1], t[2]>>

(* A token is a type and an id.                                             *)
LEMMA TokensArePairs == Pairs(Tokens)
<1>1. \A enc : Pairs(TokenOf(enc))
  BY DEF TokenOf, Pairs
<1>2. \A packet : Pairs(TokenIn(packet))
  BY <1>1 DEF TokenIn, Pairs
<1>3. QED
  BY <1>1, <1>2 DEF Tokens, OnTheWay, ToSend, ToRead, ToParse, Pairs

(* The ids of one type.                                                     *)
LEMMA OfTypeMembers ==
  ASSUME NEW S, Pairs(S), NEW type, NEW id
  PROVE  id \in OfType(S, type) <=> <<type, id>> \in S
BY DEF Pairs, OfType

(* An encryption or a packet carries at most one token.                     *)
LEMMA OneToken ==
  /\ \A enc : \A t, u \in TokenOf(enc) : t = u
  /\ \A packet : \A t, u \in TokenIn(packet) : t = u
<1>1. \A enc : \A t, u \in TokenOf(enc) : t = u
  BY DEF TokenOf
<1>2. QED
  BY <1>1 DEF TokenIn

(* Encryptions with the same core carry the same token.                     *)
LEMMA SameCoreSameToken ==
  ASSUME NEW enc, NEW enc2, enc # None, enc2 # None, enc.core = enc2.core
  PROVE  TokenOf(enc) = TokenOf(enc2)
BY DEF TokenOf

(* What a packet wrapped in a session carries it carries unwrapped.         *)
LEMMA UnwrappedToken ==
  ASSUME NEW enc \in Encryption, IsSession(enc)
  PROVE  TokenIn(OuterPacket(enc)) = TokenOf(enc)
<1>1. enc # None
  BY EncryptionFields
<1>2. CASE OuterPacket(enc).type = "Traverse"
  <2>1. OuterPacket(enc).encryption \in Encryption
        /\ OuterPacket(enc).encryption.core = enc.core
    BY <1>2, OuterPacketKeepsCore, PacketFields
  <2>2. TokenOf(OuterPacket(enc).encryption) = TokenOf(enc)
    BY <1>1, <2>1, EncryptionFields, SameCoreSameToken
  <2>3. QED
    BY <1>2, <2>2 DEF TokenIn
<1>3. CASE OuterPacket(enc).type # "Traverse"
  <2>1. enc.core.type = "Session" /\ OuterPacket(enc) = enc.core.packet
    BY <1>3, OuterPacketKeepsCore
  <2>2. QED
    BY <1>1, <1>3, <2>1 DEF TokenIn, TokenOf
<1>4. QED
  BY <1>2, <1>3

(* And a packet sent carries what it did before it was wrapped.             *)
LEMMA WrappedToken ==
  ASSUME NEW packet \in NodePacket, NEW p, p # None, Sent(p, packet)
  PROVE  TokenOf(p.encryption) = TokenIn(packet)
<1>1. p.encryption \in Encryption /\ p.encryption # None
  BY EncryptionFields DEF Sent
<1>2. CASE packet.type = "Traverse"
  <2>1. packet.encryption # None /\ p.encryption.core = packet.encryption.core
    BY <1>2, PacketFields, EncryptionFields DEF Sent
  <2>2. TokenOf(p.encryption) = TokenOf(packet.encryption)
    BY <1>1, <2>1, SameCoreSameToken
  <2>3. QED
    BY <1>2, <2>2 DEF TokenIn
<1>3. CASE packet.type # "Traverse"
  <2>1. p.encryption.core.type = "Session"
        /\ p.encryption.core.packet = packet
    BY <1>3 DEF Sent
  <2>2. QED
    BY <1>1, <1>3, <2>1 DEF TokenIn, TokenOf
<1>4. QED
  BY <1>2, <1>3

-----------------------------------------------------------------------------
(* Tokens sent                                                              *)

(* What a packet, or none, carries.                                         *)
Gained(p) == IF p = None THEN {} ELSE TokenOf(p.encryption)

(* One packet, or none, is sent.                                            *)
LEMMA EmitTokens ==
  ASSUME StackTypeOK, SentApart, NEW p \in Outgoing \cup {None}, Emit(p),
         Apart(ToSend, Gained(p))
  PROVE  SentApart' /\ ToSend' = ToSend \cup Gained(p)
<1>1. CASE p = None
  BY <1>1 DEF Emit, SentApart, ToSend, Gained
<1>2. CASE p # None
  <2>1. outgoing \in Seq(Outgoing) /\ p \in Outgoing
        /\ outgoing' = Append(outgoing, p) /\ Gained(p) = TokenOf(p.encryption)
    BY <1>2 DEF StackTypeOK, Emit, Gained
  <2>2. /\ DOMAIN outgoing' = 1 .. Len(outgoing) + 1 /\ Len(outgoing) \in Nat
        /\ DOMAIN outgoing = 1 .. Len(outgoing)
        /\ \A i \in 1 .. Len(outgoing) : outgoing'[i] = outgoing[i]
        /\ outgoing'[Len(outgoing) + 1] = p
    BY <2>1, AppendProperties, LenProperties
  <2>3. \A i \in DOMAIN outgoing' :
          \/ i \in DOMAIN outgoing /\ outgoing'[i] = outgoing[i]
          \/ i = Len(outgoing) + 1 /\ outgoing'[i] = p
    BY <2>2
  <2>4. /\ \A i \in DOMAIN outgoing :
             i \in DOMAIN outgoing' /\ outgoing'[i] = outgoing[i]
        /\ Len(outgoing) + 1 \in DOMAIN outgoing'
    BY <2>2
  <2>5. ToSend' = ToSend \cup Gained(p)
    BY <2>1, <2>2, <2>3, <2>4 DEF ToSend
  <2>6. \A i \in DOMAIN outgoing :
          /\ Apart(TokenOf(outgoing[i].encryption), Gained(p))
          /\ Apart(Gained(p), TokenOf(outgoing[i].encryption))
    BY DEF ToSend, Apart
  <2>7. SentApart'
    BY <2>1, <2>3, <2>6 DEF SentApart
  <2>8. QED
    BY <2>5, <2>7
<1>3. QED
  BY <1>1, <1>2

(* Packets sent in a loop carry none.                                       *)
LEMMA AddsTokens ==
  ASSUME StackTypeOK, SentApart, NEW X, Adds(X), InTunnels(X)
  PROVE  SentApart' /\ ToSend' = ToSend
<1>1. /\ outgoing \in Seq(Outgoing) /\ X \in Seq(Outgoing)
      /\ outgoing' = outgoing \o X
  BY DEF StackTypeOK, Adds
<1>2. /\ Len(outgoing) \in Nat /\ Len(X) \in Nat
      /\ DOMAIN outgoing = 1 .. Len(outgoing) /\ DOMAIN X = 1 .. Len(X)
      /\ \A i \in 1 .. Len(X) : X[i] \in Outgoing
  BY <1>1, LenProperties
<1>3. /\ DOMAIN outgoing' = 1 .. Len(outgoing) + Len(X)
      /\ \A i \in 1 .. Len(outgoing) + Len(X) :
           outgoing'[i] = IF i <= Len(outgoing) THEN outgoing[i]
                                                ELSE X[i - Len(outgoing)]
  BY <1>1, ConcatProperties, LenProperties
<1>4. ASSUME NEW j \in DOMAIN X
      PROVE  TokenOf(X[j].encryption) = {}
  <2>1. X[j] \in Outgoing
    BY <1>2
  <2>2. CASE X[j].request = None
    BY <2>2 DEF InTunnels, Tunnelled, Later, TokenOf
  <2>3. CASE X[j].encryption = None
    BY <2>3 DEF TokenOf
  <2>4. QED
    BY <2>1, <2>2, <2>3 DEF Outgoing
<1>5. \A i \in DOMAIN outgoing' :
        \/ i \in DOMAIN outgoing /\ outgoing'[i] = outgoing[i]
        \/ TokenOf(outgoing'[i].encryption) = {}
  <2>1. ASSUME NEW i \in DOMAIN outgoing', ~(i <= Len(outgoing))
        PROVE  TokenOf(outgoing'[i].encryption) = {}
    <3>1. /\ i - Len(outgoing) \in DOMAIN X
          /\ outgoing'[i] = X[i - Len(outgoing)]
      BY <1>2, <1>3, <2>1
    <3>2. QED
      BY <1>4, <3>1
  <2>2. ASSUME NEW i \in DOMAIN outgoing', i <= Len(outgoing)
        PROVE  i \in DOMAIN outgoing /\ outgoing'[i] = outgoing[i]
    BY <1>2, <1>3, <2>2
  <2>3. QED
    BY <2>1, <2>2
<1>6. \A i \in DOMAIN outgoing :
        i \in DOMAIN outgoing' /\ outgoing'[i] = outgoing[i]
  BY <1>2, <1>3
<1>7. ToSend' = ToSend
  BY <1>5, <1>6 DEF ToSend
<1>8. SentApart'
  BY <1>5 DEF SentApart, Apart
<1>9. QED
  BY <1>7, <1>8

-----------------------------------------------------------------------------
(* Tokens to parse                                                          *)

(* The packet handled is gone, maybe with all that came with it.            *)
LEMMA EndTokens ==
  ASSUME StackTypeOK, ParsedApart, work # <<>>,
         work' \in {Tail(work), <<>>}
  PROVE  /\ ParsedApart' /\ ToParse' \subseteq ToParse
         /\ TokenIn(Head(work).packet) \subseteq ToParse
         /\ Apart(TokenIn(Head(work).packet), ToParse')
<1>1. work \in Seq(Work) /\ Len(work) \in Nat /\ DOMAIN work = 1 .. Len(work)
  BY LenProperties DEF StackTypeOK, Work
<1>2. /\ 1 \in DOMAIN work /\ Head(work) = work[1]
      /\ DOMAIN Tail(work) = 1 .. Len(work) - 1
      /\ \A i \in 1 .. Len(work) - 1 : Tail(work)[i] = work[i + 1]
  BY <1>1, HeadTailProperties, LenProperties
<1>3. \A i \in DOMAIN work' :
        i + 1 \in DOMAIN work /\ i + 1 # 1 /\ work'[i] = work[i + 1]
  BY <1>1, <1>2
<1>4. TokenIn(Head(work).packet) \subseteq ToParse
  BY <1>2 DEF ToParse
<1>5. ToParse' \subseteq ToParse
  BY <1>3 DEF ToParse
<1>6. Apart(TokenIn(Head(work).packet), ToParse')
  <2>1. \A i \in DOMAIN work' :
          Apart(TokenIn(work[1].packet), TokenIn(work'[i].packet))
    BY <1>2, <1>3 DEF ParsedApart
  <2>2. QED
    BY <1>2, <2>1 DEF Apart, ToParse
<1>7. ParsedApart'
  <2>1. \A i, j \in DOMAIN work' : i # j => i + 1 # j + 1
    BY <1>1, <1>2
  <2>2. QED
    BY <1>3, <2>1 DEF ParsedApart
<1>8. QED
  BY <1>4, <1>5, <1>6, <1>7

(* The packets inside the one handled come in its place.                    *)
Unfolds(Inner) ==
  /\ work' = Inner \o Tail(work)
  /\ \A i \in DOMAIN Inner : TokenIn(Inner[i].packet) = {}
LEMMA InnerTokens ==
  ASSUME StackTypeOK, ParsedApart, work # <<>>, NEW Inner \in Seq(Work),
         Unfolds(Inner)
  PROVE  /\ ParsedApart' /\ Apart(TokenIn(Head(work).packet), ToParse')
         /\ ToParse = ToParse' \cup TokenIn(Head(work).packet)
<1>1. /\ work \in Seq(Work) /\ Tail(work) \in Seq(Work)
      /\ Len(work) \in Nat /\ DOMAIN work = 1 .. Len(work)
      /\ Head(work) = work[1] /\ 1 \in DOMAIN work
      /\ Len(Tail(work)) = Len(work) - 1
      /\ \A i \in 1 .. Len(work) - 1 : Tail(work)[i] = work[i + 1]
  BY HeadTailProperties, LenProperties DEF StackTypeOK, Work
<1> DEFINE k == Len(Inner)
           T == Tail(work)
<1>2. k \in Nat /\ DOMAIN Inner = 1 .. k
  BY LenProperties
<1>3. /\ DOMAIN work' = 1 .. k + (Len(work) - 1)
      /\ \A i \in 1 .. k + (Len(work) - 1) :
           work'[i] = IF i <= k THEN Inner[i] ELSE Tail(work)[i - k]
  <2>1. T \in Seq(Work) /\ Len(T) = Len(work) - 1 /\ work' = Inner \o T
    BY <1>1 DEF Unfolds
  <2> HIDE DEF T
  <2>2. /\ Inner \o T \in Seq(Work) /\ Len(Inner \o T) = k + Len(T)
        /\ \A i \in 1 .. k + Len(T) :
             (Inner \o T)[i] = IF i <= k THEN Inner[i] ELSE T[i - k]
    BY <2>1, ConcatProperties
  <2>3. DOMAIN (Inner \o T) = 1 .. Len(Inner \o T)
    BY <2>2, LenProperties
  <2> HIDE DEF k
  <2>4. QED
    BY <2>1, <2>2, <2>3 DEF T
<1> HIDE DEF k, T
<1>4. \A i \in DOMAIN work' :
        \/ TokenIn(work'[i].packet) = {}
        \/ /\ i - k + 1 \in DOMAIN work /\ i - k + 1 # 1
           /\ work'[i] = work[i - k + 1]
  <2>1. ASSUME NEW i \in DOMAIN work', i <= k
        PROVE  TokenIn(work'[i].packet) = {}
    <3>1. i \in DOMAIN Inner /\ work'[i] = Inner[i]
      BY <1>1, <1>2, <1>3, <2>1
    <3>2. QED
      BY <3>1 DEF Unfolds
  <2>2. ASSUME NEW i \in DOMAIN work', ~(i <= k)
        PROVE  /\ i - k + 1 \in DOMAIN work /\ i - k + 1 # 1
               /\ work'[i] = work[i - k + 1]
    <3>1. i - k \in 1 .. Len(work) - 1 /\ work'[i] = Tail(work)[i - k]
      BY <1>1, <1>2, <1>3, <2>2
    <3>2. QED
      BY <1>1, <3>1
  <2>3. QED
    BY <2>1, <2>2
<1>5. \A i \in DOMAIN work \ {1} :
        i + k - 1 \in DOMAIN work' /\ work'[i + k - 1] = work[i]
  <2>1. ASSUME NEW i \in DOMAIN work \ {1}
        PROVE  i + k - 1 \in DOMAIN work' /\ work'[i + k - 1] = work[i]
    <3>1. i \in 2 .. Len(work) /\ Len(work) \in Nat /\ k \in Nat
      BY <1>1, <1>2
    <3>2. /\ i - 1 \in 1 .. Len(work) - 1 /\ (i - 1) + 1 = i
          /\ (i + k - 1) - k = i - 1 /\ ~(i + k - 1 <= k)
          /\ i + k - 1 \in 1 .. k + (Len(work) - 1)
      BY <3>1
    <3>3. Tail(work)[i - 1] = work[i]
      BY <1>1, <3>2
    <3>4. work'[i + k - 1] = Tail(work)[i - 1]
      BY <1>3, <3>2
    <3>5. QED
      BY <1>3, <3>2, <3>3, <3>4
  <2>2. QED
    BY <2>1
<1>6. ToParse = ToParse' \cup TokenIn(Head(work).packet)
  <2>1. \A i \in DOMAIN work' :
          \/ TokenIn(work'[i].packet) = {}
          \/ \E j \in DOMAIN work : work'[i] = work[j]
    BY <1>4
  <2>2. \A j \in DOMAIN work \ {1} :
          \E i \in DOMAIN work' : work'[i] = work[j]
    BY <1>5
  <2>3. ToParse' \subseteq ToParse
    BY <2>1 DEF ToParse
  <2>4. TokenIn(Head(work).packet) \subseteq ToParse
    BY <1>1 DEF ToParse
  <2>5. ToParse \subseteq ToParse' \cup TokenIn(Head(work).packet)
    BY <1>1, <2>2 DEF ToParse
  <2>6. QED
    BY <2>3, <2>4, <2>5
<1>7. Apart(TokenIn(Head(work).packet), ToParse')
  <2>1. \A i \in DOMAIN work' :
          Apart(TokenIn(work[1].packet), TokenIn(work'[i].packet))
    BY <1>1, <1>4 DEF ParsedApart, Apart
  <2>2. QED
    BY <1>1, <2>1 DEF Apart, ToParse
<1>8. ParsedApart'
  <2>1. ASSUME NEW i \in DOMAIN work', NEW j \in DOMAIN work', i # j
        PROVE  Apart(TokenIn(work'[i].packet), TokenIn(work'[j].packet))
    <3> DEFINE q == i - k + 1
               r == j - k + 1
    <3>1. q # r
      BY <1>1, <1>2, <1>3, <2>1
    <3>2. /\ \/ TokenIn(work'[i].packet) = {}
             \/ q \in DOMAIN work /\ work'[i] = work[q]
          /\ \/ TokenIn(work'[j].packet) = {}
             \/ r \in DOMAIN work /\ work'[j] = work[r]
      BY <1>4, <2>1
    <3> HIDE DEF q, r
    <3>3. CASE TokenIn(work'[i].packet) = {} \/ TokenIn(work'[j].packet) = {}
      BY <3>3 DEF Apart
    <3>4. CASE /\ q \in DOMAIN work /\ work'[i] = work[q]
               /\ r \in DOMAIN work /\ work'[j] = work[r]
      BY <3>1, <3>4 DEF ParsedApart
    <3>5. QED
      BY <3>2, <3>3, <3>4
  <2>2. QED
    BY <2>1 DEF ParsedApart
<1>9. QED
  BY <1>6, <1>7, <1>8

-----------------------------------------------------------------------------
(* Tokens in a node's step                                                  *)

(* What was read is gone, and what is sent in its place has its id.         *)
LEMMA ReadOnce ==
  ASSUME StackTypeOK, Once, UNCHANGED <<Wire, work, minted>>, rx' = None,
         NEW p \in Outgoing \cup {None}, Emit(p),
         \A t \in Gained(p) : \E u \in ToRead : t[2] = u[2]
  PROVE  Once' /\ Tokens' = (Tokens \ ToRead) \cup Gained(p)
<1>1. Apart(ToSend, Gained(p)) /\ Apart(Gained(p), ToParse)
      /\ Apart(OnTheWay, Gained(p))
  BY DEF Once, PlacesApart, Apart
<1>2. SentApart' /\ ToSend' = ToSend \cup Gained(p)
  BY <1>1, EmitTokens DEF Once
<1>3. /\ OnTheWay' = OnTheWay /\ ToRead' = {} /\ ToParse' = ToParse
      /\ WireApart' /\ ParsedApart'
  BY DEF OnTheWay, ToRead, ToParse, WireApart, ParsedApart, Once
<1>4. PlacesApart'
  BY <1>1, <1>2, <1>3 DEF Once, PlacesApart, Apart
<1>5. Tokens' = (Tokens \ ToRead) \cup Gained(p)
  <2>1. \A t \in ToRead : t \notin OnTheWay \cup ToSend \cup ToParse
    BY DEF Once, PlacesApart, Apart
  <2>2. QED
    BY <1>2, <1>3, <2>1 DEF Tokens
<1>6. Known'
  <2>1. \A t \in Gained(p) : t[2] \in 1 .. Len(minted)
    BY DEF Once, Known, Tokens
  <2>2. QED
    BY <1>5, <2>1 DEF Once, Known
<1>7. QED
  BY <1>2, <1>3, <1>4, <1>5, <1>6 DEF Once

(* What was read is to be parsed, if its sender is known.                   *)
LEMMA UnwrapOnce ==
  ASSUME Once, UNCHANGED <<Wire, outgoing, minted>>, rx' = None,
         \/ work' = <<>>
         \/ \E m, packet : /\ work' = <<[from |-> m, packet |-> packet]>>
                           /\ TokenIn(packet) = ToRead
  PROVE  Once' /\ Tokens' \subseteq Tokens
<1>1. /\ OnTheWay' = OnTheWay /\ ToRead' = {} /\ ToSend' = ToSend
      /\ WireApart' /\ SentApart'
  BY DEF OnTheWay, ToRead, ToSend, WireApart, SentApart, Once
<1>2. ParsedApart' /\ ToParse' \subseteq ToRead
  <2>1. CASE work' = <<>>
    BY <2>1 DEF ParsedApart, ToParse
  <2>2. CASE \E m, packet : /\ work' = <<[from |-> m, packet |-> packet]>>
                            /\ TokenIn(packet) = ToRead
    <3>1. PICK m, packet : /\ work' = <<[from |-> m, packet |-> packet]>>
                           /\ TokenIn(packet) = ToRead
      BY <2>2
    <3>2. DOMAIN work' = {1} /\ work'[1].packet = packet
      BY <3>1
    <3>3. QED
      BY <3>1, <3>2 DEF ParsedApart, ToParse
  <2>3. QED
    BY <2>1, <2>2
<1>3. PlacesApart'
  BY <1>1, <1>2 DEF Once, PlacesApart, Apart
<1>4. Tokens' \subseteq Tokens
  BY <1>1, <1>2 DEF Tokens
<1>5. QED
  BY <1>1, <1>2, <1>3, <1>4 DEF Once, Known

(* A packet handled is gone, and its token sent or read, if anything.       *)
LEMMA HandedOnOnce ==
  ASSUME Once, UNCHANGED <<Wire, minted>>, rx = None, NEW H,
         ParsedApart', ToParse' \subseteq ToParse, H \subseteq ToParse,
         Apart(H, ToParse'), SentApart', ToSend' \subseteq ToSend \cup H,
         ToRead' \subseteq H, ToSend' \subseteq ToSend \/ ToRead' = {}
  PROVE  Once' /\ Tokens' \subseteq Tokens
<1>1. OnTheWay' = OnTheWay /\ WireApart'
  BY DEF OnTheWay, WireApart, Once
<1>2. PlacesApart'
  BY <1>1 DEF Once, PlacesApart, Apart
<1>3. Tokens' \subseteq Tokens
  BY <1>1 DEF Tokens
<1>4. QED
  BY <1>1, <1>2, <1>3 DEF Once, Known

(* A handler that ends, whether or not with an error, and sends no token,   *)
LEMMA HandleOnce ==
  ASSUME StackTypeOK, Once, UNCHANGED <<Wire, minted>>, rx = None,
         work # <<>>, NEW ok \in BOOLEAN, End(ok),
         SentApart', ToSend' = ToSend
  PROVE  Once' /\ Tokens' \subseteq Tokens
<1>1. work' \in {Tail(work), <<>>} /\ rx' = None
  BY DEF End
<1>2. ToRead' = {}
  BY <1>1 DEF ToRead
<1>3. QED
  BY <1>1, <1>2, EndTokens, HandedOnOnce DEF Once

(* or the one of the packet it handles.                                     *)
LEMMA PassOnOnce ==
  ASSUME StackTypeOK, Once, UNCHANGED <<Wire, minted>>, rx = None,
         work # <<>>, NEW ok \in BOOLEAN, End(ok),
         NEW p \in Outgoing \cup {None}, Emit(p),
         Gained(p) \subseteq TokenIn(Head(work).packet)
  PROVE  Once' /\ Tokens' \subseteq Tokens
<1> DEFINE H == TokenIn(Head(work).packet)
<1>1. work' \in {Tail(work), <<>>} /\ rx' = None
  BY DEF End
<1>2. ToRead' = {}
  BY <1>1 DEF ToRead
<1>3. /\ ParsedApart' /\ ToParse' \subseteq ToParse /\ H \subseteq ToParse
      /\ Apart(H, ToParse')
  BY <1>1, EndTokens DEF Once
<1>4. Apart(ToSend, Gained(p))
  BY <1>3 DEF Once, PlacesApart, Apart
<1>5. SentApart' /\ ToSend' = ToSend \cup Gained(p)
  BY <1>4, EmitTokens DEF Once
<1> HIDE DEF H
<1>6. Gained(p) \subseteq H
  BY DEF H
<1>7. QED
  BY <1>2, <1>3, <1>5, <1>6, HandedOnOnce

(* An action sends no token, or a new one.                                  *)
LEMMA RunOnce ==
  ASSUME StackTypeOK, Once, UNCHANGED <<Wire, rx, work, minted>>, SentApart',
         ToSend' = ToSend
  PROVE  Once' /\ Tokens' \subseteq Tokens
<1>1. /\ OnTheWay' = OnTheWay /\ ToRead' = ToRead /\ ToParse' = ToParse
      /\ WireApart' /\ ParsedApart'
  BY DEF OnTheWay, ToRead, ToParse, WireApart, ParsedApart, Once
<1>2. PlacesApart' /\ Tokens' = Tokens
  BY <1>1 DEF Once, PlacesApart, Tokens
<1>3. QED
  BY <1>1, <1>2 DEF Once, Known

(* Node::connect draws a new id.                                            *)
LEMMA DrawOnce ==
  ASSUME StackTypeOK, Once, UNCHANGED <<Wire, rx, work>>,
         NEW a \in NodeID, NEW b \in NodeID,
         minted' = Append(minted, <<a, b>>),
         NEW p \in Outgoing \cup {None}, Emit(p),
         Gained(p) \subseteq {<<"Handshake", Len(minted) + 1>>}
  PROVE  Once' /\ Tokens' = Tokens \cup Gained(p)
<1>1. Len(minted) \in Nat /\ Len(minted') = Len(minted) + 1
  BY AppendProperties, LenProperties DEF StackTypeOK
<1>2. \A t \in Tokens, u \in Gained(p) : t[2] # u[2]
  BY <1>1 DEF Once, Known
<1>3. /\ Apart(ToSend, Gained(p)) /\ Apart(Gained(p), ToParse)
      /\ Apart(OnTheWay, Gained(p)) /\ Apart(Gained(p), ToRead)
  BY <1>2 DEF Tokens, Apart
<1>4. SentApart' /\ ToSend' = ToSend \cup Gained(p)
  BY <1>3, EmitTokens DEF Once
<1>5. /\ OnTheWay' = OnTheWay /\ ToRead' = ToRead /\ ToParse' = ToParse
      /\ WireApart' /\ ParsedApart'
  BY DEF OnTheWay, ToRead, ToParse, WireApart, ParsedApart, Once
<1>6. PlacesApart'
  BY <1>3, <1>4, <1>5 DEF Once, PlacesApart, Apart
<1>7. Tokens' = Tokens \cup Gained(p)
  BY <1>4, <1>5 DEF Tokens
<1>8. Known'
  <2>1. \A t \in Gained(p) : t[2] = Len(minted) + 1
    OBVIOUS
  <2>2. QED
    BY <1>1, <1>7, <2>1 DEF Once, Known
<1>9. QED
  BY <1>4, <1>5, <1>6, <1>7, <1>8 DEF Once

-----------------------------------------------------------------------------
(* Steps that hand on no token                                              *)

(* Sessions that stay, or change in place, are the same tunnels.            *)
SameSessions ==
  \A a \in NetAddr, m \in NodeID :
    \/ session'[a][m] = session[a][m]
    \/ /\ session'[a][m] # None /\ session[a][m] # None
       /\ session'[a][m].session_id = session[a][m].session_id
       /\ session'[a][m].ping_sent = session[a][m].ping_sent

(* Such a step keeps the tunnels.                                           *)
LEMMA SameTunnels ==
  ASSUME SameSessions, UNCHANGED node_id
  PROVE  Tunnels' = Tunnels
<1>1. \A a \in NetAddr, m \in NodeID :
        TunnelOf(session'[a][m]) = TunnelOf(session[a][m])
  BY DEF SameSessions, TunnelOf
<1>2. Nodes' = Nodes
  BY DEF Nodes
<1>3. QED
  BY <1>1, <1>2 DEF Tunnels

(* And so is an accepted session's.                                         *)
LEMMA SameOwners ==
  ASSUME AcceptedOwned, Grows, SameSessions, UNCHANGED node_id
  PROVE  AcceptedOwned'
<1>1. Nodes' = Nodes /\ Nodes \subseteq NetAddr
  BY DEF Nodes
<1>2. QED
  BY <1>1 DEF AcceptedOwned, SameSessions, Grows

(* At most, tokens are lost.                                                *)
LEMMA LosesTokens ==
  ASSUME Tokens' \subseteq Tokens, UNCHANGED <<node_id, minted, Tunnels>>
  PROVE  Tun!Lose
BY DEF Tun!Lose, Tun!MaybeLost, InHand, OfType

(* So what is left to show of such a step:                                  *)
LEMMA LosingStep ==
  ASSUME AcceptedOwned, SameSessions, UNCHANGED <<node_id, minted>>,
         Once', Tokens' \subseteq Tokens
  PROVE  Once' /\ AcceptedOwned' /\ Tun!Lose
BY NothingDrawn, SameTunnels, SameOwners, LosesTokens

-----------------------------------------------------------------------------
(* Steps of a handshake                                                     *)

(* A token goes, and maybe the next one of its id comes.                    *)
Exchanged(kind, next, id, G) ==
  /\ kind # next /\ <<kind, id>> \in Tokens /\ G \subseteq {<<next, id>>}
  /\ Tokens' = (Tokens \ {<<kind, id>>}) \cup G
LEMMA Exchange ==
  ASSUME NEW kind, NEW next, NEW id, NEW G, Exchanged(kind, next, id, G)
  PROVE  /\ id \in InHand(kind)
         /\ InHand(kind)' = InHand(kind) \ {id}
         /\ InHand(next)' \in Tun!Passed(InHand(next), id)
         /\ G # {} => InHand(next)' = InHand(next) \cup {id}
         /\ G = {} => InHand(next)' = InHand(next)
         /\ \A k : k \notin {kind, next} => InHand(k)' = InHand(k)
<1> USE DEF Exchanged
<1>1. Pairs(Tokens) /\ Pairs(Tokens')
  BY TokensArePairs DEF Pairs
<1>2. \A k, x : /\ x \in OfType(Tokens, k) <=> <<k, x>> \in Tokens
                /\ x \in OfType(Tokens', k) <=> <<k, x>> \in Tokens'
  BY <1>1, OfTypeMembers
<1>3. \A k, x :
        <<k, x>> \in Tokens' <=>
          \/ <<k, x>> \in Tokens /\ ~(k = kind /\ x = id)
          \/ G # {} /\ k = next /\ x = id
  <2>1. G = {} \/ G = {<<next, id>>}
    OBVIOUS
  <2>2. QED
    BY <2>1
<1>4. \A k, x :
        x \in OfType(Tokens', k) <=>
          \/ x \in OfType(Tokens, k) /\ ~(k = kind /\ x = id)
          \/ G # {} /\ k = next /\ x = id
  BY <1>2, <1>3
<1>5. OfType(Tokens', kind) = OfType(Tokens, kind) \ {id}
  <2>1. \A x : x \in OfType(Tokens', kind) <=> x \in OfType(Tokens, kind) \ {id}
    BY <1>4
  <2>2. QED
    BY <2>1
<1>6. \A k : k \notin {kind, next} => OfType(Tokens', k) = OfType(Tokens, k)
  <2>1. ASSUME NEW k, k \notin {kind, next}
        PROVE  OfType(Tokens', k) = OfType(Tokens, k)
    <3>1. \A x : x \in OfType(Tokens', k) <=> x \in OfType(Tokens, k)
      BY <1>4, <2>1
    <3>2. QED
      BY <3>1
  <2>2. QED
    BY <2>1
<1>7. /\ G # {} => OfType(Tokens', next) = OfType(Tokens, next) \cup {id}
      /\ G = {} => OfType(Tokens', next) = OfType(Tokens, next)
  <2>1. \A x : x \in OfType(Tokens', next) <=>
                 x \in OfType(Tokens, next) \/ (G # {} /\ x = id)
    BY <1>4
  <2>2. QED
    BY <2>1
<1>8. id \in OfType(Tokens, kind)
  BY <1>2
<1>9. QED
  BY <1>5, <1>6, <1>7, <1>8 DEF Tun!Passed, InHand

(* A new offer's id, or none, is added.                                     *)
LEMMA Added ==
  ASSUME NEW id, NEW G, G \subseteq {<<"Handshake", id>>},
         Tokens' = Tokens \cup G
  PROVE  /\ InHand("Handshake")' \in Tun!Passed(InHand("Handshake"), id)
         /\ InHand("Acknowledge")' = InHand("Acknowledge")
         /\ InHand("ConnectionInit")' = InHand("ConnectionInit")
<1>1. Pairs(Tokens) /\ Pairs(Tokens')
  BY TokensArePairs DEF Pairs
<1>2. \A k, x : /\ x \in OfType(Tokens, k) <=> <<k, x>> \in Tokens
                /\ x \in OfType(Tokens', k) <=> <<k, x>> \in Tokens'
  BY <1>1, OfTypeMembers
<1>3. G = {} \/ G = {<<"Handshake", id>>}
  OBVIOUS
<1>4. \A k, x :
        x \in OfType(Tokens', k) <=>
          x \in OfType(Tokens, k) \/ (G # {} /\ k = "Handshake" /\ x = id)
  BY <1>2, <1>3
<1>5. \A k : k # "Handshake" => OfType(Tokens', k) = OfType(Tokens, k)
  <2>1. ASSUME NEW k, k # "Handshake"
        PROVE  OfType(Tokens', k) = OfType(Tokens, k)
    <3>1. \A x : x \in OfType(Tokens', k) <=> x \in OfType(Tokens, k)
      BY <1>4, <2>1
    <3>2. QED
      BY <3>1
  <2>2. QED
    BY <2>1
<1>6. OfType(Tokens', "Handshake") = OfType(Tokens, "Handshake")
      \/ OfType(Tokens', "Handshake") = OfType(Tokens, "Handshake") \cup {id}
  <2>1. \A x : x \in OfType(Tokens', "Handshake") <=>
                 x \in OfType(Tokens, "Handshake") \/ (G # {} /\ x = id)
    BY <1>4
  <2>2. QED
    BY <2>1
<1>7. QED
  BY <1>5, <1>6 DEF Tun!Passed, InHand

(* One entry of a table of tables is set.                                   *)
LEMMA SetEntry ==
  ASSUME NEW A, NEW B, NEW f, f = [a \in A |-> [k \in B |-> f[a][k]]],
         NEW n \in A, NEW m \in B, NEW v
  PROVE  [f EXCEPT ![n][m] = v] =
           [a \in A |-> [k \in B |-> IF a = n /\ k = m THEN v ELSE f[a][k]]]
<1> DEFINE F(a) == [k \in B |-> f[a][k]]
           G(a) == [k \in B |-> IF a = n /\ k = m THEN v ELSE f[a][k]]
<1>1. [f EXCEPT ![n][m] = v] = [f EXCEPT ![n] = [f[n] EXCEPT ![m] = v]]
  OBVIOUS
<1>2. DOMAIN f = A /\ \A a \in A : f[a] = F(a)
  <2> HIDE DEF F
  <2>1. f = [a \in A |-> F(a)]
    BY DEF F
  <2>2. QED
    BY <2>1
<1>3. [f[n] EXCEPT ![m] = v] = G(n)
  BY <1>2
<1>4. \A a \in A \ {n} : f[a] = G(a)
  BY <1>2
<1> HIDE DEF F, G
<1>5. [f EXCEPT ![n] = G(n)] = [a \in A |-> G(a)]
  BY <1>2, <1>4
<1>6. QED
  BY <1>1, <1>3, <1>5 DEF G

(* A session is set.                                                        *)
LEMMA SetsTunnel ==
  ASSUME NodeTypeOK, UNCHANGED node_id, NEW n \in Nodes, NEW m \in NodeID,
         NEW s, s # None, NEW open, open = (s.ping_sent = None),
         session' = [session EXCEPT ![n][m] = s]
  PROVE  Tun!Set(n, m, s.session_id, open)
<1>1. Nodes' = Nodes /\ Nodes \subseteq NetAddr
  BY DEF Nodes
<1>2. TunnelOf(s) = [id |-> s.session_id, open |-> open]
  BY DEF TunnelOf
<1>3. \A a \in NetAddr, k \in NodeID :
        session'[a][k] = IF a = n /\ k = m THEN s ELSE session[a][k]
  BY <1>1 DEF NodeTypeOK
<1>4. \A a \in NetAddr, k \in NodeID :
        Tunnels'[a][k] = IF a = n /\ k = m THEN TunnelOf(s)
                                           ELSE Tunnels[a][k]
  BY <1>1, <1>3 DEF Tunnels
<1> DEFINE N == [Tunnels EXCEPT ![n][m] = TunnelOf(s)]
<1>5. /\ Tunnels = [a \in NetAddr |-> [k \in NodeID |-> Tunnels[a][k]]]
      /\ Tunnels' = [a \in NetAddr |-> [k \in NodeID |-> Tunnels'[a][k]]]
  BY DEF Tunnels
<1>6. N = [a \in NetAddr |-> [k \in NodeID |->
             IF a = n /\ k = m THEN TunnelOf(s) ELSE Tunnels[a][k]]]
  <2> DEFINE v == TunnelOf(s)
  <2>1. n \in NetAddr
    BY <1>1
  <2> HIDE DEF v
  <2>2. [Tunnels EXCEPT ![n][m] = v] =
          [a \in NetAddr |-> [k \in NodeID |->
             IF a = n /\ k = m THEN v ELSE Tunnels[a][k]]]
    BY <1>5, <2>1, SetEntry
  <2>3. QED
    BY <2>2 DEF v
<1>7. Tunnels' = N
  <2> HIDE DEF N
  <2>1. QED
    BY <1>4, <1>5, <1>6
<1>8. QED
  BY <1>2, <1>7 DEF Tun!Set

(* It has its owner if it is not yet established.                           *)
LEMMA SetsOwner ==
  ASSUME NodeTypeOK, AcceptedOwned, UNCHANGED <<node_id, minted>>,
         NEW n \in NetAddr, NEW m \in NodeID, NEW s,
         s.ping_sent # None => Drawn(minted, s.session_id, m, node_id[n]),
         session' = [session EXCEPT ![n][m] = s]
  PROVE  AcceptedOwned'
<1>1. Nodes' = Nodes /\ Nodes \subseteq NetAddr
  BY DEF Nodes
<1>2. \A a \in NetAddr, k \in NodeID :
        session'[a][k] = IF a = n /\ k = m THEN s ELSE session[a][k]
  BY DEF NodeTypeOK
<1>3. QED
  BY <1>1, <1>2 DEF AcceptedOwned

-----------------------------------------------------------------------------
(* Parsing                                                                  *)

(* What a step may do to a tunnel.                                          *)
Shakes(n) ==
  Tun!Offer(n) \/ Tun!Accept(n) \/ Tun!Confirm(n) \/ Tun!Establish(n)
    \/ Tun!Lose

(* A handshake for this node is accepted if it can be acknowledged.         *)
LEMMA ParseHandshakeShakes ==
  ASSUME NEW n \in NetAddr, TypeInv(n), node_id[n] \in NodeID, NodeInv,
         Once, AcceptedOwned, UNCHANGED Wire, ParseHandshake(n)
  PROVE  Once' /\ AcceptedOwned' /\ Shakes(n)
<1> USE DEF TypeInv
<1> DEFINE c == rx.encryption.core
           id == c.session_id
           m == c.signer
           s == NewSession(id, rx.via, ticks[n])
           ack == Acknowledge(id, node_id[n])
<1>1. /\ rx # None /\ rx.request = None
      /\ c.type = "Handshake" /\ rx.encryption \in Encryption
      /\ id \in SessionID /\ m \in NodeID /\ rx.via \in SessionType
  BY ParsingFields, CoreFields DEF ParseHandshake, Parsing
<1>2. /\ UNCHANGED <<node_id, work, minted>> /\ rx' = None
      /\ n \in Nodes
  BY NoneIsNoValue, NodeIDAssumption DEF ParseHandshake, Parsed, Nodes
<1>3. ToRead = {<<"Handshake", id>>}
  BY <1>1, EncryptionFields DEF ToRead, TokenOf
<1>4. CASE UNCHANGED <<session, outgoing>>
  <2>1. Emit(None) /\ Gained(None) = {}
    BY <1>4 DEF Emit, Gained
  <2>2. Once' /\ Tokens' \subseteq Tokens
    BY <1>2, <2>1, ReadOnce
  <2>3. QED
    BY <1>2, <1>4, <2>2, LosingStep DEF SameSessions, Shakes
<1>5. CASE IsRecipient(n, c)
  <2>1. Drawn(minted, id, m, node_id[n])
    BY <1>1, <1>5, EncryptionFields
       DEF NodeInv, GenuineStack, GenuineRead, Genuine, IsRecipient
  <2>2. /\ s \in Session /\ s.session_id = id
        /\ s.ping_sent \in Nat /\ s.ping_sent # None /\ s # None
    BY <1>1, NewSessionIsSession, NoneIsNoValue DEF NodeTypeOK, NewSession
  <2>3. ack \in Encryption /\ TokenOf(ack) = {<<"Acknowledge", id>>}
    BY <1>1, EncryptionConstructors, EncryptionFields
       DEF TokenOf, Acknowledge, Bare
  <2>4. PICK p \in GenPacket(Self(n), s, ack) :
          /\ Emit(p)
          /\ IF p = None
               THEN UNCHANGED <<session, sessions>>
               ELSE /\ session' = [session EXCEPT ![n][m] = s]
                    /\ InsertSession(n, m, id)
    BY <1>5 DEF ParseHandshake
  <2> HIDE DEF c, id, s, m, ack
  <2>5. Carries(p, ack.core)
    BY <2>2, <2>3, <2>4, SelfTypes, GenPacketKeepsCore
  <2>6. CASE p = None
    BY <1>4, <2>4, <2>6 DEF Emit
  <2>7. CASE p # None
    <3>1. /\ p \in Outgoing /\ Gained(p) = {<<"Acknowledge", id>>}
          /\ session' = [session EXCEPT ![n][m] = s]
      BY <2>3, <2>4, <2>5, <2>7, EncryptionFields, SameCoreSameToken
         DEF Carries, Gained
    <3>2. /\ Once'
          /\ Tokens' = (Tokens \ {<<"Handshake", id>>})
                         \cup {<<"Acknowledge", id>>}
      BY <1>2, <1>3, <2>4, <3>1, ReadOnce
    <3>3. <<"Handshake", id>> \in Tokens
      BY <1>3 DEF Tokens
    <3>4. /\ id \in InHand("Handshake")
          /\ InHand("Handshake")' = InHand("Handshake") \ {id}
          /\ InHand("Acknowledge")' = InHand("Acknowledge") \cup {id}
          /\ InHand("ConnectionInit")' = InHand("ConnectionInit")
      <4> DEFINE G == {<<"Acknowledge", id>>}
      <4>1. Exchanged("Handshake", "Acknowledge", id, G) /\ G # {}
        BY <3>2, <3>3 DEF Exchanged
      <4>2. "ConnectionInit" \notin {"Handshake", "Acknowledge"}
        OBVIOUS
      <4> HIDE DEF G
      <4>3. QED
        BY <4>1, <4>2, Exchange
    <3>5. AcceptedOwned'
      BY <1>1, <1>2, <2>1, <2>2, <3>1, SetsOwner DEF m
    <3>6. Tun!Set(n, m, id, FALSE)
      BY <1>1, <1>2, <2>2, <3>1, SetsTunnel DEF m
    <3>7. minted[id][2] = node_id[n] /\ minted[id][1] = m
      BY <2>1 DEF Drawn
    <3>8. Tun!Accept(n)
      BY <1>2, <3>4, <3>6, <3>7 DEF Tun!Accept
    <3>9. QED
      BY <3>2, <3>5, <3>8 DEF Shakes
  <2>8. QED
    BY <2>6, <2>7
<1>6. QED
  BY <1>4, <1>5 DEF ParseHandshake

(* An acknowledgement that is waited for is confirmed, if possible.         *)
LEMMA ParseAcknowledgeShakes ==
  ASSUME NEW n \in NetAddr, TypeInv(n), node_id[n] \in NodeID, NodeInv,
         Once, AcceptedOwned, UNCHANGED Wire, ParseAcknowledge(n)
  PROVE  Once' /\ AcceptedOwned' /\ Shakes(n)
<1> USE DEF TypeInv
<1> DEFINE c == rx.encryption.core
           id == c.session_id
           m == c.acknowledger
           p == pending_session[n][m]
           new == NewSession(id, p.session_type, None)
           s == [session[n] EXCEPT ![m] = new]
           first == ConnectionInit(id, UpdateConnectionPackets(n, p.packets))
<1>1. /\ rx # None /\ rx.request = None
      /\ c.type = "Acknowledge" /\ rx.encryption \in Encryption
      /\ id \in SessionID /\ m \in NodeID
  BY ParsingFields, CoreFields DEF ParseAcknowledge, Parsing
<1>2. /\ UNCHANGED <<node_id, work, minted>> /\ rx' = None
      /\ n \in Nodes
  BY NoneIsNoValue, NodeIDAssumption DEF ParseAcknowledge, Parsed, Nodes
<1>3. ToRead = {<<"Acknowledge", id>>}
  BY <1>1, EncryptionFields DEF ToRead, TokenOf
<1>4. CASE UNCHANGED <<session, outgoing>>
  <2>1. Emit(None) /\ Gained(None) = {}
    BY <1>4 DEF Emit, Gained
  <2>2. Once' /\ Tokens' \subseteq Tokens
    BY <1>2, <2>1, ReadOnce
  <2>3. QED
    BY <1>2, <1>4, <2>2, LosingStep DEF SameSessions, Shakes
<1>5. CASE /\ IF p = None THEN FALSE ELSE p.session_id = id
           /\ session' = [session EXCEPT ![n] = s]
           /\ \E init \in SendPacket([Self(n) EXCEPT !.session = s], m, first) :
                Emit(init)
  <2>1. p \in PendingSession /\ p # None /\ p.session_id = id
    BY <1>1, <1>5 DEF NodeTypeOK
  <2>2. /\ new \in Session /\ new.session_id = id /\ new.ping_sent = None
        /\ new # None /\ s \in [NodeID -> Session \cup {None}]
        /\ session' = [session EXCEPT ![n][m] = new]
    BY <1>1, <1>5, <2>1, NewSessionIsSession, NoneIsNoValue
       DEF PendingSession, NodeTypeOK, NewSession
  <2>3. first \in NodePacket /\ first.type # "Traverse"
    BY <1>1, <2>1, FirstPacketTypes
  <2>4. TokenIn(first) = {<<"ConnectionInit", id>>}
    BY DEF TokenIn, ConnectionInit
  <2>5. [Self(n) EXCEPT !.session = s] \in SelfType
    BY <2>2, SelfTypes DEF SelfType
  <2>6. PICK init \in SendPacket([Self(n) EXCEPT !.session = s], m, first) :
          Emit(init)
    BY <1>5
  <2>7. Drawn(minted, id, node_id[n], m)
    BY <1>1, <1>2, <2>1 DEF NodeInv, Owned, PendingOwned
  <2> HIDE DEF c, id, m, p, new, s, first
  <2>8. Sent(init, first)
    BY <1>1, <2>3, <2>5, <2>6, SendPacketKeepsCore
  <2>9. /\ init \in Outgoing \cup {None}
        /\ Gained(init) \subseteq {<<"ConnectionInit", id>>}
    BY <2>3, <2>4, <2>8, WrappedToken DEF Sent, Gained
  <2>10. /\ Once'
         /\ Tokens' = (Tokens \ {<<"Acknowledge", id>>}) \cup Gained(init)
    <3>1. \A t \in Gained(init) : \E u \in ToRead : t[2] = u[2]
      BY <1>3, <2>9
    <3>2. QED
      BY <1>2, <1>3, <2>6, <2>9, <3>1, ReadOnce
  <2>11. <<"Acknowledge", id>> \in Tokens
    BY <1>3 DEF Tokens
  <2>12. /\ id \in InHand("Acknowledge")
         /\ InHand("Acknowledge")' = InHand("Acknowledge") \ {id}
         /\ InHand("ConnectionInit")'
              \in Tun!Passed(InHand("ConnectionInit"), id)
         /\ InHand("Handshake")' = InHand("Handshake")
    <3>1. Exchanged("Acknowledge", "ConnectionInit", id, Gained(init))
      BY <2>9, <2>10, <2>11 DEF Exchanged
    <3>2. "Handshake" \notin {"Acknowledge", "ConnectionInit"}
      OBVIOUS
    <3>3. QED
      BY <3>1, <3>2, Exchange
  <2>13. AcceptedOwned'
    BY <1>1, <1>2, <2>2, SetsOwner DEF m
  <2>14. Tun!Set(n, m, id, TRUE)
    BY <1>1, <1>2, <2>2, SetsTunnel DEF m
  <2>15. minted[id][1] = node_id[n] /\ minted[id][2] = m
    BY <2>7 DEF Drawn
  <2>16. Tun!Confirm(n)
    BY <1>2, <2>12, <2>14, <2>15 DEF Tun!Confirm
  <2>17. QED
    BY <2>10, <2>13, <2>16 DEF Shakes
<1>6. QED
  BY <1>4, <1>5 DEF ParseAcknowledge

(* The other packets received.                                              *)
LEMMA ParseShakes ==
  ASSUME NEW n \in NetAddr, TypeInv(n), node_id[n] \in NodeID, NodeInv,
         Once, AcceptedOwned, UNCHANGED Wire, Parse(n)
  PROVE  Once' /\ AcceptedOwned' /\ Shakes(n)
<1> USE DEF TypeInv
<1>1. CASE ParseResponse(n) \/ ParseNotify(n)
  <2>1. /\ UNCHANGED <<session, outgoing, work, minted, node_id>>
        /\ rx' = None
    BY <1>1 DEF ParseResponse, ParseNotify
  <2>2. Emit(None) /\ Gained(None) = {}
    BY <2>1 DEF Emit, Gained
  <2>3. Once' /\ Tokens' \subseteq Tokens
    BY <2>1, <2>2, ReadOnce
  <2>4. QED
    BY <2>1, <2>3, LosingStep DEF SameSessions, Shakes
<1>2. CASE ParseSession(n)
  <2> DEFINE enc == rx.encryption
             packet == OuterPacket(enc)
  <2>1. enc \in Encryption /\ IsSession(enc) /\ rx # None
    BY <1>2, ParsingFields DEF ParseSession
  <2>2. UNCHANGED <<session, outgoing, minted, node_id>> /\ rx' = None
    BY <1>2 DEF ParseSession
  <2>3. \/ work' = <<>>
        \/ \E m \in NodeID : work' = <<[from |-> m, packet |-> packet]>>
    BY <1>2 DEF ParseSession
  <2>4. TokenIn(packet) = ToRead
    BY <2>1, UnwrappedToken DEF ToRead
  <2> HIDE DEF enc, packet
  <2>5. Once' /\ Tokens' \subseteq Tokens
    BY <2>2, <2>3, <2>4, UnwrapOnce
  <2>6. QED
    BY <2>2, <2>5, LosingStep DEF SameSessions, Shakes
<1>3. QED
  BY <1>1, <1>2, ParseHandshakeShakes, ParseAcknowledgeShakes DEF Parse

-----------------------------------------------------------------------------
(* Handling                                                                 *)

(* What comes inside a ConnectionInit is no Traverse.                       *)
LEMMA InnerCarryNothing ==
  ASSUME NEW m \in NodeID, NEW packets \in Seq(InitialPacket)
  PROVE  [i \in DOMAIN packets |-> [from |-> m, packet |-> packets[i]]]
           \in {S \in Seq(Work) :
                  \A i \in DOMAIN S : TokenIn(S[i].packet) = {}}
<1> DEFINE Inner == [i \in DOMAIN packets |->
                       [from |-> m, packet |-> packets[i]]]
<1>1. DOMAIN packets = 1 .. Len(packets) /\ Len(packets) \in Nat
      /\ \A i \in 1 .. Len(packets) : packets[i] \in InitialPacket
  BY LenProperties
<1>2. \A i \in 1 .. Len(packets) :
        Inner[i] \in Work /\ TokenIn(Inner[i].packet) = {}
  <2>1. ASSUME NEW i \in 1 .. Len(packets)
        PROVE  Inner[i] \in Work /\ TokenIn(Inner[i].packet) = {}
    <3>1. packets[i] \in InitialPacket
      BY <1>1
    <3>2. /\ packets[i].type \notin {"Traverse", "ConnectionInit"}
          /\ packets[i] \in NodePacket
      BY <3>1, InitialPacketIsPacket DEF InitialPacket, AcceptWantPing
    <3>3. Inner[i] = [from |-> m, packet |-> packets[i]]
      BY <1>1
    <3>4. QED
      BY <3>2, <3>3 DEF Work, TokenIn
  <2>2. QED
    BY <2>1
<1>3. Inner \in [1 .. Len(packets) -> Work] /\ DOMAIN Inner = 1 .. Len(packets)
  BY <1>1, <1>2
<1> HIDE DEF Inner
<1>4. Inner \in Seq(Work)
  BY <1>1, <1>3
<1>5. Inner \in {S \in Seq(Work) :
                   \A i \in DOMAIN S : TokenIn(S[i].packet) = {}}
  BY <1>2, <1>3, <1>4
<1>6. QED
  BY <1>5 DEF Inner

(* A packet handled is gone, its token with it.                             *)
LEMMA TakenOnce ==
  ASSUME StackTypeOK, Once, UNCHANGED <<Wire, outgoing, minted, rx>>,
         rx = None, work # <<>>, NEW Inner \in Seq(Work), Unfolds(Inner)
  PROVE  Once' /\ Tokens' = Tokens \ TokenIn(Head(work).packet)
<1> DEFINE H == TokenIn(Head(work).packet)
<1>1. /\ ParsedApart' /\ Apart(H, ToParse') /\ ToParse = ToParse' \cup H
  BY InnerTokens DEF Once
<1>2. /\ OnTheWay' = OnTheWay /\ ToRead' = {} /\ ToSend' = ToSend
      /\ WireApart' /\ SentApart' /\ ToRead = {}
  BY DEF OnTheWay, ToRead, ToSend, WireApart, SentApart, Once
<1> HIDE DEF H
<1>3. PlacesApart'
  BY <1>1, <1>2 DEF Once, PlacesApart, Apart
<1>4. Tokens' = Tokens \ H
  <2>1. \A t \in H : t \notin OnTheWay \cup ToSend \cup ToParse'
    BY <1>1 DEF Once, PlacesApart, Apart
  <2>2. QED
    BY <1>1, <1>2, <2>1 DEF Tokens
<1>5. Known'
  BY <1>4 DEF Once, Known
<1>6. QED
  BY <1>1, <1>2, <1>3, <1>4, <1>5 DEF Once, H

(* A ping acknowledged is one this session was accepted with.               *)
LEMMA HandleConnectionInitShakes ==
  ASSUME NEW n \in NetAddr, TypeInv(n), node_id[n] \in NodeID,
         Once, AcceptedOwned, UNCHANGED Wire, HandleConnectionInit(n)
  PROVE  Once' /\ AcceptedOwned' /\ Shakes(n)
<1> USE DEF TypeInv
<1> DEFINE m == Head(work).from
           p == Head(work).packet
           s == session[n][m]
           id == s.session_id
           Inner == [i \in DOMAIN p.packets |->
                       [from |-> m, packet |-> p.packets[i]]]
<1>1. /\ rx = None /\ work # <<>> /\ m \in NodeID /\ p \in NodePacket
      /\ p.type = "ConnectionInit" /\ s \in Session /\ s # None
  BY HandlingHead DEF HandleConnectionInit
<1>2. UNCHANGED <<node_id, outgoing, minted>> /\ n \in Nodes
  BY NoneIsNoValue, NodeIDAssumption DEF HandleConnectionInit, Nodes
<1>3. CASE s.ping_sent # None /\ s.session_id = p.ping
  <2> DEFINE t == [s EXCEPT !.ping_sent = None]
  <2>1. session' = [session EXCEPT ![n][m] = t]
        /\ work' = Inner \o Tail(work) /\ UNCHANGED rx
    BY <1>3 DEF HandleConnectionInit
  <2>2. t.session_id = id /\ t.ping_sent = None /\ t # None
    <3>1. t \in Session
      BY <1>1 DEF Session
    <3>2. QED
      BY <1>1, <3>1, NoneIsNoValue DEF Session
  <2>3. /\ Inner \in Seq(Work)
        /\ \A i \in DOMAIN Inner : TokenIn(Inner[i].packet) = {}
    <3>1. p.packets \in Seq(InitialPacket)
      BY <1>1, PacketFields
    <3>2. QED
      BY <1>1, <3>1, InnerCarryNothing
  <2>4. TokenIn(p) = {<<"ConnectionInit", id>>}
    BY <1>1, <1>3 DEF TokenIn
  <2>5. Drawn(minted, id, m, node_id[n])
    BY <1>1, <1>2, <1>3 DEF AcceptedOwned
  <2>6. Tunnels[n][m] = [id |-> id, open |-> FALSE]
    BY <1>1, <1>2, <1>3 DEF Tunnels, TunnelOf, Nodes
  <2>7. <<"ConnectionInit", id>> \in Tokens
    <3>1. TokenIn(p) \subseteq ToParse
      BY <1>1, HeadTailProperties, LenProperties DEF StackTypeOK, ToParse
    <3>2. QED
      BY <2>4, <3>1 DEF Tokens
  <2> HIDE DEF Inner, t
  <2>8. Unfolds(Inner)
    BY <2>1, <2>3 DEF Unfolds
  <2>9. Once' /\ Tokens' = Tokens \ TokenIn(p)
    BY <1>1, <1>2, <2>1, <2>3, <2>8, TakenOnce
  <2> HIDE DEF p, id, m
  <2>10. /\ id \in InHand("ConnectionInit")
         /\ InHand("ConnectionInit")' = InHand("ConnectionInit") \ {id}
         /\ InHand("Handshake")' = InHand("Handshake")
         /\ InHand("Acknowledge")' = InHand("Acknowledge")
    <3> DEFINE G == {}
    <3>1. Exchanged("ConnectionInit", "Handshake", id, G) /\ G = {}
      BY <2>4, <2>7, <2>9 DEF Exchanged
    <3>2. "Acknowledge" \notin {"ConnectionInit", "Handshake"}
      OBVIOUS
    <3> HIDE DEF G
    <3>3. QED
      BY <3>1, <3>2, Exchange
  <2>11. AcceptedOwned'
    BY <1>1, <1>2, <2>1, <2>2, SetsOwner DEF m
  <2>12. Tun!Set(n, m, id, TRUE)
    BY <1>1, <1>2, <2>1, <2>2, SetsTunnel DEF m
  <2>13. minted[id][2] = node_id[n] /\ minted[id][1] = m
    BY <2>5 DEF Drawn
  <2>14. Tun!Establish(n)
    BY <1>2, <2>6, <2>10, <2>12, <2>13 DEF Tun!Establish
  <2>15. QED
    BY <2>9, <2>11, <2>14 DEF Shakes
<1>4. CASE ~(s.ping_sent # None /\ s.session_id = p.ping)
  <2>1. End(FALSE) /\ UNCHANGED session
    BY <1>4 DEF HandleConnectionInit, Fail
  <2>2. SentApart' /\ ToSend' = ToSend
    BY <1>2 DEF Once, SentApart, ToSend
  <2>3. Once' /\ Tokens' \subseteq Tokens
    BY <1>1, <1>2, <2>1, <2>2, HandleOnce
  <2>4. QED
    BY <1>2, <2>1, <2>3, LosingStep DEF SameSessions, Shakes
<1>5. QED
  BY <1>3, <1>4

(* One session replaced by itself but for what else it keeps.               *)
LEMMA ReplacedSameSessions ==
  ASSUME NodeTypeOK, NEW n \in NetAddr, NEW m \in NodeID, NEW t, t # None,
         session[n][m] # None,
         t.session_id = session[n][m].session_id,
         t.ping_sent = session[n][m].ping_sent,
         session' = [session EXCEPT ![n][m] = t]
  PROVE  SameSessions
BY DEF NodeTypeOK, SameSessions

(* When a packet last came is noted in place.                               *)
LEMMA ReceivedSameSessions ==
  ASSUME NodeTypeOK, NEW n \in NetAddr, NEW m \in NodeID,
         NEW type \in Limited, session[n][m] # None, Received(n, m, type)
  PROVE  SameSessions
<1> DEFINE s == session[n][m]
           t == [s EXCEPT !.last[type] = ticks[n]]
<1>1. s \in Session /\ s # None /\ ticks[n] \in Nat
  BY DEF NodeTypeOK
<1>2. t \in Session /\ t.session_id = s.session_id /\ t.ping_sent = s.ping_sent
  BY <1>1 DEF Session
<1>3. session' = [session EXCEPT ![n][m] = t]
  BY DEF Received
<1> HIDE DEF t
<1>4. t # None
  BY <1>2, NoneIsNoValue
<1>5. QED
  BY <1>1, <1>2, <1>3, <1>4, ReplacedSameSessions

(* A flag set on a session leaves the handshake alone.                      *)
LEMMA SetPeerKeepsPing ==
  ASSUME NEW s \in Session, IsDirect(s), NEW flag, NEW toggle
  PROVE  /\ SetPeer(s, flag, toggle).session_id = s.session_id
         /\ SetPeer(s, flag, toggle).ping_sent = s.ping_sent
BY DEF SetPeer, Session

(* What is neither a Traverse nor a ConnectionInit carries no token.        *)
LEMMA SendsNothing ==
  ASSUME NEW self \in SelfType, NEW m \in NodeID, NEW packet \in NodePacket,
         packet.type \notin {"Traverse", "ConnectionInit"},
         NEW p \in SendPacket(self, m, packet)
  PROVE  p \in Outgoing \cup {None} /\ Gained(p) = {}
<1>1. Sent(p, packet)
  BY SendPacketKeepsCore
<1>2. TokenIn(packet) = {}
  BY DEF TokenIn
<1>3. QED
  BY <1>1, <1>2, WrappedToken DEF Sent, Gained

(* ExchangeInfo and AcceptWantPing are answered in their session.           *)
LEMMA AnsweringShakes ==
  ASSUME NEW n \in NetAddr, TypeInv(n), Once, AcceptedOwned, UNCHANGED Wire,
         HandleExchangeInfo(n) \/ HandleAcceptWantPing(n)
  PROVE  Once' /\ AcceptedOwned' /\ Shakes(n)
<1> USE DEF TypeInv
<1> DEFINE m == Head(work).from
<1>1. /\ rx = None /\ work # <<>> /\ m \in NodeID
      /\ session[n][m] \in Session /\ session[n][m] # None
  BY HandlingHead DEF HandleExchangeInfo, HandleAcceptWantPing
<1>2. UNCHANGED <<node_id, minted>>
  BY DEF HandleExchangeInfo, HandleAcceptWantPing
<1>3. SameSessions
  <2>1. CASE UNCHANGED session
    BY <2>1 DEF SameSessions
  <2>2. CASE Received(n, m, "AcceptWantPing")
    BY <1>1, <2>2, ReceivedSameSessions DEF Limited
  <2>3. QED
    BY <2>1, <2>2 DEF HandleExchangeInfo, HandleAcceptWantPing
<1>4. \/ UNCHANGED outgoing /\ (Done \/ Fail)
      \/ \E self \in SelfType, packet \in NodePacket :
           /\ packet.type \notin {"Traverse", "ConnectionInit"}
           /\ \E r \in SendPacket(self, m, packet) : Emit(r) /\ End(r # None)
  <2>1. CASE HandleExchangeInfo(n)
    <3> DEFINE coord == IF IsGenesis(n) THEN deus_ex_data[n] ELSE route_coord[n]
               self == [Self(n) EXCEPT !.coord = coord]
               reply == ExchangeInfoResponse(coord,
                                             Cardinality(direct_sorted[n]))
    <3>1. coord \in MaybeCoord
      BY DEF NodeTypeOK
    <3>2. self \in SelfType
      BY <3>1, SelfTypes DEF SelfType
    <3>3. reply \in NodePacket /\ reply.type = "ExchangeInfoResponse"
      BY <3>1, CountTypes, PacketConstructors, PlainPacketIsPacket
         DEF ExchangeInfoResponse
    <3>4. \/ UNCHANGED outgoing /\ Fail
          \/ \E r \in SendPacket(self, m, reply) : Emit(r) /\ End(r # None)
      BY <2>1 DEF HandleExchangeInfo
    <3> HIDE DEF self, reply
    <3>5. QED
      BY <3>2, <3>3, <3>4
  <2>2. CASE HandleAcceptWantPing(n)
    <3> DEFINE packet == ExchangeInfo(route_coord[n],
                                      Cardinality(direct_sorted[n]))
    <3>1. packet \in NodePacket /\ packet.type = "ExchangeInfo"
      BY CountTypes, PacketConstructors, InitialPacketIsPacket
         DEF NodeTypeOK, ExchangeInfo
    <3>2. \/ UNCHANGED outgoing /\ Done
          \/ \E r \in SendPacket(Self(n), m, packet) : Emit(r) /\ End(r # None)
      BY <2>2 DEF HandleAcceptWantPing
    <3> HIDE DEF packet
    <3>3. QED
      BY <3>1, <3>2, SelfTypes
  <2>3. QED
    BY <2>1, <2>2
<1>5. CASE UNCHANGED outgoing /\ (Done \/ Fail)
  <2>1. SentApart' /\ ToSend' = ToSend
    BY <1>5 DEF Once, SentApart, ToSend
  <2>2. Once' /\ Tokens' \subseteq Tokens
    BY <1>1, <1>2, <1>5, <2>1, HandleOnce DEF Done, Fail
  <2>3. QED
    BY <1>2, <1>3, <2>2, LosingStep DEF Shakes
<1>6. ASSUME NEW self \in SelfType, NEW packet \in NodePacket,
             packet.type \notin {"Traverse", "ConnectionInit"},
             NEW r \in SendPacket(self, m, packet), Emit(r), End(r # None)
      PROVE  Once' /\ AcceptedOwned' /\ Shakes(n)
  <2>1. r \in Outgoing \cup {None} /\ Gained(r) = {}
    BY <1>1, <1>6, SendsNothing
  <2>2. Once' /\ Tokens' \subseteq Tokens
    <3>1. Gained(r) \subseteq TokenIn(Head(work).packet)
      BY <2>1
    <3>2. QED
      BY <1>1, <1>2, <1>6, <2>1, <3>1, PassOnOnce
  <2>3. QED
    BY <1>2, <1>3, <2>2, LosingStep DEF Shakes
<1>7. QED
  BY <1>4, <1>5, <1>6

(* A traversed packet is read, or passed on, or lost.                       *)
LEMMA HandleTraverseShakes ==
  ASSUME NEW n \in NetAddr, TypeInv(n), Once, AcceptedOwned, UNCHANGED Wire,
         HandleTraverse(n)
  PROVE  Once' /\ AcceptedOwned' /\ Shakes(n)
<1> USE DEF TypeInv
<1> DEFINE m == Head(work).from
           p == Head(work).packet
           closest == ClosestPeers(peer_list[n], p.destination)
<1>1. /\ rx = None /\ work # <<>> /\ p \in NodePacket
      /\ p.type = "Traverse"
  BY HandlingHead DEF HandleTraverse
<1>2. UNCHANGED <<node_id, session, minted>>
  BY DEF HandleTraverse
<1>3. Once' /\ Tokens' \subseteq Tokens
  <2>1. CASE UNCHANGED outgoing /\ (Done \/ Fail)
    <3>1. SentApart' /\ ToSend' = ToSend
      BY <2>1 DEF Once, SentApart, ToSend
    <3>2. QED
      BY <1>1, <1>2, <2>1, <3>1, HandleOnce DEF Done, Fail
  <2>2. CASE /\ rx' = [request |-> None, encryption |-> p.encryption,
                        via |-> TraversedType(p.origin)]
             /\ work' = Tail(work) /\ UNCHANGED outgoing
    <3> DEFINE H == TokenIn(p)
    <3>1. /\ ParsedApart' /\ ToParse' \subseteq ToParse /\ H \subseteq ToParse
          /\ Apart(H, ToParse')
      BY <1>1, <2>2, EndTokens DEF Once
    <3>2. SentApart' /\ ToSend' = ToSend
      BY <2>2 DEF Once, SentApart, ToSend
    <3>3. ToRead' \subseteq H
      BY <1>1, <2>2 DEF ToRead, TokenIn
    <3> HIDE DEF H
    <3>4. QED
      BY <1>1, <1>2, <3>1, <3>2, <3>3, HandedOnOnce
  <2>3. CASE \E q \in closest : \E r \in SendPacket(Self(n), q, p) :
               Emit(r) /\ End(r # None)
    <3>1. PICK q \in closest : \E r \in SendPacket(Self(n), q, p) :
            Emit(r) /\ End(r # None)
      BY <2>3
    <3>2. PICK r \in SendPacket(Self(n), q, p) : Emit(r) /\ End(r # None)
      BY <3>1
    <3>3. q \in NodeID /\ Self(n) \in SelfType
      BY SelfTypes DEF ClosestPeers
    <3> HIDE DEF p
    <3>4. Sent(r, p)
      BY <1>1, <3>2, <3>3, SendPacketKeepsCore
    <3>5. r \in Outgoing \cup {None} /\ Gained(r) \subseteq TokenIn(p)
      BY <1>1, <3>4, WrappedToken DEF Sent, Gained
    <3>6. QED
      BY <1>1, <1>2, <3>2, <3>5, PassOnOnce DEF p
  <2>4. QED
    BY <2>1, <2>2, <2>3 DEF HandleTraverse
<1>4. QED
  BY <1>2, <1>3, LosingStep DEF SameSessions, Shakes

(* parse_node_packet.                                                       *)
LEMMA HandleShakes ==
  ASSUME NEW n \in NetAddr, TypeInv(n), node_id[n] \in NodeID,
         Once, AcceptedOwned, UNCHANGED Wire, Handle(n)
  PROVE  Once' /\ AcceptedOwned' /\ Shakes(n)
<1> USE DEF TypeInv
<1>1. CASE HandleExchangeInfoResponse(n) \/ HandleWantPing(n) \/ HandleData(n)
  <2>1. /\ work # <<>> /\ rx = None /\ End(TRUE)
        /\ UNCHANGED <<node_id, session, outgoing, minted>>
    BY <1>1 DEF HandleExchangeInfoResponse, HandleWantPing, HandleData,
                Handling, Done
  <2>2. SentApart' /\ ToSend' = ToSend
    BY <2>1 DEF Once, SentApart, ToSend
  <2>3. Once' /\ Tokens' \subseteq Tokens
    BY <2>1, <2>2, HandleOnce
  <2>4. QED
    BY <2>1, <2>3, LosingStep DEF SameSessions, Shakes
<1>2. CASE HandlePeerNotify(n)
  <2> DEFINE m == Head(work).from
             p == Head(work).packet
             t == SetPeer(session[n][m], "Incoming", p.peered)
  <2>1. /\ work # <<>> /\ rx = None /\ m \in NodeID
        /\ p \in NodePacket /\ p.type = "PeerNotify"
        /\ session[n][m] \in Session /\ session[n][m] # None
    BY <1>2, HandlingHead DEF HandlePeerNotify
  <2>2. /\ Done \/ Fail
        /\ UNCHANGED <<node_id, outgoing, minted>>
    BY <1>2 DEF HandlePeerNotify
  <2>3. SameSessions
    <3>1. CASE UNCHANGED session
      BY <3>1 DEF SameSessions
    <3>2. CASE IsDirect(session[n][m])
               /\ session' = [session EXCEPT ![n][m] = t]
      <4>1. t \in Session
        BY <2>1, <3>2, PacketFields, SetPeerKeepsSession
      <4>2. t # None
        BY <4>1, NoneIsNoValue
      <4>3. /\ t.session_id = session[n][m].session_id
            /\ t.ping_sent = session[n][m].ping_sent
        BY <2>1, <3>2, SetPeerKeepsPing
      <4> HIDE DEF t, m
      <4>4. QED
        BY <2>1, <3>2, <4>2, <4>3, ReplacedSameSessions
    <3>3. QED
      BY <1>2, <3>1, <3>2 DEF HandlePeerNotify
  <2>4. SentApart' /\ ToSend' = ToSend
    BY <2>2 DEF Once, SentApart, ToSend
  <2>5. Once' /\ Tokens' \subseteq Tokens
    BY <2>1, <2>2, <2>4, HandleOnce DEF Done, Fail
  <2>6. QED
    BY <2>2, <2>3, <2>5, LosingStep DEF Shakes
<1>3. CASE HandleRequestPings(n)
  <2>1. /\ work # <<>> /\ rx = None /\ Head(work).from \in NodeID
        /\ session[n][Head(work).from] # None
    BY <1>3, HandlingHead DEF HandleRequestPings
  <2>2. UNCHANGED <<node_id, minted>> /\ SameSessions
    BY <1>3, <2>1, ReceivedSameSessions DEF HandleRequestPings, Limited
  <2>3. PICK X : Adds(X) /\ InTunnels(X)
    BY <1>3, HandleRequestPingsSends
  <2>4. SentApart' /\ ToSend' = ToSend
    BY <2>3, AddsTokens DEF Once
  <2>5. PICK ok \in BOOLEAN : End(ok)
    BY <1>3, HandleRequestPingsSends
  <2>6. Once' /\ Tokens' \subseteq Tokens
    BY <2>1, <2>2, <2>4, <2>5, HandleOnce
  <2>7. QED
    BY <2>2, <2>6, LosingStep DEF Shakes
<1>4. QED
  BY <1>1, <1>2, <1>3, HandleConnectionInitShakes, AnsweringShakes,
     HandleTraverseShakes DEF Handle

-----------------------------------------------------------------------------
(* Actions                                                                  *)

(* Node::connect offers a tunnel, whether or not the handshake can be sent. *)
LEMMA ConnectShakes ==
  ASSUME NEW n \in NetAddr, TypeInv(n), node_id[n] \in NodeID,
         Once, AcceptedOwned, UNCHANGED Wire,
         NEW m \in NodeID, NEW type \in SessionType, NEW packets,
         Connect(n, m, type, packets),
         UNCHANGED <<node_id, session, rx, work>>
  PROVE  Once' /\ AcceptedOwned' /\ Shakes(n)
<1> USE DEF TypeInv
<1> DEFINE id == Len(minted) + 1
           hs == Handshake(m, id, node_id[n])
           packet == Traverse(type.route_coord, hs, route_coord[n])
<1>1. minted' = Append(minted, <<node_id[n], m>>)
  BY DEF Connect
<1>2. Len(minted) \in Nat /\ Len(minted') = id /\ id \in SessionID
  BY <1>1, AppendProperties, LenProperties DEF StackTypeOK, SessionID
<1>3. hs \in Encryption /\ hs # None /\ TokenOf(hs) = {<<"Handshake", id>>}
  BY <1>2, EncryptionConstructors, EncryptionFields
     DEF TokenOf, Handshake, Bare
<1> HIDE DEF id, hs
<1>4. \E p \in Outgoing \cup {None} :
        Emit(p) /\ Gained(p) \subseteq {<<"Handshake", id>>}
  <2>1. CASE type.kind = "Direct" /\ Emit(Package(type.net_addr, hs))
    <3>1. type.net_addr \in NetAddr
      BY <2>1 DEF SessionType
    <3>2. /\ Package(type.net_addr, hs) \in Outgoing
          /\ Package(type.net_addr, hs).encryption = hs
      BY <1>3, <3>1, PackageIsOutgoing
    <3>3. Gained(Package(type.net_addr, hs)) = {<<"Handshake", id>>}
      BY <1>3, <3>2, NoneIsNoValue DEF Gained
    <3>4. QED
      BY <2>1, <3>2, <3>3
  <2>2. CASE /\ type.kind = "Traversed" /\ route_coord[n] # None
             /\ \E q \in ClosestPeers(peer_list[n], type.route_coord) :
                  \E r \in SendPacket(Self(n), q, packet) : Emit(r)
    <3>1. PICK q \in ClosestPeers(peer_list[n], type.route_coord) :
            \E r \in SendPacket(Self(n), q, packet) : Emit(r)
      BY <2>2
    <3>2. PICK r \in SendPacket(Self(n), q, packet) : Emit(r)
      BY <3>1
    <3>3. q \in NodeID /\ Self(n) \in SelfType
      BY SelfTypes DEF ClosestPeers
    <3>4. type.route_coord \in Coord /\ route_coord[n] \in Coord
      BY <2>2 DEF SessionType, NodeTypeOK, MaybeCoord
    <3>5. /\ packet \in NodePacket /\ packet.encryption = hs
          /\ packet.type = "Traverse"
      BY <1>3, <3>4, TraverseIsPacket
    <3>6. TokenIn(packet) = {<<"Handshake", id>>}
      BY <1>3, <3>5 DEF TokenIn
    <3> HIDE DEF packet
    <3>7. Sent(r, packet)
      BY <3>2, <3>3, <3>5, SendPacketKeepsCore
    <3>8. /\ r \in Outgoing \cup {None}
          /\ Gained(r) \subseteq {<<"Handshake", id>>}
      BY <3>5, <3>6, <3>7, WrappedToken DEF Sent, Gained
    <3>9. QED
      BY <3>2, <3>8
  <2>3. CASE UNCHANGED outgoing
    <3>1. Emit(None) /\ Gained(None) = {}
      BY <2>3 DEF Emit, Gained
    <3>2. QED
      BY <3>1
  <2>4. QED
    BY <2>1, <2>2, <2>3 DEF Connect, hs, id
<1>5. PICK p \in Outgoing \cup {None} :
        Emit(p) /\ Gained(p) \subseteq {<<"Handshake", id>>}
  BY <1>4
<1>6. Once' /\ Tokens' = Tokens \cup Gained(p)
  BY <1>1, <1>5, DrawOnce DEF id
<1>7. SameSessions /\ Grows
  BY <1>1, OneDrawn DEF SameSessions
<1>8. AcceptedOwned' /\ Tunnels' = Tunnels
  BY <1>7, SameOwners, SameTunnels
<1>9. /\ InHand("Handshake")' \in Tun!Passed(InHand("Handshake"), id)
      /\ InHand("Acknowledge")' = InHand("Acknowledge")
      /\ InHand("ConnectionInit")' = InHand("ConnectionInit")
  BY <1>5, <1>6, Added
<1>10. Tun!Offer(n)
  BY <1>1, <1>2, <1>8, <1>9 DEF Tun!Offer
<1>11. QED
  BY <1>6, <1>8, <1>10 DEF Shakes

(* A step that sends at most one packet, without a token.                   *)
LEMMA SendingShakes ==
  ASSUME NEW n \in NetAddr, TypeInv(n), Once, AcceptedOwned, UNCHANGED Wire,
         UNCHANGED <<node_id, session, minted, rx, work>>,
         NEW p \in Outgoing \cup {None}, Emit(p), Gained(p) = {}
  PROVE  Once' /\ AcceptedOwned' /\ Shakes(n)
<1>1. Apart(ToSend, Gained(p)) /\ StackTypeOK /\ SentApart
  BY DEF Apart, TypeInv, Once
<1>2. SentApart' /\ ToSend' = ToSend
  BY <1>1, EmitTokens
<1>3. Once' /\ Tokens' \subseteq Tokens
  BY <1>1, <1>2, RunOnce
<1>4. QED
  BY <1>3, LosingStep DEF SameSessions, Shakes

(* The other actions that send one packet.                                  *)
LEMMA RunSendingShakes ==
  ASSUME NEW n \in NetAddr, TypeInv(n), node_id[n] \in NodeID,
         Once, AcceptedOwned, UNCHANGED Wire,
         RunUpdateRemote(n) \/ RunSendData(n) \/ RunRequestRouteCoord(n)
           \/ RunNotify(n)
  PROVE  Once' /\ AcceptedOwned' /\ Shakes(n)
<1> USE DEF TypeInv
<1> DEFINE m == Head(queue).id
           s == session[n][m]
           enc == Notify(m, node_id[n])
           ask == RequestPings(TARGET_PEER_COUNT, route_coord[n])
           read == [type |-> "RouteCoordDHTRead", id |-> m]
<1>1. m \in NodeID
  BY RunningHead, ActionFields
     DEF RunUpdateRemote, RunSendData, RunRequestRouteCoord, RunNotify,
         Running, Awaitable
<1>2. UNCHANGED <<node_id, session, minted, rx, work>>
  BY DEF RunUpdateRemote, RunSendData, RunRequestRouteCoord, RunNotify
<1>3. \A packet \in {ask, Data} :
        /\ packet \in NodePacket
        /\ packet.type \notin {"Traverse", "ConnectionInit"}
  <2>1. ask \in NodePacket /\ Data \in NodePacket
    BY NodeConstants, PacketConstructors, PlainPacketIsPacket DEF NodeTypeOK
  <2>2. QED
    BY <2>1 DEF RequestPings, Data
<1>4. \E p \in Outgoing \cup {None} : Emit(p) /\ Gained(p) = {}
  <2>1. CASE UNCHANGED outgoing
    BY <2>1 DEF Emit, Gained
  <2>2. ASSUME NEW packet \in {ask, Data},
               NEW p \in SendPacket(Self(n), m, packet), Emit(p)
        PROVE  p \in Outgoing \cup {None} /\ Emit(p) /\ Gained(p) = {}
    BY <1>1, <1>3, <2>2, SelfTypes, SendsNothing
  <2>3. CASE Emit(GenRequest(n, read))
    <3>1. read \in Request
      BY <1>1 DEF Request
    <3>2. /\ GenRequest(n, read) \in Outgoing
          /\ GenRequest(n, read).encryption = None
      BY <3>1, GenRequestIsOutgoing
    <3>3. QED
      BY <2>3, <3>2 DEF Gained, TokenOf
  <2>4. CASE s # None /\ \E p \in GenPacket(Self(n), s, enc) : Emit(p)
    <3>1. s \in Session
      BY <1>1, <2>4 DEF NodeTypeOK
    <3>2. enc \in Encryption
      BY <1>1, EncryptionConstructors, 0 \in SessionID DEF SessionID
    <3>3. TokenOf(enc) = {} /\ enc # None
      BY <3>2, EncryptionFields DEF TokenOf, Notify, Bare
    <3> HIDE DEF s, enc
    <3>4. PICK p \in GenPacket(Self(n), s, enc) : Emit(p)
      BY <2>4
    <3>5. Carries(p, enc.core)
      BY <3>1, <3>2, <3>4, SelfTypes, GenPacketKeepsCore
    <3>6. p \in Outgoing \cup {None} /\ Gained(p) = {}
      BY <3>3, <3>5, EncryptionFields, SameCoreSameToken DEF Carries, Gained
    <3>7. QED
      BY <3>4, <3>6
  <2>5. CASE \E packet \in {ask, Data} :
               \E p \in SendPacket(Self(n), m, packet) : Emit(p)
    BY <2>2, <2>5
  <2>6. QED
    BY <2>1, <2>3, <2>4, <2>5
       DEF RunUpdateRemote, RunSendData, RunRequestRouteCoord, RunNotify
<1>5. QED
  BY <1>2, <1>4, SendingShakes

(* The flags of the tested nodes are set in place.                          *)
LEMMA RunCalculatePeersShakes ==
  ASSUME NEW n \in NetAddr, TypeInv(n), node_id[n] \in NodeID,
         Once, AcceptedOwned, UNCHANGED Wire, RunCalculatePeers(n)
  PROVE  Once' /\ AcceptedOwned' /\ Shakes(n)
<1> USE DEF TypeInv
<1> DEFINE peers  == PeerList(n)
           tested == {e[2] : e \in Visited(n)}
           F(m) == SetPeer(session[n][m], "Outgoing", peers[m] # None)
           S == [m \in NodeID |->
                   IF m \in tested /\ IsDirect(session[n][m])
                     THEN F(m) ELSE session[n][m]]
<1>1. UNCHANGED <<node_id, minted, rx, work>>
  BY DEF RunCalculatePeers
<1>2. UNCHANGED session \/ session' = [session EXCEPT ![n] = S]
  BY DEF RunCalculatePeers
<1>3. \A m \in NodeID :
        \/ S[m] = session[n][m]
        \/ /\ S[m] # None /\ session[n][m] # None
           /\ S[m].session_id = session[n][m].session_id
           /\ S[m].ping_sent = session[n][m].ping_sent
  <2>1. ASSUME NEW m \in NodeID, IsDirect(session[n][m])
        PROVE  /\ F(m) # None /\ session[n][m] # None
               /\ F(m).session_id = session[n][m].session_id
               /\ F(m).ping_sent = session[n][m].ping_sent
    <3>1. session[n][m] \in Session /\ session[n][m] # None
      BY <2>1 DEF NodeTypeOK, IsDirect
    <3>2. F(m) \in Session
      BY <2>1, <3>1, SetPeerKeepsSession
    <3>3. QED
      BY <2>1, <3>1, <3>2, SetPeerKeepsPing, NoneIsNoValue
  <2> HIDE DEF F, tested
  <2>2. QED
    BY <2>1
<1> HIDE DEF S
<1>4. SameSessions
  <2>1. CASE session' = [session EXCEPT ![n] = S]
    BY <1>3, <2>1 DEF SameSessions, NodeTypeOK
  <2>2. QED
    BY <1>2, <2>1 DEF SameSessions
<1>5. PICK X : Adds(X) /\ InTunnels(X)
  BY RunCalculatePeersSends
<1>6. SentApart' /\ ToSend' = ToSend
  BY <1>5, AddsTokens DEF Once
<1>7. Once' /\ Tokens' \subseteq Tokens
  BY <1>1, <1>6, RunOnce
<1>8. QED
  BY <1>1, <1>4, <1>7, LosingStep DEF Shakes

(* parse_action.                                                            *)
LEMMA RunShakes ==
  ASSUME NEW n \in NetAddr, TypeInv(n), node_id[n] \in NodeID,
         Once, AcceptedOwned, UNCHANGED Wire, Run(n)
  PROVE  Once' /\ AcceptedOwned' /\ Shakes(n)
<1> USE DEF TypeInv
<1> DEFINE a == Head(queue)
<1>1. CASE RunBootstrap(n) \/ RunConnect(n)
  <2>1. a.id \in NodeID /\ DirectType(a.addr) \in SessionType
    BY <1>1, RunningHead, ActionFields, DirectTypeIsType
       DEF RunBootstrap, RunConnect, Running
  <2>2. \E packets : Connect(n, a.id, DirectType(a.addr), packets)
    BY <1>1 DEF RunBootstrap, RunConnect
  <2>3. UNCHANGED <<node_id, session, rx, work>>
    BY <1>1 DEF RunBootstrap, RunConnect
  <2>4. QED
    BY <2>1, <2>2, <2>3, ConnectShakes
<1>2. ASSUME UNCHANGED <<node_id, session, minted, rx, work, outgoing>>
      PROVE  Once' /\ AcceptedOwned' /\ Shakes(n)
  <2>1. Emit(None) /\ Gained(None) = {}
    BY <1>2 DEF Emit, Gained
  <2>2. QED
    BY <1>2, <2>1, SendingShakes
<1>3. CASE RunConnectTraversed(n)
  <2>1. a.id \in NodeID /\ UNCHANGED <<node_id, session, rx, work>>
    BY <1>3, RunningHead, ActionFields
       DEF RunConnectTraversed, Running, Awaitable
  <2>2. CASE /\ remote_coord[n][a.id] # None
             /\ Connect(n, a.id, TraversedType(remote_coord[n][a.id]), <<>>)
    <3>1. TraversedType(remote_coord[n][a.id]) \in SessionType
      BY <2>1, <2>2, TraversedTypeIsType DEF NodeTypeOK, MaybeCoord
    <3>2. QED
      BY <2>1, <2>2, <3>1, ConnectShakes
  <2>3. QED
    BY <1>2, <1>3, <2>1, <2>2 DEF RunConnectTraversed
<1>4. CASE RunCalcRouteCoord(n) \/ RunConnectRouted(n) \/ RunCondition(n)
  BY <1>2, <1>4 DEF RunCalcRouteCoord, RunConnectRouted, RunCondition
<1>5. QED
  BY <1>1, <1>3, <1>4, RunCalculatePeersShakes, RunSendingShakes DEF Run

-----------------------------------------------------------------------------
(* The network                                                              *)

(* The steps of a node.                                                     *)
LEMMA NodeStepShakes ==
  ASSUME NEW n \in NetAddr, TunnelInv,
         ParsePacket(n) \/ ParseNodePacket(n) \/ ParseAction(n)
  PROVE  Once' /\ AcceptedOwned' /\ Shakes(n)
<1>1. Turn(n) /\ UNCHANGED <<netVars, loopVars>>
  BY DEF ParsePacket, ParseNodePacket, ParseAction, NodeStep
<1>2. node_id[n] \in NodeID /\ TypeInv(n)
  BY <1>1, TurnIsNode
     DEF TunnelInv, PairInv, MapInv, IInv, StackInv, Turn, TypeInv, TypeOK
<1>3. Parse(n) \/ Handle(n) \/ Run(n)
  BY DEF ParsePacket, ParseNodePacket, ParseAction
<1>4. UNCHANGED Wire
  BY <1>1 DEF Wire
<1>5. NodeInv /\ Once /\ AcceptedOwned
  BY DEF TunnelInv, PairInv
<1>6. QED
  BY <1>2, <1>3, <1>4, <1>5, ParseShakes, HandleShakes, RunShakes

(* A token that moves from one place to the next is still in one.           *)
LEMMA DeliverOnce ==
  ASSUME NEW n \in NetAddr, TunnelInv, Deliver(n)
  PROVE  Once' /\ Tokens' \subseteq Tokens
<1>1. MapInv /\ TypeOK /\ Once
  BY DEF TunnelInv, PairInv, MapInv, IInv
<1>2. UNCHANGED <<work, outgoing, minted>> /\ rx = None
  BY DEF Deliver, Stackless
<1>3. PICK i \in 1 .. Len(Wire[n]) :
        /\ Inbox' = [Inbox EXCEPT ![n] = Wire[n][i]]
        /\ Wire' = [Wire EXCEPT ![n] = Without(Wire[n], i)]
  BY <1>1, DeliverReceives DEF Net!Receive, Without
<1> DEFINE q == Wire[n]
           H == TokenOf(q[i].encryption)
<1>4. /\ DOMAIN Wire = NetAddr /\ DOMAIN q = 1 .. Len(q) /\ Len(q) \in Nat
      /\ Without(q, i) \in Seq(Incoming)
      /\ Len(Without(q, i)) = Len(q) - 1
      /\ \A j \in 1 .. Len(q) - 1 :
           Without(q, i)[j] = IF j < i THEN q[j] ELSE q[j + 1]
  <2>1. DOMAIN Wire = NetAddr /\ q \in Seq(Incoming)
    BY <1>1, WireTypes DEF Wire
  <2>2. QED
    BY <2>1, WithoutProperties, LenProperties
<1>5. DOMAIN Without(q, i) = 1 .. Len(q) - 1
  BY <1>4, LenProperties
<1>6. ToRead' \subseteq H
  <2>1. CASE rx' = None
    BY <2>1 DEF ToRead
  <2>2. CASE rx' # None
    <3>1. rx'.via.kind = "Direct" /\ Acting(n)'
      BY DEF Deliver, DirectType, Acting, Turn
    <3>2. Inbox'[n].encryption = rx'.encryption
      BY <2>2, <3>1 DEF Inbox
    <3>3. Inbox'[n] = q[i]
      BY <1>3 DEF Inbox
    <3>4. QED
      BY <2>2, <3>2, <3>3 DEF ToRead
  <2>3. QED
    BY <2>1, <2>2
<1> DEFINE Was(k) == IF k < i THEN k ELSE k + 1
<1>7. /\ \A k \in DOMAIN Wire'[n] :
           Was(k) \in DOMAIN q /\ Was(k) # i /\ Wire'[n][k] = q[Was(k)]
      /\ \A k, l \in DOMAIN Wire'[n] : k # l => Was(k) # Was(l)
      /\ \A a \in NetAddr \ {n} : Wire'[a] = Wire[a]
  <2>1. /\ Wire'[n] = Without(q, i)
        /\ \A a \in NetAddr \ {n} : Wire'[a] = Wire[a]
    BY <1>3, <1>4
  <2>2. i \in 1 .. Len(q)
    BY <1>3
  <2> HIDE DEF q
  <2>3. \A k \in 1 .. Len(q) - 1 :
          Was(k) \in 1 .. Len(q) /\ Was(k) # i /\ Without(q, i)[k] = q[Was(k)]
    BY <1>4, <2>2
  <2>4. \A k, l \in 1 .. Len(q) - 1 : k # l => Was(k) # Was(l)
    BY <1>4, <2>2
  <2>5. QED
    BY <1>4, <1>5, <2>1, <2>3, <2>4
<1> HIDE DEF Was
<1>8. i \in DOMAIN Wire[n]
  BY <1>4
<1>9. /\ \A k \in DOMAIN Wire'[n] :
           /\ Was(k) \in DOMAIN Wire[n] /\ Was(k) # i
           /\ Wire'[n][k] = Wire[n][Was(k)]
      /\ \A k, l \in DOMAIN Wire'[n] : k # l => Was(k) # Was(l)
  BY <1>7
<1>10. H \subseteq OnTheWay
  BY <1>8 DEF OnTheWay
<1>11. OnTheWay' \subseteq OnTheWay
  BY <1>7, <1>9 DEF OnTheWay
<1>12. Apart(H, OnTheWay')
  <2>1. ASSUME NEW a \in NetAddr, NEW k \in DOMAIN Wire'[a]
        PROVE  Apart(H, TokenOf(Wire'[a][k].encryption))
    <3>1. CASE a = n
      BY <1>1, <1>8, <1>9, <2>1, <3>1 DEF Once, WireApart
    <3>2. CASE a # n
      BY <1>1, <1>7, <1>8, <2>1, <3>2 DEF Once, WireApart
    <3>3. QED
      BY <3>1, <3>2
  <2> HIDE DEF H
  <2>2. QED
    BY <2>1 DEF Apart, OnTheWay
<1>13. WireApart'
  <2>1. ASSUME NEW a \in NetAddr, NEW b \in NetAddr,
               NEW k \in DOMAIN Wire'[a], NEW l \in DOMAIN Wire'[b],
               a # b \/ k # l
        PROVE  Apart(TokenOf(Wire'[a][k].encryption),
                     TokenOf(Wire'[b][l].encryption))
    <3>1. \E x \in DOMAIN Wire[a] : /\ Wire'[a][k] = Wire[a][x]
                                    /\ x = IF a = n THEN Was(k) ELSE k
      BY <1>7, <1>9, <2>1
    <3>2. \E y \in DOMAIN Wire[b] : /\ Wire'[b][l] = Wire[b][y]
                                    /\ y = IF b = n THEN Was(l) ELSE l
      BY <1>7, <1>9, <2>1
    <3>3. PICK x \in DOMAIN Wire[a] : /\ Wire'[a][k] = Wire[a][x]
                                     /\ x = IF a = n THEN Was(k) ELSE k
      BY <3>1
    <3>4. PICK y \in DOMAIN Wire[b] : /\ Wire'[b][l] = Wire[b][y]
                                     /\ y = IF b = n THEN Was(l) ELSE l
      BY <3>2
    <3>5. a # b \/ x # y
      BY <1>9, <2>1, <3>3, <3>4
    <3>6. QED
      BY <1>1, <3>3, <3>4, <3>5 DEF Once, WireApart
  <2>2. QED
    BY <2>1 DEF WireApart
<1>14. /\ ToSend' = ToSend /\ ToParse' = ToParse /\ ToRead = {}
       /\ SentApart' /\ ParsedApart'
  BY <1>1, <1>2 DEF ToSend, ToParse, ToRead, SentApart, ParsedApart, Once
<1> HIDE DEF H, q
<1>15. PlacesApart'
  BY <1>1, <1>6, <1>10, <1>11, <1>12, <1>14 DEF Once, PlacesApart, Apart
<1>16. Tokens' \subseteq Tokens
  BY <1>6, <1>10, <1>11, <1>14 DEF Tokens
<1>17. QED
  BY <1>1, <1>2, <1>13, <1>14, <1>15, <1>16 DEF Once, Known

(* So is one that is put on its way.                                        *)
LEMMA RoutePacketOnce ==
  ASSUME NEW n \in NetAddr, TunnelInv, RoutePacket(n)
  PROVE  Once' /\ Tokens' \subseteq Tokens
<1> DEFINE p == Head(outgoing)
           H == TokenOf(p.encryption)
<1>1. TypeOK /\ Once /\ PairInv
  BY DEF TunnelInv, PairInv, MapInv, IInv
<1>2. /\ UNCHANGED <<rx, work, minted>>
      /\ outgoing # <<>> /\ outgoing' = Tail(outgoing)
  BY DEF RoutePacket
<1>3. /\ Len(outgoing) \in Nat /\ DOMAIN outgoing = 1 .. Len(outgoing)
      /\ 1 \in DOMAIN outgoing /\ p = outgoing[1]
      /\ DOMAIN Tail(outgoing) = 1 .. Len(outgoing) - 1
      /\ \A i \in 1 .. Len(outgoing) - 1 : Tail(outgoing)[i] = outgoing[i + 1]
  BY <1>1, <1>2, HeadTailProperties, LenProperties DEF TypeOK, StackTypeOK
<1>4. \A i \in DOMAIN outgoing' :
        /\ i + 1 \in DOMAIN outgoing /\ i + 1 # 1
        /\ outgoing'[i] = outgoing[i + 1]
  BY <1>2, <1>3
<1>5. H \subseteq ToSend /\ ToSend' \subseteq ToSend
  BY <1>3, <1>4 DEF ToSend
<1>6. Apart(H, ToSend')
  <2>1. \A i \in DOMAIN outgoing' :
          Apart(TokenOf(outgoing[1].encryption),
                TokenOf(outgoing'[i].encryption))
    BY <1>1, <1>3, <1>4 DEF Once, SentApart
  <2>2. QED
    BY <1>3, <2>1 DEF Apart, ToSend
<1>7. SentApart'
  <2>1. \A i, j \in DOMAIN outgoing' : i # j => i + 1 # j + 1
    BY <1>2, <1>3
  <2>2. QED
    BY <1>1, <1>4, <2>1 DEF Once, SentApart
<1> HIDE DEF p
<1>8. PICK dest \in NetAddr :
         \E x : /\ Wire' = [Wire EXCEPT ![dest] = Append(Wire[dest], x)]
                /\ x.encryption \in {None, p.encryption}
  BY <1>1, RoutePacketPuts DEF p
<1>9. PICK x : /\ Wire' = [Wire EXCEPT ![dest] = Append(Wire[dest], x)]
               /\ x.encryption \in {None, p.encryption}
  BY <1>8
<1>10. TokenOf(x.encryption) \subseteq H
  BY <1>9 DEF TokenOf
<1> DEFINE q == Wire[dest]
<1>11. DOMAIN Wire = NetAddr /\ q \in Seq(Incoming)
  BY <1>1, WireTypes DEF Wire
<1>12. /\ Len(q) \in Nat /\ DOMAIN q = 1 .. Len(q)
       /\ DOMAIN Append(q, x) = 1 .. Len(q) + 1
       /\ \A i \in 1 .. Len(q) : Append(q, x)[i] = q[i]
       /\ Append(q, x)[Len(q) + 1] = x
  <2>1. q \in Seq(Incoming \cup {x}) /\ x \in Incoming \cup {x}
    BY <1>11
  <2> HIDE DEF q
  <2>2. QED
    BY <2>1, AppendProperties, LenProperties
<1>13. Wire'[dest] = Append(q, x)
       /\ \A k \in NetAddr \ {dest} : Wire'[k] = Wire[k]
  BY <1>9, <1>11
<1>14. \A a \in NetAddr : \A k \in DOMAIN Wire'[a] :
         \/ k \in DOMAIN Wire[a] /\ Wire'[a][k] = Wire[a][k]
         \/ a = dest /\ k = Len(q) + 1 /\ Wire'[a][k] = x
  <2> HIDE DEF q
  <2>1. \A k \in DOMAIN Wire'[dest] :
          \/ k \in DOMAIN q /\ Wire'[dest][k] = q[k]
          \/ k = Len(q) + 1 /\ Wire'[dest][k] = x
    BY <1>12, <1>13
  <2>2. QED
    BY <1>13, <2>1 DEF q
<1> HIDE DEF q
<1>15. OnTheWay' \subseteq OnTheWay \cup H
  BY <1>10, <1>14 DEF OnTheWay
<1>16. Apart(OnTheWay, H) /\ Apart(H, ToRead) /\ Apart(H, ToParse)
  BY <1>1, <1>5 DEF Once, PlacesApart, Apart
<1>17. WireApart'
  <2>1. ASSUME NEW a \in NetAddr, NEW b \in NetAddr,
               NEW k \in DOMAIN Wire'[a], NEW l \in DOMAIN Wire'[b],
               a # b \/ k # l
        PROVE  Apart(TokenOf(Wire'[a][k].encryption),
                     TokenOf(Wire'[b][l].encryption))
    <3>1. /\ \A c \in NetAddr : \A j \in DOMAIN Wire[c] :
               Apart(TokenOf(Wire[c][j].encryption), H)
    BY <1>16 DEF Apart, OnTheWay
    <3>2. CASE k \in DOMAIN Wire[a] /\ Wire'[a][k] = Wire[a][k]
               /\ l \in DOMAIN Wire[b] /\ Wire'[b][l] = Wire[b][l]
      BY <1>1, <2>1, <3>2 DEF Once, WireApart
    <3>3. CASE k \in DOMAIN Wire[a] /\ Wire'[a][k] = Wire[a][k]
               /\ Wire'[b][l] = x
      BY <1>10, <3>1, <3>3 DEF Apart
    <3>4. CASE l \in DOMAIN Wire[b] /\ Wire'[b][l] = Wire[b][l]
               /\ Wire'[a][k] = x
      BY <1>10, <3>1, <3>4 DEF Apart
    <3>5. QED
      BY <1>14, <2>1, <3>2, <3>3, <3>4
  <2>2. QED
    BY <2>1 DEF WireApart
<1>18. /\ ToRead' = ToRead /\ ToParse' = ToParse /\ ParsedApart'
  BY <1>1, <1>2 DEF ToParse, ToRead, ParsedApart, Once
<1> HIDE DEF H
<1>19. PlacesApart'
  BY <1>1, <1>5, <1>6, <1>15, <1>16, <1>18 DEF Once, PlacesApart, Apart
<1>20. Tokens' \subseteq Tokens
  BY <1>5, <1>15, <1>18 DEF Tokens
<1>21. QED
  BY <1>1, <1>2, <1>7, <1>17, <1>18, <1>19, <1>20 DEF Once, Known

(* Where nothing that carries a token changes.                              *)
LEMMA UntouchedOnce ==
  ASSUME Once, UNCHANGED <<rx, work, outgoing, minted>>,
         Wire' \in {Wire, [n \in NetAddr |-> <<>>]}
  PROVE  Once' /\ Tokens' \subseteq Tokens
<1>1. /\ ToSend' = ToSend /\ ToRead' = ToRead /\ ToParse' = ToParse
      /\ SentApart' /\ ParsedApart'
  BY DEF ToSend, ToParse, ToRead, SentApart, ParsedApart, Once
<1>2. OnTheWay' \subseteq OnTheWay /\ WireApart'
  <2>1. CASE Wire' = Wire
    BY <2>1 DEF OnTheWay, WireApart, Once
  <2>2. CASE Wire' = [n \in NetAddr |-> <<>>]
    <3>1. \A n \in NetAddr : DOMAIN Wire'[n] = {}
      BY <2>2
    <3>2. QED
      BY <3>1 DEF OnTheWay, WireApart
  <2>3. QED
    BY <2>1, <2>2
<1>3. PlacesApart' /\ Tokens' \subseteq Tokens
  BY <1>1, <1>2 DEF Once, PlacesApart, Apart, Tokens
<1>4. QED
  BY <1>1, <1>2, <1>3 DEF Once, Known

(* The other steps of a tick.                                               *)
LEMMA OtherTickShakes ==
  ASSUME NEW n \in NetAddr, TunnelInv,
         Deliver(n) \/ RoutePacket(n) \/ BeginTick(n) \/ BeginActions(n)
           \/ EndActions(n) \/ EndTick(n)
  PROVE  Once' /\ AcceptedOwned' /\ Tun!Lose
<1>1. UNCHANGED <<node_id, session, minted>>
  BY DEF Deliver, RoutePacket, BeginTick, BeginActions, EndActions, EndTick
<1>2. MapInv /\ Once /\ AcceptedOwned
  BY DEF TunnelInv, PairInv
<1>3. Once' /\ Tokens' \subseteq Tokens
  <2>1. CASE BeginTick(n) \/ BeginActions(n) \/ EndActions(n) \/ EndTick(n)
    <3>1. UNCHANGED <<rx, work, outgoing, minted>>
      BY <2>1 DEF BeginTick, BeginActions, EndActions, EndTick
    <3>2. Wire' = Wire
      BY <1>2, <2>1, OtherTickStutters DEF Abstract
    <3>3. QED
      BY <1>2, <3>1, <3>2, UntouchedOnce
  <2>2. QED
    BY <2>1, DeliverOnce, RoutePacketOnce
<1>4. QED
  BY <1>1, <1>2, <1>3, LosingStep DEF SameSessions

-----------------------------------------------------------------------------
(* Commands                                                                 *)

(* A command leaves the handshakes alone, or loses them all.                *)
LEMMA CommandOnce ==
  ASSUME NEW c \in Commands, TunnelInv, CommandStep(c)
  PROVE  /\ UNCHANGED minted /\ Once' /\ Tokens' \subseteq Tokens
         /\ ToSend' = {} /\ ToRead' = {} /\ ToParse' = {}
<1>1. UNCHANGED <<rx, work, outgoing, minted>>
  BY DEF CommandStep, CommandNode, CommandAdd, CommandDel, CommandReload,
         CommandClear, CommandGen, CommandTest, Renewed
<1>2. MapInv /\ Once
  BY DEF TunnelInv, PairInv
<1>3. Wire' \in {Wire, [n \in NetAddr |-> <<>>]}
  BY <1>2, CommandMaps DEF Abstract, Net!Lose
<1>4. Once' /\ Tokens' \subseteq Tokens
  BY <1>1, <1>2, <1>3, UntouchedOnce
<1>5. rx = None /\ work = <<>> /\ outgoing = <<>>
  <2>1. phase = "idle"
    BY DEF CommandStep, CommandNode, CommandAdd, CommandDel, CommandReload,
           CommandClear, CommandGen, CommandTest, Issue, Between
  <2>2. QED
    BY <1>2, <2>1 DEF MapInv, IdleEmpty, IInv, StackInv
<1>6. ToSend' = {} /\ ToRead' = {} /\ ToParse' = {}
  BY <1>1, <1>5 DEF ToSend, ToRead, ToParse
<1>7. QED
  BY <1>1, <1>4, <1>6

(* What a command leaves of a session not yet established is its own.       *)
LEMMA AcceptedLeft ==
  ASSUME AcceptedOwned, UNCHANGED minted,
         \A a \in Nodes', m \in NodeID :
           session'[a][m] # None /\ session'[a][m].ping_sent # None =>
             /\ a \in Nodes /\ node_id'[a] = node_id[a]
             /\ session'[a][m] = session[a][m]
  PROVE  AcceptedOwned'
BY DEF AcceptedOwned

(* Fewer tokens, and tunnels that stay or go with their node.               *)
LEMMA RenewingStep ==
  ASSUME Tokens' \subseteq Tokens, UNCHANGED minted, NodeTypeOK',
         \A a \in NetAddr :
           \/ Tunnels'[a] = Tun!NoTunnel
           \/ node_id'[a] = node_id[a] /\ Tunnels'[a] = Tunnels[a]
  PROVE  Tun!Renew
<1>1. Tun!MaybeLost
  BY DEF Tun!MaybeLost, InHand, OfType
<1>2. node_id' \in [NetAddr -> NodeID \cup {None}]
  BY DEF NodeTypeOK
<1>3. QED
  BY <1>1, <1>2 DEF Tun!Renew

(* add and del make room for a node, or take one.                           *)
LEMMA AddDelShakes ==
  ASSUME NEW c \in Commands, TunnelInv, NodeTypeOK',
         CommandAdd(c) \/ CommandDel(c)
  PROVE  AcceptedOwned' /\ Tun!Renew
<1>1. UNCHANGED minted /\ Tokens' \subseteq Tokens
  BY CommandOnce DEF CommandStep
<1>2. NodeTypeOK /\ AcceptedOwned
  BY DEF TunnelInv, PairInv, MapInv, IInv, TypeOK
<1>3. PICK b : /\ \A a \in NetAddr \ {b} : /\ node_id'[a] = node_id[a]
                                          /\ session'[a] = session[a]
               /\ b \in Nodes' => \A m \in NodeID : session'[b][m] = None
  <2>1. CASE CommandAdd(c)
    <3>1. PICK b \in NetAddr :
            /\ node_id' = [node_id EXCEPT ![b] = c.id]
            /\ session' = [session EXCEPT ![b] = NoRemote]
      BY <2>1 DEF CommandAdd
    <3>2. \A m \in NodeID : session'[b][m] = None
      BY <1>2, <3>1 DEF NodeTypeOK, NoRemote
    <3>3. \A a \in NetAddr \ {b} : /\ node_id'[a] = node_id[a]
                                  /\ session'[a] = session[a]
      BY <1>2, <3>1 DEF NodeTypeOK
    <3>4. QED
      BY <3>2, <3>3
  <2>2. CASE CommandDel(c)
    <3>1. /\ node_id' = [node_id EXCEPT ![c.at] = None]
          /\ UNCHANGED session
      BY <2>2 DEF CommandDel
    <3>2. c.at \notin Nodes'
      BY <1>2, <3>1 DEF NodeTypeOK, Nodes
    <3>3. \A a \in NetAddr \ {c.at} : /\ node_id'[a] = node_id[a]
                                     /\ session'[a] = session[a]
      BY <1>2, <3>1 DEF NodeTypeOK
    <3>4. QED
      BY <3>2, <3>3
  <2>3. QED
    BY <2>1, <2>2
<1>4. /\ Nodes \subseteq NetAddr /\ Nodes' \subseteq NetAddr
      /\ \A a \in NetAddr \ {b} : a \in Nodes' <=> a \in Nodes
  BY <1>3 DEF Nodes
<1>5. AcceptedOwned'
  BY <1>1, <1>2, <1>3, <1>4, AcceptedLeft
<1>6. ASSUME NEW a \in NetAddr
      PROVE  \/ Tunnels'[a] = Tun!NoTunnel
             \/ node_id'[a] = node_id[a] /\ Tunnels'[a] = Tunnels[a]
  <2>1. CASE a = b
    <3>1. \A m \in NodeID : a \in Nodes' => TunnelOf(session'[a][m]) = None
      BY <1>3, <2>1 DEF TunnelOf
    <3>2. Tunnels'[a] = [m \in NodeID |-> None]
      BY <3>1 DEF Tunnels
    <3>3. QED
      BY <3>2 DEF Tun!NoTunnel
  <2>2. CASE a # b
    BY <1>3, <1>4, <2>2 DEF Tunnels
  <2>3. QED
    BY <2>1, <2>2
<1>7. QED
  BY <1>1, <1>5, <1>6, RenewingStep

(* net clear and net gen leave no session.                                  *)
LEMMA RenewedShakes ==
  ASSUME NEW c \in Commands, TunnelInv, NodeTypeOK',
         CommandClear(c) \/ CommandGen(c)
  PROVE  AcceptedOwned' /\ Tun!Renew
<1>1. UNCHANGED minted /\ Tokens' \subseteq Tokens
  BY CommandOnce DEF CommandStep
<1>2. AcceptedOwned
  BY DEF TunnelInv
<1>3. session' = [a \in NetAddr |-> NoRemote]
  BY DEF CommandClear, CommandGen, Renewed
<1>4. \A a \in NetAddr, m \in NodeID : session'[a][m] = None
  BY <1>3 DEF NoRemote
<1>5. Nodes' \subseteq NetAddr
  BY DEF Nodes
<1>6. AcceptedOwned'
  BY <1>1, <1>2, <1>4, <1>5, AcceptedLeft
<1>7. \A a \in NetAddr : Tunnels'[a] = Tun!NoTunnel
  <2>1. \A a \in NetAddr, m \in NodeID : TunnelOf(session'[a][m]) = None
    BY <1>4 DEF TunnelOf
  <2>2. QED
    BY <2>1 DEF Tunnels, Tun!NoTunnel
<1>8. QED
  BY <1>1, <1>6, <1>7, RenewingStep

(* A tunnel opened is still one.                                            *)
LEMMA OpensTunnel ==
  ASSUME NEW id \in SessionID, NEW o \in BOOLEAN
  PROVE  /\ [id |-> id, open |-> o] # None
         /\ [[id |-> id, open |-> o] EXCEPT !.open = TRUE] =
              [id |-> id, open |-> TRUE]
<1> DEFINE t == [id |-> id, open |-> o]
<1>1. t \in [id : SessionID, open : BOOLEAN]
  BY Zenon
<1>2. ASSUME NEW x, NEW y
      PROVE  [[id |-> id, open |-> x] EXCEPT !.open = y] =
               [id |-> id, open |-> y]
  OBVIOUS
<1>3. QED
  BY <1>1, <1>2, TunnelAssumption

(* net load takes every session for one that both sides have.               *)
LEMMA ReloadShakes ==
  ASSUME NEW c \in Commands, TunnelInv, CommandReload(c)
  PROVE  AcceptedOwned' /\ Tun!Load
<1>1. /\ UNCHANGED <<minted, node_id>>
      /\ ToSend' = {} /\ ToRead' = {} /\ ToParse' = {}
  BY CommandOnce DEF CommandStep, CommandReload
<1>2. NodeTypeOK /\ AcceptedOwned
  BY DEF TunnelInv, PairInv, MapInv, IInv, TypeOK
<1>3. Nodes' = Nodes /\ Nodes \subseteq NetAddr
  BY <1>1 DEF Nodes
<1>4. \A a \in NetAddr, m \in NodeID :
        /\ session'[a][m] = Unsaved(session[a][m])
        /\ session[a][m] \in Session \cup {None}
  BY <1>2 DEF CommandReload, NodeTypeOK
<1>5. ASSUME NEW s \in Session \cup {None}
      PROVE  /\ Unsaved(s) # None => Unsaved(s).ping_sent = None
             /\ TunnelOf(Unsaved(s)) = Tun!Opened(TunnelOf(s))
  <2>1. CASE s = None
    BY <2>1 DEF Unsaved, TunnelOf, Tun!Opened
  <2>2. CASE s # None
    <3> DEFINE u == [s EXCEPT !.ping_sent = None,
                              !.last = [k \in Limited |-> None]]
               o == s.ping_sent = None
               t == [id |-> s.session_id, open |-> o]
    <3>1. s \in Session
      BY <2>2
    <3>2. /\ u \in Session /\ u.ping_sent = None
          /\ u.session_id = s.session_id
      BY <3>1 DEF Session
    <3>3. u # None /\ Unsaved(s) = u
      BY <2>2, <3>2, NoneIsNoValue DEF Unsaved
    <3> HIDE DEF u
    <3>4. TunnelOf(u) = [id |-> s.session_id, open |-> TRUE]
      BY <3>2, <3>3 DEF TunnelOf
    <3>5. o \in BOOLEAN /\ s.session_id \in SessionID
      BY <3>1 DEF Session
    <3>6. TunnelOf(s) = t
      BY <2>2 DEF TunnelOf
    <3> HIDE DEF o
    <3>7. t # None /\ [t EXCEPT !.open = TRUE] = [id |-> s.session_id,
                                                 open |-> TRUE]
      BY <3>5, OpensTunnel
    <3> HIDE DEF t
    <3>8. Tun!Opened(t) = [id |-> s.session_id, open |-> TRUE]
      BY <3>7 DEF Tun!Opened
    <3>9. QED
      BY <3>2, <3>3, <3>4, <3>6, <3>8
  <2>3. QED
    BY <2>1, <2>2
<1>6. AcceptedOwned'
  BY <1>1, <1>2, <1>3, <1>4, <1>5, AcceptedLeft
<1>7. \A kind : InHand(kind)' = {}
  <2>1. \A n \in NetAddr : DOMAIN Wire'[n] = {}
    BY DEF CommandReload, Wire
  <2>2. Tokens' = {}
    BY <1>1, <2>1 DEF Tokens, OnTheWay
  <2>3. QED
    BY <2>2 DEF InHand, OfType
<1>8. Tunnels' = [a \in NetAddr |-> [m \in NodeID |-> Tun!Opened(Tunnels[a][m])]]
  <2>1. ASSUME NEW a \in NetAddr, NEW m \in NodeID
        PROVE  Tunnels'[a][m] = Tun!Opened(Tunnels[a][m])
    <3>1. Tun!Opened(None) = None
      BY DEF Tun!Opened
    <3>2. TunnelOf(session'[a][m]) = Tun!Opened(TunnelOf(session[a][m]))
      BY <1>4, <1>5
    <3>3. QED
      BY <1>3, <3>1, <3>2 DEF Tunnels
  <2>2. Tunnels' = [a \in NetAddr |-> [m \in NodeID |-> Tunnels'[a][m]]]
    BY DEF Tunnels
  <2>3. QED
    BY <2>1, <2>2
<1>9. QED
  BY <1>1, <1>6, <1>7, <1>8 DEF Tun!Load

(* Every command is one of these, or leaves the tunnels alone.              *)
LEMMA CommandShakes ==
  ASSUME NEW c \in Commands, TunnelInv, NodeTypeOK', CommandStep(c)
  PROVE  Once' /\ AcceptedOwned' /\ (Tun!Lose \/ Tun!Renew \/ Tun!Load)
<1>1. UNCHANGED minted /\ Once' /\ Tokens' \subseteq Tokens
  BY CommandOnce
<1>2. CASE CommandNode(c) \/ CommandTest(c)
  <2>1. UNCHANGED <<node_id, session>>
    BY <1>2 DEF CommandNode, CommandTest
  <2>2. QED
    BY <1>1, <2>1, LosingStep DEF SameSessions, TunnelInv
<1>3. QED
  BY <1>1, <1>2, AddDelShakes, RenewedShakes, ReloadShakes DEF CommandStep

-----------------------------------------------------------------------------
(* Theorem                                                                  *)

(* Every step keeps the invariant and is one of a tunnel's.                 *)
LEMMA NextShakes == TunnelInv /\ [Next]_vars => TunnelInv' /\ [Tun!Next]_(Tun!vars)
<1> SUFFICES ASSUME TunnelInv, [Next]_vars
             PROVE  Once' /\ AcceptedOwned' /\ [Tun!Next]_(Tun!vars)
  BY NextKeepsPairs DEF TunnelInv
<1>1. CASE \E n \in NetAddr : Tick(n)
  <2>1. PICK n \in NetAddr : Tick(n)
    BY <1>1
  <2>2. Once' /\ AcceptedOwned' /\ Shakes(n)
    BY <2>1, NodeStepShakes, OtherTickShakes DEF Tick, Shakes
  <2>3. QED
    BY <2>2 DEF Shakes, Tun!Next
<1>2. CASE \E c \in Commands : CommandStep(c)
  <2>1. NodeTypeOK'
    BY NextKeepsPairs DEF TunnelInv, PairInv, MapInv, IInv, TypeOK
  <2>2. QED
    BY <1>2, <2>1, CommandShakes DEF Tun!Next
<1>3. CASE AgendaStep \/ Stop \/ UNCHANGED vars
  <2>1. UNCHANGED <<node_id, session, rx, work, outgoing, minted, packet_map>>
    BY <1>3 DEF AgendaStep, Stop, vars
  <2>2. UNCHANGED Wire
    BY <2>1 DEF Wire
  <2>3. Once' /\ Tokens' \subseteq Tokens
    BY <2>1, <2>2, UntouchedOnce DEF TunnelInv
  <2>4. QED
    BY <2>1, <2>3, LosingStep DEF SameSessions, TunnelInv, Tun!Next
<1>4. QED
  BY <1>1, <1>2, <1>3 DEF Next

(* At first there is neither a handshake nor a tunnel.                      *)
LEMMA InitTunnels == Init => TunnelInv /\ Tun!Init
<1> SUFFICES ASSUME Init
             PROVE  TunnelInv /\ Tun!Init
  OBVIOUS
<1>1. PairInv
  BY InitPairs
<1>2. \A a \in NetAddr, m \in NodeID : session[a][m] = None
  BY DEF Init, NoRemote
<1>3. /\ OnTheWay = {} /\ ToSend = {} /\ ToRead = {} /\ ToParse = {}
      /\ WireApart /\ SentApart /\ ParsedApart
  <2>1. \A n \in NetAddr : DOMAIN Wire[n] = {}
    BY DEF Init, Wire
  <2>2. outgoing = <<>> /\ rx = None /\ work = <<>>
    BY DEF Init
  <2>3. QED
    BY <2>1, <2>2 DEF OnTheWay, ToSend, ToRead, ToParse, WireApart,
                      SentApart, ParsedApart
<1>4. Tokens = {}
  BY <1>3 DEF Tokens
<1>5. Once
  BY <1>3, <1>4 DEF Once, PlacesApart, Apart, Known
<1>6. AcceptedOwned
  <2>1. Nodes \subseteq NetAddr
    BY DEF Nodes
  <2>2. QED
    BY <1>2, <2>1 DEF AcceptedOwned
<1>7. \A kind : InHand(kind) = {}
  BY <1>4 DEF InHand, OfType
<1>8. Tunnels = [n \in NetAddr |-> Tun!NoTunnel]
  <2>1. \A a \in NetAddr, m \in NodeID : TunnelOf(session[a][m]) = None
    BY <1>2 DEF TunnelOf
  <2>2. QED
    BY <2>1 DEF Tunnels, Tun!NoTunnel
<1>9. node_id \in [NetAddr -> NodeID \cup {None}] /\ minted = <<>>
  BY <1>1 DEF PairInv, MapInv, IInv, TypeOK, NodeTypeOK, Init
<1>10. QED
  BY <1>1, <1>5, <1>6, <1>7, <1>8, <1>9 DEF TunnelInv, Tun!Init

(* The network keeps what Tunnel promises of every handshake, however its   *)
(* packets overtake each other, are carried inside others or are lost, and  *)
(* whoever is added, deleted, renewed or loaded meanwhile.                  *)
THEOREM NetSimImplementsTunnel == Spec => TunnelPromise
BY InitTunnels, NextShakes, PTL DEF Spec, TunnelPromise, Tun!Spec
=============================================================================
