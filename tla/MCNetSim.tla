------------------------------ MODULE MCNetSim ------------------------------
(***************************************************************************)
(* Small networks and the commands given to them, for TLC.  Node k starts   *)
(* at address k, so an identity is the address it is first found at.        *)
(***************************************************************************)
EXTENDS Properties

First(k) == [a \in NetAddr |-> IF a < k THEN a ELSE None]
Pair  == First(2)
Trio  == First(3)
Four  == First(4)

(* Positions.  In Spread both other nodes are at different distances from   *)
(* node 0, in Even at the same; Uneven is a chain of growing proximity.     *)
Spread == [a \in NetAddr |-> <<<<0, 0>>, <<2, 0>>, <<-4, 0>>>>[a + 1]]
Even   == [a \in NetAddr |-> <<<<0, 0>>, <<2, 0>>, <<-2, 0>>>>[a + 1]]
Star   ==
  [a \in NetAddr |-> <<<<0, 0>>, <<2, 0>>, <<-4, 0>>, <<5, 0>>>>[a + 1]]
Uneven ==
  [a \in NetAddr |-> <<<<0, 0>>, <<4, 0>>, <<7, 0>>, <<9, 0>>>>[a + 1]]
InSpread == {Spread}
InEven   == {Even}
InStar   == {Star}
InUneven == {Uneven}

(* A network generated anew draws its positions anew: in Farther the two    *)
(* nodes are not as near to each other as in Spread.                        *)
Farther == [a \in NetAddr |-> <<<<1, 2>>, <<4, 5>>>>[a + 1]]
NearOrFarther == {Spread, Farther}

(* Commands, with the rounds before one of which each is given; one that    *)
(* may wait until Never need not be given.                                  *)
Never == 1000
Boot(at, to, when) ==
  [type |-> "Bootstrap", at |-> at, id |-> to, addr |-> to, when |-> when]
Ask(type, at, id, when) ==
  [type |-> type, at |-> at, id |-> id, when |-> when]
Add(id, when) == [type |-> "add", id |-> id, when |-> when]
Del(at, when) == [type |-> "del", at |-> at, when |-> when]
Reload(when)  == [type |-> "reload", when |-> when]
Clear(when)   == [type |-> "clear", when |-> when]
Gen(number, when) == [type |-> "gen", number |-> number, when |-> when]
Test(at, id, when) == [type |-> "test", at |-> at, id |-> id, when |-> when]

(* Two nodes bootstrap onto each other, at once or one after the other.     *)
BothBootstrap == {Boot(1, 0, 0 .. 3), Boot(0, 1, 0 .. 3)}

(* The same, and then the network may be generated anew, while the handshakes *)
(* are on their way or after them.                                          *)
BothThenGen == BothBootstrap \cup {Gen(2, {4, 7, 20, Never})}

(* Both bootstrap, and one is also given the wrong NodeID for the other's   *)
(* address, bootstraps again and asks for a traversed session on top of the *)
(* direct one.                                                              *)
WrongID == [type |-> "Bootstrap", at |-> 1, id |-> 1, addr |-> 0,
            when |-> {0}]
Crossing ==
  BothBootstrap
    \cup {WrongID, Boot(0, 0, {2, Never}), Boot(1, 0, {4}),
          Ask("ConnectTraversed", 1, 0, {12, 16})}

(* Three nodes join through node 0, the second as the first does or after,  *)
(* the third while node 0 still introduces the others to each other.        *)
ManyJoin == {Boot(1, 0, {0}), Boot(2, 0, {1, 8}), Boot(3, 0, {12, 14})}

(* Each node joins through the one before it, and again once that one has   *)
(* published its coordinate; then node 0 is asked for others it has no      *)
(* session with.  The last may at first give a wrong address for the one it *)
(* wants, where another node does not answer.                               *)
Chain(r) ==
  {Boot(1, 0, {r}), Boot(2, 1, {r + 16}), Boot(3, 2, {r + 28})}
Astray == [type |-> "Bootstrap", at |-> 3, id |-> 2, addr |-> 0,
           when |-> {20, 25, Never}]
Traversal ==
  Chain(0) \cup Chain(42)
    \cup {Astray, Ask("ConnectTraversed", 0, 2, {90}),
          Ask("ConnectRouted", 0, 3, {90}), Ask("SendData", 0, 2, {126}),
          Test(0, 2, {132})}

(* Nodes come and go while handshakes are on their way, one takes the place *)
(* of another, or its NodeID while it is there, the network is saved and    *)
(* loaded, cleared or generated anew, and commands come before the node     *)
(* they are given to has joined.                                            *)
Lifecycle ==
  {Ask("ConnectRouted", 1, 0, {0}), Boot(1, 0, {0}), Boot(0, 1, 4 .. 5),
   Del(1, {4, 6, 7}), Add(2, 3 .. 7), Add(1, {8, Never}), Add(0, {8, Never}),
   Reload({2, 5, 8}), Boot(2, 0, {9}), Ask("ConnectTraversed", 2, 0, {9}),
   Test(1, 2, {14}), Ask("Notify", 0, 1, {26}), Clear({10, Never}),
   Gen(3, {10, 12, Never})}

(* One scenario each for what the code does not do as its comments say.  In *)
(* Raced a node is told to bootstrap onto another in the tick in which it   *)
(* is asked to by a WantPing; in LateJoin a node joins one that has a       *)
(* nearer session through the network.                                      *)
OneJoin  == {Boot(1, 0, {0})}
BothJoin == {Boot(1, 0, {0}), Boot(2, 0, {0, 2})}
TooEarly == BothBootstrap \cup {Ask("ConnectTraversed", 2, 0, {0})}
Raced    == {Boot(1, 0, {0}), Boot(2, 0, {6}), Boot(1, 2, {24})}
LateJoin ==
  Chain(0) \cup Chain(42)
    \cup {Ask("ConnectTraversed", 0, 2, {90}), Boot(3, 0, {126})}
=============================================================================
