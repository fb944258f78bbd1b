------------------------------ MODULE MCGreedy ------------------------------
(***************************************************************************)
(* Four nodes for the routing of Greedy.  No two are equally far from a     *)
(* third, and no three on a line.  Three are so near to each other that the *)
(* distance measured between them may be 0.                                 *)
(***************************************************************************)
EXTENDS Greedy

Scattered ==
  [n \in NodeID |-> <<<<0, 0>>, <<2, 1>>, <<0, 3>>, <<9, 4>>>>[n + 1]]

(* Packets to a node of a higher number were early, the others took as long *)
(* as the distance.                                                         *)
Least(S) == CHOOSE x \in S : \A y \in S : x <= y
Plain(a, b) == CHOOSE d \in Truncated(Scattered[a], Scattered[b]) : TRUE
Uphill ==
  [e \in NodeID \X NodeID |->
     IF e[1] = e[2] THEN 0
     ELSE IF e[1] < e[2]
       THEN LET l == Least(Latencies(Plain(e[1], e[2])))
            IN  (2 * l - 1) \div 2
     ELSE (2 * Plain(e[1], e[2]) - 1) \div 2]
EarlyUphill == {Uphill}
=============================================================================
