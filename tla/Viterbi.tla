------------------------------- MODULE Viterbi -------------------------------
(***************************************************************************)
(* The class Viterbi: the cheapest path through a lattice of states, built *)
(* layer by layer.  A layer maps a state to the least cost of reaching it  *)
(* and to the state it is then reached from, -1 if it is not reached.      *)
(***************************************************************************)
EXTENDS Integers, Sequences

Unreached == [cost |-> 0, src |-> -1]
NewLayer(K) == [s \in 0 .. K - 1 |-> Unreached]

(* Mutant: whether s0 was reached is not asked.                            *)
addTransitionUnsourced(layers, s0, s1, c) ==
  LET n == Len(layers)
      total == c + (IF n = 1 THEN 0 ELSE layers[n - 1][s0].cost)
      here == layers[n][s1]
  IN IF here.src = -1 \/ total < here.cost
     THEN [layers EXCEPT ![n][s1] = [cost |-> total, src |-> s0]]
     ELSE layers

(* A step of cost c from s0, a state of the last layer but one, to s1, a   *)
(* state of the last layer.  Of two ways of the same cost the first added  *)
(* is kept.                                                                *)
addTransition(layers, s0, s1, c) ==
  LET n == Len(layers)
      sourced == n = 1 \/ layers[n - 1][s0].src # -1
      total == c + (IF n = 1 THEN 0 ELSE layers[n - 1][s0].cost)
      here == layers[n][s1]
  IN IF sourced /\ (here.src = -1 \/ total < here.cost)
     THEN [layers EXCEPT ![n][s1] = [cost |-> total, src |-> s0]]
     ELSE layers

(* Mutant: the first state that is reached, of whatever cost.              *)
BestFirst(layer) ==
  LET reached == {s \in DOMAIN layer : layer[s].src # -1}
  IN CHOOSE j \in reached : \A i \in reached : j <= i

(* The first of the states of least cost in the last layer.                *)
Best(layer) ==
  LET reached == {s \in DOMAIN layer : layer[s].src # -1}
  IN CHOOSE j \in reached : \A i \in reached :
       layer[j].cost < layer[i].cost \/ (layer[j].cost = layer[i].cost /\ j <= i)

(* The path, read back from its end: its i-th state is in layer i.         *)
calculatePath(layers) ==
  LET n == Len(layers)
      path[i \in 1 .. n] == IF i = n THEN Best(layers[n])
                            ELSE layers[i + 1][path[i + 1]].src
  IN path
=============================================================================
