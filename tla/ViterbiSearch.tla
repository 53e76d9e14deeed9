---------------------------- MODULE ViterbiSearch ----------------------------
(***************************************************************************)
(* A caller that builds a lattice with arbitrary calls of addTransition    *)
(* between beginTransitions and endTransitions, and the paths it may be    *)
(* given.                                                                  *)
(***************************************************************************)
EXTENDS Viterbi, FiniteSets

CONSTANTS
  K,          \* the states are 0 .. K-1
  MaxCost,    \* the largest cost of a transition
  MaxLayers,  \* bound on the calls of beginTransitions
  MaxAdded    \* bound on the transitions of a layer

ASSUME SearchBounds == K \in Nat /\ MaxCost \in Nat

VARIABLES
  lattice,    \* cost and src, for the layers up to index
  mode,       \* 1 between beginTransitions and endTransitions
  added       \* the transitions the caller gave, layer by layer

searchVars == <<lattice, mode, added>>

States == 0 .. K - 1

SearchInit == lattice = <<>> /\ mode = 0 /\ added = <<>>

beginTransitions ==
  /\ mode = 0 /\ Len(lattice) < MaxLayers
  /\ mode' = 1
  /\ lattice' = Append(lattice, NewLayer(K))
  /\ added' = Append(added, {})

AddTransition(s0, s1, c) ==
  /\ mode = 1
  /\ Cardinality(added[Len(added)]) < MaxAdded
  /\ lattice' = addTransition(lattice, s0, s1, c)
  /\ added' = [added EXCEPT ![Len(added)] = @ \cup {<<s0, s1, c>>}]
  /\ UNCHANGED mode

endTransitions ==
  /\ mode = 1
  /\ mode' = 0
  /\ UNCHANGED <<lattice, added>>

SearchNext == \/ beginTransitions \/ endTransitions
              \/ \E s0, s1 \in States, c \in 0 .. MaxCost : AddTransition(s0, s1, c)

SearchSpec == SearchInit /\ [][SearchNext]_searchVars
-----------------------------------------------------------------------------
(* The ways through the first n layers: in layer i from t[i][1] to         *)
(* t[i][2], each starting where the one before ended.                      *)
Ways(n) ==
  {t \in [1 .. n -> UNION {added[i] : i \in 1 .. n}] :
     \A i \in 1 .. n : t[i] \in added[i] /\ (i > 1 => t[i][1] = t[i - 1][2])}

CostOf(t) ==
  LET sum[i \in 0 .. Len(t)] == IF i = 0 THEN 0 ELSE sum[i - 1] + t[i][3]
  IN sum[Len(t)]

(* Whenever the caller may ask for the path (Viterbi::length and getPath   *)
(* end the transitions first) and the last layer is reached at all, the    *)
(* path is a way through the lattice, and none is cheaper; the path and    *)
(* the transitions agree although costs were relaxed in any order.         *)
PathIsCheapest ==
  mode = 0 /\ lattice # <<>> =>
    LET n == Len(lattice)
        ways == Ways(n)
        path == calculatePath(lattice)
    IN ways # {} =>
         \E t \in ways : /\ \A i \in 1 .. n : t[i][2] = path[i]
                         /\ \A u \in ways : CostOf(t) <= CostOf(u)

(* A state of the last layer is marked as reached exactly when some way    *)
(* leads there, and its cost is then the least.                            *)
ReachedIsReachable ==
  lattice # <<>> =>
    LET n == Len(lattice)
        ways == Ways(n)
    IN \A s \in States :
         LET there == {t \in ways : t[n][2] = s}
         IN /\ (lattice[n][s].src # -1) = (there # {})
            /\ there # {} => \E t \in there : /\ CostOf(t) = lattice[n][s].cost
                                              /\ \A u \in there : CostOf(t) <= CostOf(u)
=============================================================================
