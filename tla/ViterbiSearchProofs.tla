------------------------- MODULE ViterbiSearchProofs -------------------------
(***************************************************************************)
(* Viterbi finds a cheapest path, whatever transitions it is given and in  *)
(* whatever order, in lattices of any size.                                *)
(***************************************************************************)
EXTENDS ViterbiSearch, HelperProofs

Transition == States \X States \X Nat

SearchType ==
  /\ lattice \in Seq(LayersOf(K))
  /\ added \in Seq(SUBSET Transition)
  /\ Len(added) = Len(lattice)
  /\ mode \in {0, 1} /\ (mode = 1 => lattice # <<>>)

(* The transitions into state s of layer i that start where something is   *)
(* reached, and the cost of getting to s with one of them.                 *)
Sourced(i, t) == i = 1 \/ lattice[i - 1][t[1]].src # -1
Entering(i, s) == {t \in added[i] : t[2] = s /\ Sourced(i, t)}
Total(i, t) == t[3] + (IF i = 1 THEN 0 ELSE lattice[i - 1][t[1]].cost)

(* What a layer says of a state is right with regard to the layer before.  *)
Relaxed(i, s) ==
  /\ lattice[i][s].src # -1 =>
       \E t \in Entering(i, s) : t[1] = lattice[i][s].src /\ Total(i, t) = lattice[i][s].cost
  /\ \A t \in Entering(i, s) : lattice[i][s].src # -1 /\ lattice[i][s].cost <= Total(i, t)

SearchInv == SearchType /\ \A i \in 1 .. Len(lattice), s \in States : Relaxed(i, s)

-----------------------------------------------------------------------------
LEMMA InitSearch == SearchInit => SearchInv
<1> SUFFICES ASSUME SearchInit PROVE SearchInv
  OBVIOUS
<1>1. SearchType
  BY DEF SearchInit, SearchType
<1>2. 1 .. Len(lattice) = {}
  BY DEF SearchInit
<1> QED BY <1>1, <1>2 DEF SearchInv

(* A layer that stays, after a layer that stays and with the same          *)
(* transitions, stays right.                                               *)
LEMMA KeptLayer ==
  ASSUME NEW i \in 1 .. Len(lattice), NEW s \in States, Relaxed(i, s),
         lattice'[i] = lattice[i], added'[i] = added[i],
         i > 1 => lattice'[i - 1] = lattice[i - 1]
  PROVE  Relaxed(i, s)'
<1>1. \A t : Sourced(i, t)' <=> Sourced(i, t)
  BY DEF Sourced
<1>2. \A t : Total(i, t)' = Total(i, t)
  BY DEF Total
<1>3. Entering(i, s)' = Entering(i, s)
  BY <1>1 DEF Entering
<1> QED BY <1>2, <1>3 DEF Relaxed

LEMMA BeginKeeps ==
  ASSUME K \in Nat, SearchInv, beginTransitions
  PROVE  SearchInv'
<1> DEFINE n == Len(lattice)
<1> USE DEF SearchInv
<1>1. NewLayer(K) \in LayersOf(K)
  BY DEF NewLayer, LayersOf, Unreached
<1>2. SearchType'
  BY <1>1 DEF SearchType, beginTransitions
<1>3. /\ n \in Nat /\ Len(lattice') = n + 1
      /\ lattice'[n + 1] = NewLayer(K) /\ added'[n + 1] = {}
      /\ \A i \in 1 .. n : lattice'[i] = lattice[i] /\ added'[i] = added[i]
  BY DEF SearchType, beginTransitions
<1>4. ASSUME NEW i \in 1 .. n + 1, NEW s \in States
      PROVE  Relaxed(i, s)'
  <2>1. CASE i \in 1 .. n
    <3>1. i > 1 => i - 1 \in 1 .. n
      BY <2>1, <1>3
    <3> QED BY <2>1, <3>1, <1>3, KeptLayer
  <2>2. CASE i = n + 1
    <3>1. Entering(i, s)' = {}
      BY <2>2, <1>3 DEF Entering
    <3>2. lattice'[i][s].src = -1
      BY <2>2, <1>3 DEF NewLayer, Unreached, States
    <3> QED BY <3>1, <3>2 DEF Relaxed
  <2> QED BY <2>1, <2>2, <1>3
<1> QED BY <1>2, <1>3, <1>4

(* The caller gives a transition: of the states of the last layer only the *)
(* one that it leads to may change, and for the better.                    *)
LEMMA AddKeeps ==
  ASSUME K \in Nat, MaxCost \in Nat, SearchInv,
         NEW s0 \in States, NEW s1 \in States, NEW c \in 0 .. MaxCost,
         AddTransition(s0, s1, c)
  PROVE  SearchInv'
<1> DEFINE n == Len(lattice)
<1> DEFINE new == <<s0, s1, c>>
<1> DEFINE better == /\ Sourced(n, new)
                     /\ lattice[n][s1].src = -1 \/ Total(n, new) < lattice[n][s1].cost
<1> USE DEF SearchInv
<1>1. /\ n \in Nat \ {0} /\ n \in 1 .. n /\ Len(added) = n /\ lattice \in Seq(LayersOf(K))
      /\ added \in Seq(SUBSET Transition) /\ mode = 1
  BY DEF SearchType, AddTransition
<1>2. new \in Transition /\ new[1] = s0 /\ new[2] = s1 /\ new[3] = c
  BY DEF Transition
<1>3. Total(n, new) \in Nat
  <2>1. n # 1 => n - 1 \in 1 .. n
    BY <1>1
  <2>2. n # 1 => lattice[n - 1] \in LayersOf(K)
    BY <1>1, <2>1
  <2>3. n # 1 => lattice[n - 1][s0].cost \in Nat
    BY <2>2 DEF LayersOf, States
  <2> QED BY <2>3, <1>2 DEF Total
<1>4. lattice' = IF better THEN [lattice EXCEPT ![n][s1] = [cost |-> Total(n, new), src |-> s0]]
                ELSE lattice
  BY <1>2 DEF AddTransition, addTransition, Sourced, Total
<1>5. added' = [added EXCEPT ![n] = added[n] \cup {new}] /\ mode' = mode
  BY <1>1 DEF AddTransition
<1> HIDE DEF new, better
<1>6. \A i \in 1 .. n : lattice[i] \in LayersOf(K) /\ added[i] \in SUBSET Transition
  BY <1>1
<1>7. /\ lattice' \in Seq(LayersOf(K)) /\ Len(lattice') = n
      /\ \A i \in 1 .. n : i # n => lattice'[i] = lattice[i]
      /\ \A s \in States : s # s1 => lattice'[n][s] = lattice[n][s]
      /\ lattice'[n][s1] = IF better THEN [cost |-> Total(n, new), src |-> s0]
                          ELSE lattice[n][s1]
  <2>1. CASE better
    <3> DEFINE layer == [lattice[n] EXCEPT ![s1] = [cost |-> Total(n, new), src |-> s0]]
    <3>1. layer \in LayersOf(K)
      BY Zenon, <1>1, <1>6, <1>3 DEF LayersOf, States
    <3>2. lattice' = [lattice EXCEPT ![n] = layer]
      BY <1>4, <2>1
    <3>3. /\ \A s \in States : s # s1 => layer[s] = lattice[n][s]
          /\ layer[s1] = [cost |-> Total(n, new), src |-> s0]
      BY <1>1, <1>6 DEF LayersOf, States
    <3> HIDE DEF layer
    <3>4. lattice' \in Seq(LayersOf(K)) /\ Len(lattice') = n /\ lattice'[n] = layer
      BY <3>1, <3>2, <1>1
    <3>5. \A i \in 1 .. n : i # n => lattice'[i] = lattice[i]
      BY <3>2, <1>1
    <3> QED BY <3>3, <3>4, <3>5, <2>1
  <2>2. CASE ~better
    BY <1>4, <2>2, <1>1
  <2> QED BY <2>1, <2>2
<1>8. /\ added' \in Seq(SUBSET Transition) /\ Len(added') = n
      /\ \A i \in 1 .. n : i # n => added'[i] = added[i]
      /\ added'[n] = added[n] \cup {new}
  BY <1>1, <1>2, <1>5, <1>6
<1>9. SearchType'
  <2>1. lattice' # <<>>
    BY <1>7, <1>1
  <2> QED BY <1>5, <1>7, <1>8, <2>1 DEF SearchType
<1>10. ASSUME NEW i \in 1 .. n, NEW s \in States, i # n
       PROVE  Relaxed(i, s)'
  <2>1. i > 1 => i - 1 \in 1 .. n /\ i - 1 # n
    BY <1>1, <1>10
  <2> QED BY <1>7, <1>8, <1>10, <2>1, <1>1, KeptLayer
<1>11. /\ \A t : Sourced(n, t)' <=> Sourced(n, t)
       /\ \A t : Total(n, t)' = Total(n, t)
  <2>1. n = 1 \/ lattice'[n - 1] = lattice[n - 1]
    BY <1>1, <1>7
  <2> QED BY Zenon, <2>1, <1>7 DEF Sourced, Total
<1>12. \A s \in States : s # s1 => Entering(n, s)' = Entering(n, s)
  BY <1>2, <1>8, <1>7, <1>11 DEF Entering
<1>13. Entering(n, s1)' = Entering(n, s1) \cup (IF Sourced(n, new) THEN {new} ELSE {})
  BY <1>2, <1>8, <1>7, <1>11 DEF Entering
<1>14. ASSUME NEW s \in States, s # s1
       PROVE  Relaxed(n, s)'
  <2>1. Relaxed(n, s)
    BY <1>1
  <2> QED BY <2>1, <1>7, <1>11, <1>12, <1>14 DEF Relaxed
<1>15. Relaxed(n, s1)'
  <2>1. Relaxed(n, s1)
    BY <1>1
  <2>2. \A t \in Entering(n, s1) : Total(n, t) \in Nat
    <3>1. n # 1 => n - 1 \in 1 .. n
      BY <1>1
    <3>2. n # 1 => lattice[n - 1] \in LayersOf(K)
      BY <1>6, <3>1
    <3>3. ASSUME NEW t \in Entering(n, s1)
          PROVE  t[1] \in States /\ t[3] \in Nat
      BY <1>1, <1>6 DEF Entering, Transition
    <3>4. ASSUME NEW t \in Entering(n, s1)
          PROVE  n # 1 => lattice[n - 1][t[1]].cost \in Nat
      BY <3>2, <3>3 DEF LayersOf, States
    <3> QED BY <3>3, <3>4 DEF Total
  <2>3. lattice[n][s1].cost \in Nat
    BY <1>1, <1>6 DEF LayersOf, States
  <2>4. CASE better
    <3>1. lattice'[n][s1].src = s0 /\ lattice'[n][s1].cost = Total(n, new) /\ s0 # -1
      BY <1>7, <2>4 DEF States
    <3>2. new \in Entering(n, s1)'
      BY <1>13, <2>4 DEF better
    <3>3. ASSUME NEW t \in Entering(n, s1)
          PROVE  Total(n, new) <= Total(n, t)
      <4>1. lattice[n][s1].src # -1 /\ lattice[n][s1].cost <= Total(n, t)
        BY <2>1 DEF Relaxed
      <4>2. Total(n, new) < lattice[n][s1].cost
        BY <4>1, <2>4 DEF better
      <4> QED BY <4>1, <4>2, <2>2, <2>3, <1>3
    <3>4. \A t \in Entering(n, s1)' : Total(n, new) <= Total(n, t)
      BY <3>3, <1>13, <1>3
    <3> QED BY <3>1, <3>2, <3>4, <1>2, <1>11, <1>7 DEF Relaxed
  <2>5. CASE ~better
    <3>1. lattice'[n][s1] = lattice[n][s1]
      BY <1>7, <2>5
    <3>2. Sourced(n, new) => lattice[n][s1].src # -1 /\ lattice[n][s1].cost <= Total(n, new)
      BY <2>5, <1>3, <2>3 DEF better
    <3>3. /\ Entering(n, s1) \subseteq Entering(n, s1)'
          /\ \A t \in Entering(n, s1)' : t \in Entering(n, s1) \/ (t = new /\ Sourced(n, new))
      BY <1>13
    <3> QED BY <3>1, <3>2, <3>3, <2>1, <1>7, <1>11 DEF Relaxed
  <2> QED BY <2>4, <2>5
<1> QED BY <1>7, <1>9, <1>10, <1>14, <1>15

LEMMA SearchInvariant == SearchSpec => []SearchInv
<1> USE SearchBounds
<1>1. SearchInit => SearchInv
  BY InitSearch
<1>2. SearchInv /\ [SearchNext]_searchVars => SearchInv'
  <2> SUFFICES ASSUME SearchInv, [SearchNext]_searchVars PROVE SearchInv'
    OBVIOUS
  <2>1. CASE beginTransitions
    BY <2>1, BeginKeeps
  <2>2. CASE endTransitions
    <3>1. SearchType'
      BY <2>2 DEF endTransitions, SearchInv, SearchType
    <3>2. \A i \in 1 .. Len(lattice), s \in States : Relaxed(i, s)'
      BY <2>2, KeptLayer DEF endTransitions, SearchInv
    <3> QED BY <3>1, <3>2, <2>2 DEF SearchInv, endTransitions
  <2>3. CASE \E s0, s1 \in States, c \in 0 .. MaxCost : AddTransition(s0, s1, c)
    BY <2>3, AddKeeps
  <2>4. CASE UNCHANGED searchVars
    <3>1. SearchType'
      BY <2>4 DEF searchVars, SearchInv, SearchType
    <3>2. \A i \in 1 .. Len(lattice), s \in States : Relaxed(i, s)'
      BY <2>4, KeptLayer DEF searchVars, SearchInv
    <3> QED BY <3>1, <3>2, <2>4 DEF SearchInv, searchVars
  <2> QED BY <2>1, <2>2, <2>3, <2>4 DEF SearchNext
<1> QED BY <1>1, <1>2, PTL DEF SearchSpec

-----------------------------------------------------------------------------
(* The sums of which CostOf takes the last.                                *)
Sums(t, sum) ==
  sum = [i \in 0 .. Len(t) |-> IF i = 0 THEN 0 ELSE sum[i - 1] + t[i][3]]

SummedTo(t, k) ==
  \E sum : sum = [i \in 0 .. k |-> IF i = 0 THEN 0 ELSE sum[i - 1] + t[i][3]]

LEMMA CostIsSum ==
  ASSUME NEW t, Len(t) \in Nat
  PROVE  \E sum : Sums(t, sum) /\ CostOf(t) = sum[Len(t)]
<1> DEFINE S == {k \in Nat : SummedTo(t, k)}
<1>1. 0 \in S
  <2> DEFINE f == [i \in 0 .. 0 |-> 0]
  <2>1. f = [i \in 0 .. 0 |-> IF i = 0 THEN 0 ELSE f[i - 1] + t[i][3]]
    <3>1. \A i \in 0 .. 0 : i = 0
      OBVIOUS
    <3> QED BY <3>1
  <2> HIDE DEF f
  <2> QED BY <2>1 DEF SummedTo
<1>2. ASSUME NEW k \in S
      PROVE  k + 1 \in S
  <2>1. PICK f : f = [i \in 0 .. k |-> IF i = 0 THEN 0 ELSE f[i - 1] + t[i][3]]
    BY DEF SummedTo
  <2> DEFINE g == [i \in 0 .. k + 1 |-> IF i = k + 1 THEN f[i - 1] + t[i][3] ELSE f[i]]
  <2>2. k \in Nat /\ 0 .. k + 1 = 0 .. k \cup {k + 1} /\ k + 1 \notin 0 .. k
    OBVIOUS
  <2>3. \A i \in 0 .. k : g[i] = f[i]
    BY <2>2
  <2>4. g[k + 1] = f[k] + t[k + 1][3]
    BY <2>2
  <2> HIDE DEF g
  <2>5. ASSUME NEW i \in 0 .. k + 1
        PROVE  g[i] = IF i = 0 THEN 0 ELSE g[i - 1] + t[i][3]
    <3>1. CASE i = k + 1
      <4>1. i # 0 /\ i - 1 = k /\ k \in 0 .. k
        BY <3>1, <2>2
      <4> QED BY <3>1, <4>1, <2>3, <2>4
    <3>2. CASE i \in 0 .. k
      <4>1. i # 0 => i - 1 \in 0 .. k
        BY <3>2, <2>2
      <4>2. f[i] = IF i = 0 THEN 0 ELSE f[i - 1] + t[i][3]
        BY Zenon, <2>1, <3>2
      <4> QED BY <4>1, <4>2, <3>2, <2>3
    <3> QED BY <3>1, <3>2, <2>2
  <2>6. g = [i \in 0 .. k + 1 |-> IF i = 0 THEN 0 ELSE g[i - 1] + t[i][3]]
    BY <2>5 DEF g
  <2>7. SummedTo(t, k + 1)
    BY Zenon, <2>6 DEF SummedTo
  <2> QED BY <2>2, <2>7
<1>3. SummedTo(t, Len(t))
  <2>1. S = Nat
    <3> HIDE DEF S
    <3>1. S \in SUBSET Nat
      BY DEF S
    <3> QED BY <3>1, <1>1, <1>2, AllNumbers
  <2> QED BY <2>1
<1> DEFINE sum == CHOOSE sum : Sums(t, sum)
<1>4. \E f : Sums(t, f)
  BY <1>3 DEF SummedTo, Sums
<1>5. Sums(t, sum)
  BY <1>4
<1>6. CostOf(t) = sum[Len(t)]
  BY DEF CostOf, Sums
<1> QED BY Zenon, <1>5, <1>6

(* What a way through the layers is.                                       *)
LEMMA WayIs ==
  ASSUME SearchInv, lattice # <<>>, NEW t \in Ways(Len(lattice))
  PROVE  /\ Len(t) = Len(lattice)
         /\ \A i \in 1 .. Len(lattice) :
              /\ t[i] \in added[i] /\ t[i] \in Transition
              /\ i > 1 => t[i][1] = t[i - 1][2]
<1> DEFINE n == Len(lattice)
<1>1. n \in Nat /\ \A i \in 1 .. n : added[i] \in SUBSET Transition
  BY DEF SearchInv, SearchType
<1>2. t \in [1 .. n -> UNION {added[i] : i \in 1 .. n}]
  BY DEF Ways
<1>3. Len(t) = n
  BY <1>1, <1>2
<1>4. \A i \in 1 .. n : t[i] \in added[i] /\ (i > 1 => t[i][1] = t[i - 1][2])
  BY DEF Ways
<1> QED BY <1>1, <1>3, <1>4

(* A way is at least as dear as reaching the state that it ends in.        *)
LEMMA WaysAreReached ==
  ASSUME SearchInv, lattice # <<>>, NEW t \in Ways(Len(lattice))
  PROVE  LET there == lattice[Len(lattice)][t[Len(lattice)][2]]
         IN there.src # -1 /\ there.cost <= CostOf(t) /\ CostOf(t) \in Nat
<1> DEFINE n == Len(lattice)
<1> DEFINE at(i) == lattice[i][t[i][2]]
<1>1. n \in Nat \ {0} /\ \A i \in 1 .. n : lattice[i] \in LayersOf(K)
  BY DEF SearchInv, SearchType
<1>2. /\ Len(t) = n
      /\ \A i \in 1 .. n : /\ t[i] \in added[i] /\ t[i] \in Transition
                           /\ i > 1 => t[i][1] = t[i - 1][2]
  BY WayIs
<1>3. PICK sum : Sums(t, sum) /\ CostOf(t) = sum[n]
  BY <1>1, <1>2, CostIsSum
<1>4. sum[0] = 0 /\ \A i \in 1 .. n : sum[i] = sum[i - 1] + t[i][3]
  BY <1>1, <1>2, <1>3 DEF Sums
<1>5. \A i \in 1 .. n : t[i][2] \in States /\ t[i][3] \in Nat
  BY <1>2 DEF Transition
<1>6. \A i \in 1 .. n : at(i).cost \in Nat
  BY Zenon, <1>1, <1>5 DEF LayersOf, States
<1>7. \A i \in 1 .. n : Relaxed(i, t[i][2])
  BY <1>5 DEF SearchInv
<1> DEFINE good(i) == at(i).src # -1 /\ at(i).cost <= sum[i] /\ sum[i] \in Nat
<1> DEFINE S == {k \in Nat : k + 1 <= n => good(k + 1)}
<1>8. ASSUME NEW i \in 1 .. n, Sourced(i, t[i]), Total(i, t[i]) <= sum[i], sum[i] \in Nat,
             Total(i, t[i]) \in Nat
      PROVE  good(i)
  <2>1. t[i] \in Entering(i, t[i][2])
    BY <1>2, <1>8 DEF Entering
  <2>2. at(i).src # -1 /\ at(i).cost <= Total(i, t[i])
    BY <1>7, <2>1 DEF Relaxed
  <2>3. at(i).cost \in Nat
    BY <1>6
  <2> HIDE DEF at
  <2> QED BY <2>2, <2>3, <1>8
<1>9. 0 \in S
  <2>1. 1 \in 1 .. n
    BY <1>1
  <2>2. Sourced(1, t[1]) /\ Total(1, t[1]) = t[1][3]
    BY <1>5, <2>1 DEF Sourced, Total
  <2>3. sum[1] = t[1][3] /\ t[1][3] \in Nat
    BY <1>4, <1>5, <2>1
  <2>4. good(1)
    <3> HIDE DEF good
    <3> QED BY <2>1, <2>2, <2>3, <1>8
  <2> HIDE DEF good
  <2> QED BY <2>4
<1>10. ASSUME NEW k \in S
       PROVE  k + 1 \in S
  <2>1. SUFFICES ASSUME k + 2 <= n PROVE good(k + 2)
    <3> HIDE DEF good
    <3>1. k \in Nat /\ (k + 1) + 1 = k + 2
      OBVIOUS
    <3> QED BY <3>1
  <2>2. /\ k \in Nat /\ k + 1 \in 1 .. n /\ k + 2 \in 1 .. n /\ (k + 2) - 1 = k + 1
        /\ k + 2 > 1 /\ k + 2 # 1
    BY <1>1, <2>1
  <2>3. good(k + 1)
    <3> HIDE DEF good
    <3> QED BY <2>2
  <2>4. t[k + 2][1] = t[k + 1][2]
    BY <1>2, <2>2
  <2>5. Sourced(k + 2, t[k + 2])
    BY <2>2, <2>3, <2>4 DEF Sourced
  <2>6. Total(k + 2, t[k + 2]) = t[k + 2][3] + at(k + 1).cost
    BY <2>2, <2>4 DEF Total
  <2>7. sum[k + 2] = sum[k + 1] + t[k + 2][3]
    BY <1>4, <2>2
  <2>8. t[k + 2][3] \in Nat /\ at(k + 1).cost \in Nat
    BY <1>5, <1>6, <2>2
  <2>9. Total(k + 2, t[k + 2]) <= sum[k + 2] /\ sum[k + 2] \in Nat /\ Total(k + 2, t[k + 2]) \in Nat
    <3>1. at(k + 1).cost <= sum[k + 1] /\ sum[k + 1] \in Nat
      BY <2>3
    <3> HIDE DEF at
    <3> QED BY <2>6, <2>7, <2>8, <3>1
  <2> HIDE DEF good
  <2> QED BY <1>8, <2>2, <2>5, <2>9
<1>11. S = Nat
  <2> HIDE DEF S
  <2>1. S \in SUBSET Nat
    BY DEF S
  <2> QED BY <2>1, <1>9, <1>10, AllNumbers
<1>12. good(n)
  <2>1. n - 1 \in Nat /\ (n - 1) + 1 = n /\ n <= n
    BY <1>1
  <2> HIDE DEF good
  <2> QED BY Zenon, <2>1, <1>11
<1> QED BY <1>3, <1>12

-----------------------------------------------------------------------------
(* States of the layers, each the one that the next is reached from.       *)
Chain(p) ==
  \A i \in 1 .. Len(lattice) : /\ p[i] \in Reached(lattice[i])
                               /\ i > 1 => p[i - 1] = lattice[i][p[i]].src

(* There is a way along them, and it costs what its last state costs.      *)
LEMMA WayAlong ==
  ASSUME SearchInv, lattice # <<>>, NEW p, Chain(p)
  PROVE  \E t \in Ways(Len(lattice)) :
           /\ \A i \in 1 .. Len(lattice) : t[i][2] = p[i]
           /\ CostOf(t) = lattice[Len(lattice)][p[Len(lattice)]].cost
<1> DEFINE n == Len(lattice)
<1> DEFINE at(i) == lattice[i][p[i]]
<1>1. n \in Nat \ {0} /\ \A i \in 1 .. n : lattice[i] \in LayersOf(K) /\ added[i] \in SUBSET Transition
  BY DEF SearchInv, SearchType
<1>2. \A i \in 1 .. n : /\ p[i] \in States /\ at(i).src # -1
                        /\ i > 1 => p[i - 1] = at(i).src
  BY Zenon, <1>1 DEF Chain, Reached, LayersOf, States
<1> DEFINE step(i) == CHOOSE t \in Entering(i, p[i]) : t[1] = at(i).src /\ Total(i, t) = at(i).cost
<1>3. ASSUME NEW i \in 1 .. n
      PROVE  /\ step(i) \in Entering(i, p[i])
             /\ step(i)[1] = at(i).src /\ Total(i, step(i)) = at(i).cost
  <2>1. Relaxed(i, p[i])
    BY <1>2 DEF SearchInv
  <2>2. \E t \in Entering(i, p[i]) : t[1] = at(i).src /\ Total(i, t) = at(i).cost
    BY <2>1, <1>2 DEF Relaxed
  <2> QED BY <2>2
<1> HIDE DEF step
<1> DEFINE t == [i \in 1 .. n |-> step(i)]
<1>4. \A i \in 1 .. n : t[i] \in added[i] /\ t[i] \in Transition /\ t[i][2] = p[i]
  BY <1>1, <1>3 DEF Entering
<1>5. \A i \in 1 .. n : i > 1 => t[i][1] = t[i - 1][2]
  <2> SUFFICES ASSUME NEW i \in 1 .. n, i > 1 PROVE t[i][1] = t[i - 1][2]
    OBVIOUS
  <2>1. i - 1 \in 1 .. n
    BY <1>1
  <2>2. t[i][1] = p[i - 1]
    BY <1>2, <1>3
  <2> QED BY <2>1, <2>2, <1>4
<1>6. t \in Ways(n)
  <2>1. t \in [1 .. n -> UNION {added[i] : i \in 1 .. n}]
    BY <1>4
  <2> HIDE DEF t
  <2> QED BY <2>1, <1>4, <1>5 DEF Ways
<1>7. \A i \in 1 .. n : Total(i, t[i]) = at(i).cost
  BY <1>3
<1> HIDE DEF t
<1>8. Len(t) = n
  BY <1>6, WayIs
<1>9. PICK sum : Sums(t, sum) /\ CostOf(t) = sum[n]
  BY <1>1, <1>8, CostIsSum
<1>10. sum[0] = 0 /\ \A i \in 1 .. n : sum[i] = sum[i - 1] + t[i][3]
  BY SMTT(30), <1>1, <1>8, <1>9 DEF Sums
<1>11. \A i \in 1 .. n : t[i][3] \in Nat /\ at(i).cost \in Nat
  BY Zenon, <1>1, <1>2, <1>4 DEF Transition, LayersOf, States
<1> DEFINE S == {k \in Nat : k + 1 <= n => sum[k + 1] = at(k + 1).cost}
<1> HIDE DEF at
<1>12. 0 \in S
  <2>1. 1 \in 1 .. n
    BY <1>1
  <2>2. Total(1, t[1]) = t[1][3]
    BY <1>11, <2>1 DEF Total
  <2>3. sum[1] = t[1][3]
    BY <1>10, <1>11, <2>1
  <2> QED BY <2>1, <2>2, <2>3, <1>7
<1>13. ASSUME NEW k \in S
       PROVE  k + 1 \in S
  <2>1. SUFFICES ASSUME k + 2 <= n PROVE sum[k + 2] = at(k + 2).cost
    <3>1. k \in Nat /\ (k + 1) + 1 = k + 2
      OBVIOUS
    <3> QED BY <3>1
  <2>2. /\ k \in Nat /\ k + 1 \in 1 .. n /\ k + 2 \in 1 .. n /\ (k + 2) - 1 = k + 1
        /\ k + 2 > 1 /\ k + 2 # 1 /\ k + 1 <= n
    BY <1>1, <2>1
  <2>3. sum[k + 1] = at(k + 1).cost
    BY <2>2
  <2>4. t[k + 2][1] = p[k + 1]
    BY <1>4, <1>5, <2>2
  <2>5. Total(k + 2, t[k + 2]) = t[k + 2][3] + at(k + 1).cost
    BY <2>2, <2>4 DEF Total, at
  <2>6. sum[k + 2] = sum[k + 1] + t[k + 2][3]
    BY <1>10, <2>2
  <2>7. t[k + 2][3] \in Nat /\ at(k + 1).cost \in Nat
    BY <1>11, <2>2
  <2>8. Total(k + 2, t[k + 2]) = at(k + 2).cost
    BY <1>7, <2>2
  <2> QED BY <2>3, <2>5, <2>6, <2>7, <2>8
<1>14. S = Nat
  <2> HIDE DEF S
  <2>1. S \in SUBSET Nat
    BY DEF S
  <2> QED BY <2>1, <1>12, <1>13, AllNumbers
<1>15. sum[n] = at(n).cost
  <2>1. n - 1 \in Nat /\ (n - 1) + 1 = n /\ n <= n
    BY <1>1
  <2> QED BY Zenon, <2>1, <1>14
<1> QED BY <1>4, <1>6, <1>9, <1>15 DEF at

LEMMA LatticeIsLinked ==
  ASSUME SearchInv
  PROVE  Linked(lattice, K)
<1>1. /\ lattice \in Seq(LayersOf(K)) /\ Len(lattice) \in Nat
      /\ \A i \in 1 .. Len(lattice) : lattice[i] \in LayersOf(K) /\ added[i] \in SUBSET Transition
  BY DEF SearchInv, SearchType
<1>2. ASSUME NEW i \in 2 .. Len(lattice), NEW s \in Reached(lattice[i])
      PROVE  lattice[i][s].src \in Reached(lattice[i - 1])
  <2>1. i \in 1 .. Len(lattice) /\ i - 1 \in 1 .. Len(lattice) /\ i # 1
    BY <1>1
  <2>2. s \in States /\ lattice[i][s].src # -1
    BY Zenon, <1>1, <2>1 DEF Reached, LayersOf, States
  <2>3. PICK t \in Entering(i, s) : t[1] = lattice[i][s].src
    BY <2>1, <2>2 DEF SearchInv, Relaxed
  <2>4. t[1] \in States /\ lattice[i - 1][t[1]].src # -1
    BY <1>1, <2>1 DEF Entering, Sourced, Transition
  <2>5. DOMAIN lattice[i - 1] = States
    BY <1>1, <2>1 DEF LayersOf, States
  <2> QED BY <2>3, <2>4, <2>5 DEF Reached
<1> QED BY <1>1, <1>2 DEF Linked

(* A state of the last layer that is reached has a chain that leads to it: *)
(* the path of the lattice that reaches no other.                          *)
LEMMA ChainTo ==
  ASSUME K \in Nat, SearchInv, lattice # <<>>, NEW s \in Reached(lattice[Len(lattice)])
  PROVE  \E p : Chain(p) /\ p[Len(lattice)] = s
<1> DEFINE n == Len(lattice)
<1> DEFINE last == [x \in 0 .. K - 1 |-> IF x = s THEN lattice[n][s] ELSE Unreached]
<1> DEFINE only == [lattice EXCEPT ![n] = last]
<1>1. /\ lattice \in Seq(LayersOf(K)) /\ n \in Nat \ {0} /\ n \in 1 .. n
      /\ lattice[n] \in LayersOf(K) /\ Linked(lattice, K)
  BY LatticeIsLinked DEF SearchInv, SearchType
<1>2. s \in 0 .. K - 1 /\ lattice[n][s].src # -1
  BY <1>1 DEF Reached, LayersOf
<1>3. last \in LayersOf(K)
  BY <1>1, <1>2 DEF LayersOf, Unreached
<1>4. Reached(last) = {s} /\ last[s] = lattice[n][s]
  BY <1>2 DEF Reached, Unreached
<1> HIDE DEF last
<1>5. /\ only \in Seq(LayersOf(K)) /\ Len(only) = n /\ only[n] = last
      /\ \A i \in 1 .. n : i # n => only[i] = lattice[i]
  BY <1>1, <1>3
<1>6. \A i \in 1 .. n : \A x \in Reached(only[i]) :
        x \in Reached(lattice[i]) /\ only[i][x] = lattice[i][x]
  BY Zenon, <1>4, <1>5
<1> HIDE DEF only
<1>7. Linked(only, K)
  <2>1. ASSUME NEW i \in 2 .. n, NEW x \in Reached(only[i])
        PROVE  only[i][x].src \in Reached(only[i - 1])
    <3>1. i \in 1 .. n /\ i - 1 \in 1 .. n /\ i - 1 # n
      BY <1>1
    <3>2. only[i][x].src = lattice[i][x].src /\ x \in Reached(lattice[i])
      BY <1>6, <3>1
    <3>3. lattice[i][x].src \in Reached(lattice[i - 1])
      BY <1>1, <3>2 DEF Linked
    <3> QED BY <1>5, <3>1, <3>2, <3>3
  <2> QED BY <1>5, <2>1 DEF Linked
<1>8. only # <<>> /\ Reached(only[Len(only)]) # {}
  BY Zenon, <1>1, <1>4, <1>5
<1> DEFINE p == calculatePath(only)
<1>9. \A i \in 1 .. n : p[i] \in Reached(only[i]) /\ (i > 1 => p[i - 1] = only[i][p[i]].src)
  <2>1. \A i \in 1 .. Len(only) : p[i] \in Reached(only[i]) /\ (i > 1 => p[i - 1] = only[i][p[i]].src)
    BY Zenon, <1>7, <1>8, PathIsReached
  <2> HIDE DEF p
  <2> QED BY <2>1, <1>5
<1> HIDE DEF p
<1>10. p[n] = s
  BY <1>1, <1>4, <1>5, <1>9
<1>11. Chain(p)
  BY <1>6, <1>9 DEF Chain
<1> QED BY <1>10, <1>11

(* A state of the last layer is marked as reached by addTransition exactly *)
(* if some way leads there, and the cost kept with it is the least of any  *)
(* way, for any number of states and layers and any costs.                 *)
THEOREM ReachedRightly == SearchSpec => []ReachedIsReachable
<1> USE SearchBounds
<1>1. SearchInv => ReachedIsReachable
  <2> SUFFICES ASSUME SearchInv, lattice # <<>> PROVE ReachedIsReachable
    BY DEF ReachedIsReachable
  <2> DEFINE n == Len(lattice)
  <2> DEFINE there(s) == {t \in Ways(n) : t[n][2] = s}
  <2>1. n \in 1 .. n /\ DOMAIN lattice[n] = States
    BY DEF SearchInv, SearchType, LayersOf, States
  <2>2. ASSUME NEW s \in States
        PROVE  /\ (lattice[n][s].src # -1) = (there(s) # {})
               /\ there(s) # {} => \E t \in there(s) :
                    /\ CostOf(t) = lattice[n][s].cost
                    /\ \A u \in there(s) : CostOf(t) <= CostOf(u)
    <3>1. ASSUME NEW u \in there(s)
          PROVE  lattice[n][s].src # -1 /\ lattice[n][s].cost <= CostOf(u)
      BY WaysAreReached
    <3>2. ASSUME lattice[n][s].src # -1
          PROVE  \E t \in there(s) : CostOf(t) = lattice[n][s].cost
      <4>1. s \in Reached(lattice[n])
        BY <3>2, <2>1 DEF Reached
      <4>2. PICK p : Chain(p) /\ p[n] = s
        BY <4>1, ChainTo
      <4>3. PICK t \in Ways(n) : /\ \A i \in 1 .. n : t[i][2] = p[i]
                                 /\ CostOf(t) = lattice[n][p[n]].cost
        BY <4>2, WayAlong
      <4> QED BY <4>2, <4>3, <2>1
    <3> HIDE DEF there
    <3> QED BY <3>1, <3>2
  <2> QED BY <2>2 DEF ReachedIsReachable
<1>2. SearchSpec => []SearchInv
  BY SearchInvariant
<1> QED BY <1>1, <1>2, PTL

(* The path that calculatePath reads back is a way through the lattice and *)
(* no way is cheaper, in whatever order addTransition was called, for any  *)
(* number of states and layers and any costs.                              *)
THEOREM CheapestPath == SearchSpec => []PathIsCheapest
<1> USE SearchBounds
<1>1. SearchInv => PathIsCheapest
  <2> DEFINE n == Len(lattice)
  <2> DEFINE path == calculatePath(lattice)
  <2> SUFFICES ASSUME SearchInv, lattice # <<>>, Ways(n) # {}
               PROVE  \E t \in Ways(n) : /\ \A i \in 1 .. n : t[i][2] = path[i]
                                         /\ \A u \in Ways(n) : CostOf(t) <= CostOf(u)
    BY DEF PathIsCheapest
  <2>1. n \in 1 .. n /\ lattice[n] \in LayersOf(K) /\ DOMAIN lattice[n] = States
    BY DEF SearchInv, SearchType, LayersOf, States
  <2>2. ASSUME NEW u \in Ways(n)
        PROVE  /\ u[n][2] \in Reached(lattice[n]) /\ lattice[n][u[n][2]].cost <= CostOf(u)
               /\ lattice[n][u[n][2]].cost \in Nat /\ CostOf(u) \in Nat
    <3>1. u[n][2] \in States
      BY <2>1, WayIs DEF Transition
    <3>2. lattice[n][u[n][2]].cost \in Nat
      BY <3>1, <2>1 DEF LayersOf, States
    <3> QED BY <3>1, <3>2, <2>1, WaysAreReached DEF Reached
  <2>3. Reached(lattice[n]) # {}
    BY <2>2
  <2>4. /\ path[n] = Best(lattice[n])
        /\ \A i \in 1 .. n : /\ path[i] \in Reached(lattice[i])
                             /\ i > 1 => path[i - 1] = lattice[i][path[i]].src
    BY Zenon, <2>3, LatticeIsLinked, PathIsReached
  <2> HIDE DEF path
  <2>5. Chain(path)
    BY <2>4 DEF Chain
  <2>6. PICK t \in Ways(n) : /\ \A i \in 1 .. n : t[i][2] = path[i]
                             /\ CostOf(t) = lattice[n][path[n]].cost
    BY <2>5, WayAlong
  <2>7. \A s \in Reached(lattice[n]) : lattice[n][path[n]].cost <= lattice[n][s].cost
    BY <2>1, <2>3, <2>4, BestIsLeast
  <2>8. ASSUME NEW u \in Ways(n)
        PROVE  CostOf(t) <= CostOf(u)
    <3>1. CostOf(t) <= lattice[n][u[n][2]].cost
      BY <2>2, <2>6, <2>7
    <3>2. lattice[n][u[n][2]].cost <= CostOf(u)
      BY <2>2
    <3>3. CostOf(t) \in Nat /\ lattice[n][u[n][2]].cost \in Nat /\ CostOf(u) \in Nat
      BY <2>2
    <3> QED BY <3>1, <3>2, <3>3
  <2> QED BY <2>6, <2>8
<1>2. SearchSpec => []SearchInv
  BY SearchInvariant
<1> QED BY <1>1, <1>2, PTL
=============================================================================
