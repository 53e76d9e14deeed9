---------------------------- MODULE HelperProofs ----------------------------
(***************************************************************************)
(* What the helpers return that the modules share: parts of sequences, and *)
(* the lattices of Viterbi, of any length.                                 *)
(***************************************************************************)
EXTENDS Viterbi, Selection, Functions, FiniteSetTheorems, WellFoundedInduction, TLAPS

(* A set of numbers has a least one.                                       *)
LEMMA LeastNumber ==
  ASSUME NEW S \in SUBSET Nat, S # {}
  PROVE  \E m \in S : \A k \in S : m <= k
<1>1. IsWellFoundedOn(OpToRel(<, Nat), Nat)
  BY Zenon, NatLessThanWellFounded
<1>2. PICK m \in S : \A k \in S : ~(<<k, m>> \in OpToRel(<, Nat))
  BY Zenon, <1>1, WFMin
<1>3. \A k \in S : ~(k < m)
  BY Zenon, <1>2 DEF OpToRel
<1> QED BY <1>3

(* Induction, for a set of numbers.                                        *)
LEMMA AllNumbers ==
  ASSUME NEW S \in SUBSET Nat, 0 \in S, \A k \in S : k + 1 \in S
  PROVE  S = Nat
<1>1. SUFFICES ASSUME Nat \ S # {} PROVE FALSE
  BY Zenon
<1>2. PICK m \in Nat \ S : \A k \in Nat \ S : m <= k
  BY Zenon, <1>1, LeastNumber
<1>3. m - 1 \in Nat /\ m - 1 \notin Nat \ S
  BY <1>2
<1> QED BY <1>3

(* Of what is counted in two numbers there is a least in the first, and in *)
(* the second of those that share the first.                               *)
LEMMA LeastPair ==
  ASSUME NEW S, S # {}, NEW f \in [S -> Nat], NEW g \in [S -> Nat]
  PROVE  \E x \in S : \A y \in S : f[x] < f[y] \/ (f[x] = f[y] /\ g[x] <= g[y])
<1>1. PICK c \in {f[x] : x \in S} : \A d \in {f[x] : x \in S} : c <= d
  <2>1. {f[x] : x \in S} \in SUBSET Nat /\ {f[x] : x \in S} # {}
    OBVIOUS
  <2> QED BY Zenon, <2>1, LeastNumber
<1> DEFINE T == {x \in S : f[x] = c}
<1>2. PICK d \in {g[x] : x \in T} : \A e \in {g[x] : x \in T} : d <= e
  <2>1. {g[x] : x \in T} \in SUBSET Nat /\ {g[x] : x \in T} # {}
    BY <1>1
  <2> QED BY Zenon, <2>1, LeastNumber
<1>3. PICK x \in T : g[x] = d
  BY <1>2
<1>4. ASSUME NEW y \in S
      PROVE  f[x] < f[y] \/ (f[x] = f[y] /\ g[x] <= g[y])
  <2>1. c <= f[y]
    BY <1>1
  <2>2. f[y] = c => g[x] <= g[y]
    BY <1>2, <1>3
  <2>3. f[x] = c /\ c \in Nat /\ f[y] \in Nat
    BY <1>1
  <2> QED BY <2>1, <2>2, <2>3
<1> QED BY <1>4
-----------------------------------------------------------------------------
Unrepeated(seq) == \A i, j \in 1 .. Len(seq) : seq[i] = seq[j] => i = j

LEMMA SetOfAppend ==
  ASSUME NEW X, NEW seq \in Seq(X), NEW x \in X
  PROVE  /\ Append(seq, x) \in Seq(X)
         /\ Range(Append(seq, x)) = Range(seq) \cup {x}
         /\ Unrepeated(seq) /\ x \notin Range(seq) => Unrepeated(Append(seq, x))
<1> DEFINE s == Append(seq, x)
<1>1. /\ s \in Seq(X) /\ Len(seq) \in Nat /\ Len(s) = Len(seq) + 1 /\ s[Len(seq) + 1] = x
      /\ \A i \in 1 .. Len(seq) : s[i] = seq[i]
      /\ DOMAIN s = 1 .. Len(seq) + 1 /\ DOMAIN seq = 1 .. Len(seq)
      /\ 1 .. Len(seq) + 1 = 1 .. Len(seq) \cup {Len(seq) + 1}
  OBVIOUS
<1> HIDE DEF s
<1>2. Range(s) = Range(seq) \cup {x}
  BY <1>1 DEF Range
<1>3. ASSUME Unrepeated(seq), x \notin Range(seq)
      PROVE  Unrepeated(s)
  <2>1. \A i \in 1 .. Len(seq) : seq[i] # x
    BY <1>1, <1>3 DEF Range
  <2> QED BY <1>1, <1>3, <2>1 DEF Unrepeated
<1> QED BY <1>1, <1>2, <1>3 DEF s

LEMMA SetOfConcat ==
  ASSUME NEW X, NEW a \in Seq(X), NEW b \in Seq(X)
  PROVE  /\ a \o b \in Seq(X)
         /\ Range(a \o b) = Range(a) \cup Range(b)
         /\ Unrepeated(a) /\ Unrepeated(b) /\ Range(a) \cap Range(b) = {}
              => Unrepeated(a \o b)
<1> DEFINE s == a \o b
<1> DEFINE n == Len(a)
<1> DEFINE k == Len(b)
<1>1. /\ s \in Seq(X) /\ n \in Nat /\ k \in Nat /\ Len(s) = n + k
      /\ \A i \in 1 .. n : s[i] = a[i]
      /\ \A i \in n + 1 .. n + k : s[i] = b[i - n]
      /\ DOMAIN s = 1 .. n + k /\ DOMAIN a = 1 .. n /\ DOMAIN b = 1 .. k
  OBVIOUS
<1> HIDE DEF s, n, k
<1>2. 1 .. n + k = 1 .. n \cup n + 1 .. n + k
  BY <1>1
<1>3. /\ \A i \in n + 1 .. n + k : i - n \in 1 .. k
      /\ \A i \in 1 .. k : i + n \in n + 1 .. n + k /\ (i + n) - n = i
  BY <1>1
<1>4. Range(s) = Range(a) \cup Range(b)
  <2>1. \A x \in Range(s) : x \in Range(a) \cup Range(b)
    <3>1. \A i \in 1 .. n : s[i] \in Range(a)
      BY <1>1 DEF Range
    <3>2. \A i \in n + 1 .. n + k : s[i] \in Range(b)
      BY Zenon, <1>1, <1>3 DEF Range
    <3>3. \A x \in Range(s) : \E i \in 1 .. n + k : x = s[i]
      BY <1>1 DEF Range
    <3> QED BY <3>1, <3>2, <3>3, <1>2
  <2>2. \A x \in Range(a) : x \in Range(s)
    BY <1>1, <1>2 DEF Range
  <2>3. ASSUME NEW i \in 1 .. k PROVE b[i] \in Range(s)
    <3>1. s[i + n] = b[i] /\ i + n \in 1 .. n + k
      BY <1>1, <1>2, <1>3
    <3> QED BY Zenon, <3>1, <1>1 DEF Range
  <2>4. \A x \in Range(b) : x \in Range(s)
    BY <2>3, <1>1 DEF Range
  <2> QED BY <2>1, <2>2, <2>4
<1>5. ASSUME Unrepeated(a), Unrepeated(b), Range(a) \cap Range(b) = {}
      PROVE  Unrepeated(s)
  <2>1. \A i \in 1 .. n, j \in 1 .. k : a[i] # b[j]
    BY Zenon, <1>1, <1>5 DEF Range
  <2>2. \A i, j \in 1 .. n : a[i] = a[j] => i = j
    BY <1>5 DEF Unrepeated, n
  <2>3. \A i, j \in 1 .. k : b[i] = b[j] => i = j
    BY <1>5 DEF Unrepeated, k
  <2>4. ASSUME NEW i \in n + 1 .. n + k, NEW j \in n + 1 .. n + k, s[i] = s[j]
        PROVE  i = j
    <3>1. i - n = j - n
      BY <1>1, <1>3, <2>3, <2>4
    <3> QED BY <3>1, <1>1
  <2>5. ASSUME NEW i \in 1 .. n, NEW j \in n + 1 .. n + k
        PROVE  s[i] # s[j]
    BY <1>1, <1>3, <2>1
  <2>6. \A i, j \in 1 .. n : s[i] = s[j] => i = j
    BY <1>1, <2>2
  <2> QED BY <1>1, <1>2, <2>4, <2>5, <2>6 DEF Unrepeated
<1> QED BY <1>1, <1>4, <1>5 DEF s

LEMMA SizeOfSet ==
  ASSUME NEW X, NEW seq \in Seq(X), Unrepeated(seq)
  PROVE  Cardinality(Range(seq)) = Len(seq)
<1>1. Len(seq) \in Nat /\ DOMAIN seq = 1 .. Len(seq)
  OBVIOUS
<1>2. IsFiniteSet(1 .. Len(seq)) /\ Cardinality(1 .. Len(seq)) = Len(seq)
  BY SMTT(30), <1>1, FS_Interval
<1> DEFINE f == [i \in 1 .. Len(seq) |-> seq[i]]
<1>3. f \in Bijection(1 .. Len(seq), Range(seq))
  BY <1>1 DEF Bijection, Injection, Surjection, IsInjective, Range, Unrepeated
<1>4. ExistsBijection(1 .. Len(seq), Range(seq))
  BY <1>3 DEF ExistsBijection
<1> QED BY <1>2, <1>4, FS_Bijection

-----------------------------------------------------------------------------
(* What Only takes from a sequence.                                        *)
TakenTo(seq, S, k) ==
  \E f : f = [i \in 0 .. k |-> IF i = 0 THEN <<>>
                               ELSE IF seq[i] \in S THEN Append(f[i - 1], seq[i]) ELSE f[i - 1]]

LEMMA OnlyIsTaken ==
  ASSUME NEW X, NEW seq \in Seq(X), NEW S
  PROVE  \E f : /\ f[0] = <<>>
                /\ \A i \in 1 .. Len(seq) :
                     f[i] = IF seq[i] \in S THEN Append(f[i - 1], seq[i]) ELSE f[i - 1]
                /\ Only(seq, S) = f[Len(seq)]
<1> DEFINE T == {k \in Nat : TakenTo(seq, S, k)}
<1>1. 0 \in T
  <2> DEFINE f == [i \in 0 .. 0 |-> <<>>]
  <2>1. f = [i \in 0 .. 0 |-> IF i = 0 THEN <<>>
                              ELSE IF seq[i] \in S THEN Append(f[i - 1], seq[i]) ELSE f[i - 1]]
    <3>1. \A i \in 0 .. 0 : i = 0
      OBVIOUS
    <3> QED BY <3>1
  <2> HIDE DEF f
  <2> QED BY <2>1 DEF TakenTo
<1>2. ASSUME NEW k \in T
      PROVE  k + 1 \in T
  <2> DEFINE next(f, i) == IF seq[i] \in S THEN Append(f[i - 1], seq[i]) ELSE f[i - 1]
  <2>1. PICK f : f = [i \in 0 .. k |-> IF i = 0 THEN <<>> ELSE next(f, i)]
    BY DEF TakenTo
  <2> DEFINE g == [i \in 0 .. k + 1 |-> IF i = k + 1 THEN next(f, i) ELSE f[i]]
  <2>2. k \in Nat /\ 0 .. k + 1 = 0 .. k \cup {k + 1} /\ k + 1 \notin 0 .. k
    OBVIOUS
  <2>3. \A i \in 0 .. k : g[i] = f[i]
    BY <2>2
  <2>4. g[k + 1] = next(f, k + 1)
    BY <2>2
  <2> HIDE DEF g
  <2>5. ASSUME NEW i \in 0 .. k + 1
        PROVE  g[i] = IF i = 0 THEN <<>> ELSE next(g, i)
    <3>1. CASE i = k + 1
      <4>1. i # 0 /\ i - 1 = k /\ k \in 0 .. k
        BY <3>1, <2>2
      <4> QED BY <3>1, <4>1, <2>3, <2>4
    <3>2. CASE i \in 0 .. k
      <4>1. i # 0 => i - 1 \in 0 .. k
        BY <3>2, <2>2
      <4>2. f[i] = IF i = 0 THEN <<>> ELSE next(f, i)
        BY Zenon, <2>1, <3>2
      <4> QED BY <4>1, <4>2, <3>2, <2>3
    <3> QED BY <3>1, <3>2, <2>2
  <2>6. g = [i \in 0 .. k + 1 |-> IF i = 0 THEN <<>> ELSE next(g, i)]
    BY <2>5 DEF g
  <2>7. TakenTo(seq, S, k + 1)
    BY Zenon, <2>6 DEF TakenTo
  <2> QED BY <2>2, <2>7
<1>3. TakenTo(seq, S, Len(seq))
  <2>1. T = Nat
    <3> HIDE DEF T
    <3>1. T \in SUBSET Nat
      BY DEF T
    <3> QED BY <3>1, <1>1, <1>2, AllNumbers
  <2> QED BY <2>1
<1> DEFINE is(f) == f = [i \in 0 .. Len(seq) |->
                           IF i = 0 THEN <<>>
                           ELSE IF seq[i] \in S THEN Append(f[i - 1], seq[i]) ELSE f[i - 1]]
<1> DEFINE taken == CHOOSE f : is(f)
<1>4. \E f : is(f)
  BY <1>3 DEF TakenTo
<1>5. is(taken)
  <2> HIDE DEF is
  <2> QED BY <1>4
<1>6. Only(seq, S) = taken[Len(seq)]
  BY DEF Only
<1> HIDE DEF taken
<1>7. Len(seq) \in Nat
  OBVIOUS
<1>8. taken[0] = <<>>
  BY <1>5, <1>7
<1>9. \A i \in 1 .. Len(seq) :
        taken[i] = IF seq[i] \in S THEN Append(taken[i - 1], seq[i]) ELSE taken[i - 1]
  <2>1. \A i \in 1 .. Len(seq) : i \in 0 .. Len(seq) /\ i # 0
    BY <1>7
  <2> QED BY Zenon, <1>5, <2>1
<1> QED BY <1>6, <1>8, <1>9

(* It is a sequence of the elements that are in the set.                   *)
LEMMA OnlyIs ==
  ASSUME NEW X, NEW seq \in Seq(X), NEW S
  PROVE  /\ Only(seq, S) \in Seq(X)
         /\ Range(Only(seq, S)) = Range(seq) \cap S
         /\ Unrepeated(seq) => Unrepeated(Only(seq, S))
<1> DEFINE n == Len(seq)
<1> DEFINE found(k) == {seq[j] : j \in {j \in 1 .. k : seq[j] \in S}}
<1>1. PICK f : /\ f[0] = <<>>
               /\ \A i \in 1 .. n :
                    f[i] = IF seq[i] \in S THEN Append(f[i - 1], seq[i]) ELSE f[i - 1]
               /\ Only(seq, S) = f[n]
  BY Zenon, OnlyIsTaken
<1>2. n \in Nat /\ DOMAIN seq = 1 .. n /\ \A i \in 1 .. n : seq[i] \in X
  OBVIOUS
<1> DEFINE good(k) == /\ f[k] \in Seq(X) /\ Range(f[k]) = found(k)
                      /\ Unrepeated(seq) => Unrepeated(f[k])
<1> DEFINE T == {k \in Nat : k <= n => good(k)}
<1>3. 0 \in T
  <2>1. <<>> \in Seq(X) /\ Range(<<>>) = {} /\ Unrepeated(<<>>)
    BY DEF Range, Unrepeated
  <2>2. found(0) = {}
    OBVIOUS
  <2> QED BY Zenon, <1>1, <2>1, <2>2
<1>4. ASSUME NEW k \in T
      PROVE  k + 1 \in T
  <2>1. SUFFICES ASSUME k + 1 <= n PROVE good(k + 1)
    <3> HIDE DEF good
    <3> QED OBVIOUS
  <2>2. k \in Nat /\ k <= n /\ k + 1 \in 1 .. n /\ (k + 1) - 1 = k
        /\ 1 .. k + 1 = 1 .. k \cup {k + 1} /\ 1 .. k \subseteq 1 .. n /\ k + 1 \notin 1 .. k
    BY <1>2, <2>1
  <2>3. good(k)
    <3> HIDE DEF good
    <3> QED BY <2>2
  <2>4. f[k + 1] = IF seq[k + 1] \in S THEN Append(f[k], seq[k + 1]) ELSE f[k]
    BY <1>1, <2>2
  <2>5. CASE seq[k + 1] \in S
    <3>1. found(k + 1) = found(k) \cup {seq[k + 1]}
      BY <2>2, <2>5
    <3>2. Unrepeated(seq) => seq[k + 1] \notin found(k)
      BY <2>2, <1>2 DEF Unrepeated
    <3>3. seq[k + 1] \in X
      BY <1>2, <2>2
    <3> HIDE DEF found
    <3>4. /\ f[k] \in Seq(X) /\ Range(f[k]) = found(k)
          /\ Unrepeated(seq) => Unrepeated(f[k])
      BY <2>3
    <3>5. f[k + 1] = Append(f[k], seq[k + 1])
      BY <2>4, <2>5
    <3>6. /\ Append(f[k], seq[k + 1]) \in Seq(X)
          /\ Range(Append(f[k], seq[k + 1])) = Range(f[k]) \cup {seq[k + 1]}
          /\ Unrepeated(seq) => Unrepeated(Append(f[k], seq[k + 1]))
      BY <3>2, <3>3, <3>4, SetOfAppend
    <3> QED BY Zenon, <3>1, <3>4, <3>5, <3>6
  <2>6. CASE seq[k + 1] \notin S
    <3>1. found(k + 1) = found(k)
      BY <2>2, <2>6
    <3> HIDE DEF found
    <3> QED BY <2>3, <2>4, <2>6, <3>1
  <2> QED BY <2>5, <2>6
<1>5. T = Nat
  <2> HIDE DEF T
  <2>1. T \in SUBSET Nat
    BY DEF T
  <2> QED BY <2>1, <1>3, <1>4, AllNumbers
<1>6. good(n)
  <2> HIDE DEF good
  <2> QED BY <1>2, <1>5
<1>7. found(n) = Range(seq) \cap S
  BY <1>2 DEF Range
<1> QED BY <1>1, <1>6, <1>7

-----------------------------------------------------------------------------
(* A layer of the states 0 .. K-1.                                         *)
Reached(layer) == {s \in DOMAIN layer : layer[s].src # -1}
LayersOf(K) == [0 .. K - 1 -> [cost : Nat, src : {-1} \cup 0 .. K - 1]]

(* Best is a state that is reached, and none is reached at a lower cost.   *)
LEMMA BestIsLeast ==
  ASSUME NEW K \in Nat, NEW layer \in LayersOf(K), Reached(layer) # {}
  PROVE  /\ Best(layer) \in Reached(layer)
         /\ \A s \in Reached(layer) : layer[Best(layer)].cost <= layer[s].cost
<1> DEFINE R == Reached(layer)
<1> DEFINE least(j) == \A i \in R :
             layer[j].cost < layer[i].cost \/ (layer[j].cost = layer[i].cost /\ j <= i)
<1>1. R \subseteq 0 .. K - 1 /\ \A s \in R : layer[s].cost \in Nat
  BY DEF Reached, LayersOf
<1>2. \E j \in R : least(j)
  <2> DEFINE f == [s \in R |-> layer[s].cost]
  <2> DEFINE g == [s \in R |-> s]
  <2>1. f \in [R -> Nat] /\ g \in [R -> Nat]
    BY <1>1
  <2>2. PICK x \in R : \A y \in R : f[x] < f[y] \/ (f[x] = f[y] /\ g[x] <= g[y])
    <3> HIDE DEF f, g, R
    <3> QED BY <2>1, LeastPair DEF R
  <2>3. least(x)
    BY <2>2
  <2> QED BY <2>3
<1>3. Best(layer) = CHOOSE j \in R : least(j)
  BY DEF Best, Reached
<1>4. Best(layer) \in R /\ least(Best(layer))
  <2> HIDE DEF R, least
  <2> QED BY <1>2, <1>3
<1> QED BY <1>1, <1>4

-----------------------------------------------------------------------------
(* The path is read back from its end, state by state.                     *)
Before(layers, i, s) == layers[i + 1][s].src

ReadBack(layers, k) ==
  \E g : g = [i \in Len(layers) - k .. Len(layers) |->
                IF i = Len(layers) THEN Best(layers[Len(layers)])
                ELSE Before(layers, i, g[i + 1])]

LEMMA PathIsReadBack ==
  ASSUME NEW layers, Len(layers) \in Nat \ {0}
  PROVE  calculatePath(layers) =
           [i \in 1 .. Len(layers) |->
              IF i = Len(layers) THEN Best(layers[Len(layers)])
              ELSE Before(layers, i, calculatePath(layers)[i + 1])]
<1> DEFINE n == Len(layers)
<1> DEFINE B == Best(layers[n])
<1> DEFINE S == {k \in Nat : ReadBack(layers, k)}
<1> HIDE DEF B
<1>1. 0 \in S
  <2> DEFINE g == [i \in n - 0 .. n |-> B]
  <2>1. g = [i \in n - 0 .. n |-> IF i = n THEN B ELSE Before(layers, i, g[i + 1])]
    <3>1. \A i \in n - 0 .. n : i = n
      OBVIOUS
    <3> QED BY <3>1
  <2> QED BY Zenon, <2>1 DEF ReadBack, B
<1>2. ASSUME NEW k \in S
      PROVE  k + 1 \in S
  <2>1. PICK g : g = [i \in n - k .. n |-> IF i = n THEN B ELSE Before(layers, i, g[i + 1])]
    BY DEF ReadBack, B
  <2> DEFINE m == n - (k + 1)
  <2> DEFINE h == [i \in m .. n |-> IF i = m THEN Before(layers, i, g[i + 1]) ELSE g[i]]
  <2>2. k \in Nat /\ m \in Int /\ m < n /\ m .. n = {m} \cup n - k .. n /\ m \notin n - k .. n
    OBVIOUS
  <2>3. \A i \in n - k .. n : h[i] = g[i]
    BY <2>2
  <2>4. ASSUME NEW i \in m .. n
        PROVE  h[i] = IF i = n THEN B ELSE Before(layers, i, h[i + 1])
    <3>1. CASE i = m
      <4>1. i # n /\ i + 1 \in n - k .. n
        BY <3>1, <2>2
      <4>2. h[i] = Before(layers, i, g[i + 1])
        BY <3>1
      <4> QED BY <4>1, <4>2, <2>3
    <3>2. CASE i # m
      <4>1. i \in n - k .. n /\ (i # n => i + 1 \in n - k .. n)
        BY <3>2, <2>2
      <4>2. g[i] = IF i = n THEN B ELSE Before(layers, i, g[i + 1])
        BY <2>1, <4>1
      <4>3. h[i] = g[i] /\ (i # n => h[i + 1] = g[i + 1])
        BY <4>1, <2>3
      <4> HIDE DEF h
      <4> QED BY <4>2, <4>3
    <3> QED BY <3>1, <3>2
  <2>5. h = [i \in m .. n |-> IF i = n THEN B ELSE Before(layers, i, h[i + 1])]
    BY Zenon, <2>4
  <2>6. ReadBack(layers, k + 1)
    <3> HIDE DEF h
    <3> QED BY Zenon, <2>5 DEF ReadBack, B
  <2> QED BY <2>2, <2>6
<1>3. ReadBack(layers, n - 1)
  <2>1. S = Nat
    <3> HIDE DEF S
    <3>1. S \in SUBSET Nat
      BY DEF S
    <3> QED BY <3>1, <1>1, <1>2, AllNumbers
  <2> QED BY <2>1
<1> DEFINE path == CHOOSE g : g = [i \in 1 .. n |-> IF i = n THEN B ELSE Before(layers, i, g[i + 1])]
<1>4. \E g : g = [i \in 1 .. n |-> IF i = n THEN B ELSE Before(layers, i, g[i + 1])]
  <2>1. n - (n - 1) = 1
    OBVIOUS
  <2> QED BY <1>3, <2>1 DEF ReadBack, B
<1>5. path = [i \in 1 .. n |-> IF i = n THEN B ELSE Before(layers, i, path[i + 1])]
  BY <1>4
<1>6. calculatePath(layers) = path
  BY DEF calculatePath, Before, B
<1> QED BY <1>5, <1>6 DEF B

-----------------------------------------------------------------------------
(* A lattice in which every state that is reached after the first layer is *)
(* reached from a state of the layer before that is reached itself.        *)
Linked(layers, K) ==
  /\ layers \in Seq(LayersOf(K))
  /\ \A i \in 2 .. Len(layers) : \A s \in Reached(layers[i]) :
       layers[i][s].src \in Reached(layers[i - 1])

(* Then the path leads through states that are reached.                    *)
LEMMA PathIsReached ==
  ASSUME NEW K \in Nat, NEW layers, Linked(layers, K), layers # <<>>,
         Reached(layers[Len(layers)]) # {}
  PROVE  /\ DOMAIN calculatePath(layers) = 1 .. Len(layers)
         /\ calculatePath(layers)[Len(layers)] = Best(layers[Len(layers)])
         /\ \A i \in 1 .. Len(layers) :
              /\ calculatePath(layers)[i] \in Reached(layers[i])
              /\ i > 1 => calculatePath(layers)[i - 1] = layers[i][calculatePath(layers)[i]].src
<1> DEFINE n == Len(layers)
<1> DEFINE path == calculatePath(layers)
<1> DEFINE S == {k \in Nat : k < n => path[n - k] \in Reached(layers[n - k])}
<1>1. n \in Nat \ {0} /\ layers[n] \in LayersOf(K)
  BY DEF Linked
<1>2. path = [i \in 1 .. n |-> IF i = n THEN Best(layers[n])
                               ELSE Before(layers, i, path[i + 1])]
  BY <1>1, PathIsReadBack
<1> HIDE DEF n, path
<1>3. path[n] = Best(layers[n]) /\ \A i \in 2 .. n : path[i - 1] = layers[i][path[i]].src
  <2>1. path[n] = Best(layers[n])
    BY <1>1, <1>2
  <2>2. ASSUME NEW i \in 2 .. n PROVE path[i - 1] = layers[i][path[i]].src
    <3>1. i - 1 \in 1 .. n /\ i - 1 # n /\ (i - 1) + 1 = i
      BY <1>1
    <3>2. path[i - 1] = Before(layers, i - 1, path[(i - 1) + 1])
      BY <1>2, <3>1
    <3> QED BY <3>1, <3>2 DEF Before
  <2> QED BY <2>1, <2>2
<1>4. path[n] \in Reached(layers[n])
  BY <1>1, <1>3, BestIsLeast DEF n
<1>5. 0 \in S
  BY <1>1, <1>4
<1>6. ASSUME NEW k \in S
      PROVE  k + 1 \in S
  <2>1. SUFFICES ASSUME k + 1 < n PROVE path[n - (k + 1)] \in Reached(layers[n - (k + 1)])
    OBVIOUS
  <2>2. k \in Nat /\ k < n /\ n - k \in 2 .. n /\ (n - k) - 1 = n - (k + 1)
    BY <1>1, <2>1
  <2>3. path[n - k] \in Reached(layers[n - k])
    BY <2>2, <2>1
  <2>4. path[(n - k) - 1] = layers[n - k][path[n - k]].src
    BY <2>2, <1>3
  <2>5. layers[n - k][path[n - k]].src \in Reached(layers[(n - k) - 1])
    BY <2>2, <2>3 DEF Linked, n
  <2> QED BY <2>2, <2>4, <2>5
<1>7. S = Nat
  <2> HIDE DEF S
  <2>1. S \in SUBSET Nat
    BY DEF S
  <2> QED BY <2>1, <1>5, <1>6, AllNumbers
<1>8. ASSUME NEW i \in 1 .. n
      PROVE  path[i] \in Reached(layers[i])
  <2>1. n - i \in Nat /\ n - i < n /\ n - (n - i) = i
    BY <1>1
  <2> QED BY <2>1, <1>7
<1>9. DOMAIN path = 1 .. n
  BY <1>2
<1>10. \A i \in 1 .. n : i > 1 => i \in 2 .. n
  BY <1>1
<1> QED BY <1>3, <1>8, <1>9, <1>10 DEF n, path
=============================================================================
