-------------------------- MODULE OrderMergeProofs ---------------------------
(***************************************************************************)
(* OrderMerge loses no row and repeats none, for tables of any size that   *)
(* are reordered in any way, and for any number of rounds; and where one   *)
(* side has nothing to say of the order the rows keep that of the other.   *)
(***************************************************************************)
EXTENDS OrderMerge, HelperProofs

LEMMA KeptIs ==
  ASSUME NEW X, NEW seq \in Seq(X), Unrepeated(seq)
  PROVE  /\ Kept(seq) \in Seq(X) /\ Unrepeated(Kept(seq))
         /\ Range(Kept(seq)) = {u \in Range(seq) : ~u.deleted}
         /\ Dropped(seq) \in Seq(X) /\ Unrepeated(Dropped(seq))
         /\ Range(Dropped(seq)) = {u \in Range(seq) : u.deleted}
<1>1. \A S : /\ Only(seq, S) \in Seq(X) /\ Unrepeated(Only(seq, S))
             /\ Range(Only(seq, S)) = Range(seq) \cap S
  BY OnlyIs
<1> QED BY <1>1 DEF Kept, Dropped

-----------------------------------------------------------------------------
(* What Layer, one draw of the search, makes of the layer before: the last *)
(* state, dud, stays reached, and what is reached is reached from a state  *)
(* that is.                                                                *)
MovesOf(N, given) ==
  /\ \A m \in given : m[1] \in 0 .. N /\ m[3] \in Nat
  /\ <<N, N, 1>> \in given

WaysTo(prev, given, s) == {m \in given : m[2] = s /\ prev[m[1]].src # -1}
WayCost(prev, m) == m[3] + prev[m[1]].cost

(* Each state that can be reached is reached a cheapest way.               *)
LEMMA LayerBest ==
  ASSUME NEW N \in Nat, NEW prev \in LayersOf(N + 1), NEW given,
         \A m \in given : m[1] \in 0 .. N /\ m[3] \in Nat
  PROVE  /\ DOMAIN Layer(prev, given) = 0 .. N
         /\ Layer(prev, given) = [s \in 0 .. N |-> Layer(prev, given)[s]]
         /\ \A s \in 0 .. N :
              /\ WaysTo(prev, given, s) = {} => Layer(prev, given)[s] = Unreached
              /\ WaysTo(prev, given, s) # {} => \E m \in WaysTo(prev, given, s) :
                   /\ Layer(prev, given)[s] = [cost |-> WayCost(prev, m), src |-> m[1]]
                   /\ \A k \in WaysTo(prev, given, s) : WayCost(prev, m) <= WayCost(prev, k)
<1> DEFINE cost(m) == m[3] + prev[m[1]].cost
<1> DEFINE before(m, k) == cost(m) < cost(k) \/ (cost(m) = cost(k) /\ m[1] <= k[1])
<1> DEFINE ways(s) == {m \in given : m[2] = s /\ prev[m[1]].src # -1}
<1> DEFINE best(s) == CHOOSE m \in ways(s) : \A k \in ways(s) : before(m, k)
<1> DEFINE L == Layer(prev, given)
<1>1. DOMAIN prev = 0 .. N /\ \A s \in 0 .. N : prev[s].cost \in Nat
  BY DEF LayersOf
<1>2. L = [s \in 0 .. N |-> IF ways(s) = {} THEN Unreached
                            ELSE [cost |-> cost(best(s)), src |-> best(s)[1]]]
  BY <1>1 DEF Layer
<1>3. \A m \in given : m[1] \in 0 .. N /\ cost(m) \in Nat
  BY <1>1
<1>4. ASSUME NEW s \in 0 .. N, ways(s) # {}
      PROVE  best(s) \in ways(s) /\ \A k \in ways(s) : cost(best(s)) <= cost(k)
  <2> DEFINE f == [m \in ways(s) |-> cost(m)]
  <2> DEFINE g == [m \in ways(s) |-> m[1]]
  <2>1. f \in [ways(s) -> Nat] /\ g \in [ways(s) -> Nat]
    BY <1>3
  <2>2. PICK x \in ways(s) : \A y \in ways(s) : f[x] < f[y] \/ (f[x] = f[y] /\ g[x] <= g[y])
    <3> HIDE DEF f, g, ways
    <3> QED BY <1>4, <2>1, LeastPair
  <2>3. \A y \in ways(s) : before(x, y)
    BY Zenon, <2>2
  <2>4. best(s) \in ways(s) /\ \A k \in ways(s) : before(best(s), k)
    <3> HIDE DEF ways, before
    <3> QED BY Zenon, <2>3
  <2>5. \A m, k \in given : before(m, k) => cost(m) <= cost(k)
    <3>1. ASSUME NEW m \in given, NEW k \in given, before(m, k)
          PROVE  cost(m) <= cost(k)
      <4>1. cost(m) \in Nat /\ cost(k) \in Nat
        BY Zenon, <1>3
      <4>2. cost(m) < cost(k) \/ cost(m) = cost(k)
        BY Zenon, <3>1
      <4> HIDE DEF cost
      <4> QED BY <4>1, <4>2
    <3> HIDE DEF before, cost
    <3> QED BY Zenon, <3>1
  <2>6. ways(s) \subseteq given
    OBVIOUS
  <2> HIDE DEF ways, before, cost, best
  <2> QED BY Zenon, <2>4, <2>5, <2>6
<1>5. ASSUME NEW s \in 0 .. N
      PROVE  /\ ways(s) = {} => L[s] = Unreached
             /\ ways(s) # {} => \E m \in ways(s) :
                  /\ L[s] = [cost |-> cost(m), src |-> m[1]]
                  /\ \A k \in ways(s) : cost(m) <= cost(k)
  <2> HIDE DEF ways, cost, best, L
  <2>1. L[s] = IF ways(s) = {} THEN Unreached ELSE [cost |-> cost(best(s)), src |-> best(s)[1]]
    BY Zenon, <1>2
  <2> QED BY Zenon, <1>4, <2>1
<1>6. DOMAIN L = 0 .. N /\ L = [s \in 0 .. N |-> L[s]]
  <2> HIDE DEF ways, cost, best, L
  <2> QED BY Zenon, <1>2
<1> QED BY Zenon, <1>5, <1>6 DEF WaysTo, WayCost

LEMMA LayerIs ==
  ASSUME NEW N \in Nat, NEW prev \in LayersOf(N + 1), N \in Reached(prev),
         NEW given, MovesOf(N, given)
  PROVE  /\ Layer(prev, given) \in LayersOf(N + 1)
         /\ N \in Reached(Layer(prev, given))
         /\ \A s \in Reached(Layer(prev, given)) : Layer(prev, given)[s].src \in Reached(prev)
<1> DEFINE cost(m) == WayCost(prev, m)
<1> DEFINE ways(s) == WaysTo(prev, given, s)
<1> DEFINE L == Layer(prev, given)
<1>1. DOMAIN prev = 0 .. N /\ \A s \in 0 .. N : prev[s].cost \in Nat
  BY DEF LayersOf
<1>2. \A m \in given : m[1] \in 0 .. N /\ m[3] \in Nat /\ cost(m) \in Nat
  BY <1>1 DEF MovesOf, WayCost
<1>3. /\ DOMAIN L = 0 .. N /\ L = [s \in 0 .. N |-> L[s]]
      /\ \A s \in 0 .. N : /\ ways(s) = {} => L[s] = Unreached
                           /\ ways(s) # {} => \E m \in ways(s) :
                                /\ L[s] = [cost |-> cost(m), src |-> m[1]]
                                /\ \A k \in ways(s) : cost(m) <= cost(k)
  <2>1. \A m \in given : m[1] \in 0 .. N /\ m[3] \in Nat
    BY Zenon, <1>2
  <2> QED BY Zenon, <2>1, LayerBest
<1>4. \A s : \A m \in ways(s) : m[1] \in Reached(prev) /\ m[1] \in 0 .. N /\ cost(m) \in Nat
  BY Zenon, <1>1, <1>2 DEF Reached, WaysTo
<1> HIDE DEF cost, L
<1>5. <<N, N, 1>> \in ways(N)
  BY DEF MovesOf, Reached, WaysTo
<1> HIDE DEF ways
<1>6. \A s \in 0 .. N : ways(s) # {} =>
        L[s].src \in Reached(prev) /\ L[s].src \in 0 .. N /\ L[s].cost \in Nat
  BY <1>3, <1>4
<1>7. L \in LayersOf(N + 1)
  <2>1. \A s \in 0 .. N : L[s] \in [cost : Nat, src : {-1} \cup 0 .. N]
    BY <1>3, <1>4 DEF Unreached
  <2>2. (N + 1) - 1 = N
    OBVIOUS
  <2>3. L \in [0 .. N -> [cost : Nat, src : {-1} \cup 0 .. N]]
    BY Zenon, <1>3, <2>1
  <2> QED BY <2>2, <2>3 DEF LayersOf
<1>8. ASSUME NEW s \in Reached(L)
      PROVE  L[s].src \in Reached(prev)
  <2>1. s \in 0 .. N /\ L[s].src # -1
    BY <1>3 DEF Reached
  <2>2. ways(s) # {}
    BY <2>1, <1>3 DEF Unreached
  <2> QED BY <2>1, <2>2, <1>6
<1>9. N \in Reached(L)
  <2>1. N \in 0 .. N /\ L[N].src \in 0 .. N
    BY <1>5, <1>6
  <2>2. L[N].src # -1
    BY <2>1
  <2> QED BY <2>1, <2>2, <1>3 DEF Reached
<1> QED BY <1>7, <1>8, <1>9 DEF L

-----------------------------------------------------------------------------
(* The units of the first n rows of local, and of the first n of remote.   *)
UnitOfLocal(l) ==
  Unit(order_local[l], l, a2b(order_remote, order_local[l]),
       order_local[l] # -1 /\ a2b(order_remote, order_local[l]) = -1)
UnitOfRemote(r) == Unit(-1, -1, r, FALSE)
FromLocal(n) == {UnitOfLocal(l) : l \in 1 .. n}
FromRemote(n) == {UnitOfRemote(r) : r \in {r \in 1 .. n : order_remote[r] = -1}}

KeptUnits == {u \in ExpectedUnits : ~u.deleted}

Searching == pc \in {"start", "draw", "path", "accept"}

(* What holds of the units: they are of one place, and of all that were    *)
(* called for those that are not placed are still to be placed.            *)
UnitsInv ==
  /\ order_local \in OrderResult /\ order_remote \in OrderResult
  /\ ilocal \in 1 .. Len(order_local) + 1
  /\ base_remote \in 1 .. Len(order_remote) + 1
  /\ pc \in {"process", "order", "collect", "done"} \/ Searching
  /\ accum \in Seq(MatchUnit) /\ Unrepeated(accum)
  /\ canon \in Seq(MatchUnit) /\ Unrepeated(canon)
  /\ canon_src \in Seq(MatchUnit) /\ Unrepeated(canon_src)
  /\ mu \in Seq(MatchUnit) /\ Unrepeated(mu)
  /\ Range(accum) = IF pc = "process"
                    THEN FromLocal(ilocal - 1) \cup FromRemote(base_remote - 1)
                    ELSE ExpectedUnits
  /\ pc = "process" => canon = <<>>
  /\ pc \notin {"process", "done"} => Range(canon) \subseteq KeptUnits
  /\ pc \in {"order", "collect"} =>
       {u \in Range(canon_src) : ~u.deleted} = KeptUnits \ Range(canon)
  /\ pc = "collect" => \A u \in Range(canon_src) : ~u.deleted
  /\ Searching => Range(mu) = KeptUnits \ Range(canon)

(* The lattice of a round has a state for every unit to be placed, and     *)
(* dud, which is always reached; the path is one of these states.          *)
LatticeInv ==
  /\ pc \in {"draw", "path"} =>
       /\ layers # <<>> /\ Linked(layers, Len(mu) + 1)
       /\ Len(mu) \in Reached(layers[Len(layers)])
  /\ pc = "draw" => MovesOf(Len(mu), moves)
  /\ pc = "accept" => path \in Seq(0 .. Len(mu))

OrderInv == UnitsInv /\ LatticeInv

-----------------------------------------------------------------------------
LEMMA OrderIs ==
  ASSUME NEW order \in OrderResult
  PROVE  /\ Len(order) \in 0 .. MaxRows /\ DOMAIN order = 1 .. Len(order)
         /\ \A i \in 1 .. Len(order) : order[i] \in {-1} \cup 1 .. PivotRows
         /\ \A p : a2b(order, p) \in {-1} \cup 1 .. Len(order)
         /\ a2b(order, -1) = -1
<1>1. PICK n \in 0 .. MaxRows : order \in [1 .. n -> {-1} \cup 1 .. PivotRows]
  BY DEF OrderResult
<1>2. n \in Nat /\ Len(order) = n /\ DOMAIN order = 1 .. n
  BY <1>1, BoundsOK
<1>3. \A p : a2b(order, p) \in {-1} \cup 1 .. n
  BY <1>2 DEF a2b
<1>4. a2b(order, -1) = -1
  BY DEF a2b
<1> QED BY <1>1, <1>2, <1>3, <1>4

LEMMA ExpectedIs ==
  ASSUME order_local \in OrderResult, order_remote \in OrderResult
  PROVE  ExpectedUnits = FromLocal(Len(order_local)) \cup FromRemote(Len(order_remote))
<1>1. DOMAIN order_local = 1 .. Len(order_local) /\ DOMAIN order_remote = 1 .. Len(order_remote)
  BY OrderIs
<1> QED BY <1>1 DEF ExpectedUnits, FromLocal, FromRemote, UnitOfLocal, UnitOfRemote

LEMMA UnitsDiffer ==
  ASSUME NEW l \in Int, NEW k \in Int, NEW r \in Int, NEW q \in Int
  PROVE  /\ l # k => UnitOfLocal(l) # UnitOfLocal(k)
         /\ r # q => UnitOfRemote(r) # UnitOfRemote(q)
         /\ l # -1 => UnitOfLocal(l) # UnitOfRemote(r)
<1>1. UnitOfLocal(l).localUnit = l /\ UnitOfLocal(k).localUnit = k
  BY DEF UnitOfLocal, Unit
<1>2. /\ UnitOfRemote(r).remoteUnit = r /\ UnitOfRemote(q).remoteUnit = q
      /\ UnitOfRemote(r).localUnit = -1
  BY DEF UnitOfRemote, Unit
<1> QED BY <1>1, <1>2

LEMMA UnitsTyped ==
  ASSUME order_local \in OrderResult, order_remote \in OrderResult
  PROVE  /\ \A l \in 1 .. Len(order_local) : UnitOfLocal(l) \in MatchUnit
         /\ \A r \in 1 .. Len(order_remote) : UnitOfRemote(r) \in MatchUnit
<1>1. 1 .. Len(order_local) \subseteq 1 .. MaxRows /\ 1 .. Len(order_remote) \subseteq 1 .. MaxRows
  BY OrderIs, BoundsOK
<1>2. ASSUME NEW l \in 1 .. Len(order_local)
      PROVE  UnitOfLocal(l) \in MatchUnit
  <2>1. /\ order_local[l] \in {-1} \cup 1 .. PivotRows /\ l \in 1 .. MaxRows
        /\ a2b(order_remote, order_local[l]) \in {-1} \cup 1 .. MaxRows
    BY <1>1, OrderIs
  <2> QED BY <2>1 DEF UnitOfLocal, Unit, MatchUnit
<1>3. ASSUME NEW r \in 1 .. Len(order_remote)
      PROVE  UnitOfRemote(r) \in MatchUnit
  BY <1>1 DEF UnitOfRemote, Unit, MatchUnit
<1> QED BY <1>2, <1>3

LEMMA InitOrder == Init => OrderInv
<1> SUFFICES ASSUME Init PROVE OrderInv
  OBVIOUS
<1>1. /\ order_local \in OrderResult /\ order_remote \in OrderResult
      /\ ilocal = 1 /\ base_remote = 1 /\ pc = "process"
      /\ accum = <<>> /\ canon = <<>> /\ canon_src = <<>> /\ mu = <<>>
  BY DEF Init
<1>2. <<>> \in Seq(MatchUnit) /\ Unrepeated(<<>>) /\ Range(<<>>) = {}
  BY DEF Unrepeated, Range
<1>3. Len(order_local) \in Nat /\ Len(order_remote) \in Nat
  BY <1>1, OrderIs
<1>4. ilocal \in 1 .. Len(order_local) + 1 /\ base_remote \in 1 .. Len(order_remote) + 1
  BY <1>1, <1>3
<1>5. FromLocal(ilocal - 1) = {} /\ FromRemote(base_remote - 1) = {}
  BY <1>1 DEF FromLocal, FromRemote
<1>6. UnitsInv
  BY <1>1, <1>2, <1>4, <1>5 DEF UnitsInv, Searching
<1>7. LatticeInv
  BY <1>1 DEF LatticeInv
<1> QED BY <1>6, <1>7 DEF OrderInv

-----------------------------------------------------------------------------
(* process: a row is added to the units, or it is none of them.            *)
LEMMA ProcessKeeps ==
  ASSUME OrderInv, pc = "process", pc' = pc, UNCHANGED <<inputs, canon, canon_src, round>>,
         ilocal' \in 1 .. Len(order_local) + 1, base_remote' \in 1 .. Len(order_remote) + 1,
         \/ /\ accum' = accum
            /\ FromLocal(ilocal - 1)' \cup FromRemote(base_remote - 1)'
                 = FromLocal(ilocal - 1) \cup FromRemote(base_remote - 1)
         \/ \E u \in MatchUnit :
              /\ u \notin FromLocal(ilocal - 1) \cup FromRemote(base_remote - 1)
              /\ accum' = Append(accum, u)
              /\ FromLocal(ilocal - 1)' \cup FromRemote(base_remote - 1)'
                   = FromLocal(ilocal - 1) \cup FromRemote(base_remote - 1) \cup {u}
  PROVE  OrderInv'
<1>1. /\ accum' \in Seq(MatchUnit) /\ Unrepeated(accum')
      /\ Range(accum') = (FromLocal(ilocal - 1) \cup FromRemote(base_remote - 1))'
  <2>1. /\ accum \in Seq(MatchUnit) /\ Unrepeated(accum)
        /\ Range(accum) = FromLocal(ilocal - 1) \cup FromRemote(base_remote - 1)
    BY DEF OrderInv, UnitsInv
  <2>2. CASE /\ accum' = accum
             /\ FromLocal(ilocal - 1)' \cup FromRemote(base_remote - 1)'
                  = FromLocal(ilocal - 1) \cup FromRemote(base_remote - 1)
    BY <2>1, <2>2
  <2>3. ASSUME NEW u \in MatchUnit,
               u \notin FromLocal(ilocal - 1) \cup FromRemote(base_remote - 1),
               accum' = Append(accum, u),
               FromLocal(ilocal - 1)' \cup FromRemote(base_remote - 1)'
                 = FromLocal(ilocal - 1) \cup FromRemote(base_remote - 1) \cup {u}
        PROVE  /\ accum' \in Seq(MatchUnit) /\ Unrepeated(accum')
               /\ Range(accum') = (FromLocal(ilocal - 1) \cup FromRemote(base_remote - 1))'
    <3>1. /\ Append(accum, u) \in Seq(MatchUnit) /\ Unrepeated(Append(accum, u))
          /\ Range(Append(accum, u)) = Range(accum) \cup {u}
      BY <2>1, <2>3, SetOfAppend
    <3> QED BY <2>1, <2>3, <3>1
  <2> QED BY <2>2, <2>3
<1>2. UnitsInv'
  <2>1. /\ order_local' \in OrderResult /\ order_remote' \in OrderResult
        /\ order_local' = order_local /\ order_remote' = order_remote
    BY DEF OrderInv, UnitsInv, inputs
  <2>2. /\ (canon \in Seq(MatchUnit))' /\ Unrepeated(canon')
        /\ (canon_src \in Seq(MatchUnit))' /\ Unrepeated(canon_src')
        /\ (mu \in Seq(MatchUnit))' /\ Unrepeated(mu') /\ canon' = <<>>
    BY DEF OrderInv, UnitsInv, round
  <2> QED BY <1>1, <2>1, <2>2 DEF UnitsInv, Searching, OrderInv
<1>3. LatticeInv'
  BY DEF LatticeInv
<1> QED BY <1>2, <1>3 DEF OrderInv

LEMMA RemoteRowKeeps ==
  ASSUME OrderInv, pc = "process", base_remote <= Len(order_remote), RemoteRow
  PROVE  OrderInv'
<1> DEFINE b == base_remote
<1> DEFINE u == UnitOfRemote(b)
<1>1. /\ order_local \in OrderResult /\ order_remote \in OrderResult
      /\ ilocal \in 1 .. Len(order_local) + 1 /\ b \in 1 .. Len(order_remote) + 1
      /\ Len(order_local) \in Nat /\ Len(order_remote) \in Nat
  BY OrderIs DEF OrderInv, UnitsInv
<1>2. /\ base_remote' = b + 1 /\ b \in 1 .. Len(order_remote)
      /\ ilocal' = ilocal /\ order_local' = order_local /\ order_remote' = order_remote
      /\ base_remote' \in 1 .. Len(order_remote) + 1
      /\ 1 .. b = 1 .. (b - 1) \cup {b} /\ base_remote' - 1 = b
  BY <1>1 DEF RemoteRow, inputs
<1>3. FromLocal(ilocal - 1)' = FromLocal(ilocal - 1)
  BY <1>2 DEF FromLocal, UnitOfLocal
<1>4. FromRemote(base_remote - 1)' = {UnitOfRemote(r) : r \in {r \in 1 .. b : order_remote[r] = -1}}
  BY <1>2 DEF FromRemote, UnitOfRemote
<1>5. CASE order_remote[b] = -1
  <2>1. u \in MatchUnit
    BY <1>1, <1>2, UnitsTyped
  <2>2. u \notin FromLocal(ilocal - 1)
    BY <1>1, UnitsDiffer DEF FromLocal
  <2>3. u \notin FromRemote(b - 1)
    BY <1>1, UnitsDiffer DEF FromRemote
  <2>4. FromRemote(base_remote - 1)' = FromRemote(b - 1) \cup {u}
    BY <1>2, <1>4, <1>5 DEF FromRemote
  <2>5. accum' = Append(accum, u)
    BY Zenon, <1>5 DEF RemoteRow, Push, UnitOfRemote
  <2> HIDE DEF u
  <2> QED BY <1>1, <1>2, <1>3, <2>1, <2>2, <2>3, <2>4, <2>5, ProcessKeeps DEF RemoteRow
<1>6. CASE order_remote[b] # -1
  <2>1. FromRemote(base_remote - 1)' = FromRemote(b - 1)
    BY <1>2, <1>4, <1>6 DEF FromRemote
  <2>2. accum' = accum
    BY <1>6 DEF RemoteRow
  <2> QED BY <1>1, <1>2, <1>3, <2>1, <2>2, ProcessKeeps DEF RemoteRow
<1> QED BY <1>5, <1>6

LEMMA LocalRowKeeps ==
  ASSUME OrderInv, LocalRow
  PROVE  OrderInv'
<1> DEFINE l == ilocal
<1> DEFINE u == UnitOfLocal(l)
<1>1. /\ order_local \in OrderResult /\ order_remote \in OrderResult
      /\ ilocal \in 1 .. Len(order_local) + 1 /\ base_remote \in 1 .. Len(order_remote) + 1
      /\ Len(order_local) \in Nat /\ Len(order_remote) \in Nat
  BY OrderIs DEF OrderInv, UnitsInv
<1>2. /\ ilocal' = l + 1 /\ l \in 1 .. Len(order_local) /\ pc = "process" /\ pc' = pc
      /\ base_remote' = base_remote /\ order_local' = order_local /\ order_remote' = order_remote
      /\ ilocal' \in 1 .. Len(order_local) + 1
      /\ 1 .. l = 1 .. (l - 1) \cup {l} /\ ilocal' - 1 = l
  BY <1>1 DEF LocalRow, inputs
<1>3. FromRemote(base_remote - 1)' = FromRemote(base_remote - 1)
  BY <1>2 DEF FromRemote, UnitOfRemote
<1>4. FromLocal(ilocal - 1)' = {UnitOfLocal(k) : k \in 1 .. l}
  BY <1>2 DEF FromLocal, UnitOfLocal
<1>5. FromLocal(ilocal - 1)' = FromLocal(l - 1) \cup {u}
  BY Zenon, <1>2, <1>4 DEF FromLocal
<1>6. u \in MatchUnit
  BY <1>1, <1>2, UnitsTyped
<1>7. u \notin FromLocal(l - 1)
  BY <1>1, UnitsDiffer DEF FromLocal
<1>8. u \notin FromRemote(base_remote - 1)
  BY <1>1, <1>2, UnitsDiffer DEF FromRemote
<1>9. accum' = Append(accum, u)
  <2>1. a2b(order_remote, -1) = -1
    BY <1>1, OrderIs
  <2> DEFINE p == order_local[l]
  <2> DEFINE r == a2b(order_remote, p)
  <2> DEFINE gone == p # -1 /\ r = -1
  <2>2. u = Unit(p, l, r, gone)
    BY DEF UnitOfLocal
  <2>3. /\ p = -1 => accum' = Append(accum, Unit(-1, l, -1, FALSE))
        /\ p # -1 /\ r = -1 => accum' = Append(accum, Unit(p, l, -1, TRUE))
        /\ p # -1 /\ r # -1 => accum' = Append(accum, Unit(p, l, r, FALSE))
    BY Zenon DEF LocalRow, Push
  <2>4. (p = -1 \/ r # -1 => gone = FALSE) /\ (p # -1 /\ r = -1 => gone = TRUE)
    OBVIOUS
  <2>5. p = -1 => r = -1
    BY <2>1
  <2> HIDE DEF p, r, gone, u
  <2>6. CASE p = -1
    BY Zenon, <2>2, <2>3, <2>4, <2>5, <2>6
  <2>7. CASE p # -1 /\ r = -1
    BY Zenon, <2>2, <2>3, <2>4, <2>7
  <2>8. CASE p # -1 /\ r # -1
    BY Zenon, <2>2, <2>3, <2>4, <2>8
  <2> QED BY <2>6, <2>7, <2>8
<1> HIDE DEF u
<1> QED BY <1>1, <1>2, <1>3, <1>5, <1>6, <1>7, <1>8, <1>9, ProcessKeeps DEF LocalRow

(* The end of process: all units are there.                                *)
LEMMA EndProcessKeeps ==
  ASSUME OrderInv, EndProcess
  PROVE  OrderInv'
<1>1. /\ order_local \in OrderResult /\ order_remote \in OrderResult
      /\ ilocal \in 1 .. Len(order_local) + 1 /\ base_remote \in 1 .. Len(order_remote) + 1
      /\ Len(order_local) \in Nat /\ Len(order_remote) \in Nat
      /\ ilocal > Len(order_local) /\ base_remote > Len(order_remote)
      /\ pc = "process"
  BY OrderIs DEF OrderInv, UnitsInv, EndProcess
<1>2. ilocal - 1 = Len(order_local) /\ base_remote - 1 = Len(order_remote)
  BY <1>1
<1>3. Range(accum) = ExpectedUnits
  BY <1>1, <1>2, ExpectedIs DEF OrderInv, UnitsInv
<1>4. /\ UNCHANGED <<order_local, order_remote, ilocal, base_remote, accum, canon, mu>>
      /\ canon_src' = accum /\ pc' \in {"order", "done"} /\ canon = <<>>
  BY <1>1 DEF EndProcess, inputs, cursors, round, OrderInv, UnitsInv
<1>5. ExpectedUnits' = ExpectedUnits /\ KeptUnits' = KeptUnits
  BY <1>4 DEF ExpectedUnits, KeptUnits
<1>6. Range(<<>>) = {}
  BY DEF Range
<1>7. {u \in Range(canon_src') : ~u.deleted} = KeptUnits
  BY <1>3, <1>4 DEF KeptUnits
<1>8. UnitsInv'
  BY <1>1, <1>3, <1>4, <1>5, <1>6, <1>7 DEF UnitsInv, Searching, OrderInv
<1>9. LatticeInv'
  BY <1>4 DEF LatticeInv
<1> QED BY <1>8, <1>9 DEF OrderInv

-----------------------------------------------------------------------------
(* The steps of a round leave most of the state alone.                     *)
LEMMA RoundKeeps ==
  ASSUME OrderInv, UNCHANGED <<order_local, order_remote, ilocal, base_remote, accum, canon, canon_src, mu>>,
         Searching, Searching'
  PROVE  UnitsInv'
<1>1. ExpectedUnits' = ExpectedUnits /\ KeptUnits' = KeptUnits
  BY DEF ExpectedUnits, KeptUnits
<1> QED BY <1>1 DEF UnitsInv, Searching, OrderInv

LEMMA StartRoundKeeps ==
  ASSUME OrderInv, StartRound
  PROVE  OrderInv'
<1>1. /\ pc = "order" /\ pc' = "start" /\ mu' = Kept(canon_src)
      /\ UNCHANGED <<order_local, order_remote, ilocal, base_remote, accum, canon, canon_src>>
      /\ canon_src \in Seq(MatchUnit) /\ Unrepeated(canon_src)
      /\ {u \in Range(canon_src) : ~u.deleted} = KeptUnits \ Range(canon)
  BY DEF StartRound, OrderInv, UnitsInv, inputs, cursors
<1>2. ExpectedUnits' = ExpectedUnits /\ KeptUnits' = KeptUnits
  BY <1>1 DEF ExpectedUnits, KeptUnits
<1>3. mu' \in Seq(MatchUnit) /\ Unrepeated(mu') /\ Range(mu') = KeptUnits \ Range(canon)
  BY <1>1, KeptIs
<1>4. UnitsInv'
  BY <1>1, <1>2, <1>3 DEF UnitsInv, Searching, OrderInv
<1>5. LatticeInv'
  BY <1>1 DEF LatticeInv
<1> QED BY <1>4, <1>5 DEF OrderInv

LEMMA FirstDrawKeeps ==
  ASSUME OrderInv, FirstDraw
  PROVE  OrderInv'
<1> DEFINE N == Len(mu)
<1>1. /\ pc = "start" /\ pc' = "draw" /\ moves' = Moves /\ layers' = <<FirstLayer>>
      /\ UNCHANGED <<order_local, order_remote, ilocal, base_remote, accum, canon, canon_src, mu>>
      /\ N \in Nat
  BY DEF FirstDraw, OrderInv, UnitsInv, inputs, cursors
<1>2. UnitsInv'
  BY <1>1, RoundKeeps DEF Searching
<1>3. FirstLayer \in LayersOf(N + 1) /\ N \in Reached(FirstLayer)
  <2> DEFINE starts == Lowest("localUnit") \cup Lowest("remoteUnit")
  <2> HIDE DEF starts
  <2>1. FirstLayer = [k \in 0 .. N |-> IF k = N THEN [cost |-> 1, src |-> N]
                                      ELSE IF k \in starts THEN [cost |-> 0, src |-> k]
                                      ELSE Unreached]
    BY DEF FirstLayer, starts
  <2>2. (N + 1) - 1 = N /\ N \in 0 .. N /\ N # -1
    BY <1>1
  <2>3. FirstLayer \in [0 .. N -> [cost : Nat, src : {-1} \cup 0 .. N]]
    BY Zenon, <2>1, <2>2 DEF Unreached
  <2>4. FirstLayer[N].src = N /\ DOMAIN FirstLayer = 0 .. N
    BY Zenon, <2>1, <2>2
  <2> QED BY <2>2, <2>3, <2>4 DEF LayersOf, Reached
<1>4. MovesOf(N, Moves)
  <2>1. \A k \in 0 .. N - 1 : k \in 0 .. N
    BY <1>1
  <2>2. N \in 0 .. N
    BY <1>1
  <2> QED BY <2>1, <2>2 DEF Moves, MovesOf
<1>5. /\ layers' # <<>> /\ Len(layers') = 1 /\ layers'[1] = FirstLayer
      /\ layers' \in Seq(LayersOf(N + 1))
  BY <1>1, <1>3
<1>6. Linked(layers', N + 1)
  BY <1>5 DEF Linked
<1>7. LatticeInv'
  BY <1>1, <1>3, <1>4, <1>5, <1>6 DEF LatticeInv
<1> QED BY <1>2, <1>7 DEF OrderInv

(* A draw adds a layer.                                                    *)
LEMMA LinkedAppend ==
  ASSUME NEW N \in Nat, NEW ls, Linked(ls, N + 1), ls # <<>>, N \in Reached(ls[Len(ls)]),
         NEW given, MovesOf(N, given), NEW new, new = Append(ls, Layer(ls[Len(ls)], given))
  PROVE  new # <<>> /\ Linked(new, N + 1) /\ N \in Reached(new[Len(new)])
<1> DEFINE n == Len(ls)
<1> DEFINE layer == Layer(ls[n], given)
<1>1. ls \in Seq(LayersOf(N + 1)) /\ n \in Nat \ {0} /\ ls[n] \in LayersOf(N + 1)
  BY DEF Linked
<1>2. /\ layer \in LayersOf(N + 1) /\ N \in Reached(layer)
      /\ \A s \in Reached(layer) : layer[s].src \in Reached(ls[n])
  BY <1>1, LayerIs
<1> HIDE DEF layer
<1>3. /\ new \in Seq(LayersOf(N + 1)) /\ Len(new) = n + 1 /\ new[n + 1] = layer
      /\ \A i \in 1 .. n : new[i] = ls[i]
  BY <1>1, <1>2 DEF layer
<1>4. ASSUME NEW i \in 2 .. n + 1, NEW s \in Reached(new[i])
      PROVE  new[i][s].src \in Reached(new[i - 1])
  <2>1. CASE i = n + 1
    <3>1. i - 1 = n /\ n \in 1 .. n
      BY <1>1, <2>1
    <3> QED BY <1>2, <1>3, <2>1, <3>1
  <2>2. CASE i # n + 1
    <3>1. i \in 2 .. n /\ i \in 1 .. n /\ i - 1 \in 1 .. n
      BY <1>1, <2>2
    <3> QED BY <1>3, <3>1 DEF Linked
  <2> QED BY <2>1, <2>2
<1>5. new # <<>>
  BY <1>1, <1>3
<1> QED BY <1>2, <1>3, <1>4, <1>5 DEF Linked

LEMMA DrawKeeps ==
  ASSUME OrderInv, Draw \/ LastDraw
  PROVE  OrderInv'
<1> DEFINE N == Len(mu)
<1> DEFINE given == IF pc' = "draw" THEN moves ELSE LastMoves
<1>1. /\ pc = "draw" /\ pc' \in {"draw", "path"} /\ (pc' = "draw" => moves' = moves)
      /\ layers' = Append(layers, Layer(layers[Len(layers)], given))
      /\ UNCHANGED <<order_local, order_remote, ilocal, base_remote, accum, canon, canon_src, mu>>
      /\ N \in Nat /\ mu' = mu
  BY DEF Draw, LastDraw, OrderInv, UnitsInv, inputs, cursors
<1>2. UnitsInv'
  BY <1>1, RoundKeeps DEF Searching
<1>3. MovesOf(N, given)
  <2>1. MovesOf(N, moves)
    BY <1>1 DEF OrderInv, LatticeInv
  <2>2. MovesOf(N, LastMoves)
    BY <1>1 DEF LastMoves, MovesOf
  <2> QED BY <2>1, <2>2
<1> HIDE DEF given
<1>4. layers # <<>> /\ Linked(layers, N + 1) /\ N \in Reached(layers[Len(layers)])
  BY <1>1 DEF OrderInv, LatticeInv
<1>5. layers' # <<>> /\ Linked(layers', N + 1) /\ N \in Reached(layers'[Len(layers')])
  BY Zenon, <1>1, <1>3, <1>4, LinkedAppend
<1>6. pc' = "draw" => MovesOf(N, moves')
  BY <1>1, <1>3 DEF given
<1>7. LatticeInv'
  BY <1>1, <1>5, <1>6 DEF LatticeInv
<1> QED BY <1>2, <1>7 DEF OrderInv

LEMMA FindPathKeeps ==
  ASSUME OrderInv, FindPath
  PROVE  OrderInv'
<1> DEFINE N == Len(mu)
<1> DEFINE p == calculatePath(layers)
<1>1. /\ pc = "path" /\ pc' = "accept" /\ path' = SubSeq(p, 1, Len(layers) - 1)
      /\ UNCHANGED <<order_local, order_remote, ilocal, base_remote, accum, canon, canon_src, mu>>
      /\ N \in Nat /\ mu' = mu
  BY DEF FindPath, OrderInv, UnitsInv, inputs, cursors
<1>2. UnitsInv'
  BY <1>1, RoundKeeps DEF Searching
<1>3. layers # <<>> /\ Linked(layers, N + 1) /\ N \in Reached(layers[Len(layers)])
  BY <1>1 DEF OrderInv, LatticeInv
<1>4. Len(layers) \in Nat \ {0} /\ \A i \in 1 .. Len(layers) : layers[i] \in LayersOf(N + 1)
  BY <1>3 DEF Linked
<1>5. \A i \in 1 .. Len(layers) : p[i] \in Reached(layers[i])
  <2>1. N + 1 \in Nat /\ Reached(layers[Len(layers)]) # {}
    BY <1>1, <1>3
  <2> QED BY <1>3, <2>1, PathIsReached
<1>6. \A i \in 1 .. Len(layers) : Reached(layers[i]) \subseteq 0 .. N
  BY <1>1, <1>4 DEF Reached, LayersOf
<1>7. p \in [1 .. Len(layers) -> 0 .. N]
  <2>1. \A i \in 1 .. Len(layers) : p[i] \in 0 .. N
    BY <1>5, <1>6
  <2>2. p = [i \in 1 .. Len(layers) |->
              IF i = Len(layers) THEN Best(layers[Len(layers)]) ELSE Before(layers, i, p[i + 1])]
    BY <1>4, PathIsReadBack
  <2> HIDE DEF p
  <2>3. p = [i \in 1 .. Len(layers) |-> p[i]]
    BY <2>2
  <2> QED BY <2>1, <2>3
<1> HIDE DEF p
<1>8. SubSeq(p, 1, Len(layers) - 1) \in Seq(0 .. N)
  BY <1>4, <1>7
<1>9. LatticeInv'
  BY <1>1, <1>8 DEF LatticeInv
<1> QED BY <1>2, <1>9 DEF OrderInv

-----------------------------------------------------------------------------
(* Numbers that include with each one all before it are those up to some   *)
(* number, which is how many they are.                                     *)
LEMMA FirstNumbers ==
  ASSUME NEW L \in Nat, NEW P \in SUBSET (1 .. L), \A j \in P : \A i \in 1 .. j : i \in P
  PROVE  Cardinality(P) \in 0 .. L /\ P = 1 .. Cardinality(P)
<1> DEFINE T == {k \in Nat : k + 1 \notin P}
<1>1. L \in T
  BY DEF T
<1>2. PICK n \in T : \A k \in T : n <= k
  BY Zenon, <1>1, LeastNumber
<1>3. n \in Nat /\ n + 1 \notin P /\ n <= L
  BY <1>1, <1>2
<1>4. ASSUME NEW i \in 1 .. n PROVE i \in P
  <2>1. i - 1 \in Nat /\ ~(n <= i - 1) /\ (i - 1) + 1 = i
    BY <1>3
  <2> QED BY <1>2, <2>1
<1>5. ASSUME NEW j \in P PROVE j \in 1 .. n
  <2>1. CASE j <= n
    BY <1>3, <2>1
  <2>2. CASE j > n
    <3>1. n + 1 \in 1 .. j
      BY <1>3, <2>2
    <3> QED BY <1>3, <3>1
  <2> QED BY <1>3, <2>1, <2>2
<1>6. P = 1 .. n
  BY Zenon, <1>4, <1>5
<1>7. Cardinality(1 .. n) = n
  BY <1>3, FS_Interval
<1> QED BY <1>3, <1>6, <1>7

(* The states accepted are units, and none comes twice.                    *)
LEMMA AcceptedIs ==
  ASSUME mu \in Seq(MatchUnit), path \in Seq(0 .. Len(mu))
  PROVE  /\ Accepted \in 0 .. Len(path)
         /\ \A i \in 1 .. Accepted : path[i] + 1 \in 1 .. Len(mu)
         /\ \A i, j \in 1 .. Accepted : path[i] = path[j] => i = j
<1> DEFINE N == Len(mu)
<1> DEFINE seen(i) == {N} \cup {path[j] : j \in 1 .. i - 1}
<1> DEFINE bad(i) == path[i] \in seen(i) \/ (i < Len(path) /\ path[i + 1] \in seen(i))
<1> DEFINE P == {j \in DOMAIN path : \A i \in 1 .. j : ~bad(i)}
<1>1. Accepted = Cardinality(P)
  BY DEF Accepted
<1>2. N \in Nat /\ Len(path) \in Nat /\ DOMAIN path = 1 .. Len(path)
      /\ \A i \in 1 .. Len(path) : path[i] \in 0 .. N
  OBVIOUS
<1>3. ASSUME NEW j \in P, NEW i \in 1 .. j
      PROVE  i \in P
  <2>1. i \in 1 .. Len(path) /\ 1 .. i \subseteq 1 .. j
    BY <1>2
  <2> HIDE DEF bad
  <2> QED BY <1>2, <2>1
<1>4. P \in SUBSET (1 .. Len(path))
  BY <1>2
<1>5. Accepted \in 0 .. Len(path) /\ P = 1 .. Accepted
  <2> HIDE DEF P
  <2> QED BY <1>1, <1>2, <1>3, <1>4, FirstNumbers
<1>6. ASSUME NEW i \in 1 .. Accepted
      PROVE  i \in 1 .. Len(path) /\ path[i] # N /\ \A j \in 1 .. i - 1 : path[i] # path[j]
  <2>1. i \in P
    BY Zenon, <1>5
  <2>2. i \in 1 .. Len(path) /\ i \in 1 .. i
    BY <2>1, <1>2
  <2>3. ~bad(i)
    <3> HIDE DEF bad
    <3> QED BY <2>1, <2>2
  <2> QED BY <2>2, <2>3
<1>7. ASSUME NEW i \in 1 .. Accepted
      PROVE  path[i] + 1 \in 1 .. N
  BY <1>2, <1>6
<1>8. ASSUME NEW i \in 1 .. Accepted, NEW j \in 1 .. Accepted, path[i] = path[j]
      PROVE  i = j
  <2>1. ~(j \in 1 .. i - 1) /\ ~(i \in 1 .. j - 1)
    BY <1>6, <1>8
  <2>2. i \in Nat /\ j \in Nat /\ i >= 1 /\ j >= 1
    BY <1>2, <1>6
  <2> QED BY <2>1, <2>2
<1> QED BY <1>5, <1>7, <1>8

LEMMA AcceptKeeps ==
  ASSUME OrderInv, Accept
  PROVE  OrderInv'
<1> DEFINE n == Accepted
<1> DEFINE placed == [i \in 1 .. n |-> mu[path[i] + 1]]
<1>1. /\ pc = "accept" /\ pc' \in {"collect", "order"}
      /\ canon' = canon \o placed /\ canon_src' = Only(mu, Range(mu) \ Range(placed))
      /\ UNCHANGED <<order_local, order_remote, ilocal, base_remote, accum>>
      /\ mu' = <<>>
  BY DEF Accept, inputs, cursors
<1>2. /\ mu \in Seq(MatchUnit) /\ Unrepeated(mu) /\ Range(mu) = KeptUnits \ Range(canon)
      /\ canon \in Seq(MatchUnit) /\ Unrepeated(canon) /\ Range(canon) \subseteq KeptUnits
      /\ path \in Seq(0 .. Len(mu)) /\ Range(accum) = ExpectedUnits
  BY <1>1 DEF OrderInv, UnitsInv, LatticeInv, Searching
<1>3. /\ n \in 0 .. Len(path) /\ n \in Nat
      /\ \A i \in 1 .. n : path[i] + 1 \in 1 .. Len(mu)
      /\ \A i, j \in 1 .. n : path[i] = path[j] => i = j
  BY <1>2, AcceptedIs
<1> HIDE DEF n
<1>4. /\ placed \in Seq(MatchUnit) /\ Len(placed) = n /\ DOMAIN placed = 1 .. n
      /\ \A i \in 1 .. n : placed[i] = mu[path[i] + 1]
  BY <1>2, <1>3
<1> HIDE DEF placed
<1>5. Unrepeated(placed)
  <2> SUFFICES ASSUME NEW i \in 1 .. n, NEW j \in 1 .. n, placed[i] = placed[j]
               PROVE  i = j
    BY <1>4 DEF Unrepeated
  <2>1. path[i] + 1 = path[j] + 1
    <3>1. mu[path[i] + 1] = mu[path[j] + 1]
      BY <1>4
    <3>2. path[i] + 1 \in 1 .. Len(mu) /\ path[j] + 1 \in 1 .. Len(mu)
      BY <1>3
    <3>3. \A a, b \in 1 .. Len(mu) : mu[a] = mu[b] => a = b
      BY <1>2 DEF Unrepeated
    <3> QED BY Zenon, <3>1, <3>2, <3>3
  <2>2. path[i] \in 0 .. Len(mu) /\ path[j] \in 0 .. Len(mu)
    <3>1. i \in 1 .. Len(path) /\ j \in 1 .. Len(path)
      <4>1. Len(path) \in Nat
        BY <1>2
      <4> QED BY <1>3, <4>1
    <3>2. \A k \in 1 .. Len(path) : path[k] \in 0 .. Len(mu)
      BY <1>2
    <3> QED BY Zenon, <3>1, <3>2
  <2>3. path[i] = path[j]
    BY <2>1, <2>2
  <2> QED BY <2>3, <1>3
<1>6. Range(placed) \subseteq Range(mu)
  <2>1. ASSUME NEW i \in 1 .. n PROVE placed[i] \in Range(mu)
    <3>1. placed[i] = mu[path[i] + 1] /\ path[i] + 1 \in 1 .. Len(mu)
      BY <1>3, <1>4
    <3>2. DOMAIN mu = 1 .. Len(mu)
      BY <1>2
    <3> QED BY Zenon, <3>1, <3>2 DEF Range
  <2> QED BY <2>1, <1>4 DEF Range
<1>7. /\ canon' \in Seq(MatchUnit) /\ Unrepeated(canon')
      /\ Range(canon') = Range(canon) \cup Range(placed)
  <2>1. Range(canon) \cap Range(placed) = {}
    BY <1>2, <1>6
  <2> QED BY <1>1, <1>2, <1>4, <1>5, <2>1, SetOfConcat
<1>8. /\ canon_src' \in Seq(MatchUnit) /\ Unrepeated(canon_src')
      /\ Range(canon_src') = KeptUnits \ Range(canon')
  <2> DEFINE S == Range(mu) \ Range(placed)
  <2>1. /\ Only(mu, S) \in Seq(MatchUnit) /\ Unrepeated(Only(mu, S))
        /\ Range(Only(mu, S)) = Range(mu) \cap S
    <3> HIDE DEF S
    <3> QED BY <1>2, OnlyIs
  <2>2. Range(mu) \cap S = KeptUnits \ Range(canon')
    BY <1>2, <1>7
  <2> QED BY Zenon, <1>1, <2>1, <2>2
<1>9. ExpectedUnits' = ExpectedUnits /\ KeptUnits' = KeptUnits
  BY <1>1 DEF ExpectedUnits, KeptUnits
<1>10. \A u \in Range(canon_src') : ~u.deleted
  BY <1>8 DEF KeptUnits
<1>11. Range(canon') \subseteq KeptUnits
  BY <1>2, <1>6, <1>7
<1>12. <<>> \in Seq(MatchUnit) /\ Unrepeated(<<>>)
  BY DEF Unrepeated
<1>13. {u \in Range(canon_src') : ~u.deleted} = KeptUnits \ Range(canon')
  BY <1>8, <1>10
<1>14. UnitsInv'
  BY Zenon, <1>1, <1>2, <1>7, <1>8, <1>9, <1>10, <1>11, <1>12, <1>13 DEF UnitsInv, Searching, OrderInv
<1>15. LatticeInv'
  BY <1>1 DEF LatticeInv
<1> QED BY <1>14, <1>15 DEF OrderInv

LEMMA CollectKeeps ==
  ASSUME OrderInv, Collect
  PROVE  OrderInv'
<1>1. /\ pc = "collect" /\ pc' = "done" /\ accum' = canon \o canon_src \o Dropped(accum)
      /\ UNCHANGED <<order_local, order_remote, ilocal, base_remote, canon, canon_src, mu>>
  BY DEF Collect, inputs, cursors, round
<1>2. /\ accum \in Seq(MatchUnit) /\ Unrepeated(accum) /\ Range(accum) = ExpectedUnits
      /\ canon \in Seq(MatchUnit) /\ Unrepeated(canon) /\ Range(canon) \subseteq KeptUnits
      /\ canon_src \in Seq(MatchUnit) /\ Unrepeated(canon_src)
      /\ Range(canon_src) = KeptUnits \ Range(canon)
  <2>1. /\ {u \in Range(canon_src) : ~u.deleted} = KeptUnits \ Range(canon)
        /\ \A u \in Range(canon_src) : ~u.deleted
    BY <1>1 DEF OrderInv, UnitsInv
  <2>2. Range(canon_src) = KeptUnits \ Range(canon)
    BY <2>1
  <2> QED BY <1>1, <2>2 DEF OrderInv, UnitsInv
<1>3. /\ Dropped(accum) \in Seq(MatchUnit) /\ Unrepeated(Dropped(accum))
      /\ Range(Dropped(accum)) = {u \in ExpectedUnits : u.deleted}
  BY <1>2, KeptIs
<1> DEFINE c == canon \o canon_src
<1> DEFINE d == Dropped(accum)
<1>4. c \in Seq(MatchUnit) /\ Unrepeated(c) /\ Range(c) = KeptUnits
  <2>1. Range(canon) \cap Range(canon_src) = {} /\ Range(canon) \cup Range(canon_src) = KeptUnits
    BY <1>2
  <2> QED BY Zenon, <1>2, <2>1, SetOfConcat
<1>5. Range(c) \cap Range(d) = {} /\ Range(c) \cup Range(d) = ExpectedUnits
  BY <1>3, <1>4 DEF KeptUnits
<1>6. accum' \in Seq(MatchUnit) /\ Unrepeated(accum') /\ Range(accum') = ExpectedUnits
  <2>1. accum' = c \o d
    BY <1>1
  <2>2. c \in Seq(MatchUnit) /\ d \in Seq(MatchUnit)
    BY <1>3, <1>4
  <2>3. Unrepeated(c) /\ Unrepeated(d)
    BY <1>3, <1>4
  <2> HIDE DEF c, d
  <2>4. c \o d \in Seq(MatchUnit)
    BY <2>2
  <2>5. Unrepeated(c \o d)
    BY <2>2, <2>3, <1>5, SetOfConcat
  <2>6. Range(c \o d) = Range(c) \cup Range(d)
    BY <2>2, SetOfConcat
  <2> QED BY Zenon, <1>5, <2>1, <2>4, <2>5, <2>6
<1>7. ExpectedUnits' = ExpectedUnits
  BY <1>1 DEF ExpectedUnits
<1>8. UnitsInv'
  BY <1>1, <1>2, <1>6, <1>7 DEF UnitsInv, Searching, OrderInv
<1>9. LatticeInv'
  BY <1>1 DEF LatticeInv
<1> QED BY <1>8, <1>9 DEF OrderInv

LEMMA OrderInvariant == Spec => []OrderInv
<1>1. Init => OrderInv
  BY InitOrder
<1>2. OrderInv /\ [Next]_vars => OrderInv'
  <2> SUFFICES ASSUME OrderInv, [Next]_vars PROVE OrderInv'
    OBVIOUS
  <2>1. CASE CatchUpRemote
    <3>1. /\ order_remote \in OrderResult /\ base_remote \in Nat
          /\ base_remote < a2b(order_remote, order_local[ilocal]) /\ pc = "process" /\ RemoteRow
      BY <2>1 DEF CatchUpRemote, OrderInv, UnitsInv
    <3>2. Len(order_remote) \in Nat /\ a2b(order_remote, order_local[ilocal]) \in {-1} \cup 1 .. Len(order_remote)
      BY <3>1, OrderIs
    <3>3. base_remote <= Len(order_remote)
      BY <3>1, <3>2
    <3> QED BY <3>1, <3>3, RemoteRowKeeps
  <2>2. CASE LocalRow
    BY <2>2, LocalRowKeeps
  <2>3. CASE RemainingRemote
    BY <2>3, RemoteRowKeeps DEF RemainingRemote
  <2>4. CASE EndProcess
    BY <2>4, EndProcessKeeps
  <2>5. CASE StartRound
    BY <2>5, StartRoundKeeps
  <2>6. CASE FirstDraw
    BY <2>6, FirstDrawKeeps
  <2>7. CASE Draw \/ LastDraw
    BY <2>7, DrawKeeps
  <2>8. CASE FindPath
    BY <2>8, FindPathKeeps
  <2>9. CASE Accept
    BY <2>9, AcceptKeeps
  <2>10. CASE Collect
    BY <2>10, CollectKeeps
  <2>11. CASE UNCHANGED vars
    <3>1. UNCHANGED <<order_local, order_remote, ilocal, base_remote, accum, canon, canon_src,
                      mu, moves, layers, path, pc>>
      BY <2>11 DEF vars, inputs, cursors, round
    <3>2. /\ ExpectedUnits' = ExpectedUnits /\ KeptUnits' = KeptUnits
          /\ FromLocal(ilocal - 1)' = FromLocal(ilocal - 1)
          /\ FromRemote(base_remote - 1)' = FromRemote(base_remote - 1)
      BY <3>1 DEF ExpectedUnits, KeptUnits, FromLocal, FromRemote, UnitOfLocal, UnitOfRemote
    <3>3. UnitsInv'
      BY <3>1, <3>2 DEF OrderInv, UnitsInv, Searching
    <3>4. LatticeInv'
      BY <3>1 DEF OrderInv, LatticeInv
    <3> QED BY <3>3, <3>4 DEF OrderInv
  <2> QED BY Zenon, <2>1, <2>2, <2>3, <2>4, <2>5, <2>6, <2>7, <2>8, <2>9, <2>10, <2>11 DEF Next
<1> QED BY <1>1, <1>2, PTL DEF Spec

(* Whatever rows local and remote moved, inserted and dropped, in tables   *)
(* of any size, OrderMerge::merge ends with one unit for every row of the  *)
(* merge: the rounds of the search lose none and place none twice.         *)
THEOREM RowsComeOnce == Spec => []EveryRowOnce
<1>1. OrderInv => EveryRowOnce
  <2> SUFFICES ASSUME OrderInv, pc = "done" PROVE EveryRowOnce
    BY DEF EveryRowOnce
  <2>1. accum \in Seq(MatchUnit) /\ Unrepeated(accum) /\ Range(accum) = ExpectedUnits
    BY DEF OrderInv, UnitsInv
  <2>2. Cardinality(Range(accum)) = Len(accum)
    BY <2>1, SizeOfSet
  <2> QED BY <2>1, <2>2 DEF EveryRowOnce
<1> QED BY <1>1, OrderInvariant, PTL

-----------------------------------------------------------------------------
(* The order of the rows.  If a search has one way on from every unit, to  *)
(* the unit next on a side, its path goes through the units in the order   *)
(* of that side: the first round places them all.                          *)

(* A draw with one way on from each state, nxt.                            *)
OneWayOn(N, nxt, prev, given) ==
  /\ N \in Nat \ {0} /\ nxt \in [0 .. N - 1 -> 0 .. N] /\ prev \in LayersOf(N + 1)
  /\ given = {<<k, nxt[k], 0>> : k \in 0 .. N - 1} \cup {<<N, N, 1>>}

LEMMA OneWayDraw ==
  ASSUME NEW N, NEW nxt, NEW prev, NEW given, OneWayOn(N, nxt, prev, given)
  PROVE  /\ \A s \in 0 .. N - 1 : Layer(prev, given)[s].src # -1 =>
              /\ Layer(prev, given)[s].src \in 0 .. N - 1
              /\ nxt[Layer(prev, given)[s].src] = s
         /\ \A k \in 0 .. N - 1 : prev[k].src # -1 /\ prev[k].cost = 0 /\ nxt[k] # N =>
              /\ Layer(prev, given)[nxt[k]].src # -1
              /\ Layer(prev, given)[nxt[k]].cost = 0
<1> USE DEF OneWayOn
<1> DEFINE L == Layer(prev, given)
<1>1. /\ DOMAIN prev = 0 .. N /\ \A s \in 0 .. N : prev[s].cost \in Nat
      /\ \A s \in 0 .. N - 1 : s \in 0 .. N /\ s # N /\ s # -1
      /\ N \in 0 .. N
  BY DEF LayersOf
<1>2. ASSUME NEW m \in given
      PROVE  \/ m = <<N, N, 1>>
             \/ \E k \in 0 .. N - 1 : m = <<k, nxt[k], 0>>
  BY Zenon, <1>2
<1>3. ASSUME NEW m \in given
      PROVE  \/ m[1] = N /\ m[2] = N /\ m[3] = 1
             \/ m[1] \in 0 .. N - 1 /\ m[2] = nxt[m[1]] /\ m[3] = 0
  <2>1. CASE m = <<N, N, 1>>
    BY <2>1
  <2>2. CASE \E k \in 0 .. N - 1 : m = <<k, nxt[k], 0>>
    BY <2>2
  <2> QED BY <1>2, <2>1, <2>2
<1>4. \A m \in given : m[1] \in 0 .. N /\ m[3] \in Nat
  BY <1>1, <1>3
<1>5. \A s \in 0 .. N :
        /\ WaysTo(prev, given, s) = {} => L[s] = Unreached
        /\ WaysTo(prev, given, s) # {} => \E m \in WaysTo(prev, given, s) :
             /\ L[s] = [cost |-> WayCost(prev, m), src |-> m[1]]
             /\ \A k \in WaysTo(prev, given, s) : WayCost(prev, m) <= WayCost(prev, k)
  BY Zenon, <1>4, LayerBest
<1> HIDE DEF L
<1>6. ASSUME NEW s \in 0 .. N - 1, L[s].src # -1
      PROVE  L[s].src \in 0 .. N - 1 /\ nxt[L[s].src] = s
  <2>1. s \in 0 .. N /\ s # N
    BY Zenon, <1>1
  <2>2. PICK m \in WaysTo(prev, given, s) : L[s] = [cost |-> WayCost(prev, m), src |-> m[1]]
    <3>1. Unreached.src = -1
      BY DEF Unreached
    <3>2. WaysTo(prev, given, s) # {}
      BY Zenon, <1>5, <1>6, <2>1, <3>1
    <3> QED BY Zenon, <1>5, <2>1, <3>2
  <2>3. L[s].src = m[1] /\ m[2] = s /\ m \in given
    BY <2>2 DEF WaysTo
  <2> QED BY <1>3, <2>1, <2>3
<1>7. ASSUME NEW k \in 0 .. N - 1, prev[k].src # -1, prev[k].cost = 0, nxt[k] # N
      PROVE  L[nxt[k]].src # -1 /\ L[nxt[k]].cost = 0
  <2> DEFINE s == nxt[k]
  <2> DEFINE w == <<k, s, 0>>
  <2>1. w \in WaysTo(prev, given, s)
    BY <1>7 DEF WaysTo
  <2>2. WayCost(prev, w) = 0
    BY <1>7 DEF WayCost
  <2>3. s \in 0 .. N /\ s # N
    BY <1>7
  <2> HIDE DEF s, w
  <2>4. PICK m \in WaysTo(prev, given, s) :
          /\ L[s] = [cost |-> WayCost(prev, m), src |-> m[1]]
          /\ \A j \in WaysTo(prev, given, s) : WayCost(prev, m) <= WayCost(prev, j)
    BY Zenon, <1>5, <2>1, <2>3
  <2>5. m \in given /\ m[1] \in 0 .. N
    BY <1>4 DEF WaysTo
  <2>6. WayCost(prev, m) \in Nat
    BY <1>1, <1>4, <2>5 DEF WayCost
  <2>7. WayCost(prev, m) = 0
    BY <2>1, <2>2, <2>4, <2>6
  <2> QED BY <2>4, <2>5, <2>7 DEF s
<1> QED BY Zenon, <1>6, <1>7 DEF L

(* The last draw, which stays in each state.                               *)
StayingOn(N, prev, given) ==
  /\ N \in Nat \ {0} /\ prev \in LayersOf(N + 1)
  /\ given = {<<k, k, IF k = N THEN 1 ELSE 0>> : k \in 0 .. N}

LEMMA StayingDraw ==
  ASSUME NEW N, NEW prev, NEW given, StayingOn(N, prev, given)
  PROVE  /\ \A s \in 0 .. N : Layer(prev, given)[s].src \in {-1, s}
         /\ Layer(prev, given)[N].src # -1 => Layer(prev, given)[N].cost > 0
         /\ \A s \in 0 .. N - 1 : prev[s].src # -1 /\ prev[s].cost = 0 =>
              Layer(prev, given)[s].src # -1 /\ Layer(prev, given)[s].cost = 0
<1> USE DEF StayingOn
<1> DEFINE L == Layer(prev, given)
<1>1. /\ DOMAIN prev = 0 .. N /\ \A s \in 0 .. N : prev[s].cost \in Nat
      /\ \A s \in 0 .. N - 1 : s \in 0 .. N /\ s # N /\ s # -1
      /\ N \in 0 .. N
  BY DEF LayersOf
<1>2. ASSUME NEW m \in given
      PROVE  m[1] \in 0 .. N /\ m[2] = m[1] /\ m[3] = IF m[1] = N THEN 1 ELSE 0
  <2>1. PICK k \in 0 .. N : m = <<k, k, IF k = N THEN 1 ELSE 0>>
    BY Zenon, <1>2
  <2> QED BY <2>1
<1>3. \A m \in given : m[1] \in 0 .. N /\ m[3] \in Nat
  BY <1>2
<1>4. \A s \in 0 .. N :
        /\ WaysTo(prev, given, s) = {} => L[s] = Unreached
        /\ WaysTo(prev, given, s) # {} => \E m \in WaysTo(prev, given, s) :
             /\ L[s] = [cost |-> WayCost(prev, m), src |-> m[1]]
             /\ \A k \in WaysTo(prev, given, s) : WayCost(prev, m) <= WayCost(prev, k)
  BY Zenon, <1>3, LayerBest
<1> HIDE DEF L
<1>5. ASSUME NEW s \in 0 .. N
      PROVE  \/ WaysTo(prev, given, s) = {} /\ L[s].src = -1
             \/ L[s].src = s /\ L[s].cost = prev[s].cost + (IF s = N THEN 1 ELSE 0)
  <2>1. CASE WaysTo(prev, given, s) = {}
    BY <1>4, <2>1 DEF Unreached
  <2>2. CASE WaysTo(prev, given, s) # {}
    <3>1. PICK m \in WaysTo(prev, given, s) : L[s] = [cost |-> WayCost(prev, m), src |-> m[1]]
      BY Zenon, <1>4, <2>2
    <3>2. m \in given /\ m[2] = s
      BY DEF WaysTo
    <3>3. m[1] = s /\ m[3] = IF s = N THEN 1 ELSE 0
      BY <1>2, <3>2
    <3>4. L[s].src = m[1] /\ L[s].cost = m[3] + prev[m[1]].cost
      BY <3>1 DEF WayCost
    <3>5. prev[s].cost \in Nat
      BY <1>1
    <3> QED BY <3>3, <3>4, <3>5
  <2> QED BY <2>1, <2>2
<1>6. ASSUME NEW s \in 0 .. N - 1, prev[s].src # -1, prev[s].cost = 0
      PROVE  L[s].src # -1 /\ L[s].cost = 0
  <2>1. s \in 0 .. N /\ s # N /\ s # -1
    BY Zenon, <1>1
  <2>2. <<s, s, 0>> \in WaysTo(prev, given, s)
    BY <1>6, <2>1 DEF WaysTo
  <2> QED BY <1>5, <1>6, <2>1, <2>2
<1>7. L[N].src # -1 => L[N].cost > 0
  BY <1>1, <1>5
<1> QED BY <1>5, <1>6, <1>7 DEF L

-----------------------------------------------------------------------------
(* Of N numbers, all different, v[t + 1] is the next after v[s + 1]; t is  *)
(* N if there is none.                                                     *)
NextIn(v, N, s, t) ==
  \/ t = N /\ \A i \in 1 .. N : v[i] <= v[s + 1]
  \/ /\ t \in 0 .. N - 1 /\ v[s + 1] < v[t + 1]
     /\ \A i \in 1 .. N : v[s + 1] < v[i] => v[t + 1] <= v[i]

Apart(v, N) == \A i, j \in 1 .. N : v[i] = v[j] => i = j
LowerThan(v, N, s) == {j \in 1 .. N : v[j] < v[s + 1]}

StepUp(v, N, s, t) ==
  /\ N \in Nat \ {0} /\ v \in [1 .. N -> Int] /\ Apart(v, N)
  /\ s \in 0 .. N - 1 /\ NextIn(v, N, s, t)
  /\ Cardinality(LowerThan(v, N, s)) < N - 1

LEMMA OneMore ==
  ASSUME NEW N, NEW v, NEW s, NEW t, StepUp(v, N, s, t)
  PROVE  /\ t \in 0 .. N - 1
         /\ Cardinality(LowerThan(v, N, t)) = Cardinality(LowerThan(v, N, s)) + 1
<1> USE DEF StepUp
<1> DEFINE B == LowerThan(v, N, s)
<1> DEFINE A == B \cup {s + 1}
<1>1. s + 1 \in 1 .. N /\ \A i \in 1 .. N : v[i] \in Int
  OBVIOUS
<1>2. B \subseteq 1 .. N /\ s + 1 \notin B
  BY <1>1 DEF LowerThan
<1>3. IsFiniteSet(1 .. N) /\ Cardinality(1 .. N) = N
  BY FS_Interval
<1>4. IsFiniteSet(B)
  BY <1>2, <1>3, FS_Subset
<1>5. Cardinality(B) \in Nat /\ Cardinality(A) = Cardinality(B) + 1
  BY <1>2, <1>4, FS_AddElement, FS_CardinalityType
<1>6. A # 1 .. N /\ A \subseteq 1 .. N
  <2>1. A \subseteq 1 .. N
    BY <1>1, <1>2
  <2> HIDE DEF A
  <2>2. Cardinality(A) # Cardinality(1 .. N)
    BY <1>3, <1>5
  <2> QED BY Zenon, <2>1, <2>2
<1>7. PICK j \in 1 .. N : j \notin A
  BY Zenon, <1>6
<1>8. v[s + 1] < v[j]
  <2>1. ~(v[j] < v[s + 1]) /\ j # s + 1
    BY Zenon, <1>7 DEF LowerThan
  <2>2. v[j] # v[s + 1]
    BY Zenon, <1>1, <2>1 DEF Apart
  <2> QED BY <1>1, <2>1, <2>2
<1>9. /\ t \in 0 .. N - 1 /\ v[s + 1] < v[t + 1]
      /\ \A i \in 1 .. N : v[s + 1] < v[i] => v[t + 1] <= v[i]
  BY <1>1, <1>8 DEF NextIn
<1>10. LowerThan(v, N, t) = A
  <2>1. t + 1 \in 1 .. N
    BY <1>9
  <2>2. ASSUME NEW i \in 1 .. N
        PROVE  v[i] < v[t + 1] <=> v[i] < v[s + 1] \/ i = s + 1
    <3>1. v[i] = v[s + 1] => i = s + 1
      BY Zenon, <1>1 DEF Apart
    <3>2. v[i] \in Int /\ v[s + 1] \in Int /\ v[t + 1] \in Int
      BY Zenon, <1>1, <2>1
    <3>3. v[s + 1] < v[i] => v[t + 1] <= v[i]
      BY Zenon, <1>9
    <3> QED BY <1>9, <3>1, <3>2, <3>3
  <2> QED BY <1>1, <2>2 DEF LowerThan
<1> QED BY <1>5, <1>9, <1>10

(* A path from each number to the next goes up, and passes through all.    *)
LEMMA PathGoesUp ==
  ASSUME NEW N \in Nat \ {0}, NEW v \in [1 .. N -> Int], NEW p \in [1 .. N -> 0 .. N - 1],
         \A i \in 2 .. N : NextIn(v, N, p[i - 1], p[i])
  PROVE  \A i, j \in 1 .. N : i < j => v[p[i] + 1] < v[p[j] + 1]
<1> DEFINE w == [i \in 1 .. N |-> v[p[i] + 1]]
<1>1. \A i \in 1 .. N : p[i] \in 0 .. N - 1 /\ p[i] + 1 \in 1 .. N
  BY SMTT(30)
<1>2. \A i \in 1 .. N : w[i] \in Int /\ w[i] = v[p[i] + 1]
  BY Zenon, <1>1
<1>3. ASSUME NEW i \in 2 .. N PROVE w[i - 1] < w[i]
  <2>1. i - 1 \in 1 .. N /\ i \in 1 .. N
    OBVIOUS
  <2>2. NextIn(v, N, p[i - 1], p[i]) /\ p[i] \in 0 .. N - 1
    BY Zenon, <1>1, <2>1
  <2>3. v[p[i - 1] + 1] < v[p[i] + 1]
    BY <2>2 DEF NextIn
  <2> QED BY <1>2, <2>1, <2>3
<1> HIDE DEF w
<1> DEFINE T == {k \in Nat : \A i \in 1 .. N : i + k + 1 <= N => w[i] < w[i + k + 1]}
<1>4. 0 \in T
  <2>1. ASSUME NEW i \in 1 .. N, i + 0 + 1 <= N PROVE w[i] < w[i + 0 + 1]
    <3>1. i + 1 \in 2 .. N /\ (i + 1) - 1 = i /\ i + 0 + 1 = i + 1
      BY <2>1
    <3> QED BY <1>3, <3>1
  <2> QED BY <2>1
<1>5. ASSUME NEW k \in T PROVE k + 1 \in T
  <2>1. k \in Nat
    OBVIOUS
  <2>2. ASSUME NEW i \in 1 .. N, i + (k + 1) + 1 <= N PROVE w[i] < w[i + (k + 1) + 1]
    <3> DEFINE j == i + k + 1
    <3>1. j \in 1 .. N /\ j + 1 \in 2 .. N /\ j + 1 \in 1 .. N /\ (j + 1) - 1 = j
          /\ i + (k + 1) + 1 = j + 1 /\ i + k + 1 <= N
      BY <2>1, <2>2
    <3>2. w[i] < w[j]
      BY <3>1
    <3> HIDE DEF j
    <3>3. w[j] < w[j + 1]
      BY <1>3, <3>1
    <3>4. w[i] \in Int /\ w[j] \in Int /\ w[j + 1] \in Int
      BY Zenon, <1>2, <3>1
    <3>5. w[i] < w[j + 1]
      BY <3>2, <3>3, <3>4
    <3> QED BY Zenon, <3>1, <3>5
  <2> QED BY <2>1, <2>2
<1>6. T = Nat
  <2> HIDE DEF T
  <2>1. T \in SUBSET Nat
    BY DEF T
  <2> QED BY Zenon, <2>1, <1>4, <1>5, AllNumbers
<1>7. ASSUME NEW i \in 1 .. N, NEW j \in 1 .. N, i < j
      PROVE  v[p[i] + 1] < v[p[j] + 1]
  <2>1. j - i - 1 \in Nat /\ i + (j - i - 1) + 1 = j /\ j <= N
    BY <1>7
  <2>2. w[i] < w[j]
    BY Zenon, <1>6, <2>1
  <2> QED BY <1>2, <2>2
<1> QED BY SMTT(30), <1>7

-----------------------------------------------------------------------------
(* The places of the units on a side.                                      *)
Sides == {"localUnit", "remoteUnit", "pivotUnit"}
Places(side) == [j \in 1 .. Len(mu) |-> mu[j][side]]

LEMMA PlacesTyped ==
  ASSUME NEW side \in Sides
  PROVE  \A u \in MatchUnit : u[side] \in Int /\ (u[side] = -1 \/ u[side] \in Nat \ {0})
<1> USE BoundsOK
<1>1. CASE side = "localUnit"
  BY <1>1 DEF MatchUnit
<1>2. CASE side = "remoteUnit"
  BY <1>2 DEF MatchUnit
<1>3. CASE side = "pivotUnit"
  BY <1>3 DEF MatchUnit
<1> QED BY Zenon, <1>1, <1>2, <1>3 DEF Sides

LEMMA NextIs ==
  ASSUME mu \in Seq(MatchUnit), NEW side \in Sides, NEW k \in 0 .. Len(mu) - 1
  PROVE  NextIn(Places(side), Len(mu), k, NextOn(side, k))
<1> DEFINE N == Len(mu)
<1> DEFINE v == Places(side)
<1> DEFINE later == {j \in DOMAIN mu : mu[j][side] > mu[k + 1][side]}
<1> DEFINE least(j) == \A i \in later : mu[j][side] <= mu[i][side]
<1>1. N \in Nat /\ DOMAIN mu = 1 .. N /\ k + 1 \in 1 .. N /\ \A j \in 1 .. N : mu[j] \in MatchUnit
  OBVIOUS
<1>2. \A j \in 1 .. N : v[j] = mu[j][side] /\ v[j] \in Int /\ (v[j] = -1 \/ v[j] \in Nat \ {0})
  BY <1>1, PlacesTyped DEF Places
<1> HIDE DEF v
<1>3. \A j : j \in later <=> j \in 1 .. N /\ v[k + 1] < v[j]
  BY <1>1, <1>2
<1>4. NextOn(side, k) = IF later = {} THEN N ELSE (CHOOSE j \in later : least(j)) - 1
  BY Zenon DEF NextOn
<1>5. CASE later = {}
  <2>1. NextOn(side, k) = N
    BY Zenon, <1>4, <1>5
  <2>2. \A i \in 1 .. N : ~(v[k + 1] < v[i])
    BY Zenon, <1>3, <1>5
  <2>3. \A i \in 1 .. N : v[i] <= v[k + 1]
    BY <1>1, <1>2, <2>2
  <2> QED BY Zenon, <2>1, <2>3 DEF NextIn, v
<1>6. CASE later # {}
  <2> DEFINE S == {mu[j][side] : j \in later}
  <2>1. S \in SUBSET Nat /\ S # {}
    <3>1. \A j \in later : mu[j][side] \in Nat
      BY <1>1, <1>2, <1>3
    <3> QED BY Zenon, <1>6, <3>1
  <2>2. PICK m \in S : \A n \in S : m <= n
    <3> HIDE DEF S
    <3> QED BY Zenon, <2>1, LeastNumber
  <2>3. \E j \in later : least(j)
    BY Zenon, <2>2
  <2>4. PICK j \in later : least(j) /\ NextOn(side, k) = j - 1
    <3> HIDE DEF least, later
    <3> QED BY Zenon, <1>4, <1>6, <2>3
  <2>5. j \in 1 .. N /\ v[k + 1] < v[j] /\ \A i \in 1 .. N : v[k + 1] < v[i] => v[j] <= v[i]
    BY Zenon, <1>2, <1>3, <2>4
  <2>6. j - 1 \in 0 .. N - 1 /\ (j - 1) + 1 = j
    BY <1>1, <2>5
  <2> QED BY Zenon, <2>4, <2>5, <2>6 DEF NextIn, v
<1> QED BY <1>5, <1>6

(* The side that a merge follows: it has a place for every unit that is    *)
(* kept, and the other side has the places of pivot, in their order.       *)
Other(side) == IF side = "localUnit" THEN "remoteUnit" ELSE "localUnit"

Alike(units, a, b) ==
  /\ \A u \in units : u[a] = -1 <=> u[b] = -1
  /\ \A u, v \in units : u[a] # -1 /\ v[a] # -1 => (u[a] < v[a] <=> u[b] < v[b])

OneOf(units, side) == \A u, v \in units : u[side] = v[side] => u[side] = -1 \/ u = v

Follows(side) ==
  /\ side \in {"localUnit", "remoteUnit"}
  /\ \A u \in KeptUnits : u[side] # -1
  /\ Alike(KeptUnits, Other(side), "pivotUnit")
  /\ OneOf(KeptUnits, side) /\ OneOf(KeptUnits, Other(side))

LEMMA NextAlike ==
  ASSUME mu \in Seq(MatchUnit), Unrepeated(mu), NEW a \in Sides, NEW b \in Sides,
         Alike(Range(mu), a, b), OneOf(Range(mu), a),
         NEW k \in 0 .. Len(mu) - 1, mu[k + 1][a] # -1
  PROVE  NextOn(a, k) = NextOn(b, k)
<1> DEFINE N == Len(mu)
<1> DEFINE v == Places(a)
<1> DEFINE w == Places(b)
<1> DEFINE s == NextOn(a, k)
<1> DEFINE t == NextOn(b, k)
<1>1. /\ N \in Nat /\ DOMAIN mu = 1 .. N /\ k + 1 \in 1 .. N
      /\ \A j \in 1 .. N : mu[j] \in MatchUnit /\ mu[j] \in Range(mu)
  BY DEF Range
<1>2. \A j \in 1 .. N : /\ v[j] = mu[j][a] /\ v[j] \in Int /\ (v[j] = -1 \/ v[j] \in Nat \ {0})
                        /\ w[j] = mu[j][b] /\ w[j] \in Int /\ (w[j] = -1 \/ w[j] \in Nat \ {0})
  BY <1>1, PlacesTyped DEF Places
<1>3. NextIn(v, N, k, s) /\ NextIn(w, N, k, t)
  BY Zenon, NextIs
<1> HIDE DEF v, w, s, t
<1>4. \A i \in 1 .. N : v[i] = -1 <=> w[i] = -1
  BY Zenon, <1>1, <1>2 DEF Alike
<1>5. \A i, j \in 1 .. N : v[i] # -1 /\ v[j] # -1 => (v[i] < v[j] <=> w[i] < w[j])
  BY Zenon, <1>1, <1>2 DEF Alike
<1>6. \A i, j \in 1 .. N : v[i] = v[j] => v[i] = -1 \/ i = j
  <2>1. ASSUME NEW i \in 1 .. N, NEW j \in 1 .. N, v[i] = v[j], v[i] # -1
        PROVE  i = j
    <3>1. mu[i] = mu[j]
      BY Zenon, <1>1, <1>2, <2>1 DEF OneOf
    <3> QED BY Zenon, <3>1 DEF Unrepeated
  <2> QED BY Zenon, <2>1
<1>7. v[k + 1] # -1 /\ w[k + 1] # -1 /\ v[k + 1] \in Nat \ {0} /\ w[k + 1] \in Nat \ {0}
  BY Zenon, <1>1, <1>2, <1>4
<1>8. \A i \in 1 .. N : v[k + 1] < v[i] <=> w[k + 1] < w[i]
  <2>1. ASSUME NEW i \in 1 .. N
        PROVE  v[k + 1] < v[i] <=> w[k + 1] < w[i]
    <3>1. CASE v[i] = -1
      BY <1>2, <1>4, <1>7, <3>1
    <3>2. CASE v[i] # -1
      BY Zenon, <1>1, <1>5, <1>7, <3>2
    <3> QED BY <3>1, <3>2
  <2> QED BY <2>1
<1>9. CASE \E i \in 1 .. N : v[k + 1] < v[i]
  <2>1. PICK i \in 1 .. N : v[k + 1] < v[i] /\ w[k + 1] < w[i]
    BY Zenon, <1>8, <1>9
  <2>2. /\ s \in 0 .. N - 1 /\ v[k + 1] < v[s + 1]
        /\ \A j \in 1 .. N : v[k + 1] < v[j] => v[s + 1] <= v[j]
    BY <1>1, <1>2, <1>3, <2>1 DEF NextIn
  <2>3. /\ t \in 0 .. N - 1 /\ w[k + 1] < w[t + 1]
        /\ \A j \in 1 .. N : w[k + 1] < w[j] => w[t + 1] <= w[j]
    BY <1>1, <1>2, <1>3, <2>1 DEF NextIn
  <2>4. s + 1 \in 1 .. N /\ t + 1 \in 1 .. N
    BY <1>1, <2>2, <2>3
  <2>5. v[s + 1] <= v[t + 1] /\ w[t + 1] <= w[s + 1]
    BY Zenon, <1>8, <2>2, <2>3, <2>4
  <2>6. v[s + 1] # -1 /\ v[t + 1] # -1 /\ v[s + 1] \in Int /\ v[t + 1] \in Int
        /\ w[s + 1] \in Int /\ w[t + 1] \in Int
    <3>1. v[s + 1] \in Int /\ v[t + 1] \in Int /\ w[s + 1] \in Int /\ w[t + 1] \in Int
      BY Zenon, <1>2, <2>4
    <3>2. v[k + 1] \in Nat /\ v[k + 1] < v[s + 1] /\ v[s + 1] <= v[t + 1]
      BY Zenon, <1>7, <2>2, <2>5
    <3>3. \A p, q, r \in Int : p \in Nat /\ p < q /\ q <= r => q # -1 /\ r # -1
      OBVIOUS
    <3>4. v[k + 1] \in Int
      BY Zenon, <1>1, <1>2
    <3> QED
      BY Zenon, <3>1, <3>2, <3>3, <3>4
  <2>7. v[s + 1] < v[t + 1] <=> w[s + 1] < w[t + 1]
    BY Zenon, <1>5, <2>4, <2>6
  <2>8. v[s + 1] = v[t + 1]
    BY <2>5, <2>6, <2>7
  <2>9. s + 1 = t + 1
    BY Zenon, <1>6, <2>4, <2>6, <2>8
  <2> QED BY <2>2, <2>3, <2>9 DEF s, t
<1>10. CASE ~\E i \in 1 .. N : v[k + 1] < v[i]
  <2>1. s = N
    <3>1. ~(s \in 0 .. N - 1 /\ v[k + 1] < v[s + 1])
      BY <1>1, <1>10
    <3> QED BY Zenon, <1>3, <3>1 DEF NextIn
  <2>2. t = N
    <3>1. ~(t \in 0 .. N - 1 /\ w[k + 1] < w[t + 1])
      BY <1>1, <1>8, <1>10
    <3> QED BY Zenon, <1>3, <3>1 DEF NextIn
  <2> QED BY Zenon, <2>1, <2>2 DEF s, t
<1> QED BY <1>9, <1>10

(* A unit then has one successor, the unit next on the side followed.      *)
OneWay(side) ==
  {<<k, NextOn(side, k), 0>> : k \in 0 .. Len(mu) - 1} \cup {<<Len(mu), Len(mu), 1>>}

LEMMA MovesOneWay ==
  ASSUME mu \in Seq(MatchUnit), Unrepeated(mu), Range(mu) = KeptUnits, NEW side, Follows(side)
  PROVE  Moves = OneWay(side)
<1> DEFINE o == Other(side)
<1>1. side \in Sides /\ o \in Sides /\ "pivotUnit" \in Sides
  BY DEF Follows, Sides, Other
<1>2. ASSUME NEW k \in 0 .. Len(mu) - 1
      PROVE  Successors(k) = {NextOn(side, k)}
  <2> DEFINE l == NextOn("localUnit", k)
  <2> DEFINE r == NextOn("remoteUnit", k)
  <2> DEFINE p == NextOn("pivotUnit", k)
  <2>1. mu[k + 1] \in KeptUnits
    BY DEF Range
  <2>2. mu[k + 1][side] # -1
    BY Zenon, <2>1 DEF Follows
  <2>3. mu[k + 1][o] # -1 => NextOn(o, k) = p
    <3>1. Alike(Range(mu), o, "pivotUnit") /\ OneOf(Range(mu), o)
      BY Zenon DEF Follows
    <3> QED BY Zenon, <1>1, <3>1, NextAlike
  <2>4. Successors(k) = IF mu[k + 1].remoteUnit = -1 THEN {l}
                        ELSE IF mu[k + 1].localUnit = -1 THEN {r}
                        ELSE IF l = p /\ r = p THEN {p} ELSE {l, r} \ {p}
    BY Zenon DEF Successors
  <2> HIDE DEF l, r, p
  <2>5. CASE side = "localUnit"
    <3>1. /\ mu[k + 1].localUnit # -1 /\ (mu[k + 1].remoteUnit # -1 => r = p)
          /\ NextOn(side, k) = l
      BY <2>2, <2>3, <2>5 DEF Other, l, r
    <3> QED BY <2>4, <3>1
  <2>6. CASE side = "remoteUnit"
    <3>1. /\ mu[k + 1].remoteUnit # -1 /\ (mu[k + 1].localUnit # -1 => l = p)
          /\ NextOn(side, k) = r
      BY <2>2, <2>3, <2>6 DEF Other, l, r
    <3> QED BY <2>4, <3>1
  <2> QED BY Zenon, <2>5, <2>6 DEF Follows
<1>3. \A k \in 0 .. Len(mu) - 1 : {<<k, j, 0>> : j \in Successors(k)} = {<<k, NextOn(side, k), 0>>}
  BY Zenon, <1>2
<1> DEFINE A == UNION {{<<k, j, 0>> : j \in Successors(k)} : k \in 0 .. Len(mu) - 1}
<1> DEFINE B == {<<k, NextOn(side, k), 0>> : k \in 0 .. Len(mu) - 1}
<1>4. A = B
  <2>1. ASSUME NEW x \in A PROVE x \in B
    <3>1. PICK k \in 0 .. Len(mu) - 1 : x \in {<<k, j, 0>> : j \in Successors(k)}
      BY Zenon
    <3>2. x = <<k, NextOn(side, k), 0>>
      BY Zenon, <1>3, <3>1
    <3> QED BY Zenon, <3>2
  <2>2. ASSUME NEW x \in B PROVE x \in A
    <3>1. PICK k \in 0 .. Len(mu) - 1 : x = <<k, NextOn(side, k), 0>>
      BY Zenon
    <3>2. x \in {<<k, j, 0>> : j \in Successors(k)}
      BY Zenon, <1>3, <3>1
    <3> QED BY Zenon, <3>2
  <2> HIDE DEF A, B
  <2> QED BY Zenon, <2>1, <2>2
<1> QED BY Zenon, <1>4 DEF Moves, OneWay

-----------------------------------------------------------------------------
(* The states that a layer reaches from the states before them on a side,  *)
(* and the state that it reaches for nothing: n units come before it.      *)
Ahead(side, layer) ==
  \A s \in 0 .. Len(mu) - 1 : layer[s].src # -1 =>
    \E k \in 0 .. Len(mu) - 1 : layer[s].src = k /\ NextOn(side, k) = s

FreeAt(side, layer, n) ==
  \E s \in 0 .. Len(mu) - 1 :
    /\ layer[s].src # -1 /\ layer[s].cost = 0
    /\ Cardinality(LowerThan(Places(side), Len(mu), s)) = n

(* All the draws but the last, and the last.                               *)
DrawnSo(side) ==
  /\ moves = OneWay(side) /\ Len(layers) <= Len(mu)
  /\ \A i \in 2 .. Len(layers) : Ahead(side, layers[i])
  /\ FreeAt(side, layers[Len(layers)], Len(layers) - 1)

DrawnAll(side) ==
  LET N == Len(mu)
      last == layers[N + 1]
  IN /\ Len(layers) = N + 1
     /\ \A i \in 2 .. N : Ahead(side, layers[i])
     /\ \A s \in 0 .. N : last[s].src \in {-1, s}
     /\ last[N].src # -1 => last[N].cost > 0
     /\ \E s \in 0 .. N - 1 : last[s].src # -1 /\ last[s].cost = 0

(* The path leads from each unit to the next.                              *)
PathInOrder(side) ==
  /\ path \in [1 .. Len(mu) -> 0 .. Len(mu) - 1]
  /\ \A i \in 2 .. Len(mu) : \E k \in 0 .. Len(mu) - 1 : path[i - 1] = k /\ NextOn(side, k) = path[i]

Rising(seq, side) ==
  \A i, j \in 1 .. Len(seq) :
    i < j /\ ~seq[i].deleted /\ ~seq[j].deleted => seq[i][side] < seq[j][side]

(* The stages of a merge that follows a side: there is one round.          *)
RoundInv(side) ==
  /\ pc \notin {"collect", "done"} => canon = <<>>
  /\ pc = "draw" /\ mu # <<>> => DrawnSo(side)
  /\ pc = "path" /\ mu # <<>> => DrawnAll(side)
  /\ pc = "accept" /\ mu # <<>> => PathInOrder(side)
  /\ pc = "collect" => canon_src = <<>> /\ Rising(canon, side)
  /\ pc = "done" => Rising(accum, side)

WayInv(side) == use_order /\ Follows(side) => RoundInv(side)

-----------------------------------------------------------------------------
LEMMA UnitsOfRound ==
  ASSUME OrderInv, NEW side, Follows(side), RoundInv(side), Searching
  PROVE  /\ canon = <<>> /\ side \in Sides
         /\ mu \in Seq(MatchUnit) /\ Unrepeated(mu) /\ Range(mu) = KeptUnits /\ Len(mu) \in Nat
         /\ Places(side) \in [1 .. Len(mu) -> Int] /\ Apart(Places(side), Len(mu))
         /\ \A j \in 1 .. Len(mu) : /\ mu[j] \in KeptUnits /\ Places(side)[j] = mu[j][side]
                                    /\ Places(side)[j] \in Nat /\ Places(side)[j] # -1
         /\ \A k \in 0 .. Len(mu) - 1 :
              /\ NextIn(Places(side), Len(mu), k, NextOn(side, k))
              /\ NextOn(side, k) \in 0 .. Len(mu)
<1> DEFINE N == Len(mu)
<1> DEFINE v == Places(side)
<1>1. pc \notin {"collect", "done"}
  BY DEF Searching
<1>2. canon = <<>> /\ side \in Sides
  BY <1>1 DEF RoundInv, Follows, Sides
<1>3. mu \in Seq(MatchUnit) /\ Unrepeated(mu) /\ Range(mu) = KeptUnits \ Range(canon)
  BY DEF OrderInv, UnitsInv
<1>4. Range(mu) = KeptUnits
  BY <1>2, <1>3 DEF Range
<1>5. N \in Nat /\ DOMAIN mu = 1 .. N /\ \A j \in 1 .. N : mu[j] \in MatchUnit
  BY <1>3
<1>6. \A j \in 1 .. N : mu[j] \in KeptUnits
  BY <1>4, <1>5 DEF Range
<1>7. \A j \in 1 .. N : mu[j][side] # -1
  BY Zenon, <1>6 DEF Follows
<1>8. \A j \in 1 .. N : v[j] = mu[j][side] /\ v[j] \in Int /\ v[j] \in Nat /\ v[j] # -1
  BY <1>2, <1>5, <1>7, PlacesTyped DEF Places
<1>9. v \in [1 .. N -> Int]
  <2>1. v = [j \in 1 .. N |-> v[j]]
    BY Zenon DEF Places
  <2> HIDE DEF v
  <2> QED BY Zenon, <1>8, <2>1
<1> HIDE DEF v
<1>10. Apart(v, N)
  <2>1. ASSUME NEW i \in 1 .. N, NEW j \in 1 .. N, v[i] = v[j] PROVE i = j
    <3>1. mu[i] \in KeptUnits /\ mu[j] \in KeptUnits /\ mu[i][side] # -1
      BY Zenon, <1>6, <1>7
    <3>2. mu[i][side] = mu[j][side]
      BY Zenon, <1>8, <2>1
    <3>3. OneOf(KeptUnits, side)
      BY Zenon DEF Follows
    <3>4. mu[i] = mu[j]
      BY Zenon, <3>1, <3>2, <3>3 DEF OneOf
    <3> QED BY Zenon, <1>3, <3>4 DEF Unrepeated
  <2> QED BY Zenon, <2>1 DEF Apart
<1>11. ASSUME NEW k \in 0 .. N - 1
       PROVE  NextIn(v, N, k, NextOn(side, k)) /\ NextOn(side, k) \in 0 .. N
  <2>1. NextIn(v, N, k, NextOn(side, k))
    BY Zenon, <1>2, <1>3, NextIs DEF v
  <2>2. NextOn(side, k) = N \/ NextOn(side, k) \in 0 .. N - 1
    BY Zenon, <2>1 DEF NextIn
  <2> QED BY <1>5, <2>1, <2>2
<1> QED BY <1>2, <1>3, <1>4, <1>5, <1>6, <1>8, <1>9, <1>10, <1>11 DEF v

LEMMA SameUnits ==
  ASSUME mu' = mu, NEW side
  PROVE  /\ \A k : NextOn(side, k)' = NextOn(side, k)
         /\ Places(side)' = Places(side) /\ OneWay(side)' = OneWay(side)
<1>1. ASSUME NEW k PROVE NextOn(side, k)' = NextOn(side, k)
  BY DEF NextOn
<1>2. Places(side)' = Places(side)
  BY DEF Places
<1>3. OneWay(side)' = OneWay(side)
  BY DEF OneWay, NextOn
<1> QED BY Zenon, <1>1, <1>2, <1>3

LEMMA FirstDrawWay ==
  ASSUME OrderInv, NEW side, Follows(side), RoundInv(side), FirstDraw
  PROVE  RoundInv(side)'
<1> DEFINE N == Len(mu)
<1> DEFINE v == Places(side)
<1>1. /\ pc = "start" /\ pc' = "draw" /\ moves' = Moves /\ layers' = <<FirstLayer>>
      /\ mu' = mu /\ canon' = canon /\ Searching
  BY DEF FirstDraw, Searching
<1>2. /\ canon = <<>> /\ side \in {"localUnit", "remoteUnit"}
      /\ mu \in Seq(MatchUnit) /\ Unrepeated(mu) /\ Range(mu) = KeptUnits /\ N \in Nat
      /\ \A j \in 1 .. N : v[j] = mu[j][side] /\ v[j] \in Nat /\ v[j] # -1
  BY <1>1, UnitsOfRound DEF Follows
<1>3. ASSUME mu # <<>> PROVE DrawnSo(side)'
  <2>1. N \in Nat \ {0} /\ DOMAIN mu = 1 .. N /\ 1 \in 1 .. N
    BY <1>2, <1>3
  <2>2. moves' = OneWay(side)' /\ Places(side)' = v /\ Len(mu)' = N
    BY Zenon, <1>1, <1>2, MovesOneWay, SameUnits
  <2>3. Len(layers') = 1 /\ layers'[Len(layers')] = FirstLayer
    BY <1>1
  <2> HIDE DEF v
  <2>4. PICK j \in 1 .. N : \A i \in 1 .. N : v[j] <= v[i]
    <3> DEFINE S == {v[j] : j \in 1 .. N}
    <3>1. S \in SUBSET Nat /\ S # {}
      BY Zenon, <1>2, <2>1
    <3>2. PICK m \in S : \A n \in S : m <= n
      <4> HIDE DEF S
      <4> QED BY Zenon, <3>1, LeastNumber
    <3> QED BY Zenon, <3>2
  <2> DEFINE s == j - 1
  <2>5. s \in 0 .. N - 1 /\ s + 1 = j /\ s # N /\ s # -1 /\ s \in 0 .. N
    BY <2>1
  <2>6. s \in Lowest(side)
    <3> DEFINE on == {i \in DOMAIN mu : mu[i][side] # -1}
    <3>1. mu[1][side] # -1 /\ j \in on /\ \A i \in on : mu[j][side] <= mu[i][side]
      BY Zenon, <1>2, <2>1, <2>4
    <3>2. Lowest(side) = {i - 1 : i \in {i \in on : \A h \in on : mu[i][side] <= mu[h][side]}}
      BY Zenon, <1>3, <3>1 DEF Lowest
    <3> QED BY Zenon, <3>1, <3>2
  <2> HIDE DEF s
  <2>7. FirstLayer[s] = [cost |-> 0, src |-> s]
    <3> DEFINE starts == Lowest("localUnit") \cup Lowest("remoteUnit")
    <3>1. s \in starts
      BY Zenon, <1>2, <2>6
    <3> HIDE DEF starts
    <3>2. FirstLayer = [k \in 0 .. N |-> IF k = N THEN [cost |-> 1, src |-> N]
                                        ELSE IF k \in starts THEN [cost |-> 0, src |-> k]
                                        ELSE Unreached]
      BY DEF FirstLayer, starts
    <3> QED BY Zenon, <2>5, <3>1, <3>2
  <2>8. Cardinality(LowerThan(v, N, s)) = 0
    <3>1. \A i \in 1 .. N : ~(v[i] < v[j])
      BY <1>2, <2>4
    <3>2. LowerThan(v, N, s) = {}
      BY Zenon, <2>5, <3>1 DEF LowerThan
    <3> QED BY <3>2, FS_EmptySet
  <2>9. FirstLayer[s].src # -1 /\ FirstLayer[s].cost = 0
    BY <2>5, <2>7
  <2>10. FreeAt(side, layers[Len(layers)], Len(layers) - 1)'
    <3>1. Len(layers') - 1 = 0
      BY <2>3
    <3> QED BY Zenon, <2>2, <2>3, <2>5, <2>8, <2>9, <3>1 DEF FreeAt
  <2>11. Len(layers') <= N /\ 2 .. Len(layers') = {}
    BY <2>1, <2>3
  <2> QED BY Zenon, <2>2, <2>10, <2>11 DEF DrawnSo
<1> QED BY <1>1, <1>2, <1>3 DEF RoundInv

LEMMA DrawWay ==
  ASSUME OrderInv, NEW side, Follows(side), RoundInv(side), Draw
  PROVE  RoundInv(side)'
<1> DEFINE N == Len(mu)
<1> DEFINE v == Places(side)
<1> DEFINE n == Len(layers)
<1> DEFINE prev == layers[n]
<1> DEFINE new == Layer(prev, moves)
<1>1. /\ pc = "draw" /\ pc' = "draw" /\ n < N /\ layers' = Append(layers, new)
      /\ moves' = moves /\ mu' = mu /\ canon' = canon /\ Searching
  BY DEF Draw, Searching
<1>2. /\ canon = <<>> /\ mu \in Seq(MatchUnit) /\ N \in Nat
      /\ v \in [1 .. N -> Int] /\ Apart(v, N)
      /\ \A k \in 0 .. N - 1 : NextIn(v, N, k, NextOn(side, k)) /\ NextOn(side, k) \in 0 .. N
  BY Zenon, <1>1, UnitsOfRound
<1>3. layers \in Seq(LayersOf(N + 1)) /\ layers # <<>> /\ n \in Nat \ {0} /\ N \in Nat \ {0}
  <2>1. layers # <<>> /\ Linked(layers, N + 1)
    BY <1>1 DEF OrderInv, LatticeInv
  <2>2. layers \in Seq(LayersOf(N + 1))
    BY <2>1 DEF Linked
  <2>3. n \in Nat \ {0}
    BY <2>1, <2>2
  <2> QED BY <1>1, <1>2, <2>1, <2>2, <2>3
<1>4. mu # <<>>
  BY <1>3
<1>5. DrawnSo(side)
  BY <1>1, <1>4 DEF RoundInv
<1>6. prev \in LayersOf(N + 1)
  BY <1>3
<1> DEFINE nxt == [k \in 0 .. N - 1 |-> NextOn(side, k)]
<1>7. nxt \in [0 .. N - 1 -> 0 .. N] /\ \A k \in 0 .. N - 1 : nxt[k] = NextOn(side, k)
  BY Zenon, <1>2
<1>8. moves = {<<k, nxt[k], 0>> : k \in 0 .. N - 1} \cup {<<N, N, 1>>}
  <2>1. moves = OneWay(side)
    BY Zenon, <1>5 DEF DrawnSo
  <2> QED BY <2>1 DEF OneWay
<1> HIDE DEF nxt
<1>9. /\ \A s \in 0 .. N - 1 : new[s].src # -1 =>
           new[s].src \in 0 .. N - 1 /\ nxt[new[s].src] = s
      /\ \A k \in 0 .. N - 1 : prev[k].src # -1 /\ prev[k].cost = 0 /\ nxt[k] # N =>
           new[nxt[k]].src # -1 /\ new[nxt[k]].cost = 0
  <2>1. OneWayOn(N, nxt, prev, moves)
    BY Zenon, <1>3, <1>6, <1>7, <1>8 DEF OneWayOn
  <2> HIDE DEF prev, N
  <2> QED BY SMTT(30), <2>1, OneWayDraw
<1> HIDE DEF new, v, prev
<1>10. /\ Len(layers') = n + 1 /\ layers'[n + 1] = new /\ \A i \in 1 .. n : layers'[i] = layers[i]
  BY <1>1, <1>3
<1>11. (\A k : NextOn(side, k)' = NextOn(side, k)) /\ Places(side)' = v /\ OneWay(side)' = OneWay(side)
  BY Zenon, <1>1, SameUnits DEF v
<1>12. ASSUME NEW i \in 2 .. n + 1 PROVE Ahead(side, layers[i])'
  <2>1. CASE i = n + 1
    <3>1. \A s \in 0 .. N - 1 : new[s].src # -1 =>
            \E k \in 0 .. N - 1 : new[s].src = k /\ NextOn(side, k) = s
      <4>1. ASSUME NEW s \in 0 .. N - 1, new[s].src # -1
            PROVE  \E k \in 0 .. N - 1 : new[s].src = k /\ NextOn(side, k) = s
        <5>1. PICK k \in 0 .. N - 1 : new[s].src = k /\ nxt[k] = s
          BY Zenon, <1>9, <4>1
        <5> QED BY Zenon, <1>7, <5>1
      <4> QED BY Zenon, <4>1
    <3> QED BY Zenon, <1>1, <1>10, <1>11, <2>1, <3>1 DEF Ahead
  <2>2. CASE i # n + 1
    <3>1. i \in 2 .. n /\ i \in 1 .. n
      BY <1>3, <2>2
    <3>2. Ahead(side, layers[i])
      BY Zenon, <1>5, <3>1 DEF DrawnSo
    <3> QED BY Zenon, <1>1, <1>10, <1>11, <3>1, <3>2 DEF Ahead
  <2> QED BY <2>1, <2>2
<1>13. \E t \in 0 .. N - 1 : /\ new[t].src # -1 /\ new[t].cost = 0
                             /\ Cardinality(LowerThan(v, N, t)) = n
  <2>1. PICK s \in 0 .. N - 1 : /\ prev[s].src # -1 /\ prev[s].cost = 0
                                /\ Cardinality(LowerThan(v, N, s)) = n - 1
    BY Zenon, <1>5 DEF DrawnSo, FreeAt, prev, v
  <2>2. n - 1 < N - 1 /\ (n - 1) + 1 = n
    BY <1>1, <1>3
  <2>3. /\ nxt[s] \in 0 .. N - 1
        /\ Cardinality(LowerThan(v, N, nxt[s])) = Cardinality(LowerThan(v, N, s)) + 1
    <3>1. NextIn(v, N, s, nxt[s])
      BY Zenon, <1>2, <1>7
    <3>2. Cardinality(LowerThan(v, N, s)) < N - 1
      BY Zenon, <2>1, <2>2
    <3>3. v \in [1 .. N -> Int] /\ Apart(v, N)
      BY Zenon, <1>2
    <3>4. StepUp(v, N, s, nxt[s])
      BY Zenon, <1>3, <2>1, <3>1, <3>2, <3>3 DEF StepUp
    <3> QED BY Zenon, <3>4, OneMore
  <2>4. nxt[s] # N
    BY <1>3, <2>3
  <2> QED BY Zenon, <1>9, <2>1, <2>2, <2>3, <2>4
<1>14. FreeAt(side, layers[Len(layers)], Len(layers) - 1)'
  <2>1. Len(layers') - 1 = n
    BY <1>3, <1>10
  <2> QED BY Zenon, <1>1, <1>10, <1>11, <1>13, <2>1 DEF FreeAt
<1>15. Len(layers') <= N
  BY <1>1, <1>3, <1>10
<1>16. DrawnSo(side)'
  <2>1. moves' = OneWay(side)'
    BY Zenon, <1>1, <1>5, <1>11 DEF DrawnSo
  <2> QED BY Zenon, <1>1, <1>10, <1>12, <1>14, <1>15, <2>1 DEF DrawnSo
<1> QED BY <1>1, <1>2, <1>16 DEF RoundInv

LEMMA LastDrawWay ==
  ASSUME OrderInv, NEW side, Follows(side), RoundInv(side), LastDraw
  PROVE  RoundInv(side)'
<1> DEFINE N == Len(mu)
<1> DEFINE prev == layers[Len(layers)]
<1> DEFINE last == Layer(prev, LastMoves)
<1>1. /\ pc = "draw" /\ pc' = "path" /\ Len(layers) >= N /\ layers' = Append(layers, last)
      /\ mu' = mu /\ canon' = canon /\ Searching
  BY DEF LastDraw, Searching
<1>2. canon = <<>> /\ mu \in Seq(MatchUnit) /\ N \in Nat
  BY <1>1, UnitsOfRound
<1>3. ASSUME mu # <<>> PROVE DrawnAll(side)'
  <2>1. N \in Nat \ {0} /\ DrawnSo(side)
    BY <1>1, <1>2, <1>3 DEF RoundInv
  <2>2. layers \in Seq(LayersOf(N + 1))
    BY <1>1 DEF OrderInv, LatticeInv, Linked
  <2>3. Len(layers) = N
    <3>1. Len(layers) <= N
      BY Zenon, <2>1 DEF DrawnSo
    <3> QED BY <1>1, <2>1, <2>2, <3>1
  <2>4. prev \in LayersOf(N + 1)
    BY <2>1, <2>2, <2>3
  <2>5. /\ \A s \in 0 .. N : last[s].src \in {-1, s}
        /\ last[N].src # -1 => last[N].cost > 0
        /\ \A s \in 0 .. N - 1 : prev[s].src # -1 /\ prev[s].cost = 0 =>
             last[s].src # -1 /\ last[s].cost = 0
    <3>1. LastMoves = {<<k, k, IF k = N THEN 1 ELSE 0>> : k \in 0 .. N}
      BY DEF LastMoves
    <3>2. StayingOn(N, prev, LastMoves)
      BY Zenon, <2>1, <2>4, <3>1 DEF StayingOn
    <3> HIDE DEF prev, N
    <3> QED BY <3>2, StayingDraw
  <2> HIDE DEF prev, last
  <2>6. \E s \in 0 .. N - 1 : last[s].src # -1 /\ last[s].cost = 0
    <3>1. PICK s \in 0 .. N - 1 : prev[s].src # -1 /\ prev[s].cost = 0
      BY Zenon, <2>1 DEF DrawnSo, FreeAt, prev
    <3> QED BY Zenon, <2>5, <3>1
  <2>7. /\ Len(layers') = N + 1 /\ layers'[N + 1] = last
        /\ \A i \in 1 .. N : layers'[i] = layers[i]
    BY <1>1, <2>2, <2>3
  <2>8. \A k : NextOn(side, k)' = NextOn(side, k)
    BY Zenon, <1>1, SameUnits
  <2>9. ASSUME NEW i \in 2 .. N PROVE Ahead(side, layers[i])'
    <3>1. i \in 1 .. N /\ Ahead(side, layers[i])
      BY <2>1, <2>3 DEF DrawnSo
    <3> QED BY Zenon, <1>1, <2>7, <2>8, <3>1 DEF Ahead
  <2> QED BY Zenon, <1>1, <2>5, <2>6, <2>7, <2>9 DEF DrawnAll
<1> QED BY <1>1, <1>2, <1>3 DEF RoundInv

LEMMA FindPathWay ==
  ASSUME OrderInv, NEW side, Follows(side), RoundInv(side), FindPath
  PROVE  RoundInv(side)'
<1> DEFINE N == Len(mu)
<1> DEFINE p == calculatePath(layers)
<1> DEFINE last == layers[N + 1]
<1>1. /\ pc = "path" /\ pc' = "accept" /\ path' = SubSeq(p, 1, Len(layers) - 1)
      /\ mu' = mu /\ canon' = canon /\ Searching
  BY DEF FindPath, Searching
<1>2. canon = <<>> /\ N \in Nat
  BY <1>1, UnitsOfRound
<1>3. ASSUME mu # <<>> PROVE PathInOrder(side)'
  <2>1. DrawnAll(side) /\ Len(layers) = N + 1
    BY Zenon, <1>1, <1>3 DEF RoundInv, DrawnAll
  <2>2. N \in Nat \ {0}
    BY <1>2, <1>3, UnitsOfRound, <1>1
  <2>3. layers # <<>> /\ Linked(layers, N + 1) /\ N \in Reached(last)
    BY Zenon, <1>1, <2>1 DEF OrderInv, LatticeInv
  <2>4. \A i \in 1 .. N + 1 : layers[i] \in LayersOf(N + 1)
    BY <2>1, <2>3 DEF Linked
  <2>5. /\ p[N + 1] = Best(last) /\ DOMAIN p = 1 .. N + 1
        /\ \A i \in 1 .. N + 1 : /\ p[i] \in Reached(layers[i])
                                 /\ i > 1 => p[i - 1] = layers[i][p[i]].src
    <3>1. N + 1 \in Nat /\ Reached(layers[Len(layers)]) # {}
      BY <2>1, <2>2, <2>3
    <3> QED BY Zenon, <2>1, <2>3, <3>1, PathIsReached
  <2>6. Best(last) \in Reached(last) /\ \A s \in Reached(last) : last[Best(last)].cost <= last[s].cost
    <3>1. N + 1 \in Nat /\ Reached(last) # {} /\ last \in LayersOf(N + 1)
      BY <2>2, <2>3, <2>4
    <3> QED BY Zenon, <3>1, BestIsLeast
  <2> HIDE DEF p, last
  <2>7. \A i \in 1 .. N + 1 : p[i] \in 0 .. N /\ layers[i][p[i]].src # -1
    <3>1. \A i \in 1 .. N + 1 : DOMAIN layers[i] = 0 .. N
      BY <2>2, <2>4 DEF LayersOf
    <3> QED BY Zenon, <2>5, <3>1 DEF Reached
  <2>8. /\ \A s \in 0 .. N : last[s].src \in {-1, s}
        /\ last[N].src # -1 => last[N].cost > 0
        /\ \E s \in 0 .. N - 1 : last[s].src # -1 /\ last[s].cost = 0
        /\ \A i \in 2 .. N : Ahead(side, layers[i])
    BY Zenon, <2>1 DEF DrawnAll, last
  <2>9. p[N + 1] \in 0 .. N - 1
    <3>1. N + 1 \in 1 .. N + 1 /\ \A s \in 0 .. N - 1 : s \in 0 .. N
      BY <2>2
    <3>2. DOMAIN last = 0 .. N /\ \A s \in 0 .. N : last[s].cost \in Nat
      BY <2>2, <2>4, <3>1 DEF LayersOf, last
    <3>3. PICK s \in 0 .. N - 1 : last[s].src # -1 /\ last[s].cost = 0
      BY Zenon, <2>8
    <3>4. s \in Reached(last)
      BY Zenon, <3>1, <3>2, <3>3 DEF Reached
    <3>5. p[N + 1] \in 0 .. N /\ last[p[N + 1]].src # -1
      BY Zenon, <2>7, <3>1 DEF last
    <3>6. last[p[N + 1]].cost <= 0
      BY Zenon, <2>5, <2>6, <3>3, <3>4
    <3>7. p[N + 1] # N
      BY <2>8, <3>2, <3>5, <3>6
    <3> QED BY <2>2, <3>5, <3>7
  <2>10. p[N] \in 0 .. N - 1
    <3>1. N + 1 \in 1 .. N + 1 /\ N + 1 > 1 /\ (N + 1) - 1 = N
      BY <2>2
    <3>2. p[N] = last[p[N + 1]].src
      BY Zenon, <2>5, <3>1 DEF last
    <3>3. p[N] = p[N + 1]
      BY <2>7, <2>8, <3>1, <3>2 DEF last
    <3> QED BY Zenon, <2>9, <3>3
  <2>11. ASSUME NEW i \in 2 .. N, p[i] \in 0 .. N - 1
         PROVE  \E k \in 0 .. N - 1 : p[i - 1] = k /\ NextOn(side, k) = p[i]
    <3>1. i \in 1 .. N + 1 /\ i > 1
      BY <2>2
    <3>2. layers[i][p[i]].src # -1 /\ p[i - 1] = layers[i][p[i]].src
      BY Zenon, <2>5, <2>7, <3>1
    <3>3. PICK k \in 0 .. N - 1 : layers[i][p[i]].src = k /\ NextOn(side, k) = p[i]
      BY Zenon, <2>8, <2>11, <3>2 DEF Ahead
    <3> QED BY Zenon, <3>2, <3>3
  <2> DEFINE T == {k \in Nat : k < N => p[N - k] \in 0 .. N - 1}
  <2>12. 0 \in T
    BY <2>2, <2>10
  <2>13. ASSUME NEW k \in T PROVE k + 1 \in T
    <3>1. SUFFICES ASSUME k + 1 < N PROVE p[N - (k + 1)] \in 0 .. N - 1
      OBVIOUS
    <3>2. N - k \in 2 .. N /\ (N - k) - 1 = N - (k + 1) /\ p[N - k] \in 0 .. N - 1
      BY <2>2, <3>1
    <3>3. p[(N - k) - 1] \in 0 .. N - 1
      BY Zenon, <2>11, <3>2
    <3> QED BY <3>2, <3>3
  <2>14. T = Nat
    <3> HIDE DEF T
    <3>1. T \in SUBSET Nat
      BY DEF T
    <3> QED BY <3>1, <2>12, <2>13, AllNumbers
  <2>15. ASSUME NEW i \in 1 .. N PROVE p[i] \in 0 .. N - 1
    <3>1. N - i \in Nat /\ N - i < N /\ N - (N - i) = i
      BY <2>2
    <3> QED BY <2>14, <3>1
  <2>16. path' = [i \in 1 .. N |-> p[i]]
    <3>1. Len(layers) - 1 = N
      BY <2>1, <2>2
    <3> QED BY <1>1, <2>2, <2>5, <3>1
  <2>17. path' \in [1 .. N -> 0 .. N - 1] /\ \A i \in 1 .. N : path'[i] = p[i]
    BY Zenon, <2>15, <2>16
  <2>18. \A k : NextOn(side, k)' = NextOn(side, k)
    BY Zenon, <1>1, SameUnits
  <2>19. ASSUME NEW i \in 2 .. N
         PROVE  \E k \in 0 .. N - 1 : path'[i - 1] = k /\ NextOn(side, k) = path'[i]
    <3>1. i \in 1 .. N /\ i - 1 \in 1 .. N
      BY <2>2
    <3>2. p[i] \in 0 .. N - 1
      BY Zenon, <2>15, <3>1
    <3> QED BY Zenon, <2>11, <2>17, <3>1, <3>2
  <2> QED BY Zenon, <1>1, <2>17, <2>18, <2>19 DEF PathInOrder
<1> QED BY <1>1, <1>2, <1>3 DEF RoundInv

LEMMA FiniteRange ==
  ASSUME NEW X, NEW seq \in Seq(X)
  PROVE  IsFiniteSet(Range(seq))
<1>1. Len(seq) \in Nat /\ DOMAIN seq = 1 .. Len(seq)
  OBVIOUS
<1>2. IsFiniteSet(DOMAIN seq)
  BY <1>1, FS_Interval
<1>3. seq \in [DOMAIN seq -> Range(seq)]
  BY <1>1 DEF Range
<1>4. \A u \in Range(seq) : \E i \in DOMAIN seq : seq[i] = u
  BY Zenon DEF Range
<1>5. seq \in Surjection(DOMAIN seq, Range(seq))
  BY Zenon, <1>3, <1>4 DEF Surjection
<1> QED BY <1>2, <1>5, FS_Surjection

(* When the path goes up on a side, all of it is accepted.                 *)
LEMMA AcceptAll ==
  ASSUME OrderInv, NEW side, Follows(side), RoundInv(side), pc = "accept", mu # <<>>
  PROVE  /\ Len(path) = Len(mu) /\ Accepted = Len(mu)
         /\ \A i \in 1 .. Len(mu) : path[i] + 1 \in 1 .. Len(mu)
         /\ \A i, j \in 1 .. Len(mu) : i < j => mu[path[i] + 1][side] < mu[path[j] + 1][side]
<1> DEFINE N == Len(mu)
<1> DEFINE v == Places(side)
<1>1. /\ N \in Nat /\ v \in [1 .. N -> Int] /\ mu \in Seq(MatchUnit)
      /\ \A j \in 1 .. N : v[j] = mu[j][side]
      /\ \A k \in 0 .. N - 1 : NextIn(v, N, k, NextOn(side, k))
  BY UnitsOfRound DEF Searching
<1>2. N \in Nat \ {0}
  BY <1>1
<1>3. /\ path \in [1 .. N -> 0 .. N - 1]
      /\ \A i \in 2 .. N : \E k \in 0 .. N - 1 : path[i - 1] = k /\ NextOn(side, k) = path[i]
  BY Zenon DEF RoundInv, PathInOrder
<1>4. \A i \in 2 .. N : NextIn(v, N, path[i - 1], path[i])
  BY Zenon, <1>1, <1>3
<1> HIDE DEF v
<1>5. \A i, j \in 1 .. N : i < j => v[path[i] + 1] < v[path[j] + 1]
  BY Zenon, <1>1, <1>2, <1>3, <1>4, PathGoesUp
<1>6. \A i \in 1 .. N : path[i] \in 0 .. N - 1 /\ path[i] + 1 \in 1 .. N /\ path[i] # N
  BY <1>2, <1>3
<1>7. Len(path) = N /\ DOMAIN path = 1 .. N
  BY <1>2, <1>3
<1>8. ASSUME NEW i \in 1 .. N, NEW j \in 1 .. N, i < j PROVE path[i] # path[j]
  <2>1. v[path[i] + 1] < v[path[j] + 1] /\ v[path[i] + 1] \in Int
    BY <1>1, <1>5, <1>6, <1>8
  <2> QED BY <2>1
<1> DEFINE seen(i) == {N} \cup {path[j] : j \in 1 .. i - 1}
<1> DEFINE bad(i) == path[i] \in seen(i) \/ (i < Len(path) /\ path[i + 1] \in seen(i))
<1>9. ASSUME NEW i \in 1 .. N PROVE ~bad(i)
  <2>1. ASSUME NEW h \in 1 .. N, i <= h PROVE path[h] \notin seen(i)
    <3>1. \A j \in 1 .. i - 1 : j \in 1 .. N /\ j < h
      BY <1>2, <2>1
    <3>2. \A j \in 1 .. i - 1 : path[j] # path[h]
      BY Zenon, <1>8, <3>1
    <3> QED BY Zenon, <1>6, <3>2
  <2> HIDE DEF seen
  <2>2. i \in 1 .. N /\ i <= i /\ (i < N => i + 1 \in 1 .. N /\ i <= i + 1)
    BY <1>2
  <2> QED BY Zenon, <1>7, <2>1, <2>2
<1>10. Accepted = Cardinality({j \in DOMAIN path : \A i \in 1 .. j : ~bad(i)})
  BY DEF Accepted
<1> HIDE DEF bad
<1>11. {j \in DOMAIN path : \A i \in 1 .. j : ~bad(i)} = 1 .. N
  <2>1. \A j \in 1 .. N : \A i \in 1 .. j : i \in 1 .. N
    BY <1>2
  <2> QED BY Zenon, <1>7, <1>9, <2>1
<1>12. Cardinality(1 .. N) = N
  BY <1>2, FS_Interval
<1>13. \A i, j \in 1 .. N : i < j => mu[path[i] + 1][side] < mu[path[j] + 1][side]
  BY Zenon, <1>1, <1>5, <1>6
<1> QED BY Zenon, <1>6, <1>7, <1>10, <1>11, <1>12, <1>13

LEMMA NothingLeft ==
  ASSUME NEW seq \in Seq(MatchUnit), Range(seq) = {}
  PROVE  seq = <<>>
<1>1. Len(seq) \in Nat /\ DOMAIN seq = 1 .. Len(seq)
  OBVIOUS
<1>2. \A i \in DOMAIN seq : FALSE
  BY Zenon DEF Range
<1>3. Len(seq) = 0
  <2>1. 1 \notin 1 .. Len(seq)
    BY Zenon, <1>1, <1>2
  <2> QED BY <1>1, <2>1
<1> QED BY <1>3

LEMMA AcceptWay ==
  ASSUME OrderInv, NEW side, Follows(side), RoundInv(side), Accept, OrderInv'
  PROVE  RoundInv(side)'
<1> DEFINE N == Len(mu)
<1> DEFINE n == Accepted
<1> DEFINE placed == [i \in 1 .. n |-> mu[path[i] + 1]]
<1>1. /\ pc = "accept" /\ canon' = canon \o placed /\ Searching
      /\ canon_src' = Only(mu, Range(mu) \ Range(placed))
      /\ pc' = IF n \in {0, Len(path)} THEN "collect" ELSE "order"
  BY DEF Accept, Searching
<1>2. /\ canon = <<>> /\ mu \in Seq(MatchUnit) /\ Unrepeated(mu) /\ N \in Nat
      /\ path \in Seq(0 .. N)
  BY Zenon, <1>1, UnitsOfRound DEF OrderInv, LatticeInv
<1>3. n = N /\ (mu = <<>> \/ n = Len(path))
  <2>1. CASE mu = <<>>
    <3>1. n \in 0 .. Len(path) /\ \A i \in 1 .. n : path[i] + 1 \in 1 .. N
      BY Zenon, <1>2, AcceptedIs
    <3>2. N = 0 /\ Len(path) \in Nat
      BY <1>2, <2>1
    <3>3. 1 \notin 1 .. n
      BY <3>1, <3>2
    <3> QED BY <2>1, <3>1, <3>2, <3>3
  <2>2. CASE mu # <<>>
    BY Zenon, <1>1, <2>2, AcceptAll
  <2> QED BY Zenon, <2>1, <2>2
<1>4. /\ \A i \in 1 .. N : path[i] + 1 \in 1 .. N
      /\ \A i, j \in 1 .. N : i < j => mu[path[i] + 1][side] < mu[path[j] + 1][side]
  <2>1. CASE mu = <<>>
    BY <2>1
  <2>2. CASE mu # <<>>
    BY Zenon, <1>1, <2>2, AcceptAll
  <2> QED BY Zenon, <2>1, <2>2
<1> HIDE DEF n
<1>5. pc' = "collect"
  <2>1. mu = <<>> => N = 0
    BY <1>2
  <2> QED BY <1>1, <1>3, <2>1
<1>6. /\ placed \in Seq(MatchUnit) /\ Len(placed) = N /\ DOMAIN placed = 1 .. N
      /\ \A i \in 1 .. N : placed[i] = mu[path[i] + 1]
  BY <1>2, <1>3, <1>4
<1> HIDE DEF placed
<1>7. canon' = placed
  BY <1>1, <1>2, <1>6
<1>8. Rising(canon', side)
  <2>1. Len(canon') = N /\ \A i \in 1 .. N : (canon')[i] = mu[path[i] + 1]
    BY Zenon, <1>6, <1>7
  <2>2. \A i, j \in 1 .. N : i < j => (canon')[i][side] < (canon')[j][side]
    BY Zenon, <1>4, <2>1
  <2> QED BY Zenon, <2>1, <2>2 DEF Rising
<1>9. Range(mu) \ Range(placed) = {}
  <2>1. ASSUME NEW i \in 1 .. N PROVE placed[i] \in Range(mu)
    <3>1. placed[i] = mu[path[i] + 1] /\ path[i] + 1 \in 1 .. N
      BY Zenon, <1>4, <1>6
    <3>2. DOMAIN mu = 1 .. N
      BY <1>2
    <3> QED BY Zenon, <3>1, <3>2 DEF Range
  <2>2. Range(placed) \subseteq Range(mu)
    BY Zenon, <1>6, <2>1 DEF Range
  <2>3. Unrepeated(placed)
    BY Zenon, <1>7 DEF OrderInv, UnitsInv
  <2>4. Cardinality(Range(placed)) = N /\ Cardinality(Range(mu)) = N
    BY <1>2, <1>6, <2>3, SizeOfSet
  <2>5. IsFiniteSet(Range(mu))
    BY <1>2, FiniteRange
  <2>6. Range(placed) = Range(mu)
    BY <2>2, <2>4, <2>5, FS_Subset
  <2> QED BY Zenon, <2>6
<1>10. canon_src' = <<>>
  <2>1. Only(mu, {}) \in Seq(MatchUnit) /\ Range(Only(mu, {})) = Range(mu) \cap {}
    BY <1>2, OnlyIs
  <2>2. canon_src' = Only(mu, {})
    BY Zenon, <1>1, <1>9
  <2>3. Range(Only(mu, {})) = {}
    BY Zenon, <2>1
  <2> QED BY Zenon, <2>1, <2>2, <2>3, NothingLeft
<1> QED BY <1>5, <1>8, <1>10 DEF RoundInv

LEMMA CollectWay ==
  ASSUME OrderInv, NEW side, RoundInv(side), Collect
  PROVE  RoundInv(side)'
<1> DEFINE d == Dropped(accum)
<1>1. /\ pc' = "done" /\ accum' = canon \o canon_src \o d
      /\ canon_src = <<>> /\ Rising(canon, side)
  BY DEF Collect, RoundInv
<1>2. canon \in Seq(MatchUnit) /\ accum \in Seq(MatchUnit) /\ Unrepeated(accum)
  BY DEF OrderInv, UnitsInv
<1>3. d \in Seq(MatchUnit) /\ Range(d) = {u \in Range(accum) : u.deleted}
  BY <1>2, KeptIs
<1> HIDE DEF d
<1>4. accum' = canon \o d
  BY <1>1, <1>2, <1>3
<1> DEFINE n == Len(canon)
<1> DEFINE s == canon \o d
<1>5. /\ n \in Nat /\ Len(s) \in Nat /\ n <= Len(s)
      /\ \A i \in 1 .. n : s[i] = canon[i]
      /\ \A i \in n + 1 .. Len(s) : s[i] = d[i - n] /\ i - n \in 1 .. Len(d)
  BY <1>2, <1>3
<1>6. ASSUME NEW i \in 1 .. Len(s), ~s[i].deleted
      PROVE  i \in 1 .. n
  <2>1. CASE i \in n + 1 .. Len(s)
    <3>1. s[i] = d[i - n] /\ i - n \in DOMAIN d
      BY <1>3, <1>5, <2>1
    <3>2. s[i] \in Range(d)
      BY Zenon, <3>1 DEF Range
    <3> QED BY Zenon, <1>3, <1>6, <3>2
  <2>2. CASE i \notin n + 1 .. Len(s)
    BY <1>5, <2>2
  <2> QED BY Zenon, <2>1, <2>2
<1> HIDE DEF s
<1>7. Rising(s, side)
  <2>1. ASSUME NEW i \in 1 .. Len(s), NEW j \in 1 .. Len(s), i < j, ~s[i].deleted, ~s[j].deleted
        PROVE  s[i][side] < s[j][side]
    <3>1. i \in 1 .. n /\ j \in 1 .. n
      BY Zenon, <1>6, <2>1
    <3>2. s[i] = canon[i] /\ s[j] = canon[j]
      BY Zenon, <1>5, <3>1
    <3> QED BY Zenon, <1>1, <2>1, <3>1, <3>2 DEF Rising
  <2> QED BY Zenon, <2>1 DEF Rising
<1>8. accum' = s
  BY <1>4 DEF s
<1>9. Rising(accum', side)
  BY Zenon, <1>7, <1>8
<1>10. pc' \notin {"draw", "path", "accept", "collect"} /\ pc' = "done"
  BY <1>1
<1> QED BY <1>9, <1>10 DEF RoundInv

(* The steps that neither draw nor place anything.                         *)
LEMMA OtherWay ==
  ASSUME OrderInv, NEW side, use_order, RoundInv(side),
         CatchUpRemote \/ LocalRow \/ RemainingRemote \/ EndProcess \/ StartRound
  PROVE  RoundInv(side)'
<1>1. /\ pc \in {"process", "order"} /\ canon' = canon
      /\ pc' \notin {"draw", "path", "accept", "collect", "done"}
  <2>1. CASE CatchUpRemote \/ LocalRow \/ RemainingRemote
    <3>1. pc = "process" /\ pc' = pc /\ canon' = canon
      BY Zenon, <2>1 DEF CatchUpRemote, LocalRow, RemainingRemote, RemoteRow
    <3> QED BY <3>1
  <2>2. CASE EndProcess
    BY <2>2 DEF EndProcess
  <2>3. CASE StartRound
    BY <2>3 DEF StartRound
  <2> QED BY Zenon, <2>1, <2>2, <2>3
<1>2. canon = <<>>
  BY <1>1 DEF RoundInv
<1> QED BY <1>1, <1>2 DEF RoundInv

LEMMA FollowsStays ==
  ASSUME NEW side, order_local' = order_local, order_remote' = order_remote
  PROVE  Follows(side)' = Follows(side) /\ KeptUnits' = KeptUnits
<1>1. ExpectedUnits' = ExpectedUnits
  BY DEF ExpectedUnits
<1>2. KeptUnits' = KeptUnits
  BY Zenon, <1>1 DEF KeptUnits
<1> QED BY <1>2 DEF Follows, Alike, OneOf, Other

LEMMA InputsStay ==
  ASSUME [Next]_vars
  PROVE  order_local' = order_local /\ order_remote' = order_remote /\ use_order' = use_order
<1>1. UNCHANGED vars => UNCHANGED inputs
  BY DEF vars
<1>2. CatchUpRemote \/ LocalRow \/ RemainingRemote \/ EndProcess => UNCHANGED inputs
  BY Zenon DEF CatchUpRemote, LocalRow, RemainingRemote, RemoteRow, EndProcess
<1>3. StartRound \/ FirstDraw \/ Draw \/ LastDraw => UNCHANGED inputs
  BY DEF StartRound, FirstDraw, Draw, LastDraw
<1>4. FindPath \/ Accept \/ Collect => UNCHANGED inputs
  BY DEF FindPath, Accept, Collect
<1>5. UNCHANGED inputs
  BY Zenon, <1>1, <1>2, <1>3, <1>4 DEF Next
<1> QED BY <1>5 DEF inputs

LEMMA WayStays ==
  ASSUME OrderInv, NEW side, RoundInv(side), UNCHANGED vars
  PROVE  RoundInv(side)'
<1>1. /\ pc' = pc /\ mu' = mu /\ canon' = canon /\ canon_src' = canon_src /\ accum' = accum
      /\ layers' = layers /\ moves' = moves /\ path' = path
  BY DEF vars, round
<1>2. /\ \A k : NextOn(side, k)' = NextOn(side, k)
      /\ Places(side)' = Places(side) /\ OneWay(side)' = OneWay(side)
  BY Zenon, <1>1, SameUnits
<1>3. \A layer : Ahead(side, layer)' = Ahead(side, layer)
  BY Zenon, <1>1, <1>2 DEF Ahead
<1>4. \A layer, n : FreeAt(side, layer, n)' = FreeAt(side, layer, n)
  BY Zenon, <1>1, <1>2 DEF FreeAt, LowerThan
<1>5. DrawnSo(side) => DrawnSo(side)'
  BY <1>1, <1>2, <1>3, <1>4 DEF DrawnSo
<1>6. DrawnAll(side) => DrawnAll(side)'
  BY <1>1, <1>3 DEF DrawnAll
<1>7. PathInOrder(side) => PathInOrder(side)'
  BY <1>1, <1>2 DEF PathInOrder
<1>8. /\ Rising(canon, side) => Rising(canon, side)'
      /\ Rising(accum, side) => Rising(accum, side)'
  BY <1>1 DEF Rising
<1> QED BY <1>1, <1>5, <1>6, <1>7, <1>8 DEF RoundInv

LEMMA WayStep ==
  ASSUME OrderInv, OrderInv', NEW side, WayInv(side), [Next]_vars
  PROVE  WayInv(side)'
<1>1. Follows(side)' = Follows(side) /\ use_order' = use_order
  BY Zenon, InputsStay, FollowsStays
<1>2. SUFFICES ASSUME use_order, Follows(side), RoundInv(side) PROVE RoundInv(side)'
  BY Zenon, <1>1 DEF WayInv
<1>3. CASE CatchUpRemote \/ LocalRow \/ RemainingRemote \/ EndProcess \/ StartRound
  BY Zenon, <1>2, <1>3, OtherWay
<1>4. CASE FirstDraw
  BY Zenon, <1>2, <1>4, FirstDrawWay
<1>5. CASE Draw
  BY Zenon, <1>2, <1>5, DrawWay
<1>6. CASE LastDraw
  BY Zenon, <1>2, <1>6, LastDrawWay
<1>7. CASE FindPath
  BY Zenon, <1>2, <1>7, FindPathWay
<1>8. CASE Accept
  BY Zenon, <1>2, <1>8, AcceptWay
<1>9. CASE Collect
  BY Zenon, <1>2, <1>9, CollectWay
<1>10. CASE UNCHANGED vars
  BY Zenon, <1>2, <1>10, WayStays
<1> QED BY Zenon, <1>3, <1>4, <1>5, <1>6, <1>7, <1>8, <1>9, <1>10 DEF Next

(* A merge that follows a side keeps to it.                                *)
LEMMA WayInvariant == Spec => [](WayInv("localUnit") /\ WayInv("remoteUnit"))
<1>1. Init => WayInv("localUnit") /\ WayInv("remoteUnit")
  BY DEF Init, WayInv, RoundInv
<1>2. OrderInv /\ OrderInv' /\ WayInv("localUnit") /\ [Next]_vars => WayInv("localUnit")'
  BY Zenon, WayStep
<1>3. OrderInv /\ OrderInv' /\ WayInv("remoteUnit") /\ [Next]_vars => WayInv("remoteUnit")'
  BY Zenon, WayStep
<1> QED BY <1>1, <1>2, <1>3, OrderInvariant, PTL DEF Spec

-----------------------------------------------------------------------------
(* The units that are kept: of a row that both sides took from pivot, of a *)
(* row that is new in local, or of one that is new in remote.              *)
KindOf(p, l, r) ==
  \/ /\ p # -1
     /\ l \in DOMAIN order_local /\ order_local[l] = p
     /\ r \in DOMAIN order_remote /\ order_remote[r] = p
  \/ p = -1 /\ r = -1 /\ l \in DOMAIN order_local /\ order_local[l] = -1
  \/ p = -1 /\ l = -1 /\ r \in DOMAIN order_remote /\ order_remote[r] = -1

LEMMA KeptKind ==
  ASSUME order_local \in OrderResult, order_remote \in OrderResult, NEW u \in KeptUnits
  PROVE  /\ u = Unit(u.pivotUnit, u.localUnit, u.remoteUnit, FALSE)
         /\ KindOf(u.pivotUnit, u.localUnit, u.remoteUnit)
<1> SUFFICES \E p, l, r : u = Unit(p, l, r, FALSE) /\ KindOf(p, l, r)
  <2>1. ASSUME NEW p, NEW l, NEW r, u = Unit(p, l, r, FALSE)
        PROVE  u.pivotUnit = p /\ u.localUnit = l /\ u.remoteUnit = r
    BY <2>1 DEF Unit
  <2> QED BY Zenon, <2>1
<1>1. u \in ExpectedUnits /\ ~u.deleted
  BY Zenon DEF KeptUnits
<1> DEFINE rOf(l) == a2b(order_remote, order_local[l])
<1> DEFINE gone(l) == order_local[l] # -1 /\ rOf(l) = -1
<1>2. CASE \E l \in DOMAIN order_local : u = Unit(order_local[l], l, rOf(l), gone(l))
  <2>1. PICK l \in DOMAIN order_local : u = Unit(order_local[l], l, rOf(l), gone(l))
    BY Zenon, <1>2
  <2>2. u.deleted = gone(l)
    BY Zenon, <2>1 DEF Unit
  <2>3. gone(l) = FALSE
    BY Zenon, <1>1, <2>2
  <2>4. u = Unit(order_local[l], l, rOf(l), FALSE)
    BY Zenon, <2>1, <2>3
  <2>5. CASE order_local[l] = -1
    <3>1. rOf(l) = -1
      BY Zenon, <2>5, OrderIs
    <3> QED BY Zenon, <2>4, <2>5, <3>1 DEF KindOf
  <2>6. CASE order_local[l] # -1
    <3>1. rOf(l) # -1
      BY Zenon, <2>3, <2>6
    <3>2. rOf(l) \in DOMAIN order_remote /\ order_remote[rOf(l)] = order_local[l]
      BY Zenon, <3>1 DEF a2b
    <3> QED BY Zenon, <2>4, <2>6, <3>2 DEF KindOf
  <2> QED BY Zenon, <2>5, <2>6
<1>3. CASE \E r \in DOMAIN order_remote : order_remote[r] = -1 /\ u = Unit(-1, -1, r, FALSE)
  BY Zenon, <1>3 DEF KindOf
<1>4. \/ \E l \in DOMAIN order_local : u = Unit(order_local[l], l, rOf(l), gone(l))
      \/ \E r \in DOMAIN order_remote : order_remote[r] = -1 /\ u = Unit(-1, -1, r, FALSE)
  BY Zenon, <1>1 DEF ExpectedUnits
<1> QED BY Zenon, <1>2, <1>3, <1>4

(* A row is of one unit.                                                   *)
LEMMA UnitsOfRows ==
  ASSUME order_local \in OrderResult, order_remote \in OrderResult
  PROVE  OneOf(KeptUnits, "localUnit") /\ OneOf(KeptUnits, "remoteUnit")
<1>1. \A order \in {order_local, order_remote} :
        \A i, j \in DOMAIN order : order[i] = order[j] => i = j \/ order[i] = -1
  BY DEF OrderResult
<1>2. -1 \notin DOMAIN order_local /\ -1 \notin DOMAIN order_remote
  BY OrderIs
<1>3. ASSUME NEW u \in KeptUnits, NEW v \in KeptUnits,
             u.localUnit = v.localUnit, u.localUnit # -1
      PROVE  u = v
  <2>1. /\ KindOf(u.pivotUnit, u.localUnit, u.remoteUnit)
        /\ KindOf(v.pivotUnit, v.localUnit, v.remoteUnit)
    BY Zenon, KeptKind
  <2>2. u.pivotUnit = v.pivotUnit
    BY Zenon, <1>3, <2>1 DEF KindOf
  <2>3. u.remoteUnit = v.remoteUnit
    BY Zenon, <1>1, <1>3, <2>1, <2>2 DEF KindOf
  <2>4. u = Unit(u.pivotUnit, u.localUnit, u.remoteUnit, FALSE)
        /\ v = Unit(v.pivotUnit, v.localUnit, v.remoteUnit, FALSE)
    BY Zenon, KeptKind
  <2> QED BY Zenon, <1>3, <2>2, <2>3, <2>4
<1>4. ASSUME NEW u \in KeptUnits, NEW v \in KeptUnits,
             u.remoteUnit = v.remoteUnit, u.remoteUnit # -1
      PROVE  u = v
  <2>1. /\ KindOf(u.pivotUnit, u.localUnit, u.remoteUnit)
        /\ KindOf(v.pivotUnit, v.localUnit, v.remoteUnit)
    BY Zenon, KeptKind
  <2>2. u.pivotUnit = v.pivotUnit
    BY Zenon, <1>4, <2>1 DEF KindOf
  <2>3. u.localUnit = v.localUnit
    BY Zenon, <1>1, <1>4, <2>1, <2>2 DEF KindOf
  <2>4. u = Unit(u.pivotUnit, u.localUnit, u.remoteUnit, FALSE)
        /\ v = Unit(v.pivotUnit, v.localUnit, v.remoteUnit, FALSE)
    BY Zenon, KeptKind
  <2> QED BY Zenon, <1>4, <2>2, <2>3, <2>4
<1> QED BY Zenon, <1>3, <1>4 DEF OneOf

(* In a table that is not reordered, the rows taken from pivot stand as    *)
(* they do in pivot.                                                       *)
LEMMA AsInPivot ==
  ASSUME NEW order \in OrderResult, Monotone(order),
         NEW i \in DOMAIN order, NEW j \in DOMAIN order, order[i] # -1, order[j] # -1
  PROVE  i < j <=> order[i] < order[j]
<1>1. i \in Nat /\ j \in Nat /\ order[i] \in Nat /\ order[j] \in Nat
  BY OrderIs, BoundsOK
<1>2. (i < j => order[i] < order[j]) /\ (j < i => order[j] < order[i])
  BY Zenon DEF Monotone
<1>3. i = j => order[i] = order[j]
  OBVIOUS
<1> QED BY <1>1, <1>2, <1>3

(* Where local neither moved nor inserted rows, the merge follows remote,  *)
(* and the other way round.                                                *)
LEMMA FollowsRemote ==
  ASSUME order_local \in OrderResult, order_remote \in OrderResult,
         Monotone(order_local), -1 \notin Range(order_local)
  PROVE  Follows("remoteUnit")
<1>1. \A l \in DOMAIN order_local : order_local[l] # -1
  BY Zenon DEF Range
<1>2. -1 \notin DOMAIN order_local /\ -1 \notin DOMAIN order_remote
  BY OrderIs
<1>3. ASSUME NEW u \in KeptUnits
      PROVE  /\ u.remoteUnit # -1 /\ (u.localUnit = -1 <=> u.pivotUnit = -1)
             /\ u.localUnit # -1 => /\ u.localUnit \in DOMAIN order_local
                                    /\ order_local[u.localUnit] = u.pivotUnit
  <2>1. KindOf(u.pivotUnit, u.localUnit, u.remoteUnit)
    BY Zenon, KeptKind
  <2> QED BY Zenon, <1>1, <1>2, <2>1 DEF KindOf
<1>4. ASSUME NEW u \in KeptUnits, NEW v \in KeptUnits, u.localUnit # -1, v.localUnit # -1
      PROVE  u.localUnit < v.localUnit <=> u.pivotUnit < v.pivotUnit
  <2>1. /\ u.localUnit \in DOMAIN order_local /\ order_local[u.localUnit] = u.pivotUnit
        /\ v.localUnit \in DOMAIN order_local /\ order_local[v.localUnit] = v.pivotUnit
    BY Zenon, <1>3, <1>4
  <2>2. u.localUnit < v.localUnit
          <=> order_local[u.localUnit] < order_local[v.localUnit]
    BY <1>1, <2>1, AsInPivot
  <2> QED BY Zenon, <2>1, <2>2
<1>5. Alike(KeptUnits, "localUnit", "pivotUnit")
  BY Zenon, <1>3, <1>4 DEF Alike
<1>6. Other("remoteUnit") = "localUnit"
  BY DEF Other
<1> QED BY Zenon, <1>3, <1>5, <1>6, UnitsOfRows DEF Follows

LEMMA FollowsLocal ==
  ASSUME order_local \in OrderResult, order_remote \in OrderResult,
         Monotone(order_remote), -1 \notin Range(order_remote)
  PROVE  Follows("localUnit")
<1>1. \A r \in DOMAIN order_remote : order_remote[r] # -1
  BY Zenon DEF Range
<1>2. -1 \notin DOMAIN order_local /\ -1 \notin DOMAIN order_remote
  BY OrderIs
<1>3. ASSUME NEW u \in KeptUnits
      PROVE  /\ u.localUnit # -1 /\ (u.remoteUnit = -1 <=> u.pivotUnit = -1)
             /\ u.remoteUnit # -1 => /\ u.remoteUnit \in DOMAIN order_remote
                                     /\ order_remote[u.remoteUnit] = u.pivotUnit
  <2>1. KindOf(u.pivotUnit, u.localUnit, u.remoteUnit)
    BY Zenon, KeptKind
  <2> QED BY Zenon, <1>1, <1>2, <2>1 DEF KindOf
<1>4. ASSUME NEW u \in KeptUnits, NEW v \in KeptUnits, u.remoteUnit # -1, v.remoteUnit # -1
      PROVE  u.remoteUnit < v.remoteUnit <=> u.pivotUnit < v.pivotUnit
  <2>1. /\ u.remoteUnit \in DOMAIN order_remote /\ order_remote[u.remoteUnit] = u.pivotUnit
        /\ v.remoteUnit \in DOMAIN order_remote /\ order_remote[v.remoteUnit] = v.pivotUnit
    BY Zenon, <1>3, <1>4
  <2>2. u.remoteUnit < v.remoteUnit
          <=> order_remote[u.remoteUnit] < order_remote[v.remoteUnit]
    BY <1>1, <2>1, AsInPivot
  <2> QED BY Zenon, <2>1, <2>2
<1>5. Alike(KeptUnits, "remoteUnit", "pivotUnit")
  BY Zenon, <1>3, <1>4 DEF Alike
<1>6. Other("localUnit") = "remoteUnit"
  BY DEF Other
<1> QED BY Zenon, <1>3, <1>5, <1>6, UnitsOfRows DEF Follows

LEMMA SameIsMonotone ==
  ASSUME NEW order, Same(order)
  PROVE  Monotone(order) /\ -1 \notin Range(order)
<1>1. DOMAIN order = 1 .. PivotRows /\ \A i \in 1 .. PivotRows : order[i] = i
  BY DEF Same
<1>2. -1 \notin 1 .. PivotRows
  BY BoundsOK
<1>3. -1 \notin Range(order)
  BY Zenon, <1>1, <1>2 DEF Range
<1> QED BY <1>1, <1>3 DEF Monotone

(* The rows of the two sides stand alike if neither side is reordered.     *)
LEMMA SidesAlike ==
  ASSUME order_local \in OrderResult, order_remote \in OrderResult,
         Monotone(order_local), Monotone(order_remote),
         NEW u \in KeptUnits, NEW v \in KeptUnits,
         u.localUnit # -1, u.remoteUnit # -1, v.localUnit # -1, v.remoteUnit # -1
  PROVE  u.localUnit < v.localUnit <=> u.remoteUnit < v.remoteUnit
<1>1. \A w \in {u, v} :
        /\ w.pivotUnit # -1
        /\ w.localUnit \in DOMAIN order_local /\ order_local[w.localUnit] = w.pivotUnit
        /\ w.remoteUnit \in DOMAIN order_remote /\ order_remote[w.remoteUnit] = w.pivotUnit
  BY Zenon, KeptKind DEF KindOf
<1>2. /\ u.localUnit < v.localUnit <=> u.pivotUnit < v.pivotUnit
      /\ u.remoteUnit < v.remoteUnit <=> u.pivotUnit < v.pivotUnit
  <2>1. u.localUnit < v.localUnit
          <=> order_local[u.localUnit] < order_local[v.localUnit]
    BY <1>1, AsInPivot
  <2>2. u.remoteUnit < v.remoteUnit
          <=> order_remote[u.remoteUnit] < order_remote[v.remoteUnit]
    BY <1>1, AsInPivot
  <2> QED BY Zenon, <1>1, <2>1, <2>2
<1> QED BY Zenon, <1>2

LEMMA MergedUnits ==
  ASSUME OrderInv, pc = "done"
  PROVE  /\ accum \in Seq(MatchUnit) /\ DOMAIN accum = 1 .. Len(accum)
         /\ order_local \in OrderResult /\ order_remote \in OrderResult
         /\ \A i \in DOMAIN accum : ~accum[i].deleted => accum[i] \in KeptUnits
<1>1. /\ accum \in Seq(MatchUnit) /\ Range(accum) = ExpectedUnits
      /\ order_local \in OrderResult /\ order_remote \in OrderResult
  BY DEF OrderInv, UnitsInv
<1>2. \A i \in DOMAIN accum : accum[i] \in Range(accum)
  BY Zenon DEF Range
<1>3. DOMAIN accum = 1 .. Len(accum)
  BY <1>1
<1> QED BY Zenon, <1>1, <1>2, <1>3 DEF KeptUnits

(* A merge that follows a side ends with the rows in the order of that     *)
(* side; and in that of the other too if neither was reordered.            *)
LEMMA EndsInOrder ==
  ASSUME OrderInv, pc = "done", use_order, NEW side, Follows(side), WayInv(side)
  PROVE  /\ InOrder(side)
         /\ Monotone(order_local) /\ Monotone(order_remote) => InOrder(Other(side))
<1>1. Rising(accum, side)
  BY Zenon DEF WayInv, RoundInv
<1>2. InOrder(side)
  BY Zenon, <1>1, MergedUnits DEF Rising, InOrder
<1>3. ASSUME Monotone(order_local), Monotone(order_remote) PROVE InOrder(Other(side))
  <2>1. ASSUME NEW i \in DOMAIN accum, NEW j \in DOMAIN accum, i < j,
               ~accum[i].deleted, ~accum[j].deleted,
               accum[i][Other(side)] # -1, accum[j][Other(side)] # -1
        PROVE  accum[i][Other(side)] < accum[j][Other(side)]
    <3>1. accum[i] \in KeptUnits /\ accum[j] \in KeptUnits
      BY Zenon, <2>1, MergedUnits
    <3>2. accum[i][side] # -1 /\ accum[j][side] # -1
      BY Zenon, <3>1 DEF Follows
    <3>3. accum[i][side] < accum[j][side]
      BY Zenon, <1>2, <2>1, <3>2 DEF InOrder
    <3>4. CASE side = "localUnit"
      <4>1. Other(side) = "remoteUnit"
        BY <3>4 DEF Other
      <4> QED BY Zenon, <1>3, <2>1, <3>1, <3>2, <3>3, <3>4, <4>1, SidesAlike, MergedUnits
    <3>5. CASE side = "remoteUnit"
      <4>1. Other(side) = "localUnit"
        BY <3>5 DEF Other
      <4> QED BY Zenon, <1>3, <2>1, <3>1, <3>2, <3>3, <3>5, <4>1, SidesAlike, MergedUnits
    <3> QED BY Zenon, <3>4, <3>5 DEF Follows
  <2> QED BY Zenon, <2>1 DEF InOrder
<1> QED BY Zenon, <1>2, <1>3

LEMMA OneSideFollowed ==
  ASSUME OrderInv, pc = "done", use_order, WayInv("localUnit"), WayInv("remoteUnit")
  PROVE  RemoteOrderKept /\ LocalOrderKept
<1>1. order_local \in OrderResult /\ order_remote \in OrderResult
  BY Zenon, MergedUnits
<1>2. Other("localUnit") = "remoteUnit" /\ Other("remoteUnit") = "localUnit"
  BY DEF Other
<1>3. ASSUME Monotone(order_local), -1 \notin Range(order_local)
      PROVE  /\ InOrder("remoteUnit")
             /\ Monotone(order_remote) => InOrder("localUnit")
  BY Zenon, <1>1, <1>2, <1>3, FollowsRemote, EndsInOrder
<1>4. ASSUME Monotone(order_remote), -1 \notin Range(order_remote)
      PROVE  /\ InOrder("localUnit")
             /\ Monotone(order_local) => InOrder("remoteUnit")
  BY Zenon, <1>1, <1>2, <1>4, FollowsLocal, EndsInOrder
<1>5. SimpleEdits => InOrder("localUnit") /\ InOrder("remoteUnit")
  BY Zenon, <1>3, <1>4 DEF SimpleEdits
<1>6. Same(order_local) => InOrder("remoteUnit")
  BY Zenon, <1>3, SameIsMonotone
<1>7. Same(order_remote) => InOrder("localUnit")
  BY Zenon, <1>4, SameIsMonotone
<1> QED BY Zenon, <1>5, <1>6, <1>7 DEF RemoteOrderKept, LocalOrderKept

LEMMA OrderKept == Spec => [](RemoteOrderKept /\ LocalOrderKept)
<1>1. OrderInv /\ WayInv("localUnit") /\ WayInv("remoteUnit") => RemoteOrderKept /\ LocalOrderKept
  BY Zenon, OneSideFollowed DEF RemoteOrderKept, LocalOrderKept
<1> QED BY <1>1, WayInvariant, OrderInvariant, PTL

(* A diff of two tables, where local is the pivot, and a merge of two      *)
(* simple edits leave the rows that OrderMerge keeps in the order of       *)
(* remote, whatever their number: the search then has one way on from      *)
(* every unit, one round places all of them, and none is left over.        *)
THEOREM RemoteOrderStays == Spec => []RemoteOrderKept
BY OrderKept, PTL

(* Where remote is the pivot, or both sides made simple edits, OrderMerge  *)
(* leaves the rows it keeps in the order of local.                         *)
THEOREM LocalOrderStays == Spec => []LocalOrderKept
BY OrderKept, PTL
=============================================================================
