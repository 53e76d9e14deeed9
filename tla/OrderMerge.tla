----------------------------- MODULE OrderMerge -----------------------------
(***************************************************************************)
(* OrderMerge: from the order of the rows (or columns) of local and of     *)
(* remote, both given relative to pivot, the order of the merged rows.     *)
(* `process' walks the two tables and lists the match units, `merge' then  *)
(* looks for an order of the units, with a Viterbi search per round, until *)
(* a round places all that are left or places none.                        *)
(*                                                                         *)
(* Rows are numbered from 1; -1 is, as in the code, the absence of a row.  *)
(***************************************************************************)
EXTENDS Viterbi, Selection, FiniteSets, Functions

CONSTANTS
  PivotRows,   \* the number of rows of pivot
  MaxRows      \* bound on the rows of local and of remote

ASSUME BoundsOK == PivotRows \in Nat /\ MaxRows \in Nat

VARIABLES
  order_local, order_remote,   \* OrderResult::b2a, by row of the descendant
  use_order,                   \* flags.use_order, or the rows are columns
  ilocal, base_remote,         \* the cursors of process
  accum,       \* the match units
  canon,       \* the units placed so far
  canon_src,   \* the units to be placed
  mu, moves, layers, path,   \* of the Viterbi search of the round
  pc

inputs == <<order_local, order_remote, use_order>>
cursors == <<ilocal, base_remote>>
round == <<mu, moves, layers, path>>
vars == <<inputs, cursors, accum, canon, canon_src, round, pc>>

MatchUnit == [pivotUnit : {-1} \cup 1 .. PivotRows, localUnit : {-1} \cup 1 .. MaxRows,
              remoteUnit : {-1} \cup 1 .. MaxRows, deleted : BOOLEAN]

Unit(p, l, r, deleted) ==
  [pivotUnit |-> p, localUnit |-> l, remoteUnit |-> r, deleted |-> deleted]

(* The results of comparing a descendant with the pivot: each row is new   *)
(* or comes from a row of the pivot, which no other row comes from.        *)
OrderResult ==
  {b2a \in UNION {[1 .. n -> {-1} \cup 1 .. PivotRows] : n \in 0 .. MaxRows} :
     \A i, j \in DOMAIN b2a : b2a[i] = b2a[j] => i = j \/ b2a[i] = -1}

a2b(order, p) ==
  IF p # -1 /\ \E i \in DOMAIN order : order[i] = p
  THEN CHOOSE i \in DOMAIN order : order[i] = p ELSE -1

(* merge, up to process; head_trimmed and tail_trimmed are off.            *)
Init ==
  /\ order_local \in OrderResult /\ order_remote \in OrderResult
  /\ use_order \in BOOLEAN
  /\ ilocal = 1 /\ base_remote = 1
  /\ accum = <<>> /\ canon = <<>> /\ canon_src = <<>>
  /\ mu = <<>> /\ moves = {} /\ layers = <<>> /\ path = <<>>
  /\ pc = "process"
-----------------------------------------------------------------------------
(* process.                                                                *)

Push(unit) == accum' = Append(accum, unit)

(* A row of remote is a unit if pivot does not have it.                    *)
RemoteRow ==
  /\ IF order_remote[base_remote] = -1
     THEN Push(Unit(-1, -1, base_remote, FALSE)) ELSE UNCHANGED accum
  /\ base_remote' = base_remote + 1
  /\ UNCHANGED <<inputs, ilocal, canon, canon_src, round, pc>>

(* The rows of remote before the one that the local row has become come    *)
(* first: the recursive call of process.                                   *)
CatchUpRemote ==
  /\ pc = "process" /\ ilocal <= Len(order_local)
  /\ base_remote < a2b(order_remote, order_local[ilocal])
  /\ RemoteRow

LocalRow ==
  /\ pc = "process" /\ ilocal <= Len(order_local)
  /\ LET p == order_local[ilocal]
         r == a2b(order_remote, p)
     IN IF p = -1 THEN Push(Unit(-1, ilocal, -1, FALSE))
        ELSE IF r = -1 THEN Push(Unit(p, ilocal, -1, TRUE))
        ELSE base_remote >= r /\ Push(Unit(p, ilocal, r, FALSE))
  /\ ilocal' = ilocal + 1
  /\ UNCHANGED <<inputs, base_remote, canon, canon_src, round, pc>>

RemainingRemote ==
  /\ pc = "process" /\ ilocal > Len(order_local)
  /\ base_remote <= Len(order_remote)
  /\ RemoteRow

EndProcess ==
  /\ pc = "process"
  /\ ilocal > Len(order_local) /\ base_remote > Len(order_remote)
  /\ canon_src' = accum
  /\ pc' = IF use_order THEN "order" ELSE "done"
  /\ UNCHANGED <<inputs, cursors, accum, canon, round>>
-----------------------------------------------------------------------------
(* One round: the state k of the lattice is the k-th unit that is not      *)
(* deleted, counted from 0; the state after the last, dud, is the end.     *)

Kept(src) == Only(src, {unit \in Range(src) : ~unit.deleted})
Dropped(src) == Only(src, {unit \in Range(src) : unit.deleted})

(* safe_next of next_avail: the state of the unit next on a side.          *)
NextOn(side, k) ==
  LET later == {j \in DOMAIN mu : mu[j][side] > mu[k + 1][side]}
  IN IF later = {} THEN Len(mu)
     ELSE (CHOOSE j \in later : \A i \in later : mu[j][side] <= mu[i][side]) - 1

(* The state of the first row of a side.  If the first unit is not on that *)
(* side the code gives up on it.                                           *)
Lowest(side) ==
  IF mu = <<>> \/ mu[1][side] = -1 THEN {}
  ELSE LET on == {j \in DOMAIN mu : mu[j][side] # -1}
       IN {j - 1 : j \in {j \in on : \A i \in on : mu[j][side] <= mu[i][side]}}

(* Mutants: remote alone is followed; local alone is followed.             *)
SuccessorsRemote(k) ==
  IF mu[k + 1].remoteUnit = -1 THEN {NextOn("localUnit", k)}
  ELSE {NextOn("remoteUnit", k)}

SuccessorsLocal(k) ==
  IF mu[k + 1].localUnit = -1 THEN {NextOn("remoteUnit", k)}
  ELSE {NextOn("localUnit", k)}

Successors(k) ==
  LET l == NextOn("localUnit", k)
      r == NextOn("remoteUnit", k)
      p == NextOn("pivotUnit", k)
  IN IF mu[k + 1].remoteUnit = -1 THEN {l}
     ELSE IF mu[k + 1].localUnit = -1 THEN {r}
     ELSE IF l = p /\ r = p THEN {p} ELSE {l, r} \ {p}

(* The layer that transitions make when they are added in the order of     *)
(* their origins: each state is reached the cheapest way, and of ways of   *)
(* the same cost from the first origin.                                    *)
Layer(prev, given) ==
  LET cost(m) == m[3] + prev[m[1]].cost
      before(m, n) == cost(m) < cost(n) \/ (cost(m) = cost(n) /\ m[1] <= n[1])
  IN [s \in DOMAIN prev |->
        LET ways == {m \in given : m[2] = s /\ prev[m[1]].src # -1}
        IN IF ways = {} THEN Unreached
           ELSE LET best == CHOOSE m \in ways : \A n \in ways : before(m, n)
                IN [cost |-> cost(best), src |-> best[1]]]

(* The first layer: the first row of each side, or dud at a cost.          *)
FirstLayer ==
  LET dud == Len(mu)
      starts == Lowest("localUnit") \cup Lowest("remoteUnit")
  IN [k \in 0 .. dud |-> IF k = dud THEN [cost |-> 1, src |-> dud]
                        ELSE IF k \in starts THEN [cost |-> 0, src |-> k]
                        ELSE Unreached]

(* The moves of a draw, and those of the last layer, which make an end in  *)
(* dud dearer than any other.                                              *)
Moves ==
  (UNION {{<<k, j, 0>> : j \in Successors(k)} : k \in 0 .. Len(mu) - 1})
  \cup {<<Len(mu), Len(mu), 1>>}

LastMoves == {<<k, k, IF k = Len(mu) THEN 1 ELSE 0>> : k \in 0 .. Len(mu)}

(* Mutant: a unit may be placed twice.                                     *)
AcceptedTwice == Cardinality({i \in DOMAIN path : path[i] # Len(mu)})

(* The number of states at the start of the path that are accepted: up to  *)
(* one that is dud or comes for the second time, or precedes such a one.   *)
Accepted ==
  LET dud == Len(mu)
      seen(i) == {dud} \cup {path[j] : j \in 1 .. i - 1}
      bad(i) == path[i] \in seen(i) \/ (i < Len(path) /\ path[i + 1] \in seen(i))
  IN Cardinality({j \in DOMAIN path : \A i \in 1 .. j : ~bad(i)})

StartRound ==
  /\ pc = "order"
  /\ mu' = Kept(canon_src)
  /\ pc' = "start"
  /\ UNCHANGED <<inputs, cursors, accum, canon, canon_src, moves, layers, path>>

FirstDraw ==
  /\ pc = "start"
  /\ moves' = Moves
  /\ layers' = <<FirstLayer>>
  /\ pc' = "draw"
  /\ UNCHANGED <<inputs, cursors, accum, canon, canon_src, mu, path>>

Draw ==
  /\ pc = "draw" /\ Len(layers) < Len(mu)
  /\ layers' = Append(layers, Layer(layers[Len(layers)], moves))
  /\ UNCHANGED <<inputs, cursors, accum, canon, canon_src, mu, moves, path, pc>>

LastDraw ==
  /\ pc = "draw" /\ Len(layers) >= Len(mu)
  /\ moves' = LastMoves
  /\ layers' = Append(layers, Layer(layers[Len(layers)], moves'))
  /\ pc' = "path"
  /\ UNCHANGED <<inputs, cursors, accum, canon, canon_src, mu, path>>

FindPath ==
  /\ pc = "path"
  /\ path' = SubSeq(calculatePath(layers), 1, Len(layers) - 1)
  /\ layers' = <<>> /\ moves' = {}
  /\ pc' = "accept"
  /\ UNCHANGED <<inputs, cursors, accum, canon, canon_src, mu>>

(* Mutant: another round for as long as units are left.                    *)
AcceptAgain ==
  /\ pc = "accept"
  /\ LET n == Accepted
         placed == [i \in 1 .. n |-> mu[path[i] + 1]]
     IN /\ canon' = canon \o placed
        /\ canon_src' = Only(mu, Range(mu) \ Range(placed))
        /\ pc' = IF n = Len(path) THEN "collect" ELSE "order"
  /\ path' = <<>> /\ mu' = <<>>
  /\ UNCHANGED <<inputs, cursors, accum, moves, layers>>

(* The path gives the units placed; the others are left for a new round.   *)
Accept ==
  /\ pc = "accept"
  /\ LET n == Accepted
         placed == [i \in 1 .. n |-> mu[path[i] + 1]]
     IN /\ canon' = canon \o placed
        /\ canon_src' = Only(mu, Range(mu) \ Range(placed))
        /\ pc' = IF n \in {0, Len(path)} THEN "collect" ELSE "order"
  /\ path' = <<>> /\ mu' = <<>>
  /\ UNCHANGED <<inputs, cursors, accum, moves, layers>>

(* What no round placed comes last, then the deleted units.                *)
Collect ==
  /\ pc = "collect"
  /\ accum' = canon \o canon_src \o Dropped(accum)
  /\ pc' = "done"
  /\ UNCHANGED <<inputs, cursors, canon, canon_src, round>>

Next == \/ CatchUpRemote \/ LocalRow \/ RemainingRemote \/ EndProcess
        \/ StartRound \/ FirstDraw \/ Draw \/ LastDraw \/ FindPath \/ Accept \/ Collect

Spec == Init /\ [][Next]_vars
-----------------------------------------------------------------------------
(* The units are of rows that the tables have, or of -1 where there is     *)
(* none, and the cursors of process stay within the tables.                *)
OrderTypeOK ==
  /\ use_order \in BOOLEAN
  /\ ilocal \in 1 .. Len(order_local) + 1
  /\ base_remote \in 1 .. Len(order_remote) + 1
  /\ accum \in Seq(MatchUnit) /\ canon \in Seq(MatchUnit)
  /\ canon_src \in Seq(MatchUnit)

(* The units the comparison of the three tables calls for: one per row of  *)
(* local, deleted if remote dropped it, and one per row that is new in     *)
(* remote.  A row that local dropped has none.                             *)
ExpectedUnits ==
  LET L == DOMAIN order_local  R == DOMAIN order_remote
      gone(l) == order_local[l] # -1 /\ a2b(order_remote, order_local[l]) = -1
  IN {Unit(order_local[l], l,
           a2b(order_remote, order_local[l]), gone(l)) : l \in L}
     \cup {Unit(-1, -1, r, FALSE) : r \in {r \in R : order_remote[r] = -1}}

(* However the rows were moved, and however many rounds it takes, every    *)
(* row ends up in exactly one unit: none is lost, none is duplicated.      *)
EveryRowOnce ==
  pc = "done" => /\ Range(accum) = ExpectedUnits
                 /\ Len(accum) = Cardinality(ExpectedUnits)

InOrder(side) ==
  \A i, j \in DOMAIN accum :
    i < j /\ ~accum[i].deleted /\ ~accum[j].deleted
      /\ accum[i][side] # -1 /\ accum[j][side] # -1
    => accum[i][side] < accum[j][side]

Same(order) == order = [i \in 1 .. PivotRows |-> i]

Monotone(order) ==
  \A i, j \in DOMAIN order :
    i < j /\ order[i] # -1 /\ order[j] # -1 => order[i] < order[j]

(* Neither side reorders rows, and only one of them inserts any.           *)
SimpleEdits ==
  /\ Monotone(order_local) /\ Monotone(order_remote)
  /\ -1 \notin Range(order_local) \/ -1 \notin Range(order_remote)

(* When local is the pivot, as in a diff of two tables, the rows kept come *)
(* out in the order of remote, whatever rows remote moved, inserted or     *)
(* dropped; and they do when the two sides made simple edits.              *)
RemoteOrderKept ==
  pc = "done" /\ use_order /\ (Same(order_local) \/ SimpleEdits) =>
    InOrder("remoteUnit")

(* When remote is the pivot nothing is to be done and the rows keep the    *)
(* local order; and they do when the two sides made simple edits.          *)
LocalOrderKept ==
  pc = "done" /\ use_order /\ (Same(order_remote) \/ SimpleEdits) =>
    InOrder("localUnit")

(* Every merge comes to its end: a round that does not finish makes        *)
(* progress.                                                               *)
MergeEnds == <>(pc = "done")
=============================================================================
