------------------------------- MODULE Mover -------------------------------
(***************************************************************************)
(* Mover: a short list of columns to move, one after the other, to bring   *)
(* the columns src in the order dest.  A column is moved at most once, and *)
(* each time behind the column that precedes it in dest.                   *)
(***************************************************************************)
LOCAL INSTANCE Integers
LOCAL INSTANCE SequencesExt

(* The search gives up once it has counted more solutions.                 *)
SolutionLimit == 100

Position(s, x) == SelectInSeq(s, LAMBDA y : y = x)

(* Column i of dest is not where it should be: first, or behind the one    *)
(* that precedes it in dest.                                               *)
Misplaced(src, dest, i) ==
  LET k == Position(src, dest[i])
  IN IF i = 1 THEN k # 1 ELSE k = 1 \/ src[k - 1] # dest[i - 1]

Placed(src, dest, i) ==
  LET rest == Remove(src, dest[i])
  IN IF i = 1 THEN <<dest[i]>> \o rest
     ELSE InsertAt(rest, Position(rest, dest[i - 1]) + 1, dest[i])

(***************************************************************************)
(* The search, depth first, after the moves in order.  g holds the members *)
(* of the object: global_solved, global_best_order, solutions.             *)
(***************************************************************************)
RECURSIVE Search(_, _, _, _)

(* Mutant: the first way found is kept.                                    *)
TriedFirst(src, dest, order, acc, i) ==
  IF acc.solved \/ Contains(order, dest[i]) \/ ~Misplaced(src, dest, i) THEN acc
  ELSE LET try == Search(Placed(src, dest, i), dest, Append(order, dest[i]), acc.g)
       IN IF ~try.ok THEN [acc EXCEPT !.g = try.g]
          ELSE [solved |-> TRUE, size |-> Len(try.order),
                g |-> [solved |-> TRUE, best |-> try.order,
                       solutions |-> try.g.solutions + 1]]

(* One turn of the loop over dest; acc holds best_order's size and solved. *)
Tried(src, dest, order, acc, i) ==
  IF Contains(order, dest[i]) \/ ~Misplaced(src, dest, i) THEN acc
  ELSE LET try == Search(Placed(src, dest, i), dest, Append(order, dest[i]), acc.g)
           g == try.g
           better == try.ok /\ (~acc.solved \/ Len(try.order) < acc.size)
           best == ~g.solved \/ Len(try.order) < Len(g.best)
       IN IF ~better THEN [acc EXCEPT !.g = g]
          ELSE [solved |-> TRUE, size |-> Len(try.order),
                g |-> [solved |-> TRUE,
                       best |-> IF best THEN try.order ELSE g.best,
                       solutions |-> g.solutions + 1]]

Search(src, dest, order, g) ==
  IF \/ g.solved /\ Len(order) > Len(g.best)
     \/ g.solutions > SolutionLimit
  THEN [ok |-> FALSE, order |-> order, g |-> g]
  ELSE IF src = dest THEN [ok |-> TRUE, order |-> order, g |-> g]
  ELSE LET end == FoldLeftDomain(LAMBDA acc, i : Tried(src, dest, order, acc, i),
                                 [solved |-> FALSE, size |-> 0, g |-> g], dest)
       IN [ok |-> end.solved, g |-> end.g,
           order |-> IF end.solved THEN end.g.best ELSE order]

move(src, dest) ==
  Search(src, dest, <<>>, [solved |-> FALSE, best |-> <<>>, solutions |-> 0]).order
=============================================================================
