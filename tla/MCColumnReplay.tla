--------------------------- MODULE MCColumnReplay ---------------------------
(* Small instances of ColumnReplay.                                        *)
EXTENDS ColumnReplay

(* A diff of two tables: local is pivot.                                   *)
AsPivot == {[l \in 1 .. PivotRows |-> l]}

(* A merge: local may have dropped the last column and have one of its     *)
(* own, or may have done so with the first, which shifts the others.       *)
Edited ==
  {o \in OrderResult :
     /\ Len(o) >= PivotRows - 1
     /\ Cardinality({l \in DOMAIN o : o[l] = -1}) <= 1
     /\ \A l \in DOMAIN o : o[l] \in {l, -1}}
  \cup {[l \in 1 .. PivotRows |-> IF l = 1 THEN -1 ELSE l - 1],
        [l \in 1 .. PivotRows - 1 |-> l + 1]}
=============================================================================
