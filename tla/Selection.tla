----------------------------- MODULE Selection ------------------------------
(* A part of a sequence.  It is SelectSeq, given as a function over the    *)
(* positions so that proofs can follow it.                                 *)
EXTENDS Integers, Sequences

(* The elements of seq that are in S, in their order.                      *)
Only(seq, S) ==
  LET taken[i \in 0 .. Len(seq)] ==
        IF i = 0 THEN <<>>
        ELSE IF seq[i] \in S THEN Append(taken[i - 1], seq[i]) ELSE taken[i - 1]
  IN taken[Len(seq)]
=============================================================================
