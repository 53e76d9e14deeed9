------------------------------ MODULE SqlCells ------------------------------
(* What the tables of a Sqlite database hold, however they are changed.    *)
EXTENDS Integers

CONSTANTS
    Values,            \* the values of cells; naturals, as a key may be one
    Null,              \* the value of a NULL cell
    MaxRows            \* rows at first

ASSUME CellsOK == MaxRows \in Nat
=============================================================================
