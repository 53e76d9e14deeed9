------------------------------ MODULE MCSqlite ------------------------------
(* A Sqlite table changed in either of the two ways: by a patch, or by the *)
(* script that compares it with another.                                   *)
EXTENDS SqliteSheet, SqlDiff

Key == <<1>>
Datum == <<2, 1>>
BeginsDatum == <<2>>
Other == <<3>>
SomeNames == {BeginsDatum, Other}

NoPatch == kind = "text" /\ s.row2sql = <<>>
NoScript == ~unique /\ local = <<>> /\ remote = <<>>

MCInit ==
  \/ Init /\ unique = FALSE /\ local = <<>> /\ remote = <<>> /\ table = <<>>
          /\ script = <<>>
  \/ Init /\ NoPatch /\ DiffInit
MCNext == \/ NoScript /\ Next /\ UNCHANGED diffVars
          \/ ~NoScript /\ DiffNext /\ UNCHANGED vars
MCSpec == MCInit /\ [][MCNext]_<<vars, diffVars>>
=============================================================================
