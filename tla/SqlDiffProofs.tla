--------------------------- MODULE SqlDiffProofs ----------------------------
(***************************************************************************)
(* What the script of MergeOutputSqlDiff does to the local table, for      *)
(* tables of any length over any values.                                   *)
(***************************************************************************)
EXTENDS SqlDiff, HelperProofs

Statement == [mode : {"INSERT", "UPDATE", "DELETE"}, cond : Row, val : Row]

Differ(row, others) == {o \in Range(others) : o[1] = row[1] /\ o[2] # row[2]}
UpdatesOf(row, others) == Mapped(Only(others, Differ(row, others)), LAMBDA o : UpdateOf(row, o))

LEMMA RowIs == \A row \in Row : row = <<row[1], row[2]>>
  BY DEF Row

LEMMA TablesAre == DiffTables \subseteq Seq(Row)
  BY CellsOK DEF DiffTables

LEMMA StatementsAre ==
  ASSUME NEW row \in Row, NEW new \in Row
  PROVE  /\ InsertOf(row) \in Statement /\ UpdateOf(row, new) \in Statement
         /\ DeleteOf(row) \in Statement
  BY DEF InsertOf, UpdateOf, DeleteOf, Statement

LEMMA UpdatesAre ==
  ASSUME NEW row \in Row, NEW others \in Seq(Row)
  PROVE  /\ UpdatesOf(row, others) \in Seq(Statement)
         /\ Range(UpdatesOf(row, others)) = {UpdateOf(row, o) : o \in Differ(row, others)}
<1> DEFINE part == Only(others, Differ(row, others))
<1>1. part \in Seq(Row) /\ Range(part) = Differ(row, others)
  <2>1. part \in Seq(Row) /\ Range(part) = Range(others) \cap Differ(row, others)
    BY OnlyIs
  <2> QED BY <2>1 DEF Differ
<1>2. UpdatesOf(row, others) = [i \in DOMAIN part |-> UpdateOf(row, part[i])]
  BY DEF UpdatesOf, Mapped
<1> HIDE DEF part
<1>3. DOMAIN part = 1 .. Len(part) /\ Len(part) \in Nat /\ \A i \in DOMAIN part : part[i] \in Row
  BY <1>1
<1>4. \A o \in Row : UpdateOf(row, o) \in Statement
  BY StatementsAre
<1>5. UpdatesOf(row, others) \in Seq(Statement)
  <2>1. UpdatesOf(row, others) \in [1 .. Len(part) -> Statement]
    BY <1>2, <1>3, <1>4
  <2> QED BY <2>1, <1>3
<1>6. Range(UpdatesOf(row, others)) = {UpdateOf(row, o) : o \in Range(part)}
  BY <1>2 DEF Range
<1> QED BY <1>1, <1>5, <1>6

(* Every update of the inner join is made, and no other.                   *)
JoinedTo(rows, others, k) ==
  \E f : f = [i \in 0 .. k |-> IF i = 0 THEN <<>> ELSE f[i - 1] \o UpdatesOf(rows[i], others)]

LEMMA JoinedUp ==
  ASSUME NEW rows, NEW others, NEW n \in Nat
  PROVE  JoinedTo(rows, others, n)
<1> DEFINE T == {k \in Nat : JoinedTo(rows, others, k)}
<1>1. 0 \in T
  <2> DEFINE f == [i \in 0 .. 0 |-> <<>>]
  <2>1. f = [i \in 0 .. 0 |-> IF i = 0 THEN <<>> ELSE f[i - 1] \o UpdatesOf(rows[i], others)]
    <3>1. \A i \in 0 .. 0 : i = 0
      OBVIOUS
    <3> QED BY <3>1
  <2> HIDE DEF f
  <2> QED BY <2>1 DEF JoinedTo
<1>2. ASSUME NEW k \in T
      PROVE  k + 1 \in T
  <2> DEFINE next(f, i) == f[i - 1] \o UpdatesOf(rows[i], others)
  <2>1. PICK f : f = [i \in 0 .. k |-> IF i = 0 THEN <<>> ELSE next(f, i)]
    BY Zenon DEF JoinedTo
  <2> DEFINE g == [i \in 0 .. k + 1 |-> IF i = k + 1 THEN next(f, i) ELSE f[i]]
  <2>2. k \in Nat /\ 0 .. k + 1 = 0 .. k \cup {k + 1} /\ k + 1 \notin 0 .. k
    OBVIOUS
  <2>3. \A i \in 0 .. k : g[i] = f[i]
    BY <2>2
  <2>4. g[k + 1] = next(f, k + 1)
    BY <2>2
  <2> HIDE DEF g
  <2>5. ASSUME NEW i \in 0 .. k + 1
        PROVE  g[i] = IF i = 0 THEN <<>> ELSE next(g, i)
    <3>1. CASE i = k + 1
      <4>1. i # 0 /\ i - 1 = k /\ k \in 0 .. k
        BY <3>1, <2>2
      <4> QED BY Zenon, <3>1, <4>1, <2>3, <2>4
    <3>2. CASE i \in 0 .. k
      <4>1. i # 0 => i - 1 \in 0 .. k
        BY <3>2, <2>2
      <4>2. f[i] = IF i = 0 THEN <<>> ELSE next(f, i)
        BY Zenon, <2>1, <3>2
      <4> QED BY <4>1, <4>2, <3>2, <2>3
    <3> QED BY <3>1, <3>2, <2>2
  <2>6. g = [i \in 0 .. k + 1 |-> IF i = 0 THEN <<>> ELSE next(g, i)]
    BY Zenon, <2>5 DEF g
  <2>7. JoinedTo(rows, others, k + 1)
    BY Zenon, <2>6 DEF JoinedTo
  <2> QED BY <2>2, <2>7
<1>3. T = Nat
  <2> HIDE DEF T
  <2>1. T \in SUBSET Nat
    BY DEF T
  <2> QED BY <2>1, <1>1, <1>2, AllNumbers
<1> QED BY <1>3

LEMMA MismatchedAre ==
  ASSUME NEW rows \in Seq(Row), NEW others \in Seq(Row)
  PROVE  /\ Mismatched(rows, others) \in Seq(Statement)
         /\ Range(Mismatched(rows, others)) =
              UNION {{UpdateOf(row, o) : o \in Differ(row, others)} : row \in Range(rows)}
<1> DEFINE n == Len(rows)
<1> DEFINE is(f) == f = [i \in 0 .. n |->
                           IF i = 0 THEN <<>> ELSE f[i - 1] \o UpdatesOf(rows[i], others)]
<1> DEFINE joined == CHOOSE f : is(f)
<1>1. n \in Nat /\ DOMAIN rows = 1 .. n /\ \A i \in 1 .. n : rows[i] \in Row
  OBVIOUS
<1>2. \E f : is(f)
  <2>1. JoinedTo(rows, others, n)
    BY <1>1, JoinedUp
  <2> QED BY Zenon, <2>1 DEF JoinedTo
<1>3. is(joined)
  <2> HIDE DEF is
  <2> QED BY <1>2
<1>4. Mismatched(rows, others) = joined[n]
  BY DEF Mismatched, UpdatesOf, Differ
<1> HIDE DEF joined
<1>5. joined[0] = <<>>
  BY <1>1, <1>3
<1>6. ASSUME NEW i \in 1 .. n
      PROVE  joined[i] = joined[i - 1] \o UpdatesOf(rows[i], others)
  <2>1. i \in 0 .. n /\ i # 0
    BY <1>1
  <2> QED BY Zenon, <1>3, <2>1
<1> DEFINE made(k) == UNION {Range(UpdatesOf(rows[i], others)) : i \in 1 .. k}
<1> DEFINE good(k) == joined[k] \in Seq(Statement) /\ Range(joined[k]) = made(k)
<1> DEFINE T == {k \in Nat : k <= n => good(k)}
<1>7. 0 \in T
  <2>1. <<>> \in Seq(Statement) /\ Range(<<>>) = {} /\ made(0) = {}
    BY DEF Range
  <2> QED BY Zenon, <1>5, <2>1
<1>8. ASSUME NEW k \in T
      PROVE  k + 1 \in T
  <2>1. SUFFICES ASSUME k + 1 <= n PROVE good(k + 1)
    <3> HIDE DEF good
    <3> QED OBVIOUS
  <2>2. k \in Nat /\ k <= n /\ k + 1 \in 1 .. n /\ (k + 1) - 1 = k
        /\ 1 .. k + 1 = 1 .. k \cup {k + 1}
    BY <1>1, <2>1
  <2>3. good(k)
    <3> HIDE DEF good
    <3> QED BY <2>2
  <2>4. joined[k + 1] = joined[k] \o UpdatesOf(rows[k + 1], others)
    BY Zenon, <1>6, <2>2
  <2>5. made(k + 1) = made(k) \cup Range(UpdatesOf(rows[k + 1], others))
    BY <2>2
  <2>6. rows[k + 1] \in Row
    BY <1>1, <2>2
  <2>7. UpdatesOf(rows[k + 1], others) \in Seq(Statement)
    BY <2>6, UpdatesAre
  <2> HIDE DEF made
  <2>8. joined[k] \in Seq(Statement) /\ Range(joined[k]) = made(k)
    BY <2>3
  <2> HIDE DEF Statement
  <2>9. /\ joined[k] \o UpdatesOf(rows[k + 1], others) \in Seq(Statement)
        /\ Range(joined[k] \o UpdatesOf(rows[k + 1], others)) =
             Range(joined[k]) \cup Range(UpdatesOf(rows[k + 1], others))
    BY <2>7, <2>8, SetOfConcat
  <2> QED BY Zenon, <2>4, <2>5, <2>8, <2>9
<1>9. T = Nat
  <2> HIDE DEF T
  <2>1. T \in SUBSET Nat
    BY DEF T
  <2> QED BY Zenon, <2>1, <1>7, <1>8, AllNumbers
<1>10. good(n)
  <2> HIDE DEF good
  <2> QED BY <1>1, <1>9
<1>11. made(n) = UNION {{UpdateOf(row, o) : o \in Differ(row, others)} : row \in Range(rows)}
  <2>1. \A i \in 1 .. n : Range(UpdatesOf(rows[i], others))
                            = {UpdateOf(rows[i], o) : o \in Differ(rows[i], others)}
    BY <1>1, UpdatesAre
  <2>2. \A row \in Range(rows) : \E i \in 1 .. n : row = rows[i]
    BY <1>1 DEF Range
  <2>3. \A i \in 1 .. n : rows[i] \in Range(rows)
    BY <1>1 DEF Range
  <2> DEFINE of(row) == {UpdateOf(row, o) : o \in Differ(row, others)}
  <2>4. made(n) = UNION {of(rows[i]) : i \in 1 .. n}
    <3>1. \A i \in 1 .. n : Range(UpdatesOf(rows[i], others)) = of(rows[i])
      BY Zenon, <2>1
    <3> HIDE DEF of
    <3> QED BY <3>1
  <2> HIDE DEF of, made
  <2>5. UNION {of(rows[i]) : i \in 1 .. n} = UNION {of(row) : row \in Range(rows)}
    BY <2>2, <2>3
  <2>6. made(n) = UNION {of(row) : row \in Range(rows)}
    BY <2>4, <2>5
  <2> QED BY <2>6 DEF of
<1> QED BY Zenon, <1>4, <1>10, <1>11

-----------------------------------------------------------------------------
(* The statements of the script.                                           *)
Alone(rows, others) == {row \in Range(rows) : \A o \in Range(others) : o[1] # row[1]}

Inserts == {InsertOf(row) : row \in Alone(remote, local)}
Updates == UNION {{UpdateOf(row, o) : o \in Differ(row, remote)} : row \in Range(local)}
Deletes == {DeleteOf(row) : row \in Alone(local, remote)}

LEMMA AlonesAre ==
  ASSUME NEW rows \in Seq(Row), NEW others \in Seq(Row)
  PROVE  /\ Unmatched(rows, others) \in Seq(Row)
         /\ Range(Unmatched(rows, others)) = Alone(rows, others)
<1>1. /\ Unmatched(rows, others) \in Seq(Row)
      /\ Range(Unmatched(rows, others)) = Range(rows) \cap Alone(rows, others)
  BY OnlyIs DEF Unmatched, Alone
<1> QED BY <1>1 DEF Alone

LEMMA InsertsAre ==
  ASSUME NEW rows \in Seq(Row)
  PROVE  /\ Mapped(rows, InsertOf) \in Seq(Statement)
         /\ Range(Mapped(rows, InsertOf)) = {InsertOf(row) : row \in Range(rows)}
<1>1. DOMAIN rows = 1 .. Len(rows) /\ Len(rows) \in Nat /\ \A i \in DOMAIN rows : rows[i] \in Row
  OBVIOUS
<1>2. Mapped(rows, InsertOf) = [i \in DOMAIN rows |-> InsertOf(rows[i])]
  BY DEF Mapped
<1>3. \A row \in Row : InsertOf(row) \in Statement
  BY StatementsAre
<1>4. Mapped(rows, InsertOf) \in [1 .. Len(rows) -> Statement]
  BY <1>1, <1>2, <1>3
<1>5. Range(Mapped(rows, InsertOf)) = {InsertOf(row) : row \in Range(rows)}
  BY <1>2 DEF Range
<1> QED BY <1>1, <1>4, <1>5

LEMMA DeletesAre ==
  ASSUME NEW rows \in Seq(Row)
  PROVE  /\ Mapped(rows, DeleteOf) \in Seq(Statement)
         /\ Range(Mapped(rows, DeleteOf)) = {DeleteOf(row) : row \in Range(rows)}
<1>1. DOMAIN rows = 1 .. Len(rows) /\ Len(rows) \in Nat /\ \A i \in DOMAIN rows : rows[i] \in Row
  OBVIOUS
<1>2. Mapped(rows, DeleteOf) = [i \in DOMAIN rows |-> DeleteOf(rows[i])]
  BY DEF Mapped
<1>3. \A row \in Row : DeleteOf(row) \in Statement
  BY StatementsAre
<1>4. Mapped(rows, DeleteOf) \in [1 .. Len(rows) -> Statement]
  BY <1>1, <1>2, <1>3
<1>5. Range(Mapped(rows, DeleteOf)) = {DeleteOf(row) : row \in Range(rows)}
  BY <1>2 DEF Range
<1> QED BY <1>1, <1>4, <1>5

LEMMA ApplyIs ==
  ASSUME local \in Seq(Row), remote \in Seq(Row)
  PROVE  Statements \in Seq(Statement) /\ Range(Statements) = Inserts \cup Updates \cup Deletes
<1> DEFINE a == Mapped(Unmatched(remote, local), InsertOf)
<1> DEFINE b == Mismatched(local, remote)
<1> DEFINE c == Mapped(Unmatched(local, remote), DeleteOf)
<1>1. a \in Seq(Statement) /\ Range(a) = Inserts
  BY Zenon, AlonesAre, InsertsAre DEF Inserts
<1>2. b \in Seq(Statement) /\ Range(b) = Updates
  BY MismatchedAre DEF Updates
<1>3. c \in Seq(Statement) /\ Range(c) = Deletes
  BY Zenon, AlonesAre, DeletesAre DEF Deletes
<1>4. Statements = a \o b \o c
  BY DEF Statements
<1> HIDE DEF a, b, c, Statement
<1>5. a \o b \in Seq(Statement) /\ Range(a \o b) = Range(a) \cup Range(b)
  BY <1>1, <1>2, SetOfConcat
<1> DEFINE ab == a \o b
<1>6. ab \in Seq(Statement) /\ Range(ab) = Inserts \cup Updates
  BY <1>1, <1>2, <1>5
<1>7. Statements = ab \o c
  BY <1>4
<1> HIDE DEF ab
<1>8. ab \o c \in Seq(Statement) /\ Range(ab \o c) = Range(ab) \cup Range(c)
  BY <1>3, <1>6, SetOfConcat
<1> QED BY <1>3, <1>6, <1>7, <1>8

-----------------------------------------------------------------------------
(* What is left of the script is some of its statements, and the rows keep *)
(* to the constraint.                                                      *)
ScriptInv ==
  /\ local \in Seq(Row) /\ remote \in Seq(Row) /\ table \in Seq(Row)
  /\ Allowed(remote) /\ Allowed(table)
  /\ script \in Seq(Statement) /\ Range(script) \subseteq Inserts \cup Updates \cup Deletes

(* Where every row has a key and statements select the row they are of, a  *)
(* remote row that is missing has its statement still to come, and so has  *)
(* a row that is there and not in remote.                                  *)
Plain ==
  /\ ~unique
  /\ \A row \in Range(local) \cup Range(remote) : row[1] # Null
  /\ \A row \in Range(local) \ Range(remote) : row[2] # Null

ToCome(there, statements) ==
  /\ \A row \in Range(remote) \ there :
       InsertOf(row) \in statements \/ \E old \in there : UpdateOf(old, row) \in statements
  /\ \A row \in there \ Range(remote) :
       \/ DeleteOf(row) \in statements
       \/ \E new \in Range(remote) : UpdateOf(row, new) \in statements

DiffInv == ScriptInv /\ RowsOfEither /\ (Plain => ToCome(Range(table), Range(script)))

LEMMA AllowedIs ==
  ASSUME NEW rows \in Seq(Row), Allowed(rows)
  PROVE  \A i, j \in DOMAIN rows : rows[i][1] # Null /\ rows[i][1] = rows[j][1] => i = j
  BY DEF Allowed

LEMMA KeyIsOf ==
  ASSUME NEW rows \in Seq(Row), Allowed(rows), NEW r \in Range(rows), NEW s \in Range(rows),
         r[1] # Null, r[1] = s[1]
  PROVE  r = s
<1>1. PICK i \in DOMAIN rows : rows[i] = r
  BY DEF Range
<1>2. PICK j \in DOMAIN rows : rows[j] = s
  BY DEF Range
<1> QED BY <1>1, <1>2, AllowedIs

LEMMA InitDiff ==
  ASSUME DiffInit
  PROVE  DiffInv
<1>1. local \in Seq(Row) /\ remote \in Seq(Row) /\ table = local /\ script = Statements
  BY TablesAre DEF DiffInit
<1>2. Range(script) = Inserts \cup Updates \cup Deletes /\ script \in Seq(Statement)
  BY <1>1, ApplyIs
<1>3. ScriptInv
  BY <1>1, <1>2 DEF ScriptInv, DiffInit
<1>4. RowsOfEither
  BY <1>1 DEF RowsOfEither
<1>5. \A row \in Range(local) \cup Range(remote) : row \in Row
  BY <1>1 DEF Range
<1>6. ASSUME NEW row \in Range(remote) \ Range(local)
      PROVE  \/ InsertOf(row) \in Inserts
             \/ \E old \in Range(local) : UpdateOf(old, row) \in Updates
  <2>1. CASE \A o \in Range(local) : o[1] # row[1]
    BY <2>1 DEF Inserts, Alone
  <2>2. CASE \E o \in Range(local) : o[1] = row[1]
    <3>1. PICK o \in Range(local) : o[1] = row[1]
      BY <2>2
    <3>2. o[2] # row[2]
      BY <3>1, <1>5, RowIs
    <3>3. row \in Differ(o, remote)
      BY <3>1, <3>2 DEF Differ
    <3>4. UpdateOf(o, row) \in Updates
      BY <3>3 DEF Updates
    <3> QED BY <3>4
  <2> QED BY <2>1, <2>2
<1>7. ASSUME NEW row \in Range(local) \ Range(remote)
      PROVE  \/ DeleteOf(row) \in Deletes
             \/ \E new \in Range(remote) : UpdateOf(row, new) \in Updates
  <2>1. CASE \A o \in Range(remote) : o[1] # row[1]
    BY <2>1 DEF Deletes, Alone
  <2>2. CASE \E o \in Range(remote) : o[1] = row[1]
    <3>1. PICK o \in Range(remote) : o[1] = row[1]
      BY <2>2
    <3>2. o[2] # row[2]
      BY <3>1, <1>5, RowIs
    <3>3. o \in Differ(row, remote)
      BY <3>1, <3>2 DEF Differ
    <3>4. UpdateOf(row, o) \in Updates
      BY <3>3 DEF Updates
    <3> QED BY <3>4
  <2> QED BY <2>1, <2>2
<1>8. ToCome(Range(table), Range(script))
  BY <1>1, <1>2, <1>6, <1>7 DEF ToCome
<1> QED BY <1>3, <1>4, <1>8 DEF DiffInv

-----------------------------------------------------------------------------
(* What a statement that has its effect leaves to come.                    *)
LEMMA ModesDiffer ==
  /\ \A r, s, o : InsertOf(r) # UpdateOf(s, o) /\ InsertOf(r) # DeleteOf(s)
  /\ \A r, s, o : UpdateOf(s, o) # DeleteOf(r)
  /\ \A r, s : InsertOf(r) = InsertOf(s) => r = s
  /\ \A r, s : DeleteOf(r) = DeleteOf(s) => r = s
  /\ \A r, s, o, p : UpdateOf(r, o) = UpdateOf(s, p) => r = s /\ o = p
  BY DEF InsertOf, UpdateOf, DeleteOf

LEMMA AfterInsert ==
  ASSUME NEW T, NEW S, NEW v \in Range(remote), ToCome(T, {InsertOf(v)} \cup S)
  PROVE  ToCome(T \cup {v}, S)
  BY ModesDiffer DEF ToCome

LEMMA AfterUpdate ==
  ASSUME NEW T, NEW S, NEW c, c \notin Range(remote), NEW v \in Range(remote),
         ToCome(T, {UpdateOf(c, v)} \cup S),
         \A row : UpdateOf(c, row) \in S => row = v
  PROVE  ToCome(IF c \in T THEN (T \ {c}) \cup {v} ELSE T, S)
<1> DEFINE U == IF c \in T THEN (T \ {c}) \cup {v} ELSE T
<1>1. ASSUME NEW row \in Range(remote) \ U
      PROVE  InsertOf(row) \in S \/ \E old \in U : UpdateOf(old, row) \in S
  <2>1. row \in Range(remote) \ T /\ (c \in T => row # v)
    OBVIOUS
  <2>2. CASE InsertOf(row) \in {UpdateOf(c, v)} \cup S
    BY <2>2, ModesDiffer
  <2>3. ASSUME NEW old \in T, UpdateOf(old, row) \in {UpdateOf(c, v)} \cup S
        PROVE  old \in U /\ UpdateOf(old, row) \in S
    BY <2>1, <2>3, ModesDiffer
  <2> QED BY <2>1, <2>2, <2>3 DEF ToCome
<1>2. ASSUME NEW row \in U \ Range(remote)
      PROVE  DeleteOf(row) \in S \/ \E new \in Range(remote) : UpdateOf(row, new) \in S
  <2>1. row \in T \ Range(remote) /\ row # c
    OBVIOUS
  <2>2. \/ DeleteOf(row) \in {UpdateOf(c, v)} \cup S
        \/ \E new \in Range(remote) : UpdateOf(row, new) \in {UpdateOf(c, v)} \cup S
    BY <2>1 DEF ToCome
  <2> QED BY <2>1, <2>2, ModesDiffer
<1> QED BY <1>1, <1>2 DEF ToCome

LEMMA AfterDelete ==
  ASSUME NEW T, NEW S, NEW c, c \notin Range(remote),
         ToCome(T, {DeleteOf(c)} \cup S),
         \A row : UpdateOf(c, row) \notin S
  PROVE  ToCome(T \ {c}, S)
<1>1. ASSUME NEW row \in Range(remote) \ (T \ {c})
      PROVE  InsertOf(row) \in S \/ \E old \in T \ {c} : UpdateOf(old, row) \in S
  <2>1. row \in Range(remote) \ T
    OBVIOUS
  <2>2. \/ InsertOf(row) \in {DeleteOf(c)} \cup S
        \/ \E old \in T : UpdateOf(old, row) \in {DeleteOf(c)} \cup S
    BY <2>1 DEF ToCome
  <2> QED BY <2>2, ModesDiffer
<1>2. ASSUME NEW row \in (T \ {c}) \ Range(remote)
      PROVE  DeleteOf(row) \in S \/ \E new \in Range(remote) : UpdateOf(row, new) \in S
  <2>2. \/ DeleteOf(row) \in {DeleteOf(c)} \cup S
        \/ \E new \in Range(remote) : UpdateOf(row, new) \in {DeleteOf(c)} \cup S
    BY DEF ToCome
  <2> QED BY <2>2, ModesDiffer
<1> QED BY <1>1, <1>2 DEF ToCome

(* The rows that a statement gives.                                        *)
LEMMA RunInsert ==
  ASSUME NEW rows \in Seq(Row), NEW v \in Row
  PROVE  /\ Run(InsertOf(v), rows) = Append(rows, v) /\ Append(rows, v) \in Seq(Row)
         /\ Range(Append(rows, v)) = Range(rows) \cup {v}
<1>1. Run(InsertOf(v), rows) = Append(rows, v)
  BY DEF Run, InsertOf
<1> QED BY <1>1, SetOfAppend

LEMMA RunUpdate ==
  ASSUME NEW rows \in Seq(Row), NEW c \in Row, NEW v \in Row
  PROVE  LET new == Run(UpdateOf(c, v), rows)
         IN  /\ new \in Seq(Row)
             /\ DOMAIN new = DOMAIN rows
             /\ \A i \in DOMAIN rows : new[i] = IF Selects(c, rows[i]) THEN v ELSE rows[i]
             /\ Null \in {c[1], c[2]} => new = rows
             /\ Null \notin {c[1], c[2]} =>
                  Range(new) = IF c \in Range(rows) THEN (Range(rows) \ {c}) \cup {v}
                               ELSE Range(rows)
<1> DEFINE new == [i \in DOMAIN rows |-> IF Selects(c, rows[i]) THEN v ELSE rows[i]]
<1>1. Run(UpdateOf(c, v), rows) = new
  BY DEF Run, UpdateOf, Mapped
<1>2. DOMAIN rows = 1 .. Len(rows) /\ Len(rows) \in Nat /\ \A i \in DOMAIN rows : rows[i] \in Row
  OBVIOUS
<1>3. new \in Seq(Row)
  <2>1. new \in [1 .. Len(rows) -> Row]
    BY <1>2
  <2> QED BY <2>1, <1>2
<1>4. Null \in {c[1], c[2]} => new = rows
  <2>1. Null \in {c[1], c[2]} => \A r : ~Selects(c, r)
    BY DEF Selects
  <2> QED BY <2>1, <1>2
<1>5. ASSUME Null \notin {c[1], c[2]}
      PROVE  Range(new) = IF c \in Range(rows) THEN (Range(rows) \ {c}) \cup {v} ELSE Range(rows)
  <2>1. \A r : Selects(c, r) <=> r = c
    BY <1>5 DEF Selects
  <2>2. \A i \in DOMAIN rows : new[i] = IF rows[i] = c THEN v ELSE rows[i]
    BY <2>1
  <2>3. DOMAIN new = DOMAIN rows
    OBVIOUS
  <2> HIDE DEF new
  <2> QED BY <2>2, <2>3 DEF Range
<1> QED BY <1>1, <1>3, <1>4, <1>5

LEMMA RunDelete ==
  ASSUME NEW rows \in Seq(Row), NEW c \in Row
  PROVE  LET new == Run(DeleteOf(c), rows)
         IN  /\ new \in Seq(Row) /\ (Unrepeated(rows) => Unrepeated(new))
             /\ Range(new) = IF Null \in {c[1], c[2]} THEN Range(rows) ELSE Range(rows) \ {c}
<1> DEFINE S == {r \in Range(rows) : ~Selects(c, r)}
<1>1. Run(DeleteOf(c), rows) = Only(rows, S)
  BY DEF Run, DeleteOf
<1>2. S = IF Null \in {c[1], c[2]} THEN Range(rows) ELSE Range(rows) \ {c}
  BY DEF Selects
<1> HIDE DEF S
<1>3. /\ Only(rows, S) \in Seq(Row) /\ (Unrepeated(rows) => Unrepeated(Only(rows, S)))
      /\ Range(Only(rows, S)) = Range(rows) \cap S
  BY OnlyIs
<1> QED BY Zenon, <1>1, <1>2, <1>3

-----------------------------------------------------------------------------
(* What a statement must give for the script to go on rightly.             *)
Goes(rows, rest) ==
  /\ rows \in Seq(Row)
  /\ Range(rows) \subseteq Range(local) \cup Range(remote)
  /\ Range(local) \cap Range(remote) \subseteq Range(rows)
  /\ Plain => ToCome(Range(IF Allowed(rows) THEN rows ELSE table), Range(rest))

LEMMA RowsAre ==
  ASSUME ScriptInv
  PROVE  /\ \A row \in Range(local) \cup Range(remote) \cup Range(table) : row \in Row
         /\ \A st \in Updates : \E c \in Range(local), v \in Range(remote) :
              st = UpdateOf(c, v) /\ v[1] = c[1] /\ v[2] # c[2]
<1>1. \A row \in Range(local) \cup Range(remote) \cup Range(table) : row \in Row
  BY DEF ScriptInv, Range
<1>2. \A st \in Updates : \E c \in Range(local), v \in Range(remote) :
        st = UpdateOf(c, v) /\ v[1] = c[1] /\ v[2] # c[2]
  BY DEF Updates, Differ
<1> QED BY <1>1, <1>2

(* A row to be updated is no row of remote, and has one new row.           *)
LEMMA UpdatedIs ==
  ASSUME ScriptInv, NEW c \in Range(local), NEW v \in Range(remote), c[1] # Null,
         v[1] = c[1], v[2] # c[2]
  PROVE  /\ c \notin Range(remote)
         /\ \A row : UpdateOf(c, row) \in Updates => row = v
<1>1. remote \in Seq(Row) /\ Allowed(remote)
  BY DEF ScriptInv
<1>2. c \notin Range(remote)
  BY <1>1, KeyIsOf
<1>3. ASSUME NEW row, UpdateOf(c, row) \in Updates
      PROVE  row = v
  <2>1. PICK d \in Range(local), w \in Range(remote) :
          UpdateOf(c, row) = UpdateOf(d, w) /\ w[1] = d[1]
    BY <1>3, RowsAre
  <2>2. d = c /\ w = row
    BY <2>1, ModesDiffer
  <2> QED BY <1>1, <2>1, <2>2, KeyIsOf
<1> QED BY <1>2, <1>3

LEMMA InsertGoes ==
  ASSUME DiffInv, NEW v \in Alone(remote, local), NEW rest,
         Range(script) = {InsertOf(v)} \cup Range(rest)
  PROVE  Goes(Run(InsertOf(v), table), rest)
<1>1. v \in Range(remote) /\ \A o \in Range(local) : o[1] # v[1]
  BY DEF Alone
<1>2. ScriptInv /\ RowsOfEither /\ table \in Seq(Row) /\ Allowed(table)
  BY DEF DiffInv, ScriptInv
<1>3. v \in Row
  BY <1>1, <1>2, RowsAre
<1> DEFINE rows == Append(table, v)
<1>4. Run(InsertOf(v), table) = rows /\ rows \in Seq(Row) /\ Range(rows) = Range(table) \cup {v}
  BY <1>2, <1>3, RunInsert
<1>5. ASSUME Plain, v \notin Range(table)
      PROVE  Allowed(rows)
  <2>1. \A row \in Range(table) : row[1] # v[1]
    <3>1. \A row \in Range(table) \cap Range(local) : row[1] # v[1]
      BY <1>1
    <3>2. ASSUME NEW row \in Range(table) \cap Range(remote), row[1] = v[1]
          PROVE  FALSE
      <4>1. remote \in Seq(Row) /\ Allowed(remote) /\ v[1] # Null
        BY <1>1, <1>2, <1>5 DEF ScriptInv, Plain
      <4>2. row = v
        BY <3>2, <4>1, <1>1, KeyIsOf
      <4> QED BY <4>2, <1>5
    <3> QED BY <3>1, <3>2, <1>2 DEF RowsOfEither
  <2>2. /\ DOMAIN rows = 1 .. Len(table) + 1 /\ DOMAIN table = 1 .. Len(table)
        /\ Len(table) \in Nat /\ rows[Len(table) + 1] = v
        /\ \A i \in 1 .. Len(table) : rows[i] = table[i] /\ table[i] \in Range(table)
        /\ 1 .. Len(table) + 1 = 1 .. Len(table) \cup {Len(table) + 1}
    BY <1>2 DEF Range
  <2>3. ~unique
    BY <1>5 DEF Plain
  <2> HIDE DEF rows
  <2>4. ASSUME NEW i \in DOMAIN rows, NEW j \in DOMAIN rows, i # j, rows[i][1] # Null
        PROVE  rows[i][1] # rows[j][1]
    <3>1. CASE i \in 1 .. Len(table) /\ j \in 1 .. Len(table)
      BY <3>1, <2>2, <2>4, <1>2, AllowedIs
    <3>2. CASE i = Len(table) + 1 \/ j = Len(table) + 1
      BY <3>2, <2>1, <2>2, <2>4
    <3> QED BY <3>1, <3>2, <2>2
  <2> QED BY <2>3, <2>4 DEF Allowed
<1> HIDE DEF rows
<1>6. ASSUME Plain
      PROVE  ToCome(Range(IF Allowed(rows) THEN rows ELSE table), Range(rest))
  <2>1. ToCome(Range(table) \cup {v}, Range(rest))
    BY <1>1, <1>6, AfterInsert DEF DiffInv
  <2>2. Range(IF Allowed(rows) THEN rows ELSE table) = Range(table) \cup {v}
    BY <1>4, <1>5, <1>6
  <2> QED BY <2>1, <2>2
<1>7. /\ Range(rows) \subseteq Range(local) \cup Range(remote)
      /\ Range(local) \cap Range(remote) \subseteq Range(rows)
  BY <1>1, <1>2, <1>4 DEF RowsOfEither
<1> QED BY <1>4, <1>6, <1>7 DEF Goes

LEMMA UpdateGoes ==
  ASSUME DiffInv, NEW c \in Range(local), NEW v \in Range(remote), v[1] = c[1], v[2] # c[2],
         NEW rest, Range(script) = {UpdateOf(c, v)} \cup Range(rest)
  PROVE  Goes(Run(UpdateOf(c, v), table), rest)
<1>1. ScriptInv /\ RowsOfEither /\ table \in Seq(Row) /\ Allowed(table)
  BY DEF DiffInv, ScriptInv
<1>2. c \in Row /\ v \in Row
  BY <1>1, RowsAre
<1> DEFINE rows == Run(UpdateOf(c, v), table)
<1>3. /\ rows \in Seq(Row)
      /\ DOMAIN rows = DOMAIN table
      /\ \A i \in DOMAIN table : rows[i] = IF Selects(c, table[i]) THEN v ELSE table[i]
      /\ Null \in {c[1], c[2]} => rows = table
      /\ Null \notin {c[1], c[2]} =>
           Range(rows) = IF c \in Range(table) THEN (Range(table) \ {c}) \cup {v}
                         ELSE Range(table)
  BY <1>1, <1>2, RunUpdate
<1> HIDE DEF rows
<1>4. Null \notin {c[1], c[2]} => c \notin Range(remote)
  BY <1>1, UpdatedIs
<1>5. /\ Range(rows) \subseteq Range(local) \cup Range(remote)
      /\ Range(local) \cap Range(remote) \subseteq Range(rows)
  BY <1>1, <1>3, <1>4 DEF RowsOfEither
<1>6. ASSUME Plain
      PROVE  ToCome(Range(IF Allowed(rows) THEN rows ELSE table), Range(rest))
  <2>1. c[1] # Null
    BY <1>6 DEF Plain
  <2>2. /\ c \notin Range(remote)
        /\ \A row : UpdateOf(c, row) \in Updates => row = v
    BY <2>1, <1>1, UpdatedIs
  <2>3. Null \notin {c[1], c[2]}
    BY <1>6, <2>1, <2>2 DEF Plain
  <2>4. Allowed(rows)
    <3>1. \A i \in DOMAIN rows : rows[i][1] = table[i][1]
      BY <1>3 DEF Selects
    <3> QED BY <1>1, <1>3, <1>6, <3>1 DEF Allowed, Plain
  <2>5. \A row : UpdateOf(c, row) \in Range(rest) => row = v
    <3>1. \A row : UpdateOf(c, row) \notin Inserts \cup Deletes
      BY ModesDiffer DEF Inserts, Deletes
    <3> QED BY <3>1, <2>2, <1>1 DEF ScriptInv
  <2>6. ToCome(Range(table), {UpdateOf(c, v)} \cup Range(rest))
    BY <1>6 DEF DiffInv
  <2>7. ToCome(IF c \in Range(table) THEN (Range(table) \ {c}) \cup {v} ELSE Range(table),
               Range(rest))
    BY Zenon, <2>2, <2>5, <2>6, AfterUpdate
  <2> QED BY Zenon, <1>3, <2>3, <2>4, <2>7
<1> QED BY <1>3, <1>5, <1>6 DEF Goes, rows

LEMMA DeleteGoes ==
  ASSUME DiffInv, NEW c \in Alone(local, remote), NEW rest,
         Range(script) = {DeleteOf(c)} \cup Range(rest)
  PROVE  Goes(Run(DeleteOf(c), table), rest)
<1>1. ScriptInv /\ RowsOfEither /\ table \in Seq(Row) /\ Allowed(table)
  BY DEF DiffInv, ScriptInv
<1>2. c \in Range(local) /\ (\A o \in Range(remote) : o[1] # c[1]) /\ c \notin Range(remote)
  BY DEF Alone
<1>3. c \in Row
  BY <1>1, <1>2, RowsAre
<1> DEFINE rows == Run(DeleteOf(c), table)
<1>4. /\ rows \in Seq(Row) /\ (Unrepeated(table) => Unrepeated(rows))
      /\ Range(rows) = IF Null \in {c[1], c[2]} THEN Range(table) ELSE Range(table) \ {c}
  BY <1>1, <1>3, RunDelete
<1> HIDE DEF rows
<1>5. /\ Range(rows) \subseteq Range(local) \cup Range(remote)
      /\ Range(local) \cap Range(remote) \subseteq Range(rows)
  BY <1>1, <1>2, <1>4 DEF RowsOfEither
<1>6. ASSUME Plain
      PROVE  ToCome(Range(IF Allowed(rows) THEN rows ELSE table), Range(rest))
  <2>1. Null \notin {c[1], c[2]}
    BY <1>2, <1>6 DEF Plain
  <2>2. \A row \in Range(table) : row[1] # Null
    BY <1>1, <1>6 DEF Plain, RowsOfEither
  <2>3. Unrepeated(rows)
    <3>1. Unrepeated(table)
      <4>1. DOMAIN table = 1 .. Len(table) /\ \A i \in DOMAIN table : table[i] \in Range(table)
        BY <1>1 DEF Range
      <4> QED BY <4>1, <2>2, <1>1, AllowedIs DEF Unrepeated
    <3> QED BY <3>1, <1>4
  <2>4. Allowed(rows)
    <3>1. ASSUME NEW i \in DOMAIN rows, NEW j \in DOMAIN rows, rows[i][1] = rows[j][1]
          PROVE  i = j
      <4>1. rows[i] \in Range(table) /\ rows[j] \in Range(table)
        BY Zenon, <1>4 DEF Range
      <4>2. rows[i] = rows[j]
        BY <3>1, <4>1, <2>2, <1>1, KeyIsOf
      <4>3. DOMAIN rows = 1 .. Len(rows)
        BY <1>4
      <4> QED BY <4>2, <4>3, <2>3 DEF Unrepeated
    <3> QED BY <3>1, <1>6 DEF Allowed, Plain
  <2>5. \A row : UpdateOf(c, row) \notin Range(rest)
    <3>1. \A row : UpdateOf(c, row) \notin Inserts \cup Deletes
      BY ModesDiffer DEF Inserts, Deletes
    <3>2. ASSUME NEW row, UpdateOf(c, row) \in Updates
          PROVE  FALSE
      <4>1. PICK d \in Range(local), w \in Range(remote) :
              UpdateOf(c, row) = UpdateOf(d, w) /\ w[1] = d[1]
        BY <3>2, <1>1, RowsAre
      <4> QED BY <4>1, <1>2, ModesDiffer
    <3> QED BY <3>1, <3>2, <1>1 DEF ScriptInv
  <2>6. ToCome(Range(table), {DeleteOf(c)} \cup Range(rest))
    BY <1>6 DEF DiffInv
  <2>7. ToCome(Range(table) \ {c}, Range(rest))
    BY <1>2, <2>5, <2>6, AfterDelete
  <2> QED BY Zenon, <1>4, <2>1, <2>4, <2>7
<1> QED BY <1>4, <1>5, <1>6 DEF Goes, rows

LEMMA ExecuteKeeps ==
  ASSUME DiffInv, Execute
  PROVE  DiffInv'
<1> DEFINE st == Head(script)
<1> DEFINE rest == Tail(script)
<1> DEFINE rows == Run(st, table)
<1>1. ScriptInv /\ script \in Seq(Statement) /\ script # <<>> /\ script' = rest
      /\ table' = IF Allowed(rows) THEN rows ELSE table
  BY DEF DiffInv, ScriptInv, Execute
<1>2. unique' = unique /\ local' = local /\ remote' = remote
  BY DEF Execute
<1>3. rest \in Seq(Statement) /\ Range(script) = {st} \cup Range(rest)
  <2> HIDE DEF Statement
  <2>1. /\ Len(script) \in Nat /\ Len(script) >= 1 /\ DOMAIN script = 1 .. Len(script)
        /\ st = script[1] /\ rest \in Seq(Statement) /\ Len(rest) = Len(script) - 1
        /\ DOMAIN rest = 1 .. Len(script) - 1
        /\ \A i \in 1 .. Len(script) - 1 : rest[i] = script[i + 1]
    BY <1>1
  <2> HIDE DEF st, rest
  <2>2. Range(script) \subseteq {st} \cup Range(rest)
    <3>1. ASSUME NEW i \in 1 .. Len(script)
          PROVE  script[i] \in {st} \cup Range(rest)
      <4>1. CASE i = 1
        BY <4>1, <2>1
      <4>2. CASE i # 1
        <5>1. i - 1 \in 1 .. Len(script) - 1 /\ (i - 1) + 1 = i
          BY <2>1, <4>2
        <5>2. rest[i - 1] = script[i] /\ i - 1 \in DOMAIN rest
          BY <2>1, <5>1
        <5> QED BY Zenon, <5>2 DEF Range
      <4> QED BY <4>1, <4>2
    <3> QED BY <3>1, <2>1 DEF Range
  <2>3. {st} \cup Range(rest) \subseteq Range(script)
    <3>1. \A i \in 1 .. Len(script) - 1 : i + 1 \in 1 .. Len(script)
      BY <2>1
    <3>2. 1 \in DOMAIN script
      BY <2>1
    <3> QED BY <2>1, <3>1, <3>2 DEF Range
  <2> QED BY <2>1, <2>2, <2>3
<1>4. st \in Inserts \cup Updates \cup Deletes
  BY <1>1, <1>3 DEF ScriptInv
<1> HIDE DEF st, rest
<1>5. Goes(rows, rest)
  <2>1. CASE st \in Inserts
    <3>1. PICK v \in Alone(remote, local) : st = InsertOf(v)
      BY <2>1 DEF Inserts
    <3> QED BY <3>1, <1>3, InsertGoes
  <2>2. CASE st \in Updates
    <3>1. PICK c \in Range(local), v \in Range(remote) :
            st = UpdateOf(c, v) /\ v[1] = c[1] /\ v[2] # c[2]
      BY <2>2, <1>1, RowsAre
    <3> QED BY <3>1, <1>3, UpdateGoes
  <2>3. CASE st \in Deletes
    <3>1. PICK c \in Alone(local, remote) : st = DeleteOf(c)
      BY <2>3 DEF Deletes
    <3> QED BY <3>1, <1>3, DeleteGoes
  <2> QED BY <2>1, <2>2, <2>3, <1>4
<1> HIDE DEF rows
<1>6. ScriptInv'
  <2>1. /\ local' \in Seq(Row) /\ remote' \in Seq(Row) /\ table' \in Seq(Row)
        /\ script' \in Seq(Statement)
    BY <1>1, <1>2, <1>3, <1>5 DEF ScriptInv, Goes
  <2>2. Allowed(remote)'
    BY <1>1, <1>2 DEF ScriptInv, Allowed
  <2>3. Allowed(table)'
    <3>1. Allowed(table')
      BY <1>1 DEF ScriptInv
    <3> QED BY <3>1, <1>2 DEF Allowed
  <2>4. (Inserts \cup Updates \cup Deletes)' = Inserts \cup Updates \cup Deletes
    BY <1>2 DEF Inserts, Updates, Deletes, Alone, Differ
  <2>5. Range(script') \subseteq Inserts \cup Updates \cup Deletes
    BY <1>1, <1>3 DEF ScriptInv
  <2> QED BY <2>1, <2>2, <2>3, <2>4, <2>5 DEF ScriptInv
<1>7. RowsOfEither'
  BY <1>1, <1>2, <1>5 DEF RowsOfEither, Goes, DiffInv
<1>8. (Plain => ToCome(Range(table), Range(script)))'
  <2>1. Plain' = Plain
    BY <1>2 DEF Plain
  <2>2. Plain => ToCome(Range(table'), Range(script'))
    BY <1>1, <1>5 DEF Goes
  <2>3. ToCome(Range(table), Range(script))' <=> ToCome(Range(table'), Range(script'))
    BY <1>2 DEF ToCome
  <2> QED BY <2>1, <2>2, <2>3
<1> QED BY <1>6, <1>7, <1>8 DEF DiffInv

LEMMA DiffInvariant == DiffSpec => []DiffInv
<1>1. DiffInit => DiffInv
  BY InitDiff
<1>2. DiffInv /\ [DiffNext]_diffVars => DiffInv'
  <2> SUFFICES ASSUME DiffInv, [DiffNext]_diffVars PROVE DiffInv'
    OBVIOUS
  <2>1. CASE Execute
    BY <2>1, ExecuteKeeps
  <2>2. CASE UNCHANGED diffVars
    <3>1. /\ unique' = unique /\ local' = local /\ remote' = remote
          /\ table' = table /\ script' = script
      BY <2>2 DEF diffVars
    <3>2. ScriptInv'
      BY <3>1 DEF DiffInv, ScriptInv, Allowed, Inserts, Updates, Deletes, Alone, Differ
    <3>3. RowsOfEither'
      BY <3>1 DEF DiffInv, RowsOfEither
    <3>4. (Plain => ToCome(Range(table), Range(script)))'
      BY <3>1 DEF DiffInv, Plain, ToCome
    <3> QED BY <3>2, <3>3, <3>4 DEF DiffInv
  <2> QED BY <2>1, <2>2 DEF DiffNext, Ended
<1> QED BY <1>1, <1>2, PTL DEF DiffSpec

(* However far the script of SqlCompare and MergeOutputSqlDiff has run,    *)
(* and whatever statement of it failed or selected nothing, the table has  *)
(* rows of the two tables only, and all the rows that they share: no       *)
(* statement destroys a row that is as it should be.                       *)
THEOREM ScriptIsHarmless == DiffSpec => []RowsOfEither
<1>1. DiffInv => RowsOfEither
  BY DEF DiffInv
<1> QED BY <1>1, DiffInvariant, PTL

(* Where every row has a key, the rows to update or delete have no NULL    *)
(* and no datum must be unique, the whole script turns the local table     *)
(* into the remote one, row for row: no statement of it breaks the key's   *)
(* constraint or finds its row gone.                                       *)
THEOREM ScriptIsComplete == DiffSpec => []ScriptGivesRemote
<1>1. DiffInv => ScriptGivesRemote
  <2>1. SUFFICES ASSUME DiffInv, script = <<>>, Plain
                 PROVE  Range(table) = Range(remote) /\ Len(table) = Len(remote)
    BY DEF ScriptGivesRemote, Plain
  <2>2. Range(script) = {}
    BY <2>1 DEF Range
  <2>3. Range(table) = Range(remote)
    BY <2>1, <2>2 DEF DiffInv, ToCome
  <2>4. table \in Seq(Row) /\ remote \in Seq(Row) /\ Allowed(table) /\ Allowed(remote)
    BY <2>1 DEF DiffInv, ScriptInv
  <2>5. \A row \in Range(remote) : row[1] # Null
    BY <2>1 DEF Plain
  <2>6. ASSUME NEW rows \in {table, remote}
        PROVE  Unrepeated(rows)
    <3>1. rows \in Seq(Row) /\ Allowed(rows) /\ Range(rows) = Range(remote)
      BY <2>3, <2>4
    <3>2. DOMAIN rows = 1 .. Len(rows) /\ \A i \in DOMAIN rows : rows[i] \in Range(rows)
      BY <3>1 DEF Range
    <3> QED BY <3>1, <3>2, <2>5, AllowedIs DEF Unrepeated
  <2>7. Cardinality(Range(table)) = Len(table) /\ Cardinality(Range(remote)) = Len(remote)
    BY <2>4, <2>6, SizeOfSet
  <2> QED BY <2>3, <2>7
<1> QED BY <1>1, DiffInvariant, PTL
=============================================================================
