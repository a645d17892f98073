------------------------- MODULE PrismaQueriesProofs -------------------------
(***************************************************************************)
(* What FindMany answers, for every finite table whose order tells any two *)
(* rows found apart: the first rows of that order, each once, in order.    *)
(***************************************************************************)
EXTENDS PrismaQueries, FiniteSetTheorems, TLAPS

\* The order of a query tells any two of the rows apart.
Orders(orderBy, rows) ==
    /\ \A row \in rows : ~Precedes(orderBy, row, row)
    /\ \A row, other \in rows :
          row # other => Precedes(orderBy, row, other) \/ Precedes(orderBy, other, row)
    /\ \A row, other, third \in rows :
          Precedes(orderBy, row, other) /\ Precedes(orderBy, other, third)
             => Precedes(orderBy, row, third)

RowsFound(table, where) == {row \in table : Satisfies(row, where)}

Before(orderBy, rows, row) == {other \in rows : Precedes(orderBy, other, row)}

Place(orderBy, rows, row) == Cardinality(Before(orderBy, rows, row))

\* The places of the rows are 0, 1, 2, ..., each taken by one row.
LEMMA PlacesAre ==
  ASSUME NEW rows, IsFiniteSet(rows), NEW orderBy, Orders(orderBy, rows)
  PROVE  /\ Cardinality(rows) \in Nat
         /\ \A row \in rows : Place(orderBy, rows, row) \in 0 .. Cardinality(rows) - 1
         /\ \A row, other \in rows :
               Precedes(orderBy, row, other) <=> Place(orderBy, rows, row) < Place(orderBy, rows, other)
         /\ \A i \in 0 .. Cardinality(rows) - 1 : \E row \in rows : Place(orderBy, rows, row) = i
  <1> DEFINE n == Cardinality(rows)
             P(row, other) == Precedes(orderBy, row, other)
             before(row) == Before(orderBy, rows, row)
             place == [row \in rows |-> Cardinality(before(row))]
  <1>1. n \in Nat
    BY FS_CardinalityType
  <1>2. ASSUME NEW row \in rows
        PROVE  /\ IsFiniteSet(before(row)) /\ Cardinality(before(row)) \in 0 .. n - 1
    <2>1. before(row) \in SUBSET rows /\ row \notin before(row)
      BY DEF Orders, Before
    <2>2. IsFiniteSet(before(row)) /\ Cardinality(before(row)) <= n /\ Cardinality(before(row)) # n
      BY <2>1, FS_Subset
    <2>3. QED
      BY <1>1, <2>2, FS_CardinalityType
  <1>3. ASSUME NEW row \in rows, NEW other \in rows, P(row, other)
        PROVE  Cardinality(before(row)) < Cardinality(before(other))
    <2>1. before(row) \in SUBSET before(other) /\ row \in before(other) /\ row \notin before(row)
      BY <1>3 DEF Orders, Before
    <2>2. Cardinality(before(row)) <= Cardinality(before(other))
          /\ Cardinality(before(row)) # Cardinality(before(other))
      BY <1>2, <2>1, FS_Subset
    <2>3. QED
      BY <1>2, <2>2
  <1>4. \A row, other \in rows :
           P(row, other) <=> Cardinality(before(row)) < Cardinality(before(other))
    <2> SUFFICES ASSUME NEW row \in rows, NEW other \in rows,
                        Cardinality(before(row)) < Cardinality(before(other))
                 PROVE  P(row, other)
      BY <1>3
    <2>1. row # other /\ ~P(other, row)
      BY <1>2, <1>3
    <2>2. QED
      BY <2>1 DEF Orders
  <1>5. place \in Injection(rows, 0 .. n - 1)
    <2>1. place \in [rows -> 0 .. n - 1]
      BY <1>2
    <2>2. ASSUME NEW row \in rows, NEW other \in rows, place[row] = place[other]
          PROVE  row = other
      <3>1. ~P(row, other) /\ ~P(other, row)
        BY <1>2, <1>3, <2>2
      <3>2. QED
        BY <3>1 DEF Orders
    <2> HIDE DEF place
    <2>3. QED
      BY <2>1, <2>2 DEF Injection, IsInjective
  <1>6. IsFiniteSet(0 .. n - 1) /\ Cardinality(0 .. n - 1) = n
    BY <1>1, FS_Interval
  <1>7. place \in Surjection(rows, 0 .. n - 1)
    <2> HIDE DEF place
    <2>1. QED
      BY <1>5, <1>6, FS_Injection
  <1>8. \A i \in 0 .. n - 1 : \E row \in rows : place[row] = i
    <2> HIDE DEF place
    <2>1. QED
      BY <1>7 DEF Surjection
  <1>9. QED
    BY <1>1, <1>2, <1>4, <1>8 DEF Place
\* The answer: no more rows than were asked for and were found, in order, none
\* twice; a row left out comes after those given, and then there are as many
\* as were asked for.
FirstRows(answer, rows, orderBy, take) ==
    /\ answer \in Seq(rows) /\ Len(answer) <= take
    /\ \A i, j \in 1 .. Len(answer) : i < j <=> Precedes(orderBy, answer[i], answer[j])
    /\ \A i, j \in 1 .. Len(answer) : answer[i] = answer[j] => i = j
    /\ \A row \in rows :
          \/ \E i \in 1 .. Len(answer) : answer[i] = row
          \/ /\ Len(answer) = take
             /\ \A i \in 1 .. Len(answer) : Precedes(orderBy, answer[i], row)

THEOREM FindManyAnswers ==
  ASSUME NEW table, IsFiniteSet(table), NEW where, NEW orderBy, NEW take \in Nat,
         Orders(orderBy, RowsFound(table, where))
  PROVE  FirstRows(FindMany(table, where, orderBy, take), RowsFound(table, where), orderBy, take)
  <1> DEFINE rows == RowsFound(table, where)
             n == Cardinality(rows)
             length == IF take < n THEN take ELSE n
             place(row) == Place(orderBy, rows, row)
             answer == FindMany(table, where, orderBy, take)
  <1>1. IsFiniteSet(rows)
    BY FS_Subset DEF RowsFound
  <1>2. /\ n \in Nat
        /\ \A row \in rows : place(row) \in 0 .. n - 1
        /\ \A row, other \in rows : Precedes(orderBy, row, other) <=> place(row) < place(other)
        /\ \A i \in 0 .. n - 1 : \E row \in rows : place(row) = i
    BY <1>1, PlacesAre
  <1>3. answer = [i \in 1 .. length |-> CHOOSE row \in rows : place(row) = i - 1]
    BY DEF FindMany, Place, Before, RowsFound
  <1>4. length \in Nat /\ length <= n /\ length <= take
    BY <1>2
  <1> HIDE DEF rows, n, place, answer, length
  <1>5. ASSUME NEW i \in 1 .. length
        PROVE  answer[i] \in rows /\ place(answer[i]) = i - 1
    <2>1. i - 1 \in 0 .. n - 1
      BY <1>2, <1>4
    <2>2. \E row \in rows : place(row) = i - 1
      BY <1>2, <2>1
    <2>3. answer[i] = CHOOSE row \in rows : place(row) = i - 1
      BY <1>3
    <2>4. QED
      BY <2>2, <2>3
  <1>6. answer \in Seq(rows) /\ Len(answer) = length
    BY <1>3, <1>4, <1>5
  <1>7. \A i, j \in 1 .. length : i < j <=> Precedes(orderBy, answer[i], answer[j])
    BY <1>2, <1>4, <1>5
  <1>8. \A i, j \in 1 .. length : answer[i] = answer[j] => i = j
    BY <1>4, <1>5
  <1>9. ASSUME NEW row \in rows
        PROVE  \/ \E i \in 1 .. length : answer[i] = row
               \/ length = take /\ \A i \in 1 .. length : Precedes(orderBy, answer[i], row)
    <2>1. CASE place(row) < length
      <3>1. place(row) + 1 \in 1 .. length
        BY <1>2, <1>4, <2>1
      <3>2. place(answer[place(row) + 1]) = place(row) /\ answer[place(row) + 1] \in rows
        BY <1>2, <1>5, <3>1
      <3>3. answer[place(row) + 1] = row
        BY <1>1, <1>2, <3>2 DEF Orders, rows
      <3>4. QED
        BY <3>1, <3>3
    <2>2. CASE length <= place(row)
      <3>1. length = take
        BY <1>2, <1>4, <2>2 DEF length
      <3>2. \A i \in 1 .. length : place(answer[i]) < place(row)
        BY <1>2, <1>4, <1>5, <2>2
      <3>3. QED
        BY <1>2, <1>5, <3>1, <3>2
    <2>3. QED
      BY <1>2, <1>4, <2>1, <2>2
  <1>10. QED
    BY <1>4, <1>6, <1>7, <1>8, <1>9 DEF FirstRows, rows, answer
=============================================================================
