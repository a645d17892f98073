------------------------ MODULE UsersPaginationProofs ------------------------
(***************************************************************************)
(* A walk through the listing, for every table, page size and number of    *)
(* requests and of changes between them: no unchanged user is skipped or   *)
(* returned twice in a row, ends are ends, and a step there and back gives *)
(* the same page.                                                          *)
(*                                                                         *)
(* The proof sees the table as the set of the positions a walk lists, in a *)
(* total order; FindManyAnswers says what a page holds of it.              *)
(***************************************************************************)
EXTENDS UsersPagination, PrismaQueriesProofs, SequenceTheorems

-----------------------------------------------------------------------------
\* The order of positions.

Comes(direction, p, q) == Precedes(OrderBy(direction), p, q)

Placed(p) == p.id \in Nat /\ p.value \in Nat

\* Values decide, and ids where they tie.
LEMMA ComesIs ==
  ASSUME NEW direction \in Directions, NEW p, NEW q
  PROVE  Comes(direction, p, q) <=>
            IF direction = "asc"
            THEN p.value < q.value \/ (p.value = q.value /\ p.id < q.id)
            ELSE p.value > q.value \/ (p.value = q.value /\ p.id > q.id)
  <1> DEFINE first  == [column |-> "value", direction |-> direction]
             second == [column |-> "id", direction |-> direction]
             way(column) == IF direction = "asc" THEN p[column] < q[column] ELSE p[column] > q[column]
             decides(i) ==
                /\ \A j \in 1 .. i - 1 : p[OrderBy(direction)[j].column] = q[OrderBy(direction)[j].column]
                /\ way(OrderBy(direction)[i].column)
  <1>1. DOMAIN OrderBy(direction) = {1, 2}
    BY DEF OrderBy
  <1>2. OrderBy(direction)[1] = first /\ OrderBy(direction)[2] = second
    BY DEF OrderBy
  <1>3. decides(1) <=> way("value")
    BY <1>2
  <1>4. decides(2) <=> p["value"] = q["value"] /\ way("id")
    BY <1>2
  <1>5. Comes(direction, p, q) <=> decides(1) \/ decides(2)
    BY <1>1, <1>2 DEF Comes, Precedes
  <1> HIDE DEF decides
  <1>6. QED
    BY <1>3, <1>4, <1>5

LEMMA ComesInOrder ==
  ASSUME NEW direction \in Directions, NEW p, Placed(p), NEW q, Placed(q), NEW r, Placed(r)
  PROVE  /\ ~Comes(direction, p, p)
         /\ p.id # q.id \/ p.value # q.value => Comes(direction, p, q) \/ Comes(direction, q, p)
         /\ Comes(direction, p, q) /\ Comes(direction, q, r) => Comes(direction, p, r)
  <1> USE DEF Placed
  <1>1. CASE direction = "asc"
    BY <1>1, ComesIs
  <1>2. CASE direction = "desc"
    BY <1>2, ComesIs
  <1>3. QED
    BY <1>1, <1>2 DEF Directions

\* The other way round.
LEMMA InvertIs ==
  ASSUME NEW direction \in Directions
  PROVE  Invert(direction) \in Directions /\ Invert(Invert(direction)) = direction
  BY DEF Directions, Invert

LEMMA ComesInverted ==
  ASSUME NEW direction \in Directions, NEW p, Placed(p), NEW q, Placed(q)
  PROVE  Comes(Invert(direction), p, q) <=> Comes(direction, q, p)
  <1>1. CASE direction = "asc"
    BY <1>1, ComesIs, InvertIs DEF Invert, Placed
  <1>2. CASE direction = "desc"
    BY <1>2, ComesIs, InvertIs DEF Invert, Placed
  <1>3. QED
    BY <1>1, <1>2 DEF Directions

\* A strict total order on positions.
InOrder(direction) ==
    /\ \A p \in Positions : ~Comes(direction, p, p)
    /\ \A p, q \in Positions : p # q => Comes(direction, p, q) \/ Comes(direction, q, p)
    /\ \A p, q, r \in Positions :
          Comes(direction, p, q) /\ Comes(direction, q, r) => Comes(direction, p, r)
    /\ \A p, q \in Positions : Comes(Invert(direction), p, q) <=> Comes(direction, q, p)

LEMMA PositionsPlaced == \A p \in Positions : Placed(p)
  BY PaginationAssumption DEF Positions, Placed

LEMMA PositionsInOrder ==
  ASSUME NEW direction \in Directions
  PROVE  InOrder(direction)
  <1>1. \A p, q \in Positions : p # q => p.id # q.id \/ p.value # q.value
    BY DEF Positions
  <1>2. \A p \in Positions : ~Comes(direction, p, p)
    BY PositionsPlaced, ComesInOrder
  <1>3. \A p, q \in Positions : p # q => Comes(direction, p, q) \/ Comes(direction, q, p)
    BY <1>1, PositionsPlaced, ComesInOrder
  <1>4. \A p, q, r \in Positions :
           Comes(direction, p, q) /\ Comes(direction, q, r) => Comes(direction, p, r)
    BY PositionsPlaced, ComesInOrder
  <1>5. \A p, q \in Positions : Comes(Invert(direction), p, q) <=> Comes(direction, q, p)
    BY PositionsPlaced, ComesInverted
  <1>6. QED
    BY <1>2, <1>3, <1>4, <1>5 DEF InOrder
-----------------------------------------------------------------------------
\* What a walk lists.

\* The table: ids and emails are unique, deleted ids gone, and values are what
\* a cursor can hold.
TableOK ==
    /\ IsFiniteSet(users)
    /\ users \subseteq [id : Ids, email : Ids, value : Keys]
    /\ \A row, other \in users : row.id = other.id \/ row.email = other.email => row = other
    /\ \A row \in users : PositionOf(row) = [id |-> row.id, value |-> row.value]
    /\ spent \subseteq Ids \ {row.id : row \in users}

Queries == [ sort : Sorts, direction : Directions, limit : Limits, email : Ids \cup {None} ]

Matches(row) == query.email = None \/ row.email = query.email

Listed == {PositionOf(row) : row \in {other \in users : Matches(other)}}

LEMMA QueryIs ==
  ASSUME query \in Queries
  PROVE  /\ query.direction \in Directions /\ Invert(query.direction) \in Directions
         /\ query.limit \in Nat \ {0} /\ query.limit + 1 \in Nat
  <1>1. query.direction \in Directions /\ query.limit \in Limits
    BY DEF Queries
  <1>2. query.limit \in 1 .. 250
    BY <1>1, PaginationAssumption
  <1>3. QED
    BY <1>1, <1>2, InvertIs

\* A row and its position are one to the order.
LEMMA RowPlaced ==
  ASSUME TableOK, NEW row \in users
  PROVE  /\ Placed(row) /\ PositionOf(row) \in Positions
         /\ PositionOf(row).id = row.id /\ PositionOf(row).value = row.value
  <1>1. row.id \in Ids /\ row.value \in Keys
    BY DEF TableOK
  <1>2. PositionOf(row) = [id |-> row.id, value |-> row.value]
    BY DEF TableOK
  <1>3. row.id \in Nat /\ row.value \in Nat
    BY <1>1, PaginationAssumption
  <1>4. PositionOf(row) \in Positions
    BY <1>1, <1>2, <1>3 DEF Positions
  <1>5. QED
    BY <1>2, <1>3, <1>4 DEF Placed

LEMMA RowComes ==
  ASSUME TableOK, NEW row \in users, NEW direction \in Directions, NEW p
  PROVE  /\ Comes(direction, p, row) <=> Comes(direction, p, PositionOf(row))
         /\ Comes(direction, row, p) <=> Comes(direction, PositionOf(row), p)
  BY RowPlaced, ComesIs

LEMMA SamePosition ==
  ASSUME TableOK, NEW row \in users, NEW other \in users, row.id = other.id
  PROVE  row = other
  BY DEF TableOK

LEMMA RowsInOrder ==
  ASSUME TableOK, NEW direction \in Directions, NEW rows \in SUBSET users
  PROVE  Orders(OrderBy(direction), rows)
  <1>1. \A row \in rows : Placed(row)
    BY RowPlaced
  <1>2. \A row, other \in rows : row # other => row.id # other.id
    BY DEF TableOK
  <1>3. \A row \in rows : ~Comes(direction, row, row)
    BY <1>1, ComesInOrder
  <1>4. \A row, other \in rows :
           row # other => Comes(direction, row, other) \/ Comes(direction, other, row)
    BY <1>1, <1>2, ComesInOrder
  <1>5. \A row, other, third \in rows :
           Comes(direction, row, other) /\ Comes(direction, other, third)
              => Comes(direction, row, third)
    BY <1>1, ComesInOrder
  <1>6. QED
    BY <1>3, <1>4, <1>5 DEF Orders, Comes

-----------------------------------------------------------------------------
\* What the filters let through.

\* Filters joined.
LEMMA JoinedFilters ==
  ASSUME NEW row, NEW where, NEW other
  PROVE  /\ Satisfies(row, where \cup other) <=> Satisfies(row, where) /\ Satisfies(row, other)
         /\ Satisfies(row, Everything)
  BY DEF Satisfies, Everything

LEMMA ConditionIs ==
  ASSUME NEW row, NEW field, NEW value
  PROVE  /\ Holds(Equals(field, value), row) <=> row[field] = value
         /\ Holds(Greater(field, value), row) <=> row[field] > value
         /\ Holds(Less(field, value), row) <=> row[field] < value
  BY DEF Holds, Equals, Greater, Less

\* The seek filter passes the rows that come after the position.
LEMMA SeekIs ==
  ASSUME NEW row, Placed(row), NEW p, Placed(p), NEW direction \in Directions
  PROVE  Satisfies(row, SeekWhere(direction, p)) <=> Comes(direction, p, row)
  <1> DEFINE beyond(field, value) ==
                IF direction = "asc" THEN Greater(field, value) ELSE Less(field, value)
             far == {beyond("value", p.value)}
             tie == {Equals("value", p.value), beyond("id", p.id)}
             passed(conditions) == \A condition \in conditions : Holds(condition, row)
  <1>1. SeekWhere(direction, p) = {{far, tie}}
    BY DEF SeekWhere
  <1>2. Satisfies(row, SeekWhere(direction, p)) <=> passed(far) \/ passed(tie)
    <2> HIDE DEF far, tie
    <2>1. Satisfies(row, {{far, tie}}) <=>
             \E conditions \in {far, tie} : \A condition \in conditions : Holds(condition, row)
      BY DEF Satisfies
    <2>2. QED
      BY <1>1, <2>1
  <1>3. passed(far) <=> Holds(beyond("value", p.value), row)
    OBVIOUS
  <1>4. passed(tie) <=> Holds(Equals("value", p.value), row) /\ Holds(beyond("id", p.id), row)
    OBVIOUS
  <1> HIDE DEF passed, far, tie
  <1>5. CASE direction = "asc"
    <2>1. /\ passed(far) <=> row["value"] > p.value
          /\ passed(tie) <=> row["value"] = p.value /\ row["id"] > p.id
      BY <1>3, <1>4, <1>5, ConditionIs
    <2>2. QED
      BY <1>2, <1>5, <2>1, ComesIs DEF Placed
  <1>6. CASE direction = "desc"
    <2>1. /\ passed(far) <=> row["value"] < p.value
          /\ passed(tie) <=> row["value"] = p.value /\ row["id"] < p.id
      BY <1>3, <1>4, <1>6, ConditionIs
    <2>2. QED
      BY <1>2, <1>6, <2>1, ComesIs DEF Placed
  <1>7. QED
    BY <1>5, <1>6 DEF Directions

LEMMA CombineIs ==
  ASSUME NEW row, NEW boundary
  PROVE  Satisfies(row, CombineWhere(boundary)) <=> Satisfies(row, boundary) /\ Matches(row)
  <1>1. CASE query.email = None
    BY <1>1, JoinedFilters DEF CombineWhere, Matches
  <1>2. CASE query.email # None
    <2>1. PICK condition : condition = Equals("email", query.email)
      OBVIOUS
    <2>2. Satisfies(row, {{{condition}}}) <=>
             \E conditions \in {{condition}} : \A other \in conditions : Holds(other, row)
      BY DEF Satisfies
    <2>3. Holds(condition, row) <=> row.email = query.email
      BY <2>1, ConditionIs
    <2>4. Satisfies(row, {{{condition}}}) <=> Matches(row)
      BY <1>2, <2>2, <2>3 DEF Matches
    <2>5. CombineWhere(boundary) = boundary \cup {{{condition}}}
      BY <1>2, <2>1 DEF CombineWhere
    <2>6. QED
      BY <2>4, <2>5, JoinedFilters
  <1>3. QED
    BY <1>1, <1>2
-----------------------------------------------------------------------------
\* What a page holds.

\* The direction a page is read in.
Reading(asked) == IF asked = "before" THEN Invert(query.direction) ELSE query.direction

Beyond(direction, boundary, p) == boundary = None \/ Comes(direction, boundary, p)

Sorted(direction, page) ==
    \A i, j \in 1 .. Len(page) : i < j <=> Comes(direction, page[i], page[j])

\* A page read from a boundary in one direction and put in the order of the
\* other or the same: what it leaves out comes after it, and then it is full.
PageOK(direction, boundary, order, page) ==
    /\ page \in Seq(Listed) /\ Len(page) <= query.limit
    /\ Sorted(order, page)
    /\ \A p \in ToSet(page) : Beyond(direction, boundary, p)
    /\ \A p \in Listed : Beyond(direction, boundary, p) =>
          \/ p \in ToSet(page)
          \/ Len(page) = query.limit /\ \A r \in ToSet(page) : Comes(direction, r, p)

From(direction, boundary) ==
    CombineWhere(IF boundary = None THEN Everything ELSE SeekWhere(direction, boundary))

Read(direction, boundary) ==
    LET rows == FindMany(users, From(direction, boundary), OrderBy(direction), query.limit + 1)
    IN  [i \in DOMAIN PageRows(rows) |-> PositionOf(rows[i])]

LEMMA ReadPageIs ==
  ASSUME NEW asked, NEW boundary
  PROVE  ReadPage(asked, boundary) =
            IF asked = "before" THEN Reverse(Read(Reading(asked), boundary))
                                ELSE Read(Reading(asked), boundary)
  BY DEF ReadPage, Read, From, Reading

LEMMA FoundIs ==
  ASSUME TableOK, NEW direction \in Directions, NEW boundary \in Positions \cup {None}
  PROVE  /\ RowsFound(users, From(direction, boundary)) =
               {row \in users : Matches(row) /\ Beyond(direction, boundary, row)}
         /\ Orders(OrderBy(direction), RowsFound(users, From(direction, boundary)))
  <1>1. ASSUME NEW row \in users
        PROVE  Satisfies(row, From(direction, boundary)) <=>
                  Matches(row) /\ Beyond(direction, boundary, row)
    <2>1. CASE boundary = None
      BY <2>1, CombineIs, JoinedFilters DEF From, Beyond
    <2>2. CASE boundary # None
      <3>1. Placed(boundary) /\ Placed(row)
        BY <2>2, PositionsPlaced, RowPlaced
      <3>2. QED
        BY <2>2, <3>1, CombineIs, SeekIs DEF From, Beyond
    <2>3. QED
      BY <2>1, <2>2
  <1>2. RowsFound(users, From(direction, boundary)) =
           {row \in users : Matches(row) /\ Beyond(direction, boundary, row)}
    BY <1>1 DEF RowsFound
  <1>3. QED
    BY <1>2, RowsInOrder

LEMMA ReadIs ==
  ASSUME TableOK, query \in Queries, NEW direction \in Directions,
         NEW boundary \in Positions \cup {None}
  PROVE  PageOK(direction, boundary, direction, Read(direction, boundary))
  <1>1. PICK limit : limit = query.limit /\ limit \in Nat \ {0} /\ limit + 1 \in Nat
    BY QueryIs
  <1>2. PICK found : found = RowsFound(users, From(direction, boundary))
    OBVIOUS
  <1>3. PICK rows :
          rows = FindMany(users, From(direction, boundary), OrderBy(direction), query.limit + 1)
    OBVIOUS
  <1>4. FirstRows(rows, found, OrderBy(direction), limit + 1)
    <2>1. IsFiniteSet(users)
      BY DEF TableOK
    <2>2. Orders(OrderBy(direction), found)
      BY <1>2, FoundIs
    <2>3. QED
      BY <1>1, <1>2, <1>3, <2>1, <2>2, FindManyAnswers
  <1>5. found = {row \in users : Matches(row) /\ Beyond(direction, boundary, row)}
    BY <1>2, FoundIs
  <1>6. PICK length \in Nat : length = Len(rows)
    BY <1>4 DEF FirstRows
  <1>7. PICK n \in Nat : n = (IF limit < length THEN limit ELSE length)
    BY <1>1, <1>6
  <1>8. n <= length /\ n <= limit /\ (length = limit + 1 => n = limit) /\ (n < length => n = limit)
    BY <1>1, <1>6, <1>7
  <1>9. \A i \in 1 .. length : rows[i] \in found
    BY <1>4, <1>6 DEF FirstRows
  <1>10. PICK page : page = Read(direction, boundary)
    OBVIOUS
  <1>11. page = [i \in 1 .. n |-> PositionOf(rows[i])]
    <2>1. DOMAIN PageRows(rows) = 1 .. n
      <3>1. CASE limit < length
        <4>1. n = limit /\ PageRows(rows) = SubSeq(rows, 1, n)
          BY <1>1, <1>6, <1>7, <3>1 DEF PageRows
        <4>2. SubSeq(rows, 1, n) \in Seq(found) /\ Len(SubSeq(rows, 1, n)) = n
          <5>1. \A i \in 1 .. n : rows[i] \in found
            BY <1>8, <1>9
          <5>2. 1 <= n
            BY <1>1, <4>1
          <5>3. QED
            BY <5>1, <5>2, SubSeqProperties
        <4>3. QED
          BY <4>1, <4>2
      <3>2. CASE ~(limit < length)
        BY <1>1, <1>4, <1>6, <1>7, <3>2 DEF PageRows, FirstRows
      <3>3. QED
        BY <3>1, <3>2
    <2>2. QED
      BY <1>3, <1>10, <2>1 DEF Read
  <1>12. \A i \in 1 .. n : /\ rows[i] \in users /\ Matches(rows[i])
                           /\ Beyond(direction, boundary, rows[i])
                           /\ page[i] = PositionOf(rows[i]) /\ page[i] \in Listed
    BY <1>5, <1>8, <1>9, <1>11 DEF Listed
  <1>13. page \in Seq(Listed) /\ Len(page) = n
    BY <1>11, <1>12
  <1>14. ToSet(page) = {page[i] : i \in 1 .. n}
    BY <1>11 DEF ToSet
  <1>15. Sorted(direction, page)
    <2> SUFFICES ASSUME NEW i \in 1 .. n, NEW j \in 1 .. n
                 PROVE  i < j <=> Comes(direction, page[i], page[j])
      BY <1>13 DEF Sorted
    <2>1. i < j <=> Comes(direction, rows[i], rows[j])
      BY <1>4, <1>6, <1>8 DEF FirstRows, Comes
    <2>2. QED
      BY <1>12, <2>1, RowComes
  <1>16. \A p \in ToSet(page) : Beyond(direction, boundary, p)
    BY <1>12, <1>14, RowComes DEF Beyond
  <1>17. ASSUME NEW p \in Listed, Beyond(direction, boundary, p)
         PROVE  \/ p \in ToSet(page)
                \/ n = limit /\ \A r \in ToSet(page) : Comes(direction, r, p)
    <2>1. PICK row \in users : Matches(row) /\ p = PositionOf(row)
      BY DEF Listed
    <2>2. row \in found
      BY <1>5, <1>17, <2>1, RowComes DEF Beyond
    <2>3. ASSUME \A i \in 1 .. n : Precedes(OrderBy(direction), rows[i], row)
          PROVE  \A r \in ToSet(page) : Comes(direction, r, p)
      <3>1. \A i \in 1 .. n : Comes(direction, rows[i], row)
        BY <2>3 DEF Comes
      <3>2. \A i \in 1 .. n : Comes(direction, page[i], p)
        BY <1>12, <2>1, <3>1, RowComes
      <3>3. QED
        BY <1>14, <3>2
    <2>4. CASE \E i \in 1 .. length : rows[i] = row
      <3>1. PICK i \in 1 .. length : rows[i] = row
        BY <2>4
      <3>2. CASE i <= n
        <4>1. i \in 1 .. n
          BY <3>2
        <4>2. QED
          BY <1>12, <1>14, <2>1, <3>1, <4>1
      <3>3. CASE n < i
        <4>1. n = limit
          BY <1>8, <3>3
        <4>2. \A j \in 1 .. n : j \in 1 .. length /\ j < i
          BY <1>8, <3>3
        <4>3. \A j \in 1 .. n : Precedes(OrderBy(direction), rows[j], row)
          BY <1>4, <1>6, <3>1, <4>2 DEF FirstRows
        <4>4. QED
          BY <2>3, <4>1, <4>3
      <3>4. QED
        BY <3>2, <3>3
    <2>5. CASE length = limit + 1 /\ \A i \in 1 .. length : Precedes(OrderBy(direction), rows[i], row)
      <3>1. \A i \in 1 .. n : Precedes(OrderBy(direction), rows[i], row)
        BY <1>8, <2>5
      <3>2. QED
        BY <1>8, <2>3, <2>5, <3>1
    <2>6. QED
      BY <1>4, <1>6, <2>2, <2>4, <2>5 DEF FirstRows
  <1>18. QED
    BY <1>1, <1>8, <1>10, <1>13, <1>15, <1>16, <1>17 DEF PageOK

\* A page read backwards is put in the other order.
LEMMA ReverseIs ==
  ASSUME NEW S, NEW page \in Seq(S)
  PROVE  /\ Reverse(page) \in Seq(S) /\ Len(Reverse(page)) = Len(page)
         /\ \A i \in 1 .. Len(page) : /\ Len(page) + 1 - i \in 1 .. Len(page)
                                      /\ Reverse(page)[i] = page[Len(page) + 1 - i]
         /\ ToSet(Reverse(page)) = ToSet(page)
  <1>1. PICK n \in Nat : n = Len(page)
    OBVIOUS
  <1>2. PICK back : back = Reverse(page)
    OBVIOUS
  <1>3. back = [i \in 1 .. n |-> page[(n - i) + 1]]
    BY <1>1, <1>2 DEF Reverse
  <1>4. \A i \in 1 .. n : (n - i) + 1 \in 1 .. n /\ n + 1 - i \in 1 .. n /\ n + 1 - i = (n - i) + 1
                          /\ n + 1 - (n + 1 - i) = i
    OBVIOUS
  <1>5. \A i \in 1 .. n : page[i] \in S
    BY <1>1
  <1>6. back \in Seq(S) /\ Len(back) = n
    BY <1>3, <1>4, <1>5
  <1>7. \A i \in 1 .. n : back[i] = page[n + 1 - i]
    BY <1>3, <1>4
  <1>8. ToSet(back) = ToSet(page)
    <2>1. DOMAIN back = 1 .. n /\ DOMAIN page = 1 .. n
      BY <1>1, <1>6
    <2>2. ToSet(back) = {back[i] : i \in 1 .. n} /\ ToSet(page) = {page[i] : i \in 1 .. n}
      BY <2>1 DEF ToSet
    <2>3. \A i \in 1 .. n : \E j \in 1 .. n : back[i] = page[j]
      BY <1>4, <1>7
    <2>4. \A i \in 1 .. n : \E j \in 1 .. n : page[i] = back[j]
      <3> SUFFICES ASSUME NEW i \in 1 .. n PROVE page[i] = back[n + 1 - i]
        BY <1>4
      <3>1. QED
        BY <1>4, <1>7
    <2>5. QED
      BY <2>2, <2>3, <2>4
  <1>9. QED
    BY <1>1, <1>2, <1>4, <1>6, <1>7, <1>8

LEMMA ListedPositions ==
  ASSUME TableOK
  PROVE  Listed \subseteq Positions
  BY RowPlaced DEF Listed

LEMMA BackwardsIs ==
  ASSUME TableOK, NEW direction \in Directions, NEW boundary, NEW page,
         PageOK(direction, boundary, direction, page)
  PROVE  PageOK(direction, boundary, Invert(direction), Reverse(page))
  <1>1. page \in Seq(Listed) /\ Len(page) \in Nat
    BY DEF PageOK
  <1>2. PICK back : back = Reverse(page)
    OBVIOUS
  <1>3. /\ back \in Seq(Listed) /\ Len(back) = Len(page) /\ ToSet(back) = ToSet(page)
        /\ \A i \in 1 .. Len(page) : /\ Len(page) + 1 - i \in 1 .. Len(page)
                                     /\ back[i] = page[Len(page) + 1 - i]
    BY <1>1, <1>2, ReverseIs
  <1>4. Sorted(Invert(direction), back)
    <2> SUFFICES ASSUME NEW i \in 1 .. Len(page), NEW j \in 1 .. Len(page)
                 PROVE  i < j <=> Comes(Invert(direction), back[i], back[j])
      BY <1>3 DEF Sorted
    <2>1. PICK k \in 1 .. Len(page), l \in 1 .. Len(page) :
             /\ k = Len(page) + 1 - i /\ l = Len(page) + 1 - j
             /\ back[i] = page[k] /\ back[j] = page[l]
      BY <1>3
    <2>2. i < j <=> l < k
      BY <1>1, <2>1
    <2>3. l < k <=> Comes(direction, page[l], page[k])
      BY DEF PageOK, Sorted
    <2>4. page[k] \in Positions /\ page[l] \in Positions
      BY <1>1, ListedPositions
    <2>5. Comes(Invert(direction), page[k], page[l]) <=> Comes(direction, page[l], page[k])
      BY <2>4, PositionsInOrder DEF InOrder
    <2>6. QED
      BY <2>1, <2>2, <2>3, <2>5
  <1>5. QED
    BY <1>2, <1>3, <1>4 DEF PageOK

LEMMA PageIs ==
  ASSUME TableOK, query \in Queries, NEW asked, NEW boundary \in Positions \cup {None}
  PROVE  /\ Reading(asked) \in Directions
         /\ PageOK(Reading(asked), boundary, query.direction, ReadPage(asked, boundary))
  <1>1. query.direction \in Directions /\ Reading(asked) \in Directions
    BY QueryIs DEF Reading
  <1>2. PICK page : page = Read(Reading(asked), boundary)
    OBVIOUS
  <1>3. PageOK(Reading(asked), boundary, Reading(asked), page)
    BY <1>1, <1>2, ReadIs
  <1>4. CASE asked = "before"
    <2>1. PageOK(Reading(asked), boundary, Invert(Reading(asked)), Reverse(page))
      BY <1>1, <1>3, BackwardsIs
    <2>2. Invert(Reading(asked)) = query.direction
      BY <1>1, <1>4, InvertIs DEF Reading
    <2>3. QED
      BY <1>1, <1>2, <1>4, <2>1, <2>2, ReadPageIs
  <1>5. CASE asked # "before"
    <2>1. Reading(asked) = query.direction
      BY <1>5 DEF Reading
    <2>2. QED
      BY <1>1, <1>2, <1>3, <1>5, <2>1, ReadPageIs
  <1>6. QED
    BY <1>4, <1>5

\* A probe finds a row where there is one.
LEMMA ProbeIs ==
  ASSUME TableOK, query \in Queries, NEW direction \in Directions, NEW p \in Positions
  PROVE  RowBeyond(direction, p) <=> \E other \in Listed : Comes(direction, p, other)
  <1>1. p # None
    BY NoneAssumption
  <1>2. PICK rows : rows = FindMany(users, From(direction, p), OrderBy(direction), 1)
    OBVIOUS
  <1>3. PICK found : /\ found = RowsFound(users, From(direction, p))
                     /\ found = {row \in users : Matches(row) /\ Comes(direction, p, row)}
    BY <1>1, FoundIs DEF Beyond
  <1>4. FirstRows(rows, found, OrderBy(direction), 1)
    <2>1. Orders(OrderBy(direction), found) /\ IsFiniteSet(users)
      BY <1>3, FoundIs DEF TableOK
    <2>2. QED
      BY <1>2, <1>3, <2>1, FindManyAnswers
  <1>5. RowBeyond(direction, p) <=> ToSet(rows) # {}
    BY <1>1, <1>2 DEF RowBeyond, FindFirst, From
  <1>6. ToSet(rows) # {} <=> found # {}
    <2>1. rows \in Seq(found) /\ ToSet(rows) = {rows[i] : i \in 1 .. Len(rows)}
      BY <1>4 DEF FirstRows, ToSet
    <2>2. ASSUME NEW row \in found PROVE 1 \in 1 .. Len(rows)
      <3>1. CASE Len(rows) = 1
        BY <3>1
      <3>2. CASE \E i \in 1 .. Len(rows) : rows[i] = row
        BY <2>1, <3>2
      <3>3. QED
        BY <1>4, <3>1, <3>2 DEF FirstRows
    <2>3. QED
      BY <2>1, <2>2
  <1>7. found # {} <=> \E other \in Listed : Comes(direction, p, other)
    <2>1. \A row \in users : Comes(direction, p, row) <=> Comes(direction, p, PositionOf(row))
      BY RowComes
    <2>2. QED
      BY <1>3, <2>1 DEF Listed
  <1>8. QED
    BY <1>5, <1>6, <1>7
-----------------------------------------------------------------------------
\* Sorted pages are the sets of their positions.

LEMMA SortedPart ==
  ASSUME NEW direction \in Directions, NEW page \in Seq(Positions), Sorted(direction, page),
         NEW n \in 0 .. Len(page), NEW S, S = {page[i] : i \in 1 .. n}
  PROVE  IsFiniteSet(S) /\ Cardinality(S) = n
  <1>1. \A i \in 1 .. n : page[i] \in Positions /\ i \in 1 .. Len(page)
    OBVIOUS
  <1>2. \A i, j \in 1 .. n : page[i] = page[j] => i = j
    <2> SUFFICES ASSUME NEW i \in 1 .. n, NEW j \in 1 .. n, page[i] = page[j] PROVE i = j
      OBVIOUS
    <2>1. ~Comes(direction, page[i], page[j]) /\ ~Comes(direction, page[j], page[i])
      BY <1>1, PositionsInOrder DEF InOrder
    <2>2. ~(i < j) /\ ~(j < i)
      BY <1>1, <2>1 DEF Sorted
    <2>3. QED
      BY <2>2
  <1>3. PICK f : f = [i \in 1 .. n |-> page[i]]
    OBVIOUS
  <1>4. f \in [1 .. n -> S] /\ \A i, j \in 1 .. n : f[i] = f[j] => i = j
    BY <1>2, <1>3
  <1>5. \A p \in S : \E i \in 1 .. n : f[i] = p
    BY <1>3
  <1>6. f \in Bijection(1 .. n, S)
    BY <1>4, <1>5 DEF Bijection, Injection, Surjection, IsInjective
  <1>7. IsFiniteSet(1 .. n) /\ Cardinality(1 .. n) = n
    BY FS_Interval
  <1>8. QED
    BY <1>6, <1>7, FS_Bijection DEF ExistsBijection

LEMMA SeqIsSet ==
  ASSUME NEW S, NEW page \in Seq(S)
  PROVE  ToSet(page) = {page[i] : i \in 1 .. Len(page)} /\ ToSet(page) \subseteq S
  BY DEF ToSet

LEMMA SortedCounts ==
  ASSUME NEW direction \in Directions, NEW page \in Seq(Positions), Sorted(direction, page)
  PROVE  IsFiniteSet(ToSet(page)) /\ Cardinality(ToSet(page)) = Len(page)
  BY SortedPart, SeqIsSet

\* The order decides where a position of the set is.
LEMMA SortedPlace ==
  ASSUME NEW direction \in Directions, NEW page \in Seq(Positions), Sorted(direction, page),
         NEW i \in 1 .. Len(page)
  PROVE  Cardinality({p \in ToSet(page) : Comes(direction, p, page[i])}) = i - 1
  <1>1. {p \in ToSet(page) : Comes(direction, p, page[i])} = {page[j] : j \in 1 .. i - 1}
    <2>1. \A j \in 1 .. Len(page) : Comes(direction, page[j], page[i]) <=> j \in 1 .. i - 1
      BY DEF Sorted
    <2>2. \A j \in 1 .. i - 1 : j \in 1 .. Len(page)
      OBVIOUS
    <2>3. QED
      BY <2>1, <2>2, SeqIsSet
  <1>2. i - 1 \in 0 .. Len(page)
    OBVIOUS
  <1>3. QED
    BY <1>1, <1>2, SortedPart

LEMMA SortedSame ==
  ASSUME NEW direction \in Directions, NEW page \in Seq(Positions), NEW other \in Seq(Positions),
         Sorted(direction, page), Sorted(direction, other), ToSet(page) = ToSet(other)
  PROVE  page = other
  <1>1. Len(page) = Len(other)
    BY SortedCounts
  <1>2. ASSUME NEW i \in 1 .. Len(page)
        PROVE  page[i] = other[i]
    <2>1. page[i] \in ToSet(other)
      BY SeqIsSet
    <2>2. PICK j \in 1 .. Len(other) : page[i] = other[j]
      BY <2>1, SeqIsSet
    <2>3. Cardinality({p \in ToSet(page) : Comes(direction, p, page[i])}) = i - 1
      BY SortedPlace
    <2>4. Cardinality({p \in ToSet(page) : Comes(direction, p, page[i])}) = j - 1
      BY <2>2, SortedPlace
    <2>5. QED
      BY <2>2, <2>3, <2>4
  <1>3. QED
    BY <1>1, <1>2

-----------------------------------------------------------------------------
\* A step there and back.

\* A page as it was read: nothing listed is missing between its positions, and
\* it is full or reaches the end in the direction it was read in.
Segment(direction, S) ==
    /\ S \subseteq Listed
    /\ \A p, q \in S : \A r \in Listed : Comes(direction, p, r) /\ Comes(direction, r, q) => r \in S
    /\ \/ Cardinality(S) = query.limit
       \/ \A p \in S, r \in Listed : Comes(direction, p, r) => r \in S

\* A page that was read from the end of another.
ReadFrom(direction, e, S) ==
    /\ S \subseteq Listed
    /\ \A p \in S : Comes(direction, e, p)
    /\ \A p \in Listed : Comes(direction, e, p) =>
          p \in S \/ (Cardinality(S) = query.limit /\ \A r \in S : Comes(direction, r, p))

EndOf(direction, S, e) == e \in S /\ \A p \in S : p = e \/ Comes(direction, p, e)

Linked(direction, S, T) == \E e : EndOf(direction, S, e) /\ ReadFrom(direction, e, T)

LEMMA ThereAndBack ==
  ASSUME Listed \subseteq Positions, query.limit \in Nat \ {0},
         NEW direction \in Directions, NEW way \in {direction, Invert(direction)},
         NEW S, IsFiniteSet(S), Cardinality(S) <= query.limit, Segment(way, S),
         NEW T, Linked(direction, S, T),
         NEW U, IsFiniteSet(U), Cardinality(U) <= query.limit, Linked(Invert(direction), T, U)
  PROVE  S = U
  <1> DEFINE Sooner(p, q) == Comes(direction, p, q)
             limit == query.limit
  <1>1. /\ \A p \in Positions : ~Sooner(p, p)
        /\ \A p, q \in Positions : p # q => Sooner(p, q) \/ Sooner(q, p)
        /\ \A p, q, r \in Positions : Sooner(p, q) /\ Sooner(q, r) => Sooner(p, r)
        /\ \A p, q \in Positions : Comes(Invert(direction), p, q) <=> Sooner(q, p)
    BY PositionsInOrder DEF InOrder
  <1>2. PICK e \in S : EndOf(direction, S, e) /\ ReadFrom(direction, e, T)
    BY DEF Linked, EndOf
  <1>3. PICK f \in T : EndOf(Invert(direction), T, f) /\ ReadFrom(Invert(direction), f, U)
    BY DEF Linked, EndOf
  <1>4. S \subseteq Listed /\ T \subseteq Listed /\ U \subseteq Listed /\ e \in Listed /\ f \in Listed
    BY <1>2, <1>3 DEF Segment, ReadFrom
  <1>5. \A p \in Listed : p \in Positions
    OBVIOUS
  <1>6. /\ \A p \in S : p = e \/ Sooner(p, e)
        /\ \A p \in T : Sooner(e, p)
        /\ \A p \in Listed : Sooner(e, p) => p \in T \/ \A r \in T : Sooner(r, p)
    BY <1>2 DEF EndOf, ReadFrom
  <1>7. /\ \A p \in T : p = f \/ Sooner(f, p)
        /\ \A p \in U : Sooner(p, f)
        /\ \A p \in Listed : Sooner(p, f) => p \in U \/ (Cardinality(U) = limit /\ \A r \in U : Sooner(p, r))
    <2>1. \A p, q \in Listed : Comes(Invert(direction), p, q) <=> Sooner(q, p)
      BY <1>1, <1>5
    <2>2. \A p \in T : p = f \/ Comes(Invert(direction), p, f)
      BY <1>3 DEF EndOf
    <2>3. \A p \in U : Comes(Invert(direction), f, p)
      BY <1>3 DEF ReadFrom
    <2>4. \A p \in Listed : Comes(Invert(direction), f, p) =>
             p \in U \/ (Cardinality(U) = limit /\ \A r \in U : Comes(Invert(direction), r, p))
      BY <1>3 DEF ReadFrom
    <2> HIDE DEF Sooner
    <2>5. QED
      BY <1>4, <2>1, <2>2, <2>3, <2>4
  <1>8. \A p, q \in S : \A r \in Listed : Sooner(p, r) /\ Sooner(r, q) => r \in S
    <2>1. CASE way = direction
      BY <2>1 DEF Segment
    <2>2. CASE way = Invert(direction)
      <3>1. \A p, q \in S : \A r \in Listed :
               Comes(way, p, r) /\ Comes(way, r, q) => r \in S
        BY DEF Segment
      <3>2. \A p, q \in Listed : Comes(way, p, q) <=> Sooner(q, p)
        BY <1>1, <1>5, <2>2
      <3> HIDE DEF Sooner
      <3>3. QED
        BY <1>4, <3>1, <3>2
    <2>3. QED
      BY <2>1, <2>2
  <1>9. \/ Cardinality(S) = limit
        \/ \A p \in S, r \in Listed : Sooner(p, r) => r \in S
        \/ \A p \in S, r \in Listed : Sooner(r, p) => r \in S
    <2>1. CASE way = direction
      BY <2>1 DEF Segment
    <2>2. CASE way = Invert(direction)
      <3>1. Cardinality(S) = limit \/ \A p \in S, r \in Listed : Comes(way, p, r) => r \in S
        BY DEF Segment
      <3>2. \A p, q \in Listed : Comes(way, p, q) <=> Sooner(q, p)
        BY <1>1, <1>5, <2>2
      <3> HIDE DEF Sooner
      <3>3. QED
        BY <1>4, <3>1, <3>2
    <2>3. QED
      BY <2>1, <2>2
  <1>10. limit \in Nat \ {0} /\ Cardinality(S) <= limit /\ Cardinality(U) <= limit
    OBVIOUS
  <1> HIDE DEF Sooner, limit
  <1>11. Sooner(e, f)
    BY <1>6
  <1>12. \A p \in Listed : ~(Sooner(e, p) /\ Sooner(p, f))
    <2> SUFFICES ASSUME NEW p \in Listed, Sooner(e, p), Sooner(p, f) PROVE FALSE
      OBVIOUS
    <2>1. p = f \/ Sooner(f, p)
      BY <1>6, <1>7
    <2>2. QED
      BY <1>1, <1>4, <1>5, <2>1
  <1>13. e \in U
    <2> SUFFICES ASSUME e \notin U PROVE FALSE
      OBVIOUS
    <2>1. Cardinality(U) = limit /\ \A r \in U : Sooner(e, r)
      BY <1>4, <1>7, <1>11
    <2>2. U # {}
      BY <1>10, <2>1, FS_EmptySet
    <2>3. QED
      BY <1>4, <1>7, <1>12, <2>1, <2>2
  <1>14. \A p \in U : p = e \/ Sooner(p, e)
    BY <1>1, <1>4, <1>5, <1>7, <1>12
  <1> DEFINE half == {p \in Listed : p = e \/ Sooner(p, e)}
  <1>15. S \subseteq half /\ U \subseteq half
    BY <1>4, <1>6, <1>14
  <1>16. \A p \in half : Sooner(p, f)
    BY <1>1, <1>4, <1>5, <1>11
  <1>17. \A p \in half, q \in U : Sooner(q, p) => p \in U
    <2> SUFFICES ASSUME NEW p \in half, NEW q \in U, Sooner(q, p), p \notin U PROVE FALSE
      OBVIOUS
    <2>1. Sooner(p, q)
      BY <1>7, <1>16
    <2>2. QED
      BY <1>1, <1>4, <1>5, <2>1
  <1>18. Cardinality(U) = limit \/ half \subseteq U
    BY <1>7, <1>16
  <1>19. \A p \in half, q \in S : Sooner(q, p) => p \in S
    BY <1>2, <1>8
  <1>20. Cardinality(S) = limit \/ half \subseteq S
    <2>1. CASE \A p \in S, r \in Listed : Sooner(p, r) => r \in S
      <3>1. f \in S
        BY <1>2, <1>4, <1>11, <2>1
      <3>2. FALSE
        BY <1>1, <1>4, <1>5, <1>6, <1>11, <3>1
      <3>3. QED
        BY <3>2
    <2>2. CASE \A p \in S, r \in Listed : Sooner(r, p) => r \in S
      BY <1>2, <2>2
    <2>3. QED
      BY <1>9, <2>1, <2>2
  <1>21. S \subseteq U \/ U \subseteq S
    <2> SUFFICES ASSUME NEW p \in S, p \notin U, NEW q \in U, q \notin S PROVE FALSE
      OBVIOUS
    <2>1. Sooner(p, q) \/ Sooner(q, p)
      BY <1>1, <1>4, <1>5
    <2>2. QED
      BY <1>15, <1>17, <1>19, <2>1
  <1> HIDE DEF half
  <1>22. CASE S \subseteq U
    <2>1. Cardinality(S) <= Cardinality(U) /\ (Cardinality(S) = Cardinality(U) => S = U)
      BY <1>22, FS_Subset
    <2>2. Cardinality(S) \in Nat /\ Cardinality(U) \in Nat
      BY FS_CardinalityType
    <2>3. CASE Cardinality(S) = limit
      BY <1>10, <2>1, <2>2, <2>3
    <2>4. CASE half \subseteq S
      BY <1>15, <1>22, <2>4
    <2>5. QED
      BY <1>20, <2>3, <2>4
  <1>23. CASE U \subseteq S
    <2>1. Cardinality(U) <= Cardinality(S) /\ (Cardinality(S) = Cardinality(U) => S = U)
      BY <1>23, FS_Subset
    <2>2. Cardinality(S) \in Nat /\ Cardinality(U) \in Nat
      BY FS_CardinalityType
    <2>3. CASE Cardinality(U) = limit
      BY <1>10, <2>1, <2>2, <2>3
    <2>4. CASE half \subseteq U
      BY <1>15, <1>23, <2>4
    <2>5. QED
      BY <1>18, <2>3, <2>4
  <1>24. QED
    BY <1>21, <1>22, <1>23
\* What a page read holds, as a set.
LEMMA PageSegment ==
  ASSUME TableOK, query \in Queries, NEW direction \in Directions,
         NEW boundary \in Positions \cup {None}, NEW order \in Directions, NEW page,
         PageOK(direction, boundary, order, page)
  PROVE  /\ Segment(direction, ToSet(page))
         /\ boundary # None => ReadFrom(direction, boundary, ToSet(page))
  <1> DEFINE Sooner(p, q) == Comes(direction, p, q)
  <1>1. page \in Seq(Listed) /\ page \in Seq(Positions) /\ Listed \subseteq Positions
    BY ListedPositions DEF PageOK
  <1>2. PICK S : S = ToSet(page) /\ S \subseteq Listed
    BY <1>1, SeqIsSet
  <1>3. PICK full \in BOOLEAN : full <=> Len(page) = query.limit
    OBVIOUS
  <1>4. full <=> Cardinality(S) = query.limit
    BY <1>1, <1>2, <1>3, SortedCounts DEF PageOK
  <1>5. /\ \A p \in Positions : ~Sooner(p, p)
        /\ \A p, q, r \in Positions : Sooner(p, q) /\ Sooner(q, r) => Sooner(p, r)
    BY PositionsInOrder DEF InOrder
  <1>6. /\ \A p \in S : Beyond(direction, boundary, p)
        /\ \A p \in Listed : Beyond(direction, boundary, p) =>
              p \in S \/ (full /\ \A r \in S : Sooner(r, p))
    BY <1>2, <1>3 DEF PageOK
  <1>7. \A p \in S, r \in Listed : Sooner(p, r) => Beyond(direction, boundary, r)
    BY <1>1, <1>2, <1>5, <1>6 DEF Beyond
  <1> HIDE DEF Sooner
  <1>8. \A p, q \in S : \A r \in Listed : Sooner(p, r) /\ Sooner(r, q) => r \in S
    BY <1>1, <1>2, <1>5, <1>6, <1>7
  <1>9. full \/ \A p \in S, r \in Listed : Sooner(p, r) => r \in S
    BY <1>6, <1>7
  <1>10. Segment(direction, S)
    BY <1>2, <1>4, <1>8, <1>9 DEF Segment, Sooner
  <1>11. ASSUME boundary # None PROVE ReadFrom(direction, boundary, S)
    BY <1>2, <1>4, <1>6, <1>11 DEF ReadFrom, Beyond, Sooner
  <1>12. QED
    BY <1>2, <1>10, <1>11

\* The ends of a page.
LEMMA EndsAre ==
  ASSUME NEW direction \in Directions, NEW page \in Seq(Positions), page # <<>>,
         Sorted(direction, page)
  PROVE  /\ EndOf(direction, ToSet(page), Last(page))
         /\ EndOf(Invert(direction), ToSet(page), Head(page))
         /\ Last(page) \in Positions /\ Head(page) \in Positions
  <1>1. PICK n \in Nat \ {0} : n = Len(page)
    OBVIOUS
  <1>2. Last(page) = page[n] /\ Head(page) = page[1]
    BY <1>1 DEF Last
  <1>3. \A i \in 1 .. n : page[i] \in Positions /\ page[i] \in ToSet(page)
    BY <1>1, SeqIsSet
  <1>4. 1 \in 1 .. n /\ n \in 1 .. n /\ \A i \in 1 .. n : (i = n \/ i < n) /\ (i = 1 \/ 1 < i)
    OBVIOUS
  <1>5. \A i \in 1 .. n : page[i] = page[n] \/ Comes(direction, page[i], page[n])
    BY <1>1, <1>4 DEF Sorted
  <1>6. \A i \in 1 .. n : page[i] = page[1] \/ Comes(Invert(direction), page[i], page[1])
    <2>1. \A i \in 1 .. n : page[i] = page[1] \/ Comes(direction, page[1], page[i])
      BY <1>1, <1>4 DEF Sorted
    <2>2. QED
      BY <1>3, <1>4, <2>1, PositionsInOrder DEF InOrder
  <1>7. \A p \in ToSet(page) : \E i \in 1 .. n : p = page[i]
    BY <1>1, SeqIsSet
  <1>8. QED
    BY <1>2, <1>3, <1>4, <1>5, <1>6, <1>7 DEF EndOf

-----------------------------------------------------------------------------
\* The inductive invariant.

Flags == BOOLEAN \cup {None}

Cursors == [sort : Sorts, direction : Directions, position : Positions] \cup {None}

Asked == {"first", "after", "before"}

\* The walk: its page is sorted, and its cursors are the ends of that page.
WalkOK ==
    /\ query \in Queries /\ step \in {"idle", "probing"}
    /\ data \in Seq(Positions) /\ Len(data) <= query.limit /\ Sorted(query.direction, data)
    /\ ToSet(data) \subseteq returned /\ returned \subseteq Positions
    /\ flags \in [previous : Flags, next : Flags]
    /\ cursors \in [previous : Cursors, next : Cursors]
    /\ cursors.next # None =>
          data # <<>> /\ cursors.next = EncodeListUsersCursor(Context, Last(data))
    /\ cursors.previous # None =>
          data # <<>> /\ cursors.previous = EncodeListUsersCursor(Context, Head(data))
    /\ step = "probing" => data # <<>>
    /\ changes \in 0 .. MaxChanges /\ requests \in 0 .. MaxRequests
    /\ requests = 0 => step = "idle" /\ data = <<>> /\ returned = {} /\ stable = {} /\ trail = <<>>

\* Unchanged users are still where a page has shown them, and none is missing
\* between two positions returned.
StableOK ==
    /\ stable \subseteq {row \in users : Matches(row)}
    /\ \A row \in stable, p \in returned : p.id = row.id => p = PositionOf(row)
    /\ \A row \in stable, direction \in Directions, p, q \in returned :
          Comes(direction, p, PositionOf(row)) /\ Comes(direction, PositionOf(row), q)
             => PositionOf(row) \in returned

\* There is nothing on that side of the page, it has been said.
Denied(side, at, known, given) ==
    (at = "probing" /\ known[side] = FALSE) \/ (at = "idle" /\ given[side] = None)

\* What a flag has denied stays denied for unchanged users.
EndsOK ==
    /\ data # <<>> /\ Denied("next", step, flags, cursors)
          => \A row \in stable : ~Comes(query.direction, Last(data), PositionOf(row))
    /\ data # <<>> /\ Denied("previous", step, flags, cursors)
          => \A row \in stable : ~Comes(query.direction, PositionOf(row), Head(data))

\* The last pages: each continues the one before it, and as long as the table
\* has not changed since, it is what was read.
EntryOK(entry) ==
    /\ Len(entry.data) <= query.limit /\ Sorted(query.direction, entry.data)
    /\ ToSet(entry.data) \subseteq returned
    /\ entry.clean => Segment(Reading(entry.asked), ToSet(entry.data))

PairOK(entry, next) ==
    /\ ToSet(entry.data) \cap ToSet(next.data) = {}
    /\ entry.clean => /\ next.clean
                      /\ Linked(Reading(next.asked), ToSet(entry.data), ToSet(next.data))

Entries == [asked : Asked, data : Seq(Positions), clean : BOOLEAN]

TrailOK ==
    /\ trail \in Seq(Entries) /\ Len(trail) <= 3
    /\ requests > 0 => trail # <<>> /\ trail[Len(trail)].data = data
    /\ \A i \in 1 .. Len(trail) : EntryOK(trail[i])
    /\ \A i \in 1 .. Len(trail) - 1 : PairOK(trail[i], trail[i + 1])

PagingInv == TableOK /\ WalkOK /\ StableOK /\ EndsOK /\ TrailOK

LEMMA RowIs ==
  ASSUME NEW u, NEW k
  PROVE  /\ Row(u, k) = [id |-> u, email |-> u, value |-> k]
         /\ Row(u, k).id = u /\ Row(u, k).email = u /\ Row(u, k).value = k
  BY DEF Row

\* The position of a row whose value a cursor can hold.
LEMMA StoredPosition ==
  ASSUME NEW row, query.sort = "createdAt" => row.value = Millis(row.value)
  PROVE  PositionOf(row) = [id |-> row.id, value |-> row.value]
  BY DEF PositionOf

LEMMA PagingInit ==
  ASSUME Init
  PROVE  PagingInv
  <1> USE DEF Init
  <1>1. PICK present \in SUBSET Ids : \E value \in [present -> Values] :
           users = {Row(u, value[u]) : u \in present}
    OBVIOUS
  <1>2. PICK value \in [present -> Values] : users = {Row(u, value[u]) : u \in present}
    BY <1>1
  <1>3. \A u \in present : u \in Ids /\ value[u] \in Keys
                           /\ (query.sort = "createdAt" => value[u] = Millis(value[u]))
    BY <1>2 DEF Values
  <1>4. TableOK
    <2>1. IsFiniteSet(users)
      <3>1. PICK f : f = [u \in present |-> Row(u, value[u])]
        OBVIOUS
      <3>2. f \in Surjection(present, users)
        BY <1>2, <3>1 DEF Surjection
      <3>3. IsFiniteSet(present)
        BY PaginationAssumption, FS_Subset
      <3>4. QED
        BY <3>2, <3>3, FS_Surjection
    <2>2. \A row \in users : \E u \in present : row = Row(u, value[u])
      BY <1>2
    <2>3. users \subseteq [id : Ids, email : Ids, value : Keys]
      BY <1>3, <2>2 DEF Row
    <2>4. \A row, other \in users : row.id = other.id \/ row.email = other.email => row = other
      BY <2>2, RowIs
    <2>5. \A row \in users : PositionOf(row) = [id |-> row.id, value |-> row.value]
      <3> SUFFICES ASSUME NEW row \in users
                   PROVE  PositionOf(row) = [id |-> row.id, value |-> row.value]
        OBVIOUS
      <3>1. query.sort = "createdAt" => row.value = Millis(row.value)
        <4>1. PICK u \in present : row = Row(u, value[u])
          BY <2>2
        <4>2. row.value = value[u]
          BY <4>1, RowIs
        <4>3. QED
          BY <1>3, <4>2
      <3>2. QED
        BY <3>1, StoredPosition
    <2>6. QED
      BY <2>1, <2>3, <2>4, <2>5 DEF TableOK
  <1>5. WalkOK
    <2>1. query \in Queries
      BY DEF Queries
    <2>2. /\ data \in Seq(Positions) /\ Len(data) <= query.limit /\ Sorted(query.direction, data)
          /\ ToSet(data) = {}
      BY <2>1, QueryIs DEF Sorted, ToSet
    <2>3. /\ flags \in [previous : Flags, next : Flags] /\ cursors \in [previous : Cursors, next : Cursors]
          /\ cursors.next = None /\ cursors.previous = None
      BY DEF Flags, Cursors
    <2>4. changes \in 0 .. MaxChanges /\ requests \in 0 .. MaxRequests
      BY PaginationAssumption
    <2>5. QED
      BY <2>1, <2>2, <2>3, <2>4 DEF WalkOK
  <1>6. StableOK /\ EndsOK /\ TrailOK
    BY DEF StableOK, EndsOK, TrailOK
  <1>7. QED
    BY <1>4, <1>5, <1>6 DEF PagingInv
-----------------------------------------------------------------------------
\* Steps that leave the table and the question alone.

SameTable == UNCHANGED <<users, spent, query>>

LEMMA TableKept ==
  ASSUME TableOK, SameTable
  PROVE  /\ TableOK' /\ Listed' = Listed
         /\ \A row : PositionOf(row)' = PositionOf(row) /\ (Matches(row)' <=> Matches(row))
  <1>1. \A row : PositionOf(row)' = PositionOf(row) /\ (Matches(row)' <=> Matches(row))
    BY DEF SameTable, PositionOf, Matches, Millis
  <1>2. TableOK'
    BY <1>1 DEF SameTable, TableOK
  <1>3. Listed' = Listed
    BY <1>1 DEF SameTable, Listed
  <1>4. QED
    BY <1>1, <1>2, <1>3

LEMMA SegmentsKept ==
  ASSUME Listed' = Listed, query' = query
  PROVE  /\ \A asked : Reading(asked)' = Reading(asked)
         /\ \A direction, S : Segment(direction, S)' <=> Segment(direction, S)
         /\ \A direction, S, T : Linked(direction, S, T)' <=> Linked(direction, S, T)
  <1>1. \A asked : Reading(asked)' = Reading(asked)
    BY DEF Reading
  <1>2. \A direction, S : Segment(direction, S)' <=> Segment(direction, S)
    BY DEF Segment
  <1>3. \A direction, e, S : ReadFrom(direction, e, S)' <=> ReadFrom(direction, e, S)
    BY DEF ReadFrom
  <1>4. \A direction, S, T : Linked(direction, S, T)' <=> Linked(direction, S, T)
    BY <1>3 DEF Linked
  <1>5. QED
    BY <1>1, <1>2, <1>4

\* Rows that a walk lists from now on.
Standing == {row \in users : Matches(row)}

\* A page is read: the first one, or one from the end of the last.
Turns(asked, boundary) ==
    /\ asked \in Asked /\ Page(asked, boundary)
    /\ SameTable /\ changes' = changes
    /\ \/ /\ requests = 0 /\ boundary = None /\ stable' = Standing
       \/ /\ 0 < requests /\ requests < MaxRequests /\ stable' = stable
          /\ boundary # None /\ boundary \in Positions
          /\ EndOf(Reading(asked), ToSet(data), boundary)

LEMMA TurnWalk ==
  ASSUME PagingInv, NEW asked, NEW boundary, Turns(asked, boundary)
  PROVE  /\ WalkOK'
         /\ boundary \in Positions \cup {None} /\ Reading(asked) \in Directions
         /\ PageOK(Reading(asked), boundary, query.direction, data')
         /\ data' \in Seq(Positions) /\ returned' = returned \cup ToSet(data')
         /\ ToSet(data') \subseteq Listed
  <1>1. TableOK /\ WalkOK /\ query \in Queries /\ Listed \subseteq Positions
    BY ListedPositions DEF PagingInv, WalkOK
  <1>2. boundary \in Positions \cup {None}
    BY DEF Turns
  <1>3. /\ data' = ReadPage(asked, boundary) /\ returned' = returned \cup ToSet(data')
        /\ cursors' = [previous |-> None, next |-> None]
        /\ requests' = requests + 1
        /\ IF data' = <<>>
           THEN step' = "idle" /\ flags' = [previous |-> FALSE, next |-> FALSE]
           ELSE step' = "probing" /\ flags' = [previous |-> None, next |-> None]
    BY DEF Turns, Page
  <1>4. /\ Reading(asked) \in Directions
        /\ PageOK(Reading(asked), boundary, query.direction, data')
    BY <1>1, <1>2, <1>3, PageIs
  <1>5. /\ data' \in Seq(Listed) /\ Len(data') <= query.limit /\ Sorted(query.direction, data')
    BY <1>4 DEF PageOK
  <1>6. data' \in Seq(Positions) /\ ToSet(data') \subseteq Listed
    BY <1>1, <1>5, SeqIsSet
  <1>7. query' = query /\ changes' = changes /\ requests' \in 1 .. MaxRequests
    BY <1>1, <1>3, PaginationAssumption DEF Turns, SameTable, WalkOK
  <1>8. /\ flags' \in [previous : Flags, next : Flags] /\ cursors' \in [previous : Cursors, next : Cursors]
        /\ cursors'.next = None /\ cursors'.previous = None
        /\ step' \in {"idle", "probing"} /\ (step' = "probing" => data' # <<>>)
    <2>1. FALSE \in Flags /\ None \in Flags /\ None \in Cursors
      BY DEF Flags, Cursors
    <2>2. PICK no \in Flags : no = FALSE
      BY <2>1, Zenon
    <2>3. flags' = [previous |-> no, next |-> no] \/ flags' = [previous |-> None, next |-> None]
      BY <1>3, <2>2, Zenon
    <2>4. flags' \in [previous : Flags, next : Flags]
      BY <2>1, <2>2, <2>3
    <2>5. QED
      BY <1>3, <2>1, <2>4
  <1>9. WalkOK'
    <2>1. query' \in Queries
      BY <1>1, <1>7
    <2>2. changes' \in 0 .. MaxChanges /\ requests' \in 0 .. MaxRequests /\ requests' # 0
      BY <1>7 DEF PagingInv, WalkOK
    <2>3. returned \subseteq Positions /\ ToSet(data') \subseteq Positions
      BY <1>1, <1>6 DEF WalkOK
    <2>4. /\ Len(data') <= query'.limit /\ Sorted(query'.direction, data')
          /\ ToSet(data') \subseteq returned' /\ returned' \subseteq Positions
      BY <1>3, <1>5, <1>7, <2>3
    <2>5. QED
      BY <1>5, <1>6, <1>8, <2>1, <2>2, <2>4 DEF WalkOK
  <1>10. QED
    BY <1>2, <1>3, <1>4, <1>6, <1>9

LEMMA TurnStable ==
  ASSUME PagingInv, NEW asked, NEW boundary, Turns(asked, boundary)
  PROVE  StableOK'
  <1>1. PICK direction \in Directions : direction = Reading(asked)
    BY TurnWalk
  <1>2. TableOK /\ StableOK /\ Listed \subseteq Positions /\ returned \subseteq Positions
    BY ListedPositions DEF PagingInv, WalkOK
  <1>3. PICK S : S = ToSet(data')
    OBVIOUS
  <1>4. /\ S \subseteq Listed /\ returned' = returned \cup S
        /\ boundary \in Positions \cup {None}
        /\ \A p \in S : Beyond(direction, boundary, p)
        /\ \A p \in Listed : Beyond(direction, boundary, p) => p \in S \/ \A r \in S : Comes(direction, r, p)
    BY <1>1, <1>3, TurnWalk DEF PageOK
  <1>5. /\ \A row : PositionOf(row)' = PositionOf(row) /\ (Matches(row)' <=> Matches(row))
        /\ users' = users
    BY <1>2, TableKept DEF Turns, SameTable
  <1>6. stable' \subseteq Standing
    BY <1>2 DEF Turns, StableOK, Standing
  <1>7. \/ stable' = stable /\ boundary # None /\ boundary \in returned
        \/ returned = {} /\ boundary = None
    BY DEF Turns, EndOf, PagingInv, WalkOK
  <1>8. \A row \in stable' : row \in users /\ PositionOf(row) \in Listed /\ PositionOf(row) \in Positions
    BY <1>2, <1>6 DEF Standing, Listed
  <1>9. ASSUME NEW row \in stable', NEW p \in returned', p.id = row.id
        PROVE  p = PositionOf(row)
    <2>1. CASE p \in S
      <3>1. PICK other \in users : p = PositionOf(other)
        BY <1>4, <2>1 DEF Listed
      <3>2. other.id = row.id
        BY <1>2, <1>9, <3>1, RowPlaced
      <3>3. QED
        BY <1>2, <1>8, <3>1, <3>2, SamePosition
    <2>2. CASE p \in returned
      BY <1>2, <1>7, <1>9, <2>2 DEF StableOK
    <2>3. QED
      BY <1>4, <2>1, <2>2
  <1>10. /\ \A p, q \in Positions : p # q => Comes(direction, p, q) \/ Comes(direction, q, p)
         /\ \A p, q, r \in Positions : Comes(direction, p, q) /\ Comes(direction, q, r) => Comes(direction, p, r)
         /\ \A p \in Positions : ~Comes(direction, p, p)
         /\ \A p, q \in Positions : Comes(Invert(direction), p, q) <=> Comes(direction, q, p)
    BY PositionsInOrder DEF InOrder
  <1>11. ASSUME NEW row \in stable', NEW x, x = PositionOf(row), NEW a \in returned', NEW b \in returned',
                Comes(direction, a, x), Comes(direction, x, b)
         PROVE  x \in returned'
    <2> SUFFICES ASSUME x \notin returned' PROVE FALSE
      OBVIOUS
    <2>1. x \in Listed /\ x \in Positions /\ returned' \subseteq Positions /\ x \notin S /\ x \notin returned
      BY <1>2, <1>4, <1>8, <1>11
    <2>2. CASE Beyond(direction, boundary, x)
      <3>1. \A r \in S : Comes(direction, r, x)
        BY <1>4, <2>1, <2>2
      <3>2. b \in returned
        BY <1>4, <1>10, <1>11, <2>1, <3>1
      <3>3. stable' = stable /\ boundary \in returned /\ Comes(direction, boundary, x)
        BY <1>7, <2>2, <3>2 DEF Beyond
      <3>4. QED
        BY <1>2, <1>11, <2>1, <3>2, <3>3 DEF StableOK
    <2>3. CASE ~Beyond(direction, boundary, x)
      <3>1. boundary \in returned /\ boundary \in Positions /\ stable' = stable /\ Comes(direction, x, boundary)
        BY <1>2, <1>7, <1>10, <2>1, <2>3 DEF Beyond
      <3>2. \A r \in S : r \in Positions /\ Comes(direction, boundary, r)
        BY <1>2, <1>4, <1>7, <3>1, NoneAssumption DEF Beyond
      <3>3. a \in returned
        BY <1>4, <1>10, <1>11, <2>1, <3>1, <3>2
      <3>4. QED
        BY <1>2, <1>11, <2>1, <3>1, <3>3 DEF StableOK
    <2>4. QED
      BY <2>2, <2>3
  <1>12. ASSUME NEW row \in stable', NEW way \in Directions, NEW p \in returned', NEW q \in returned',
                Comes(way, p, PositionOf(row)), Comes(way, PositionOf(row), q)
         PROVE  PositionOf(row) \in returned'
    <2>1. CASE way = direction
      BY <1>11, <1>12, <2>1
    <2>2. CASE way = Invert(direction)
      <3>1. p \in Positions /\ q \in Positions /\ PositionOf(row) \in Positions
        BY <1>2, <1>4, <1>8
      <3>2. Comes(direction, PositionOf(row), p) /\ Comes(direction, q, PositionOf(row))
        BY <1>10, <1>12, <2>2, <3>1
      <3>3. QED
        BY <1>11, <3>2
    <2>3. QED
      BY <2>1, <2>2 DEF Directions, Invert
  <1>13. stable' \subseteq {row \in users' : Matches(row)'}
    BY <1>5, <1>6 DEF Standing
  <1>14. QED
    BY <1>5, <1>9, <1>12, <1>13 DEF StableOK

LEMMA NoneFlag == None # FALSE /\ None # TRUE
  BY NoneAssumption

LEMMA TurnEnds ==
  ASSUME PagingInv, NEW asked, NEW boundary, Turns(asked, boundary)
  PROVE  EndsOK'
  <1>1. data' # <<>> => step' = "probing" /\ flags' = [previous |-> None, next |-> None]
    BY DEF Turns, Page
  <1>2. data' # <<>> => \A side \in {"previous", "next"} : flags'[side] # FALSE
    <2>1. data' # <<>> => \A side \in {"previous", "next"} : flags'[side] = None
      BY <1>1
    <2>2. QED
      BY <2>1, NoneFlag, Zenon
  <1>3. data' # <<>> => \A side \in {"previous", "next"} : ~Denied(side, step', flags', cursors')
    BY <1>1, <1>2 DEF Denied
  <1>4. QED
    BY <1>3 DEF EndsOK
\* The trail keeps the last three pages.
LEMMA LastThree ==
  ASSUME NEW E, NEW old \in Seq(E), Len(old) <= 3, NEW entry \in E, NEW new,
         new = Append(SubSeq(old, IF Len(old) = 3 THEN 2 ELSE 1, Len(old)), entry)
  PROVE  /\ new \in Seq(E) /\ new # <<>> /\ Len(new) <= 3 /\ new[Len(new)] = entry
         /\ \E shift \in {0, 1} : /\ Len(old) = Len(new) - 1 + shift
                                  /\ \A i \in 1 .. Len(new) - 1 : new[i] = old[i + shift]
  <1>1. PICK n \in Nat : n = Len(old) /\ n <= 3
    OBVIOUS
  <1>2. PICK shift \in {0, 1} : /\ shift = IF n = 3 THEN 1 ELSE 0
                                /\ n - shift \in Nat /\ n - shift <= 2
    BY <1>1
  <1>3. PICK kept : kept = SubSeq(old, shift + 1, n)
    OBVIOUS
  <1>4. new = Append(kept, entry)
    <2>1. (IF Len(old) = 3 THEN 2 ELSE 1) = shift + 1
      BY <1>1, <1>2
    <2>2. QED
      BY <1>1, <1>3, <2>1
  <1>5. kept \in Seq(E) /\ Len(kept) = n - shift /\ \A i \in 1 .. n - shift : kept[i] = old[i + shift]
    <2>1. \A i \in shift + 1 .. n : old[i] \in E
      BY <1>1, <1>2
    <2>2. /\ kept \in Seq(E)
          /\ Len(kept) = IF shift + 1 <= n THEN n - (shift + 1) + 1 ELSE 0
          /\ \A i \in 1 .. n - (shift + 1) + 1 : kept[i] = old[shift + 1 + i - 1]
      BY <1>1, <1>2, <1>3, <2>1, SubSeqProperties
    <2>3. n - (shift + 1) + 1 = n - shift /\ (~(shift + 1 <= n) => n - shift = 0)
          /\ \A i \in 1 .. n - shift : shift + 1 + i - 1 = i + shift
      BY <1>1, <1>2
    <2>4. QED
      BY <2>2, <2>3
  <1>6. PICK length \in Nat : /\ length = n - shift /\ length <= 2 /\ n = length + shift
                              /\ (length + 1) - 1 = length /\ length + 1 <= 3
    <2>1. PICK length \in Nat : length = n - shift
      BY <1>2
    <2>2. length <= 2
      BY <1>2, <2>1
    <2>3. n = length + shift
      BY <1>1, <2>1
    <2>4. (length + 1) - 1 = length /\ length + 1 <= 3
      BY <2>2
    <2>5. QED
      BY <2>1, <2>2, <2>3, <2>4
  <1>7. /\ new \in Seq(E) /\ new # <<>> /\ Len(new) = length + 1
        /\ \A i \in 1 .. length : new[i] = kept[i]
        /\ new[length + 1] = entry
    <2>1. Len(kept) = length
      BY <1>5, <1>6
    <2>2. /\ Append(kept, entry) \in Seq(E) /\ Append(kept, entry) # <<>>
          /\ Len(Append(kept, entry)) = Len(kept) + 1
          /\ \A i \in 1 .. Len(kept) : Append(kept, entry)[i] = kept[i]
          /\ Append(kept, entry)[Len(kept) + 1] = entry
      BY <1>5, AppendProperties
    <2>3. QED
      BY <1>4, <2>1, <2>2
  <1>8. \A i \in 1 .. length : new[i] = old[i + shift]
    BY <1>5, <1>6, <1>7
  <1>9. QED
    BY <1>1, <1>2, <1>6, <1>7, <1>8

LEMMA TurnTrail ==
  ASSUME PagingInv, NEW asked, NEW boundary, Turns(asked, boundary)
  PROVE  TrailOK'
  <1>1. PICK entry : entry = [asked |-> asked, data |-> data', clean |-> TRUE]
    OBVIOUS
  <1>2. PICK old, new : old = trail /\ new = trail'
    OBVIOUS
  <1>3. TableOK /\ WalkOK /\ TrailOK
    BY DEF PagingInv
  <1>4. /\ data' \in Seq(Positions) /\ returned' = returned \cup ToSet(data')
        /\ Reading(asked) \in Directions /\ boundary \in Positions \cup {None}
        /\ PageOK(Reading(asked), boundary, query.direction, data')
        /\ query \in Queries
    BY <1>3, TurnWalk DEF WalkOK
  <1>5. /\ entry \in Entries
        /\ entry.asked = asked /\ entry.data = data' /\ entry.clean = TRUE
    BY <1>1, <1>4 DEF Turns, Entries
  <1>6. /\ query' = query /\ Listed' = Listed
        /\ Segment(Reading(asked), ToSet(data'))
        /\ boundary # None => ReadFrom(Reading(asked), boundary, ToSet(data'))
    BY <1>3, <1>4, TableKept, PageSegment, QueryIs DEF Turns, SameTable
  <1>7. \A e : EntryOK(e) => EntryOK(e)'
    BY <1>4, <1>6, SegmentsKept DEF EntryOK
  <1>8. \A e, f : PairOK(e, f) => PairOK(e, f)'
    BY <1>6, SegmentsKept DEF PairOK
  <1>9. EntryOK(entry)'
    <2>1. Len(data') <= query'.limit /\ Sorted(query'.direction, data')
      BY <1>4, <1>6 DEF PageOK
    <2>2. PICK S, way : S = ToSet(data') /\ way = Reading(asked)
      OBVIOUS
    <2>3. Segment(way, S)'
      BY <1>6, <2>2, SegmentsKept
    <2>4. Reading(asked)' = way
      BY <1>6, <2>2, SegmentsKept
    <2>5. ToSet(entry.data) = S /\ S \subseteq returned'
      BY <1>4, <1>5, <2>2
    <2>6. QED
      BY <1>5, <2>1, <2>3, <2>4, <2>5 DEF EntryOK
  <1>10. old \in Seq(Entries) /\ Len(old) <= 3
    BY <1>2, <1>3 DEF TrailOK
  <1>11. new = Append(SubSeq(old, IF Len(old) = 3 THEN 2 ELSE 1, Len(old)), entry)
    BY <1>1, <1>2 DEF Turns, Page
  <1>12. /\ new \in Seq(Entries) /\ new # <<>> /\ Len(new) <= 3 /\ new[Len(new)] = entry
         /\ \E shift \in {0, 1} : /\ Len(old) = Len(new) - 1 + shift
                                  /\ \A i \in 1 .. Len(new) - 1 : new[i] = old[i + shift]
    BY <1>5, <1>10, <1>11, LastThree
  <1>13. PICK shift \in {0, 1} : /\ Len(old) = Len(new) - 1 + shift
                                 /\ \A i \in 1 .. Len(new) - 1 : new[i] = old[i + shift]
    BY <1>12
  <1>14. PICK n \in Nat \ {0} : n = Len(new)
    BY <1>12
  <1>15. old # <<>> => PairOK(old[Len(old)], entry)'
    <2> SUFFICES ASSUME old # <<>> PROVE PairOK(old[Len(old)], entry)'
      OBVIOUS
    <2>1. PICK last : last = old[Len(old)]
      OBVIOUS
    <2>2. requests > 0
      BY <1>2, <1>3 DEF WalkOK
    <2>3. last.data = data
      BY <1>2, <1>3, <2>1, <2>2 DEF TrailOK
    <2>4. boundary # None /\ EndOf(Reading(asked), ToSet(data), boundary)
      BY <2>2 DEF Turns
    <2>5. ReadFrom(Reading(asked), boundary, ToSet(data'))
      BY <1>6, <2>4
    <2>6. ToSet(data) \cap ToSet(data') = {}
      <3> SUFFICES ASSUME NEW p \in ToSet(data), p \in ToSet(data') PROVE FALSE
        OBVIOUS
      <3>1. p = boundary \/ Comes(Reading(asked), p, boundary)
        BY <2>4 DEF EndOf
      <3>2. Comes(Reading(asked), boundary, p)
        BY <2>5 DEF ReadFrom
      <3>3. p \in Positions /\ boundary \in Positions
        BY <1>4, <2>4, SeqIsSet
      <3>4. QED
        BY <1>4, <3>1, <3>2, <3>3, PositionsInOrder DEF InOrder
    <2>7. Linked(Reading(asked), ToSet(data), ToSet(data'))
      BY <2>4, <2>5 DEF Linked
    <2>8. PairOK(last, entry)
      BY <1>5, <2>3, <2>6, <2>7 DEF PairOK
    <2>9. QED
      BY <1>8, <2>1, <2>8
  <1>16. \A i \in 1 .. n : EntryOK(new[i])'
    <2> SUFFICES ASSUME NEW i \in 1 .. n PROVE EntryOK(new[i])'
      OBVIOUS
    <2>1. CASE i = n
      BY <1>9, <1>12, <1>14, <2>1
    <2>2. CASE i < n
      <3>1. i \in 1 .. Len(new) - 1 /\ i + shift \in 1 .. Len(old)
        BY <1>13, <1>14, <2>2
      <3>2. EntryOK(old[i + shift])
        BY <1>2, <1>3, <3>1 DEF TrailOK
      <3>3. QED
        BY <1>7, <1>13, <3>1, <3>2
    <2>3. QED
      BY <2>1, <2>2
  <1>17. \A i \in 1 .. n - 1 : PairOK(new[i], new[i + 1])'
    <2> SUFFICES ASSUME NEW i \in 1 .. n - 1 PROVE PairOK(new[i], new[i + 1])'
      OBVIOUS
    <2>1. new[i] = old[i + shift]
      BY <1>13, <1>14
    <2>2. CASE i = n - 1
      <3>1. i + shift = Len(old) /\ old # <<>> /\ i + 1 = n
        BY <1>10, <1>13, <1>14, <2>2
      <3>2. new[i + 1] = entry
        BY <1>12, <1>14, <3>1
      <3>3. QED
        BY <1>15, <2>1, <3>1, <3>2
    <2>3. CASE i < n - 1
      <3>1. i + 1 \in 1 .. Len(new) - 1 /\ i + shift \in 1 .. Len(old) - 1
            /\ (i + 1) + shift = (i + shift) + 1
        BY <1>13, <1>14, <2>3
      <3>2. new[i + 1] = old[(i + shift) + 1]
        BY <1>13, <3>1
      <3>3. PairOK(old[i + shift], old[(i + shift) + 1])
        BY <1>2, <1>3, <3>1 DEF TrailOK
      <3>4. QED
        BY <1>8, <2>1, <3>2, <3>3
    <2>4. QED
      BY <2>2, <2>3
  <1>18. new[Len(new)].data = data'
    BY <1>5, <1>12
  <1>19. QED
    BY <1>2, <1>12, <1>14, <1>16, <1>17, <1>18 DEF TrailOK

LEMMA TurnKept ==
  ASSUME PagingInv, NEW asked, NEW boundary, Turns(asked, boundary)
  PROVE  PagingInv'
  <1>1. TableOK'
    BY TableKept DEF PagingInv, Turns
  <1>2. QED
    BY <1>1, TurnWalk, TurnStable, TurnEnds, TurnTrail DEF PagingInv
LEMMA ListTurns ==
  ASSUME PagingInv, List
  PROVE  Turns("first", None)
  <1>1. {row \in users : Satisfies(row, CombineWhere(Everything))} = Standing
    BY CombineIs, JoinedFilters DEF Standing
  <1>2. stable' = Standing
    BY <1>1 DEF List
  <1>3. QED
    BY <1>2 DEF List, Turns, Asked, SameTable, tableVars

\* A cursor that was given out leads on from the page it came with.
LEMMA CursorTurns ==
  ASSUME PagingInv, NEW side \in {"next", "previous"}, cursors[side] # None,
         NEW asked, asked = IF side = "next" THEN "after" ELSE "before",
         step = "idle", 0 < requests, requests < MaxRequests,
         Page(asked, cursors[side].position),
         UNCHANGED <<tableVars, query, stable, changes>>
  PROVE  Turns(asked, cursors[side].position)
  <1>1. WalkOK
    BY DEF PagingInv
  <1>2. PICK p : p = IF side = "next" THEN Last(data) ELSE Head(data)
    OBVIOUS
  <1>3. data # <<>> /\ cursors[side].position = p
    BY <1>1, <1>2 DEF WalkOK, EncodeListUsersCursor
  <1>4. /\ query.direction \in Directions /\ data \in Seq(Positions) /\ Sorted(query.direction, data)
    BY <1>1, QueryIs DEF WalkOK
  <1>5. /\ p \in Positions
        /\ EndOf(IF side = "next" THEN query.direction ELSE Invert(query.direction), ToSet(data), p)
    BY <1>2, <1>3, <1>4, EndsAre
  <1>6. Reading(asked) = IF side = "next" THEN query.direction ELSE Invert(query.direction)
    BY DEF Reading
  <1>7. p # None
    BY <1>5, NoneAssumption
  <1>8. asked \in Asked
    BY DEF Asked
  <1>9. QED
    BY <1>3, <1>5, <1>6, <1>7, <1>8 DEF Turns, SameTable, tableVars

-----------------------------------------------------------------------------
\* Steps that read no page and write no row.

LEMMA StableKept ==
  ASSUME TableOK, StableOK, SameTable, stable' = stable, returned' = returned
  PROVE  StableOK'
  <1>1. /\ \A row : PositionOf(row)' = PositionOf(row) /\ (Matches(row)' <=> Matches(row))
        /\ users' = users
    BY TableKept DEF SameTable
  <1>2. QED
    BY <1>1 DEF StableOK

LEMMA TrailKept ==
  ASSUME TableOK, TrailOK, SameTable, trail' = trail, data' = data, returned' = returned,
         requests' > 0 => requests > 0
  PROVE  TrailOK'
  <1>1. query' = query /\ Listed' = Listed
    BY TableKept DEF SameTable
  <1>2. \A e : EntryOK(e) => EntryOK(e)'
    BY <1>1, SegmentsKept DEF EntryOK
  <1>3. \A e, f : PairOK(e, f) => PairOK(e, f)'
    BY <1>1, SegmentsKept DEF PairOK
  <1>4. \A i \in 1 .. Len(trail) : EntryOK(trail[i])'
    BY <1>2 DEF TrailOK
  <1>5. \A i \in 1 .. Len(trail) - 1 : PairOK(trail[i], trail[i + 1])'
    BY <1>3 DEF TrailOK
  <1>6. QED
    BY <1>4, <1>5 DEF TrailOK

\* A cursor of another context is refused.
LEMMA RefusedKept ==
  ASSUME PagingInv, SameTable, 0 < requests, requests < MaxRequests, requests' = requests + 1,
         UNCHANGED <<step, data, flags, cursors, returned, trail, stable, changes>>
  PROVE  PagingInv'
  <1>1. TableOK /\ WalkOK /\ StableOK /\ EndsOK /\ TrailOK
    BY DEF PagingInv
  <1>2. TableOK' /\ query' = query /\ \A row : PositionOf(row)' = PositionOf(row)
    BY <1>1, TableKept DEF SameTable
  <1>3. requests' \in 0 .. MaxRequests /\ requests' # 0
    BY <1>1, PaginationAssumption DEF WalkOK
  <1>4. WalkOK'
    BY <1>1, <1>2, <1>3 DEF WalkOK, Context
  <1>5. EndsOK'
    BY <1>1, <1>2 DEF EndsOK
  <1>6. QED
    BY <1>1, <1>2, <1>4, <1>5, StableKept, TrailKept DEF PagingInv

LEMMA OldCursorRefused ==
  ASSUME PagingInv, NEW row
  PROVE  ~Accepts(OldCursor(row))
  <1>1. query.direction \in {"asc", "desc"}
    BY QueryIs DEF PagingInv, WalkOK, Directions
  <1>2. OldCursor(row).direction = Invert(query.direction)
    BY DEF OldCursor, EncodeListUsersCursor
  <1>3. QED
    BY <1>1, <1>2 DEF Accepts, Invert

LEMMA ListFromKept ==
  ASSUME PagingInv, NEW side \in {"next", "previous"},
         ListFrom(IF side = "next" THEN "after" ELSE "before", cursors[side])
  PROVE  PagingInv'
  <1>1. PICK asked : asked = IF side = "next" THEN "after" ELSE "before"
    OBVIOUS
  <1>2. CASE Accepts(cursors[side])
    <2>1. Page(asked, cursors[side].position)
      BY <1>1, <1>2 DEF ListFrom
    <2>2. Turns(asked, cursors[side].position)
      BY <1>1, <2>1, CursorTurns DEF ListFrom
    <2>3. QED
      BY <2>2, TurnKept
  <1>3. CASE ~Accepts(cursors[side])
    BY <1>3, RefusedKept DEF ListFrom, SameTable, tableVars
  <1>4. QED
    BY <1>2, <1>3

LEMMA ProbeKept ==
  ASSUME PagingInv, NEW side \in {"next", "previous"}, step = "probing",
         NEW answer \in BOOLEAN, flags' = [flags EXCEPT ![side] = answer],
         answer = IF side = "next" THEN RowBeyond(query.direction, Last(data))
                                   ELSE RowBeyond(Invert(query.direction), Head(data)),
         UNCHANGED <<tableVars, query, step, data, cursors, historyVars>>
  PROVE  PagingInv'
  <1>1. TableOK /\ WalkOK /\ StableOK /\ EndsOK /\ TrailOK
    BY DEF PagingInv
  <1>2. SameTable /\ UNCHANGED <<returned, stable, trail, changes, requests>>
    BY DEF SameTable, tableVars, historyVars
  <1>3. TableOK' /\ query' = query /\ \A row : PositionOf(row)' = PositionOf(row)
    BY <1>1, <1>2, TableKept DEF SameTable
  <1>4. answer \in Flags /\ flags \in [previous : Flags, next : Flags]
    BY <1>1, Zenon DEF Flags, WalkOK
  <1>5. flags' \in [previous : Flags, next : Flags]
    BY <1>4
  <1>6. WalkOK'
    BY <1>1, <1>2, <1>3, <1>5 DEF WalkOK, Context
  <1>7. /\ query.direction \in Directions /\ data \in Seq(Positions) /\ data # <<>>
        /\ Last(data) \in Positions /\ Head(data) \in Positions
    BY <1>1, QueryIs, EndsAre DEF WalkOK
  <1>8. \A row \in stable : PositionOf(row) \in Listed /\ PositionOf(row) \in Positions
    BY <1>1, RowPlaced DEF StableOK, Listed
  <1>9. flags'[side] = answer /\ \A other \in {"next", "previous"} \ {side} : flags'[other] = flags[other]
    BY <1>4
  <1>10. ASSUME side = "next", answer = FALSE
         PROVE  \A row \in stable : ~Comes(query.direction, Last(data), PositionOf(row))
    <2>1. ~RowBeyond(query.direction, Last(data))
      BY <1>10
    <2>2. QED
      BY <1>1, <1>7, <1>8, <2>1, ProbeIs DEF WalkOK
  <1>11. ASSUME side = "previous", answer = FALSE
         PROVE  \A row \in stable : ~Comes(query.direction, PositionOf(row), Head(data))
    <2>1. ~RowBeyond(Invert(query.direction), Head(data))
      BY <1>11
    <2>2. \A row \in stable : ~Comes(Invert(query.direction), Head(data), PositionOf(row))
      BY <1>1, <1>7, <1>8, <2>1, ProbeIs, InvertIs DEF WalkOK
    <2>3. QED
      BY <1>7, <1>8, <2>2, PositionsInOrder DEF InOrder
  <1>12. \A other \in {"next", "previous"} :
            Denied(other, step', flags', cursors') =>
               (other = side /\ answer = FALSE) \/ Denied(other, step, flags, cursors)
    BY <1>9, Zenon DEF Denied
  <1>13. EndsOK'
    BY <1>1, <1>2, <1>3, <1>10, <1>11, <1>12 DEF EndsOK
  <1>14. QED
    BY <1>1, <1>2, <1>3, <1>6, <1>13, StableKept, TrailKept DEF PagingInv

LEMMA AnswerKept ==
  ASSUME PagingInv, Answer
  PROVE  PagingInv'
  <1>1. TableOK /\ WalkOK /\ StableOK /\ EndsOK /\ TrailOK
    BY DEF PagingInv
  <1>2. SameTable /\ UNCHANGED <<returned, stable, trail, changes, requests, data, flags, query>>
    BY DEF SameTable, tableVars, historyVars, Answer
  <1>3. TableOK' /\ \A row : PositionOf(row)' = PositionOf(row)
    BY <1>1, <1>2, TableKept
  <1>4. PICK first, last : /\ first = EncodeListUsersCursor(Context, Head(data))
                           /\ last = EncodeListUsersCursor(Context, Last(data))
    OBVIOUS
  <1>5. data # <<>> /\ first \in Cursors \ {None} /\ last \in Cursors \ {None}
    <2>1. query.sort \in Sorts /\ query.direction \in Directions /\ data \in Seq(Positions) /\ data # <<>>
      BY <1>1 DEF Answer, WalkOK, Queries
    <2>2. Head(data) \in Positions /\ Last(data) \in Positions
      BY <1>1, <2>1, EndsAre DEF WalkOK
    <2>3. QED
      BY <1>4, <2>1, <2>2, NoneAssumption DEF Cursors, Context, EncodeListUsersCursor
  <1>6. cursors' = [previous |-> IF flags.previous THEN first ELSE None,
                    next |-> IF flags.next THEN last ELSE None]
    BY <1>4 DEF Answer
  <1>7. /\ cursors' \in [previous : Cursors, next : Cursors]
        /\ cursors'.next \in {None, last} /\ cursors'.previous \in {None, first}
        /\ cursors'.next = None => ~flags.next
        /\ cursors'.previous = None => ~flags.previous
    <2>1. None \in Cursors
      BY DEF Cursors
    <2>2. QED
      BY <1>5, <1>6, <2>1
  <1>8. WalkOK'
    <2>1. first' = first /\ step' = "idle" /\ requests # 0
      BY <1>1 DEF Answer, WalkOK
    <2>2. /\ EncodeListUsersCursor(Context, Head(data))' = first
          /\ EncodeListUsersCursor(Context, Last(data))' = last
      BY <1>2, <1>4 DEF Context, EncodeListUsersCursor
    <2>3. QED
      BY <1>1, <1>2, <1>5, <1>7, <2>1, <2>2 DEF WalkOK
  <1>9. /\ cursors'.next = None => flags.next = FALSE
        /\ cursors'.previous = None => flags.previous = FALSE
    <2>1. flags.next \in BOOLEAN /\ flags.previous \in BOOLEAN
      BY <1>1 DEF Answer, WalkOK, Flags
    <2>2. QED
      BY <1>7, <2>1
  <1>10. \A side \in {"next", "previous"} :
            Denied(side, step', flags', cursors') => Denied(side, step, flags, cursors)
    <2>1. step = "probing" /\ step' = "idle"
      BY DEF Answer
    <2>2. QED
      BY <1>9, <2>1, Zenon DEF Denied
  <1>11. EndsOK'
    BY <1>1, <1>2, <1>3, <1>10 DEF EndsOK
  <1>12. QED
    BY <1>1, <1>2, <1>3, <1>8, <1>11, StableKept, TrailKept DEF PagingInv
LEMMA WalkKept ==
  ASSUME PagingInv, Walk
  PROVE  PagingInv'
  <1>1. CASE List
    BY <1>1, ListTurns, TurnKept
  <1>2. CASE ListFrom("after", cursors.next)
    <2>1. ListFrom(IF "next" = "next" THEN "after" ELSE "before", cursors["next"])
      BY <1>2
    <2>2. QED
      BY <2>1, ListFromKept
  <1>3. CASE ListFrom("before", cursors.previous)
    <2>1. ListFrom(IF "previous" = "next" THEN "after" ELSE "before", cursors["previous"])
      BY <1>3
    <2>2. QED
      BY <2>1, ListFromKept
  <1>4. ASSUME NEW row \in users, NEW cursorDirection \in {"after", "before"},
               ListFrom(cursorDirection, OldCursor(row))
        PROVE  PagingInv'
    BY <1>4, OldCursorRefused, RefusedKept DEF ListFrom, SameTable, tableVars
  <1>5. CASE ProbePrevious
    <2>1. PICK answer \in BOOLEAN : answer = RowBeyond(Invert(query.direction), Head(data))
      BY Zenon DEF RowBeyond
    <2>2. flags' = [flags EXCEPT !["previous"] = answer]
      BY <1>5, <2>1 DEF ProbePrevious
    <2>3. answer = IF "previous" = "next" THEN RowBeyond(query.direction, Last(data))
                                          ELSE RowBeyond(Invert(query.direction), Head(data))
      BY <2>1
    <2>4. QED
      BY <1>5, <2>2, <2>3, ProbeKept DEF ProbePrevious
  <1>6. CASE ProbeNext
    <2>1. PICK answer \in BOOLEAN : answer = RowBeyond(query.direction, Last(data))
      BY Zenon DEF RowBeyond
    <2>2. flags' = [flags EXCEPT !["next"] = answer]
      BY <1>6, <2>1 DEF ProbeNext
    <2>3. answer = IF "next" = "next" THEN RowBeyond(query.direction, Last(data))
                                      ELSE RowBeyond(Invert(query.direction), Head(data))
      BY <2>1
    <2>4. QED
      BY <1>6, <2>2, <2>3, ProbeKept DEF ProbeNext
  <1>7. CASE Answer
    BY <1>7, AnswerKept
  <1>8. QED
    BY <1>1, <1>2, <1>3, <1>4, <1>5, <1>6, <1>7 DEF Walk

-----------------------------------------------------------------------------
\* Steps of other requests.

LEMMA WriteKept ==
  ASSUME PagingInv, NEW table, Write(table), TableOK'
  PROVE  PagingInv'
  <1>1. TableOK /\ WalkOK /\ StableOK /\ EndsOK /\ TrailOK
    BY DEF PagingInv
  <1>2. /\ UNCHANGED <<query, step, data, flags, cursors, returned, requests>>
        /\ users' = table /\ stable' = stable \cap table
        /\ trail' = [i \in DOMAIN trail |-> [trail[i] EXCEPT !.clean = FALSE]]
    BY DEF Write, walkVars
  <1>3. changes' \in 0 .. MaxChanges
    BY <1>1, PaginationAssumption DEF Write, WalkOK
  <1>4. \A row : PositionOf(row)' = PositionOf(row) /\ (Matches(row)' <=> Matches(row))
    BY <1>2 DEF PositionOf, Matches, Millis
  <1>5. WalkOK'
    <2>1. requests = 0 => trail' = <<>> /\ stable' = {}
      BY <1>1, <1>2 DEF WalkOK
    <2>2. QED
      BY <1>1, <1>2, <1>3, <2>1 DEF WalkOK, Context
  <1>6. StableOK'
    BY <1>1, <1>2, <1>4 DEF StableOK
  <1>7. EndsOK'
    BY <1>1, <1>2, <1>4 DEF EndsOK
  <1>8. TrailOK'
    <2>1. PICK no \in BOOLEAN : no = FALSE
      BY Zenon
    <2>2. PICK was, new : was = trail /\ new = trail'
      OBVIOUS
    <2>3. new = [i \in DOMAIN was |-> [was[i] EXCEPT !.clean = no]]
      BY <1>2, <2>1, <2>2, Zenon
    <2>4. was \in Seq(Entries) /\ DOMAIN was = 1 .. Len(was)
      BY <1>1, <2>2 DEF TrailOK
    <2>5. ASSUME NEW i \in 1 .. Len(was)
          PROVE  /\ new[i] \in Entries /\ new[i].data = was[i].data /\ new[i].clean = no
      <3>1. PICK entry \in Entries : entry = was[i]
        BY <2>4
      <3>2. new[i] = [entry EXCEPT !.clean = no]
        BY <2>3, <2>4, <3>1
      <3>3. QED
        BY <2>1, <3>1, <3>2 DEF Entries
    <2>6. new \in Seq(Entries) /\ Len(new) = Len(was) /\ (was # <<>> => new # <<>>)
      <3>1. DOMAIN new = 1 .. Len(was)
        BY <2>3, <2>4
      <3>2. new = [i \in 1 .. Len(was) |-> new[i]]
        BY <2>3, <2>4
      <3>3. new \in Seq(Entries) /\ Len(new) = Len(was)
        BY <2>4, <2>5, <3>1, <3>2
      <3>4. QED
        BY <2>4, <3>3
    <2>7. \A e, f : EntryOK(e) /\ f.data = e.data /\ ~f.clean => EntryOK(f)'
      BY <1>2 DEF EntryOK
    <2>8. \A e, f, g, h : PairOK(e, g) /\ f.data = e.data /\ ~f.clean /\ h.data = g.data => PairOK(f, h)'
      BY DEF PairOK
    <2>9. \A i \in 1 .. Len(new) : EntryOK(new[i])'
      <3>1. \A i \in 1 .. Len(was) : EntryOK(was[i])
        BY <1>1, <2>2 DEF TrailOK
      <3>2. QED
        BY <2>1, <2>5, <2>6, <2>7, <3>1
    <2>10. ASSUME NEW i \in 1 .. Len(new) - 1
           PROVE  PairOK(new[i], new[i + 1])'
      <3>1. i \in 1 .. Len(was) /\ i + 1 \in 1 .. Len(was)
        BY <2>4, <2>6
      <3>2. PairOK(was[i], was[i + 1])
        BY <1>1, <2>2, <2>6 DEF TrailOK
      <3>3. QED
        BY <2>1, <2>5, <2>8, <3>1, <3>2
    <2>11. requests > 0 => new # <<>> /\ new[Len(new)].data = data
      <3> SUFFICES ASSUME requests > 0 PROVE new # <<>> /\ new[Len(new)].data = data
        OBVIOUS
      <3>1. was # <<>> /\ was[Len(was)].data = data
        BY <1>1, <2>2 DEF TrailOK
      <3>2. Len(was) \in 1 .. Len(was)
        BY <2>4, <3>1
      <3>3. QED
        BY <2>5, <2>6, <3>1, <3>2
    <2>12. Len(new) <= 3
      BY <1>1, <2>2, <2>6 DEF TrailOK
    <2>13. QED
      BY <1>2, <2>2, <2>6, <2>9, <2>10, <2>11, <2>12 DEF TrailOK
  <1>9. QED
    BY <1>5, <1>6, <1>7, <1>8 DEF PagingInv

\* The table after each of the statements.
LEMMA RegisterKept ==
  ASSUME PagingInv, NEW u \in Ids, NEW k \in Keys, Register(u, k)
  PROVE  PagingInv'
  <1>1. PICK new : new = Row(u, k)
    OBVIOUS
  <1>2. PICK table : table = users \cup {new} /\ Write(table)
                     /\ \A other \in users : other.id # u /\ other.email # u
    <2>1. PICK table \in Create(users, new, {"id", "email"}) : Write(table)
      BY <1>1 DEF Register
    <2>2. \A other \in users : \A field \in {"id", "email"} : other[field] # new[field]
      BY <2>1 DEF Create
    <2>3. table = users \cup {new}
      BY <2>1 DEF Create
    <2>4. QED
      BY <1>1, <2>1, <2>2, <2>3, RowIs
  <1>3. TableOK /\ users' = table /\ query' = query /\ spent' = spent /\ u \notin spent
    BY <1>2 DEF PagingInv, Write, walkVars, Register
  <1>4. new.id = u /\ new.email = u /\ new.value = k /\ new \in [id : Ids, email : Ids, value : Keys]
    BY <1>1 DEF Row
  <1>5. PositionOf(new) = [id |-> new.id, value |-> new.value]
    <2>1. query.sort = "createdAt" => new.value = Millis(new.value)
      BY <1>4 DEF Register, Values
    <2>2. QED
      BY <2>1, StoredPosition
  <1>6. \A row : PositionOf(row)' = PositionOf(row)
    BY <1>3 DEF PositionOf, Millis
  <1>7. TableOK'
    <2>1. IsFiniteSet(users')
      BY <1>2, <1>3, FS_AddElement DEF TableOK
    <2>2. users' \subseteq [id : Ids, email : Ids, value : Keys]
      BY <1>2, <1>3, <1>4 DEF TableOK
    <2>3. \A row, other \in users' : row.id = other.id \/ row.email = other.email => row = other
      BY <1>2, <1>3, <1>4 DEF TableOK
    <2>4. \A row \in users' : PositionOf(row)' = [id |-> row.id, value |-> row.value]
      BY <1>2, <1>3, <1>5, <1>6 DEF TableOK
    <2>5. spent' \subseteq Ids \ {row.id : row \in users'}
      BY <1>2, <1>3, <1>4 DEF TableOK
    <2>6. QED
      BY <2>1, <2>2, <2>3, <2>4, <2>5 DEF TableOK
  <1>8. QED
    BY <1>2, <1>7, WriteKept

LEMMA RenameKept ==
  ASSUME PagingInv, NEW u \in Ids, NEW k \in Keys, Rename(u, k)
  PROVE  PagingInv'
  <1>1. PICK table \in Update(users, u, [value |-> k]) : Write(table)
    BY DEF Rename
  <1>2. PICK row \in users : row.id = u
           /\ table = (users \ {row}) \cup
                        {[field \in DOMAIN row |-> IF field \in DOMAIN [value |-> k]
                                                   THEN [value |-> k][field] ELSE row[field]]}
    BY <1>1 DEF Update, FindUnique
  <1>3. TableOK /\ users' = table /\ query' = query /\ spent' = spent
    BY <1>1 DEF PagingInv, Write, walkVars, Rename
  <1>4. row = [id |-> row.id, email |-> row.email, value |-> row.value]
        /\ row.id \in Ids /\ row.email \in Ids
    BY <1>3 DEF TableOK
  <1>5. PICK new : new = [id |-> row.id, email |-> row.email, value |-> k]
    OBVIOUS
  <1>6. table = (users \ {row}) \cup {new}
    <2>1. DOMAIN row = {"id", "email", "value"} /\ DOMAIN [value |-> k] = {"value"}
      BY <1>4
    <2>2. [field \in DOMAIN row |-> IF field \in DOMAIN [value |-> k]
                                    THEN [value |-> k][field] ELSE row[field]] = new
      BY <1>4, <1>5, <2>1
    <2>3. QED
      BY <1>2, <2>2
  <1>7. /\ new.id = row.id /\ new.email = row.email /\ new.value = k
        /\ new \in [id : Ids, email : Ids, value : Keys]
    BY <1>4, <1>5
  <1>8. PositionOf(new) = [id |-> new.id, value |-> new.value]
    BY StoredPosition DEF Rename
  <1>9. \A other : PositionOf(other)' = PositionOf(other)
    BY <1>3 DEF PositionOf, Millis
  <1>10. TableOK'
    <2>1. IsFiniteSet(users')
      BY <1>3, <1>6, FS_AddElement, FS_RemoveElement DEF TableOK
    <2>2. users' \subseteq [id : Ids, email : Ids, value : Keys]
      BY <1>3, <1>6, <1>7 DEF TableOK
    <2>3. \A one, other \in users' : one.id = other.id \/ one.email = other.email => one = other
      BY <1>3, <1>6, <1>7 DEF TableOK
    <2>4. \A other \in users' : PositionOf(other)' = [id |-> other.id, value |-> other.value]
      BY <1>3, <1>6, <1>8, <1>9 DEF TableOK
    <2>5. spent' \subseteq Ids \ {other.id : other \in users'}
      BY <1>3, <1>6, <1>7 DEF TableOK
    <2>6. QED
      BY <2>1, <2>2, <2>3, <2>4, <2>5 DEF TableOK
  <1>11. QED
    BY <1>1, <1>10, WriteKept

LEMMA DeleteKept ==
  ASSUME PagingInv, NEW u \in Ids, DeleteUser(u)
  PROVE  PagingInv'
  <1>1. PICK table \in Delete(users, u) : Write(table)
    BY DEF DeleteUser
  <1>2. PICK row \in users : row.id = u /\ table = users \ {row}
    BY <1>1 DEF Delete, FindUnique
  <1>3. TableOK /\ users' = table /\ query' = query /\ spent' = spent \cup {u}
    BY <1>1 DEF PagingInv, Write, walkVars, DeleteUser
  <1>4. \A other : PositionOf(other)' = PositionOf(other)
    BY <1>3 DEF PositionOf, Millis
  <1>5. TableOK'
    <2>1. IsFiniteSet(users')
      BY <1>2, <1>3, FS_RemoveElement DEF TableOK
    <2>2. \A other \in users' : PositionOf(other)' = [id |-> other.id, value |-> other.value]
      BY <1>2, <1>3, <1>4 DEF TableOK
    <2>3. \A other \in users' : other \in users /\ other.id # u
      BY <1>2, <1>3 DEF TableOK
    <2>4. spent' \subseteq Ids \ {other.id : other \in users'}
      BY <1>3, <2>3 DEF TableOK
    <2>5. QED
      BY <1>3, <2>1, <2>2, <2>3, <2>4 DEF TableOK
  <1>6. QED
    BY <1>1, <1>5, WriteKept
LEMMA PagingStays ==
  ASSUME PagingInv, UNCHANGED vars
  PROVE  PagingInv'
  <1>1. /\ TableOK /\ WalkOK /\ StableOK /\ EndsOK /\ TrailOK
        /\ SameTable /\ UNCHANGED <<walkVars, historyVars>>
    BY DEF PagingInv, vars, tableVars, walkVars, SameTable
  <1>2. /\ UNCHANGED <<users, query, step, data, flags, cursors>>
        /\ UNCHANGED <<returned, stable, trail, changes, requests>>
    BY <1>1 DEF SameTable, walkVars, historyVars
  <1>3. TableOK' /\ \A row : PositionOf(row)' = PositionOf(row)
    BY <1>1, TableKept
  <1>4. WalkOK'
    BY <1>1, <1>2 DEF WalkOK, Context
  <1>5. StableOK'
    BY <1>1, <1>2, StableKept
  <1>6. EndsOK'
    BY <1>1, <1>2, <1>3 DEF EndsOK
  <1>7. TrailOK'
    BY <1>1, <1>2, TrailKept
  <1>8. QED
    BY <1>3, <1>4, <1>5, <1>6, <1>7 DEF PagingInv

LEMMA PagingStep ==
  ASSUME PagingInv, [Next]_vars
  PROVE  PagingInv'
  <1>1. CASE Walk
    BY <1>1, WalkKept
  <1>2. ASSUME NEW u \in Ids, NEW k \in Keys, Register(u, k)
        PROVE  PagingInv'
    BY <1>2, RegisterKept
  <1>3. ASSUME NEW u \in Ids, NEW k \in Keys, Rename(u, k)
        PROVE  PagingInv'
    BY <1>3, RenameKept
  <1>4. ASSUME NEW u \in Ids, DeleteUser(u)
        PROVE  PagingInv'
    BY <1>4, DeleteKept
  <1>5. CASE UNCHANGED vars
    BY <1>5, PagingStays
  <1>6. QED
    BY <1>1, <1>2, <1>3, <1>4, <1>5 DEF Next

\* The table has one order, cursors are the ends of the page they came with, and
\* each page continues the one before it: PrismaUsersRepository.list.
THEOREM PagingCorrect == Spec => []PagingInv
  <1>1. QED
    BY PagingInit, PagingStep, PTL DEF Spec

-----------------------------------------------------------------------------
\* The properties of the listing.

LEMMA PagingTypes ==
  ASSUME PagingInv
  PROVE  TypeOK
  <1>1. TableOK /\ WalkOK /\ StableOK
    BY DEF PagingInv
  <1>2. ASSUME data # <<>>
        PROVE  Head(data) \in ToSet(data) /\ Last(data) \in ToSet(data)
    <2>1. data \in Seq(Positions) /\ Sorted(query.direction, data) /\ query.direction \in Directions
      BY <1>1, QueryIs DEF WalkOK
    <2>2. QED
      BY <1>2, <2>1, EndsAre DEF EndOf
  <1>3. \A side \in {"previous", "next"} :
           /\ flags[side] \in BOOLEAN \cup {None}
           /\ cursors[side] # None => cursors[side].position \in ToSet(data)
    <2>1. flags.previous \in BOOLEAN \cup {None} /\ flags.next \in BOOLEAN \cup {None}
      BY <1>1 DEF WalkOK, Flags
    <2>2. cursors.next # None => cursors.next.position \in ToSet(data)
      BY <1>1, <1>2 DEF WalkOK, EncodeListUsersCursor
    <2>3. cursors.previous # None => cursors.previous.position \in ToSet(data)
      BY <1>1, <1>2 DEF WalkOK, EncodeListUsersCursor
    <2>4. QED
      BY <2>1, <2>2, <2>3
  <1>4. stable \subseteq users
    BY <1>1 DEF StableOK
  <1>5. QED
    BY <1>1, <1>3, <1>4 DEF TypeOK, TableOK, WalkOK

\* Ids and emails stay unique, no page is longer than the limit asked for, and
\* every cursor of a response points into its page.
THEOREM PagesTyped == Spec => []TypeOK
  <1>1. QED
    BY PagingCorrect, PagingTypes, PTL

LEMMA PagingSkipsNothing ==
  ASSUME PagingInv
  PROVE  NothingSkipped
  <1> SUFFICES ASSUME NEW row \in stable, NEW p \in returned, NEW q \in returned,
                      Earlier(p, row), Earlier(row, q)
               PROVE  \E r \in returned : r.id = row.id
    BY DEF NothingSkipped
  <1>1. TableOK /\ StableOK /\ row \in users /\ "asc" \in Directions
    BY DEF PagingInv, StableOK, Directions
  <1>2. Comes("asc", p, row) /\ Comes("asc", row, q)
    BY DEF Earlier, Comes
  <1>3. Comes("asc", p, PositionOf(row)) /\ Comes("asc", PositionOf(row), q)
    BY <1>1, <1>2, RowComes
  <1>4. PositionOf(row) \in returned
    BY <1>1, <1>3 DEF StableOK
  <1>5. QED
    BY <1>1, <1>4, RowPlaced

\* Between two users that the walk has returned, no user that has not changed
\* is missing, whatever the other requests did to the table meanwhile.
THEOREM SkipsNothing == Spec => []NothingSkipped
  <1>1. QED
    BY PagingCorrect, PagingSkipsNothing, PTL

LEMMA PagingEnds ==
  ASSUME PagingInv
  PROVE  EndsAreReal
  <1> SUFFICES ASSUME step = "idle", data # <<>>, NEW row \in stable
               PROVE  /\ cursors.next = None =>
                            ~Precedes(OrderBy(query.direction), Last(data), row)
                      /\ cursors.previous = None =>
                            ~Precedes(OrderBy(query.direction), row, Head(data))
    BY DEF EndsAreReal
  <1>1. TableOK /\ EndsOK /\ row \in users /\ query.direction \in Directions
    BY QueryIs DEF PagingInv, WalkOK, StableOK
  <1>2. cursors.next = None => ~Comes(query.direction, Last(data), PositionOf(row))
    BY <1>1 DEF EndsOK, Denied
  <1>3. cursors.previous = None => ~Comes(query.direction, PositionOf(row), Head(data))
    BY <1>1 DEF EndsOK, Denied
  <1>4. QED
    BY <1>1, <1>2, <1>3, RowComes DEF Comes

\* A page without a cursor to one side has no unchanged user on that side,
\* although the probes are later statements than the page.
THEOREM EndsCorrect == Spec => []EndsAreReal
  <1>1. QED
    BY PagingCorrect, PagingEnds, PTL

LEMMA PagingRoundTrip ==
  ASSUME PagingInv
  PROVE  RoundTrip
  <1> SUFFICES ASSUME Len(trail) = 3, trail[1].clean, Opposite(trail[2].asked, trail[3].asked)
               PROVE  trail[3].data = trail[1].data
    BY DEF RoundTrip
  <1>1. TableOK /\ WalkOK /\ TrailOK /\ query \in Queries
    BY DEF PagingInv, WalkOK
  <1>2. PICK one \in Entries : one = trail[1]
    BY <1>1 DEF TrailOK
  <1>3. PICK two \in Entries : two = trail[2]
    <2>1. trail \in Seq(Entries) /\ 2 \in 1 .. Len(trail)
      BY <1>1 DEF TrailOK
    <2>2. trail[2] \in Entries
      BY <2>1
    <2>3. QED
      BY <2>2
  <1>4. PICK three \in Entries : three = trail[3]
    BY <1>1 DEF TrailOK
  <1>5. EntryOK(one) /\ EntryOK(three) /\ PairOK(one, two) /\ PairOK(two, three)
    <2>1. 1 \in 1 .. Len(trail) /\ 3 \in 1 .. Len(trail)
      OBVIOUS
    <2>2. 1 \in 1 .. Len(trail) - 1 /\ 2 \in 1 .. Len(trail) - 1 /\ 1 + 1 = 2 /\ 2 + 1 = 3
      OBVIOUS
    <2>3. PairOK(one, trail[1 + 1]) /\ PairOK(two, trail[2 + 1])
      BY <1>1, <1>2, <1>3, <2>2 DEF TrailOK
    <2>4. QED
      BY <1>1, <1>2, <1>3, <1>4, <2>1, <2>2, <2>3 DEF TrailOK
  <1>6. PICK direction \in Directions : direction = Reading(two.asked)
    BY <1>1, QueryIs DEF Reading
  <1>7. Reading(three.asked) = Invert(direction)
    <2>1. Opposite(two.asked, three.asked)
      BY <1>3, <1>4
    <2>2. \/ two.asked = "after" /\ three.asked = "before"
          \/ two.asked = "before" /\ three.asked = "after"
      BY <2>1 DEF Opposite
    <2>3. QED
      BY <1>1, <1>6, <2>2, QueryIs, InvertIs DEF Reading
  <1>8. Reading(one.asked) \in {direction, Invert(direction)}
    BY <1>1, <1>6, QueryIs, InvertIs DEF Reading
  <1>9. one.data \in Seq(Positions) /\ three.data \in Seq(Positions)
    BY DEF Entries
  <1>10. PICK S, T, U : S = ToSet(one.data) /\ T = ToSet(two.data) /\ U = ToSet(three.data)
    OBVIOUS
  <1>11. /\ Segment(Reading(one.asked), S) /\ Linked(direction, S, T)
         /\ Linked(Invert(direction), T, U)
    BY <1>2, <1>5, <1>6, <1>7, <1>10 DEF EntryOK, PairOK
  <1>12. /\ IsFiniteSet(S) /\ Cardinality(S) <= query.limit
         /\ IsFiniteSet(U) /\ Cardinality(U) <= query.limit
    BY <1>1, <1>5, <1>9, <1>10, QueryIs, SortedCounts DEF EntryOK
  <1>13. S = U
    BY <1>1, <1>8, <1>11, <1>12, ListedPositions, QueryIs, ThereAndBack
  <1>14. QED
    BY <1>1, <1>2, <1>4, <1>5, <1>9, <1>10, <1>13, QueryIs, SortedSame DEF EntryOK

\* A step with nextCursor and one back with previousCursor, or the other way
\* round, return the page again while nothing was written in between.
THEOREM RoundTripCorrect == Spec => []RoundTrip
  <1>1. QED
    BY PagingCorrect, PagingRoundTrip, PTL

LEMMA PagingRepeatsNothing ==
  ASSUME PagingInv
  PROVE  NoRepeats
  <1>1. StableOK /\ TrailOK
    BY DEF PagingInv
  <1>2. ASSUME NEW i \in 1 .. Len(trail) - 1, NEW p \in ToSet(trail[i].data),
               NEW q \in ToSet(trail[i + 1].data), NEW row \in stable,
               p.id = row.id, q.id = row.id
        PROVE  FALSE
    <2>1. i \in 1 .. Len(trail) /\ i + 1 \in 1 .. Len(trail)
      BY <1>1 DEF TrailOK
    <2>2. EntryOK(trail[i]) /\ EntryOK(trail[i + 1]) /\ PairOK(trail[i], trail[i + 1])
      BY <1>1, <2>1 DEF TrailOK
    <2>3. p \in returned /\ q \in returned
      BY <2>2 DEF EntryOK
    <2>4. p = PositionOf(row) /\ q = PositionOf(row)
      BY <1>1, <1>2, <2>3 DEF StableOK
    <2>5. QED
      BY <2>2, <2>4 DEF PairOK
  <1>3. QED
    BY <1>2 DEF NoRepeats

\* A page and the one after it have no unchanged user in common.
THEOREM RepeatsNothing == Spec => []NoRepeats
  <1>1. QED
    BY PagingCorrect, PagingRepeatsNothing, PTL
=============================================================================
