---------------------------- MODULE PrismaQueries ---------------------------
(***************************************************************************)
(* The statements the repositories send through the generated client, as   *)
(* functions of a table.  A table is a set of rows, a row a record of its  *)
(* columns.  A filter is an AND of ORs of conditions that all hold, which  *)
(* is the shape of every filter in src: a set of sets of sets of           *)
(* conditions.  A statement that can be refused or can find nothing gives  *)
(* the set of its results, with one element or none.                       *)
(***************************************************************************)
EXTENDS Integers, Sequences, FiniteSets, SequencesExt

\* { field: value }, { field: { gt: value } } and { field: { lt: value } }.
Equals(field, value) == [field |-> field, is |-> "equals", value |-> value]
Greater(field, value) == [field |-> field, is |-> "gt", value |-> value]
Less(field, value) == [field |-> field, is |-> "lt", value |-> value]

Holds(condition, row) ==
    LET value == row[condition.field] IN
    \/ condition.is = "equals" /\ value = condition.value
    \/ condition.is = "gt" /\ value > condition.value
    \/ condition.is = "lt" /\ value < condition.value

Everything == {}

Satisfies(row, where) ==
    \A clause \in where : \E conditions \in clause :
       \A condition \in conditions : Holds(condition, row)

\* orderBy: the first column that differs decides, in its own direction.
Precedes(orderBy, row, other) ==
    \E i \in DOMAIN orderBy :
       LET column == orderBy[i].column IN
       /\ \A j \in 1 .. i - 1 : row[orderBy[j].column] = other[orderBy[j].column]
       /\ IF orderBy[i].direction = "asc" THEN row[column] < other[column]
                                          ELSE row[column] > other[column]

\* The i-th row of the answer has i - 1 of the rows found before it.
FindMany(table, where, orderBy, take) ==
    LET rows == {row \in table : Satisfies(row, where)}
        before(row) == {other \in rows : Precedes(orderBy, other, row)}
        length == IF take < Cardinality(rows) THEN take ELSE Cardinality(rows)
    IN  [i \in 1 .. length |-> CHOOSE row \in rows : Cardinality(before(row)) = i - 1]

FindFirst(table, where, orderBy) == ToSet(FindMany(table, where, orderBy, 1))

FindUnique(table, field, value) == {row \in table : row[field] = value}

\* Mutant: the unique indexes are missing.
CreateAnyway(table, row, unique) == {table \cup {row}}

\* P2002: a unique column has the value already.
Create(table, row, unique) ==
    IF \E other \in table : \E field \in unique : other[field] = row[field]
    THEN {}
    ELSE {table \cup {row}}

\* P2025: no row has the id.  data gives the columns that change.
Update(table, id, data) ==
    {(table \ {row}) \cup {[field \in DOMAIN row |->
                              IF field \in DOMAIN data THEN data[field] ELSE row[field]]} :
       row \in FindUnique(table, "id", id)}

Delete(table, id) == {table \ {row} : row \in FindUnique(table, "id", id)}
=============================================================================
