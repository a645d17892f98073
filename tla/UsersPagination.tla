-------------------------- MODULE UsersPagination --------------------------
(***************************************************************************)
(* GET and QUERY /users: one client walks through the users page by page   *)
(* with the cursors it is given, while accounts are registered, renamed    *)
(* and deleted.  A listing is three statements without a transaction: the  *)
(* page, then two concurrent probes for rows on either side of it.         *)
(***************************************************************************)
EXTENDS PrismaQueries

CONSTANTS
    Ids,         \* user ids, as numbers: PostgreSQL orders them
    Keys,        \* values of the column the walk sorts by, as numbers
    PerMilli,    \* ticks of created_at in a millisecond
    Limits,      \* page sizes asked for
    None,        \* null, undefined
    MaxChanges,  \* bound: changes of the table
    MaxRequests  \* bound: requests of the walk

ASSUME PaginationAssumption ==
    /\ IsFiniteSet(Ids) /\ Ids \subseteq Nat /\ Keys \subseteq Nat
    /\ PerMilli \in Nat \ {0}
    /\ Limits \subseteq 1 .. 250
    /\ MaxChanges \in Nat /\ MaxRequests \in Nat \ {0}

Sorts      == {"createdAt", "displayName"}
Directions == {"asc", "desc"}
Positions  == [value : Nat, id : Ids]

\* null is no flag, no position and no cursor.
ASSUME NoneAssumption ==
    /\ None \notin BOOLEAN /\ None \notin Positions
    /\ None \notin [sort : Sorts, direction : Directions, position : Positions]

VARIABLES
    users,    \* rows: id, email, and as value the column the walk sorts by
    spent,    \* history: ids of deleted rows, never used again
    query,    \* what the walk asks for: sort, direction, limit, email
    step,     \* "idle", or "probing": the page is read, its flags are not
    data,     \* the rows of the last page, in the order of the response
    flags,    \* hasPreviousPage and hasNextPage, None while unknown
    cursors,  \* previousCursor and nextCursor of the last response
    returned, \* history: the rows of all pages
    stable,   \* history: rows of the first page's time, unchanged since
    trail,    \* history: the last pages, each with how it was asked for and
              \* whether the table is still as when it was read
    changes,  \* bound
    requests  \* bound

tableVars   == <<users, spent>>
walkVars    == <<query, step, data, flags, cursors>>
historyVars == <<returned, stable, trail, changes, requests>>
vars == <<tableVars, walkVars, historyVars>>

-----------------------------------------------------------------------------
\* The filters and orders of PrismaUsersRepository (id breaks ties).

Invert(direction) == IF direction = "asc" THEN "desc" ELSE "asc"

OrderBy(direction) == << [column |-> "value", direction |-> direction],
                         [column |-> "id", direction |-> direction] >>

\* Mutant: rows that tie with the boundary are left out.
SeekWhereStrict(direction, p) ==
    {{{ IF direction = "asc" THEN Greater("value", p.value) ELSE Less("value", p.value) }}}

SeekWhere(direction, p) ==
    LET Comparison(field, value) ==
           IF direction = "asc" THEN Greater(field, value) ELSE Less(field, value)
    IN  {{ {Comparison("value", p.value)},
           {Equals("value", p.value), Comparison("id", p.id)} }}

\* Both filters hold, or the one there is.
CombineWhere(boundary) ==
    boundary \cup IF query.email = None THEN Everything ELSE {{{Equals("email", query.email)}}}

\* A Date, and the ISO text in a cursor, have milliseconds.
Millis(ticks) == ticks - (ticks % PerMilli)

\* A row as the client of the database reads it; positionFor takes the same
\* value from it.
PositionOf(row) ==
    [id |-> row.id,
     value |-> IF query.sort = "createdAt" THEN Millis(row.value) ELSE row.value]

\* slice(0, limit) of the limit + 1 rows read.
\* Mutant: the extra row is returned.
AllRows(rows) == rows
PageRows(rows) == IF query.limit < Len(rows) THEN SubSeq(rows, 1, query.limit) ELSE rows

-----------------------------------------------------------------------------
\* The cursor codec.

Context == [sort |-> query.sort, direction |-> query.direction]

EncodeListUsersCursor(context, p) ==
    [sort |-> context.sort, direction |-> context.direction, position |-> p]

\* Mutant: sort and direction of the cursor are not compared.
AcceptsAny(cursor) == TRUE

\* Malformed cursors are refused likewise, with 400.
Accepts(cursor) == cursor.sort = query.sort /\ cursor.direction = query.direction

-----------------------------------------------------------------------------
\* PrismaUsersRepository.list.

ReadPage(cursorDirection, boundary) ==
    LET direction == IF cursorDirection = "before" THEN Invert(query.direction)
                                                   ELSE query.direction
        where == CombineWhere(IF boundary = None THEN Everything
                                                 ELSE SeekWhere(direction, boundary))
        rows == FindMany(users, where, OrderBy(direction), query.limit + 1)
        page == [i \in DOMAIN PageRows(rows) |-> PositionOf(rows[i])]
    IN  IF cursorDirection = "before" THEN Reverse(page) ELSE page

\* An empty page is answered at once, without flags or cursors.
Page(cursorDirection, boundary) ==
    LET page == ReadPage(cursorDirection, boundary) IN
    /\ data' = page
    /\ returned' = returned \cup ToSet(page)
    /\ trail' = Append(SubSeq(trail, IF Len(trail) = 3 THEN 2 ELSE 1, Len(trail)),
                       [asked |-> cursorDirection, data |-> page, clean |-> TRUE])
    /\ cursors' = [previous |-> None, next |-> None]
    /\ IF page = <<>>
       THEN step' = "idle" /\ flags' = [previous |-> FALSE, next |-> FALSE]
       ELSE step' = "probing" /\ flags' = [previous |-> None, next |-> None]
    /\ requests' = requests + 1

List ==
    /\ step = "idle" /\ requests = 0
    /\ Page("first", None)
    /\ stable' = {row \in users : Satisfies(row, CombineWhere(Everything))}
    /\ UNCHANGED <<tableVars, query, changes>>

\* A request with a cursor of the last response, or one of another context.
ListFrom(cursorDirection, cursor) ==
    /\ step = "idle" /\ 0 < requests /\ requests < MaxRequests
    /\ cursor # None
    /\ IF Accepts(cursor)
         THEN Page(cursorDirection, cursor.position)
         ELSE requests' = requests + 1 /\ UNCHANGED <<step, data, flags, cursors, returned, trail>>
    /\ UNCHANGED <<tableVars, query, stable, changes>>

\* findFirst on the far side of one end of the page.
RowBeyond(direction, p) ==
    FindFirst(users, CombineWhere(SeekWhere(direction, p)), OrderBy(direction)) # {}

ProbePrevious ==
    /\ step = "probing" /\ flags.previous = None
    /\ flags' = [flags EXCEPT !.previous = RowBeyond(Invert(query.direction), Head(data))]
    /\ UNCHANGED <<tableVars, query, step, data, cursors, historyVars>>

\* Mutant: the probe looks on the other side of the page.
ProbeNextInverted ==
    /\ step = "probing" /\ flags.next = None
    /\ flags' = [flags EXCEPT !.next = RowBeyond(Invert(query.direction), Last(data))]
    /\ UNCHANGED <<tableVars, query, step, data, cursors, historyVars>>

ProbeNext ==
    /\ step = "probing" /\ flags.next = None
    /\ flags' = [flags EXCEPT !.next = RowBeyond(query.direction, Last(data))]
    /\ UNCHANGED <<tableVars, query, step, data, cursors, historyVars>>

\* UsersService.list: cursors for the flags that are set.
Answer ==
    /\ step = "probing" /\ flags.previous # None /\ flags.next # None
    /\ step' = "idle"
    /\ cursors' =
         [ previous |-> IF flags.previous THEN EncodeListUsersCursor(Context, Head(data))
                                          ELSE None,
           next     |-> IF flags.next THEN EncodeListUsersCursor(Context, Last(data))
                                      ELSE None ]
    /\ UNCHANGED <<tableVars, query, data, flags, historyVars>>

-----------------------------------------------------------------------------
\* The other requests, each one statement that commits on its own.

Write(table) ==
    /\ changes < MaxChanges /\ changes' = changes + 1
    /\ users' = table
    /\ stable' = stable \cap table
    /\ trail' = [i \in DOMAIN trail |-> [trail[i] EXCEPT !.clean = FALSE]]
    /\ UNCHANGED <<walkVars, returned, requests>>

\* Values the column can have: the client of the database fills in created_at
\* with its own clock, in milliseconds.
\* Mutant: the column's default is used, which has finer ticks.
AnyTick == Keys
Values == {k \in Keys : query.sort = "createdAt" => k = Millis(k)}

\* Every user has an email of its own, named like its id.
Row(u, k) == [id |-> u, email |-> u, value |-> k]

Register(u, k) ==
    /\ u \notin spent /\ k \in Values
    /\ \E table \in Create(users, Row(u, k), {"id", "email"}) : Write(table)
    /\ UNCHANGED spent

\* PATCH: of the columns a walk sorts by, only display_name can change.
Rename(u, k) ==
    /\ query.sort = "displayName"
    /\ \E table \in Update(users, u, [value |-> k]) : table # users /\ Write(table)
    /\ UNCHANGED spent

DeleteUser(u) ==
    /\ \E table \in Delete(users, u) : Write(table)
    /\ spent' = spent \cup {u}

-----------------------------------------------------------------------------
\* The table is in any state, the walk asks for any page size, sort and
\* direction, with one email (at most one user matches it) or none.
Init ==
    /\ query \in [ sort : Sorts, direction : Directions, limit : Limits,
                   email : Ids \cup {None} ]
    /\ \E present \in SUBSET Ids : \E value \in [present -> Values] :
          users = {Row(u, value[u]) : u \in present}
    /\ spent = {}
    /\ step = "idle"
    /\ data = <<>>
    /\ flags = [previous |-> FALSE, next |-> FALSE]
    /\ cursors = [previous |-> None, next |-> None]
    /\ returned = {}
    /\ stable = {}
    /\ trail = <<>>
    /\ changes = 0
    /\ requests = 0

\* A cursor the client has kept from a walk in the other direction.
OldCursor(row) ==
    EncodeListUsersCursor([sort |-> query.sort, direction |-> Invert(query.direction)],
                          PositionOf(row))

Walk ==
    \/ List
    \/ ListFrom("after", cursors.next)
    \/ ListFrom("before", cursors.previous)
    \/ \E row \in users, cursorDirection \in {"after", "before"} :
          ListFrom(cursorDirection, OldCursor(row))
    \/ ProbePrevious \/ ProbeNext \/ Answer

Next ==
    \/ Walk
    \/ \E u \in Ids, k \in Keys : Register(u, k) \/ Rename(u, k)
    \/ \E u \in Ids : DeleteUser(u)

Spec == Init /\ [][Next]_vars

-----------------------------------------------------------------------------
\* Properties.

\* Ids and emails are unique, pages no longer than asked for, and every cursor
\* points into the page it came with.
TypeOK ==
    /\ users \subseteq [id : Ids, email : Ids, value : Keys]
    /\ \A row, other \in users : row.id = other.id \/ row.email = other.email => row = other
    /\ spent \subseteq Ids \ {row.id : row \in users}
    /\ step \in {"idle", "probing"}
    /\ data \in Seq(Positions) /\ Len(data) <= query.limit
    /\ \A side \in {"previous", "next"} :
          /\ flags[side] \in BOOLEAN \cup {None}
          /\ cursors[side] # None => cursors[side].position \in ToSet(data)
    /\ returned \subseteq Positions
    /\ stable \subseteq users
    /\ changes \in 0 .. MaxChanges
    /\ requests \in 0 .. MaxRequests

\* Wherever the walk turns, and whoever else is registered, renamed or deleted
\* (the row of the cursor included): a user that has not changed is never
\* skipped between two that have been returned.
Earlier(p, q) == Precedes(OrderBy("asc"), p, q)

NothingSkipped ==
    \A row \in stable : \A p, q \in returned :
       Earlier(p, row) /\ Earlier(row, q) => \E r \in returned : r.id = row.id

\* Each flag comes from a later statement than the page; still, where a page is
\* said to be the first or the last, no unchanged user lies beyond it.
EndsAreReal ==
    step = "idle" /\ data # <<>> =>
       \A row \in stable :
          /\ cursors.next = None => ~Precedes(OrderBy(query.direction), Last(data), row)
          /\ cursors.previous = None => ~Precedes(OrderBy(query.direction), row, Head(data))

\* A step there and back over an unchanged table gives the same page again,
\* read forwards or backwards.
Opposite(a, b) == <<a, b>> \in {<<"after", "before">>, <<"before", "after">>}

RoundTrip ==
    Len(trail) = 3 /\ trail[1].clean /\ Opposite(trail[2].asked, trail[3].asked)
       => trail[3].data = trail[1].data

\* Two pages in a row never share a user that has not changed: nothing is
\* returned twice on the way.
NoRepeats ==
    \A i \in 1 .. Len(trail) - 1 :
       LET before == {p.id : p \in ToSet(trail[i].data)}
           after  == {p.id : p \in ToSet(trail[i + 1].data)}
       IN  before \cap after \cap {row.id : row \in stable} = {}
=============================================================================
