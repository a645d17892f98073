------------------------------ MODULE Contracts -----------------------------
(***************************************************************************)
(* The Zod schemas of requests, rows and responses.  A schema is applied   *)
(* to a value and gives the set of its outputs: one, or none when the      *)
(* value is refused.  Objects are records, so that a field is absent when  *)
(* it is not in their DOMAIN.  Text is abstracted to what the schemas tell *)
(* apart: for an email the address it spells, whether it is spelled in     *)
(* lower case without white space around it, and whether it is one at all; *)
(* for a name whether it is padded, how long it is, and whether it is made *)
(* of letters and single spaces; for a password its length.                *)
(***************************************************************************)
EXTENDS Integers, Sequences, Functions

EmailText(word, upper, padded, valid) ==
    [word |-> word, upper |-> upper, padded |-> padded, valid |-> valid]

NameText(name, padded, points, letters) ==
    [name |-> name, padded |-> padded, points |-> points, letters |-> letters]

\* Mutant: toLowerCase is forgotten.
NormalizedEmailCased(text) == IF text.valid THEN {[text EXCEPT !.padded = FALSE]} ELSE {}

NormalizedEmail(text) ==
    IF text.valid THEN {[text EXCEPT !.upper = FALSE, !.padded = FALSE]} ELSE {}

DisplayName(text) ==
    IF text.points \in 2 .. 30 /\ text.letters THEN {[text EXCEPT !.padded = FALSE]} ELSE {}

Password(least, length) == IF length >= least THEN {length} ELSE {}

-----------------------------------------------------------------------------
\* Requests.  z.strictObject: these fields and no others.

CreateUserRequest(value) ==
    {[email |-> email, displayName |-> name] :
       email \in NormalizedEmail(value.email), name \in DisplayName(value.displayName)}

SignUpRequest(body) ==
    IF DOMAIN body # {"email", "displayName", "password"} THEN {}
    ELSE {[email |-> email, displayName |-> name, password |-> password] :
            email    \in NormalizedEmail(body.email),
            name     \in DisplayName(body.displayName),
            password \in Password(12, body.password)}

SignInRequest(body) ==
    IF DOMAIN body # {"email", "password"} THEN {}
    ELSE {[email |-> email, password |-> password] :
            email \in NormalizedEmail(body.email), password \in Password(1, body.password)}

UpdateUserRequest(body) ==
    IF DOMAIN body # {"displayName"} THEN {}
    ELSE {[displayName |-> name] : name \in DisplayName(body.displayName)}

\* A field that may be absent, and what then takes its place.
Given(value, field, default) == IF field \in DOMAIN value THEN value[field] ELSE default

\* An email filter as a sequence, empty when there is none.
Filter(value) ==
    IF "email" \in DOMAIN value THEN {<<email>> : email \in NormalizedEmail(value.email)}
                                ELSE {<<>>}

OneCursor(value) == ~({"after", "before"} \subseteq DOMAIN value)

\* The sort and its direction are modelled in UsersPagination, as is the use of
\* the cursors.  The limit of a URL is a text of digits, here its number.
ListUsersRequest(value) ==
    IF /\ DOMAIN value \subseteq {"email", "limit", "after", "before"}
       /\ OneCursor(value)
    THEN {[email |-> email, limit |-> limit] :
            email \in Filter(value), limit \in {Given(value, "limit", 25)} \cap 1 .. 250}
    ELSE {}

\* { criteria: { email } } and the options, the email moved up.
QueryUsersRequest(value) ==
    IF /\ "criteria" \in DOMAIN value /\ DOMAIN value.criteria = {"email"}
       /\ DOMAIN value \subseteq {"criteria", "limit", "after", "before"}
       /\ OneCursor(value)
    THEN {[email |-> email, limit |-> limit] :
            email \in Filter(value.criteria), limit \in {Given(value, "limit", 25)} \cap 1 .. 250}
    ELSE {}

-----------------------------------------------------------------------------
\* Rows and responses.  Role and timestamps are the same for everybody here.

UserFields == {"id", "email", "displayName"}

\* The strict schema a row has to pass on its way out of the repository.
User(row) ==
    IF DOMAIN row # UserFields THEN {}
    ELSE {[id |-> row.id, email |-> email, displayName |-> name] :
            email \in NormalizedEmail(row.email), name \in DisplayName(row.displayName)}

\* z.object drops the fields it does not know.
UserResponse(value) ==
    IF UserFields \subseteq DOMAIN value THEN User(Restrict(value, UserFields)) ELSE {}

OtherUserResponse(value) ==
    IF {"id", "displayName"} \subseteq DOMAIN value
    THEN {[id |-> value.id, displayName |-> name] : name \in DisplayName(value.displayName)}
    ELSE {}

\* z.union: the first schema that accepts the value.
ViewerUserResponse(value) ==
    IF UserResponse(value) # {} THEN UserResponse(value) ELSE OtherUserResponse(value)

\* The users of a page; pageInfo is in UsersPagination.
ListUsersResponse(values) ==
    IF \E value \in values : ViewerUserResponse(value) = {}
    THEN {} ELSE {UNION {ViewerUserResponse(value) : value \in values}}
=============================================================================
