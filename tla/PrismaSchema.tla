---------------------------- MODULE PrismaSchema ----------------------------
(***************************************************************************)
(* The tables as the migration creates them, and the models as the         *)
(* generated client declares them.  Both are kept in the repository and    *)
(* are brought up to date by different commands; a client that is older    *)
(* than the migration compiles, and fails on statements no unit test       *)
(* sends.  Columns have the names of their fields.                         *)
(***************************************************************************)

-----------------------------------------------------------------------------
\* What a table demands of a new row: a column is given, or it has a default, or
\* it may be NULL.  A row goes with the row of the parent its column refers to.

UsersTable ==
    [given     |-> {"email", "displayName", "passwordHash"},
     defaulted |-> {"id", "role", "createdAt", "updatedAt"},
     nullable  |-> {},
     unique    |-> {"id", "email"},
     cascades  |-> {}]

SessionsTable ==
    [given     |-> {"userId", "expiresAt"},
     defaulted |-> {"id", "createdAt"},
     nullable  |-> {"revokedAt"},
     unique    |-> {"id"},
     cascades  |-> {"userId"}]

RefreshDigestsTable ==
    [given     |-> {"digest", "sessionId", "expiresAt"},
     defaulted |-> {},
     nullable  |-> {"retiredAt"},
     unique    |-> {"digest"},
     cascades  |-> {"sessionId"}]

-----------------------------------------------------------------------------
\* What the client takes: fields to filter, order and update by, those that
\* identify a row, those a new row needs or may have.

UserInputs ==
    [fields   |-> {"id", "email", "displayName", "passwordHash", "role", "createdAt", "updatedAt"},
     unique   |-> {"id", "email"},
     required |-> {"email", "displayName", "passwordHash"},
     nullable |-> {},
     relation |-> [sessions |-> "many"]]

SessionInputs ==
    [fields   |-> {"id", "userId", "createdAt", "expiresAt", "revokedAt"},
     unique   |-> {"id"},
     required |-> {"userId", "expiresAt"},
     nullable |-> {"revokedAt"},
     relation |-> [user |-> "one", digests |-> "many"]]

RefreshDigestInputs ==
    [fields   |-> {"digest", "sessionId", "expiresAt", "retiredAt"},
     unique   |-> {"digest"},
     required |-> {"digest", "sessionId", "expiresAt"},
     nullable |-> {"retiredAt"},
     relation |-> [session |-> "one"]]

\* What it gives: the fields one can select, and the relations one can include.

UserOutputs ==
    [fields   |-> {"id", "email", "displayName", "passwordHash", "role", "createdAt", "updatedAt"},
     nullable |-> {},
     relation |-> [sessions |-> "many"]]

SessionOutputs ==
    [fields   |-> {"id", "userId", "createdAt", "expiresAt", "revokedAt"},
     nullable |-> {"revokedAt"},
     relation |-> [user |-> "one", digests |-> "many"]]

RefreshDigestOutputs ==
    [fields   |-> {"digest", "sessionId", "expiresAt", "retiredAt"},
     nullable |-> {"retiredAt"},
     relation |-> [session |-> "one"]]

-----------------------------------------------------------------------------
\* The client knows every column, asks for what the table asks for, expects NULL
\* where it can be, looks up by what is unique, and has a relation of its own for
\* each foreign key.
Matches(table, inputs, outputs) ==
    /\ inputs.fields = table.given \union table.defaulted \union table.nullable
    /\ outputs.fields = inputs.fields
    /\ inputs.required = table.given
    /\ inputs.nullable = table.nullable /\ outputs.nullable = table.nullable
    /\ inputs.unique = table.unique
    /\ inputs.relation = outputs.relation
    /\ {r \in DOMAIN inputs.relation : inputs.relation[r] = "one"} = {} <=> table.cascades = {}

ASSUME ClientMatchesTables ==
    /\ Matches(UsersTable, UserInputs, UserOutputs)
    /\ Matches(SessionsTable, SessionInputs, SessionOutputs)
    /\ Matches(RefreshDigestsTable, RefreshDigestInputs, RefreshDigestOutputs)

\* A new row may have these fields; a nested one has its parent's key as well.
AdmitsCreate(inputs, fields) == inputs.required \subseteq fields /\ fields \subseteq inputs.fields

\* register, and the session with its first digest.
ASSUME CreatesAreAdmitted ==
    /\ AdmitsCreate(UserInputs, {"email", "displayName", "passwordHash"})
    /\ AdmitsCreate(SessionInputs, {"userId", "expiresAt"})
    /\ AdmitsCreate(RefreshDigestInputs, {"digest", "expiresAt"} \union {"sessionId"})

=============================================================================
