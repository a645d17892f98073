---------------------------- MODULE UserProfiles ----------------------------
(***************************************************************************)
(* Accounts as the users API reads and writes them: registration, sign-in  *)
(* by email, profiles, listings by email, the change of a display name and *)
(* deletion.  Requests run concurrently, one statement at a time, between  *)
(* the contract that admits their input and the one that admits their      *)
(* answer.  Passwords, sessions and row locks are in AuthService, walks    *)
(* through pages in UsersPagination, the rest of a request's way in        *)
(* HttpPipeline.                                                           *)
(***************************************************************************)
EXTENDS FiniteSets, PrismaQueries, PrismaSchema, Contracts

CONSTANTS
    Requests,   \* what serves one HTTP request at a time
    Ids,        \* ids of users, as numbers: PostgreSQL orders them
    None,       \* null
    EmailTexts, \* emails clients write
    NameTexts   \* display names clients write

ASSUME ProfilesAssumption == Ids \subseteq Nat /\ None \notin Ids

\* Texts, as Contracts abstracts them.
ASSUME TextsAssumption ==
    /\ \A text \in EmailTexts :
          /\ text = EmailText(text.word, text.upper, text.padded, text.valid)
          /\ text.valid \in BOOLEAN
    /\ \A text \in NameTexts : text = NameText(text.name, text.padded, text.points, text.letters)

\* Every column of a row but the hash, the role and the timestamps.
ASSUME FieldsAssumption ==
    UserFields = UserOutputs.fields \ {"passwordHash", "role", "createdAt", "updatedAt"}

VARIABLES
    users, \* the table
    spent, \* history: ids of deleted rows, never used again
    req    \* requests: where each is, what it has read, its answer

vars == <<users, spent, req>>

\* One of the rows the client of the database can give: all but the hash.
UserSelect(row) == Restrict(row, UserFields)

Present(id) == \E row \in users : row.id = id

\* findById of the repository, for a row that is there.
Found(id) == UNION {User(UserSelect(row)) : row \in FindUnique(users, "id", id)}

-----------------------------------------------------------------------------
\* Requests.  meant is history: the ids of the accounts the email of the request
\* spelled, however it spelled it, when the statement that uses it ran.

Answered(op, viewer, status, rows, meant) ==
    [pc |-> "answered", status |-> status, rows |-> rows, meant |-> meant,
     op |-> op, viewer |-> viewer, id |-> None, data |-> <<>>]

Refused(status) == Answered("none", None, status, {}, {})

Running(op, pc, viewer, id, data) ==
    [pc |-> pc, status |-> 0, rows |-> {}, meant |-> {},
     op |-> op, viewer |-> viewer, id |-> id, data |-> data]

Free(r)   == req[r].pc = "answered"
At(r, pc) == req[r].pc = pc

Become(r, state) == req' = [req EXCEPT ![r] = state]

\* A sign-in answers with the id of the account it has found.
Answer(r, status, rows) ==
    Become(r, Answered(req[r].op, req[r].viewer, status, rows, req[r].meant))

Refuse(r, status) == Become(r, Refused(status))

NoWrites == UNCHANGED <<users, spent>>

\* The contract of a request: its first output goes on, or the answer is 400.
Receive(r, op, pc, viewer, id, outputs) ==
    /\ Free(r)
    /\ IF outputs = {}
       THEN Refuse(r, 400)
       ELSE \E data \in outputs : Become(r, Running(op, pc, viewer, id, data))
    /\ NoWrites

\* What the response contract makes of each row: 500 unless it admits all.
Respond(r, outputs) ==
    IF {} \in outputs THEN Refuse(r, 500) ELSE Answer(r, 200, UNION outputs)

-----------------------------------------------------------------------------
\* POST /auth/sign-up and /auth/sign-in.

\* An id for each account to be: Ids is a bound here.
UnusedIds == {id \in Ids : id \notin spent /\ ~Present(id)}

SignUp(r, body) ==
    /\ Cardinality({q \in Requests : At(q, "insert")}) < Cardinality(UnusedIds)
    /\ Receive(r, "signUp", "insert", None, None, SignUpRequest(body))

\* The contract is applied once more; a request that passed it passes it again.
\* The id is drawn by the database.
Register(r) ==
    /\ At(r, "insert")
    /\ \E id \in UnusedIds :
       LET normalized == CreateUserRequest(req[r].data)
           tables == UNION {Create(users, [id |-> id, email |-> data.email,
                                           displayName |-> data.displayName,
                                           passwordHash |-> "hash"], UserInputs.unique) :
                              data \in normalized}
       IN  \/ normalized = {} /\ Refuse(r, 500) /\ UNCHANGED users
           \/ normalized # {} /\ tables = {} /\ Refuse(r, 409) /\ UNCHANGED users
           \/ \E table \in tables : users' = table /\ Refuse(r, 201)
    /\ UNCHANGED spent

\* The ids of the accounts an email spells.
Spelled(email) == {row.id : row \in {row \in users : row.email.word = email.word}}

SignIn(r, body) == Receive(r, "signIn", "lookup", None, None, SignInRequest(body))

\* CredentialsService.verify: findIdByEmail, then the row is locked and read.
FindIdByEmail(r) ==
    /\ At(r, "lookup")
    /\ LET email == CHOOSE email \in NormalizedEmail(req[r].data.email) : TRUE
           found == FindUnique(users, "email", email)
           meant == Spelled(req[r].data.email)
       IN  IF found = {}
           THEN Become(r, Answered("signIn", None, 401, {}, meant))
           ELSE \E row \in found :
                   Become(r, [req[r] EXCEPT !.pc = "verify", !.id = row.id, !.meant = meant])
    /\ NoWrites

\* The password is the right one; where it is not, see AuthService.
Verify(r) ==
    /\ At(r, "verify")
    /\ IF Present(req[r].id) THEN Answer(r, 200, {[id |-> req[r].id]})
                             ELSE Answer(r, 401, {})
    /\ NoWrites

-----------------------------------------------------------------------------
\* GET /users/me, GET /users/{userId}.  The guard has found the viewer's row.

\* Mutant: everybody is shown everything.
ProjectForNobody(user, viewer) == user

ProjectForViewer(user, viewer) ==
    IF user.id = viewer THEN user ELSE Restrict(user, UserFields \ {"email"})

GetUser(r, op, viewer, id) ==
    /\ Present(viewer)
    /\ op = "getMe" => id = viewer
    /\ Receive(r, op, "find", viewer, id, {<<>>})

FindById(r) ==
    /\ At(r, "find")
    /\ LET id    == req[r].id
           shown == {ProjectForViewer(user, req[r].viewer) : user \in Found(id)}
       IN  \/ ~Present(id) /\ Refuse(r, 404)
           \/ Present(id) /\ Found(id) = {} /\ Refuse(r, 500)
           \/ /\ Found(id) # {}
              /\ IF req[r].op = "getMe"
                 THEN Respond(r, {UserResponse(user) : user \in shown})
                 ELSE Respond(r, {ViewerUserResponse(user) : user \in shown})
    /\ NoWrites

-----------------------------------------------------------------------------
\* GET /users and QUERY /users: the first page, by email or without.

List(r, viewer, query) ==
    Present(viewer) /\ Receive(r, "list", "select", viewer, None, ListUsersRequest(query))

Query(r, viewer, body) ==
    Present(viewer) /\ Receive(r, "query", "select", viewer, None, QueryUsersRequest(body))

Select(r) ==
    /\ At(r, "select")
    /\ LET data  == req[r].data
           where == {{{Equals("email", email)}} : email \in ToSet(data.email)}
           rows  == FindMany(users, where, <<[column |-> "id", direction |-> "desc"]>>,
                             data.limit + 1)
           page  == {UserSelect(rows[i]) : i \in DOMAIN rows \cap 1 .. data.limit}
           meant == IF data.email = <<>> THEN {row.id : row \in users}
                                         ELSE Spelled(data.email[1])
           shown == {ProjectForViewer(user, req[r].viewer) :
                       user \in UNION {User(row) : row \in page}}
           responses == IF \E row \in page : User(row) = {} THEN {} ELSE ListUsersResponse(shown)
       IN  \/ responses = {} /\ Refuse(r, 500)
           \/ \E response \in responses :
                Become(r, Answered("list", req[r].viewer, 200, response, meant))
    /\ NoWrites

-----------------------------------------------------------------------------
\* PATCH /users/me, PATCH and DELETE /users/{userId}.

UpdateUser(r, viewer, id, body) ==
    Present(viewer) /\ Receive(r, "update", "owner", viewer, id, UpdateUserRequest(body))

DeleteUser(r, viewer, id) ==
    Present(viewer) /\ Receive(r, "delete", "owner", viewer, id, {<<>>})

\* Mutant: any account that exists may be written.
RequireUser(r) ==
    /\ At(r, "owner")
    /\ IF Present(req[r].id) THEN Become(r, [req[r] EXCEPT !.pc = "write"])
                             ELSE Refuse(r, 404)
    /\ NoWrites

RequireOwner(r) ==
    /\ At(r, "owner")
    /\ LET id == req[r].id IN
       \/ ~Present(id) /\ Refuse(r, 404)
       \/ Present(id) /\ Found(id) = {} /\ Refuse(r, 500)
       \/ \E user \in Found(id) :
            IF user.id # req[r].viewer THEN Refuse(r, 403)
                                       ELSE Become(r, [req[r] EXCEPT !.pc = "write"])
    /\ NoWrites

\* Mutant: P2025 is not told from other errors.
RecordNotFoundRaised(r) == Refuse(r, 500)

\* The row has gone since it was read: isRecordNotFound, null, UserNotFoundError.
RecordNotFound(r) == Refuse(r, 404)

UpdateRow(r) ==
    /\ At(r, "write") /\ req[r].op = "update"
    /\ LET tables == Update(users, req[r].id, req[r].data) IN
       \/ tables = {} /\ RecordNotFound(r) /\ UNCHANGED users
       \/ \E table \in tables :
            /\ users' = table
            /\ LET parsed == UNION {User(UserSelect(row)) :
                                      row \in FindUnique(table, "id", req[r].id)}
               IN  IF parsed = {} THEN Refuse(r, 500)
                                  ELSE Respond(r, {UserResponse(user) : user \in parsed})
    /\ UNCHANGED spent

DeleteRow(r) ==
    /\ At(r, "write") /\ req[r].op = "delete"
    /\ LET tables == Delete(users, req[r].id) IN
       \/ tables = {} /\ RecordNotFound(r) /\ NoWrites
       \/ \E table \in tables :
            /\ users' = table
            /\ spent' = spent \cup {req[r].id}
            /\ Refuse(r, 204)

-----------------------------------------------------------------------------
\* What clients write: every email and name, and bodies with a field too few or
\* too many, which no contract lets pass ("refused" is no place to be).
SignUpBodies  == [email : EmailTexts, displayName : NameTexts, password : {12}]
SignInBodies  == [email : EmailTexts, password : {1}]
UpdateBodies  == [displayName : NameTexts]
ListQueries   == [email : EmailTexts] \cup {<<>>, [limit |-> 1]}
QueryBodies   == [criteria : [email : EmailTexts]]

AnEmail == CHOOSE email \in EmailTexts : email.valid
AName   == CHOOSE name \in NameTexts : DisplayName(name) # {}

BadRequest(r) ==
    \E outputs \in
         { SignUpRequest([email |-> AnEmail, displayName |-> AName, password |-> 11]),
           SignUpRequest([email |-> AnEmail, displayName |-> AName, password |-> 12,
                          role |-> "admin"]),
           SignInRequest([email |-> AnEmail, password |-> 0]),
           UpdateUserRequest(<<>>),
           UpdateUserRequest([displayName |-> AName, email |-> AnEmail]),
           ListUsersRequest([limit |-> 251]),
           ListUsersRequest([after |-> "cursor", before |-> "cursor"]),
           QueryUsersRequest([criteria |-> <<>>]),
           QueryUsersRequest([limit |-> 1]),
           {} } : \* the path of a user has no UUID
       Receive(r, "none", "refused", None, None, outputs)

Init ==
    /\ users = {}
    /\ spent = {}
    /\ req = [r \in Requests |-> Refused(0)]

\* A request arrives.
Arrive(r) ==
    \/ BadRequest(r)
    \/ \E body \in SignUpBodies : SignUp(r, body)
    \/ \E body \in SignInBodies : SignIn(r, body)
    \/ \E viewer \in Ids :
         \/ \E id \in Ids :
              \/ \E op \in {"getMe", "getUser"} : GetUser(r, op, viewer, id)
              \/ \E body \in UpdateBodies : UpdateUser(r, viewer, id, body)
              \/ DeleteUser(r, viewer, id)
         \/ \E query \in ListQueries : List(r, viewer, query)
         \/ \E body \in QueryBodies : Query(r, viewer, body)

\* Its next statement.
Step(r) ==
    \/ Register(r) \/ FindIdByEmail(r) \/ Verify(r)
    \/ FindById(r) \/ Select(r)
    \/ RequireOwner(r) \/ UpdateRow(r) \/ DeleteRow(r)

Next == \E r \in Requests : Arrive(r) \/ Step(r)

Spec == Init /\ [][Next]_vars

-----------------------------------------------------------------------------
\* Properties.

PCs == {"answered", "insert", "lookup", "verify", "find", "select", "owner", "write"}

\* No request, whatever it races with, ends in a failure (500 is not among the
\* statuses): each row passes on its way out the contracts it passed on its way
\* in, and is left as it is by them.
TypeOK ==
    /\ \A row \in users :
          /\ DOMAIN row = UserFields \cup {"passwordHash"} /\ row.id \in Ids
          /\ User(UserSelect(row)) = {UserSelect(row)}
    /\ spent \subseteq Ids /\ \A id \in spent : ~Present(id)
    /\ \A r \in Requests :
          /\ req[r].pc \in PCs
          /\ req[r].viewer \in Ids \cup {None} /\ req[r].id \in Ids \cup {None}
          /\ req[r].status \in {0, 200, 201, 204, 400, 401, 403, 404, 409}

\* An email is shown to its owner and to nobody else, in profiles, listings and
\* the answers to changes, and the password's hash to nobody.
EmailOnlyToOwner ==
    \A r \in Requests : \A row \in req[r].rows :
       /\ DOMAIN row \subseteq UserFields
       /\ "email" \in DOMAIN row => row.id = req[r].viewer

\* Only the request of its owner changes a row or removes it, after any other
\* interleaved with it, and of a row only the display name ever changes.
OnlyOwnerChanges ==
    [][ /\ \A row \in users \ users' : \E r \in Requests :
             At(r, "write") /\ req[r].viewer = row.id /\ req'[r] # req[r]
        /\ \A row \in users, new \in users' :
             new.id = row.id => new = [row EXCEPT !.displayName = new.displayName] ]_vars

\* However an email is spelled, it is one account's: no two accounts share it,
\* and sign-in and listings find the account that was registered with any other
\* spelling of it, as long as it is there.
SpellingsMeet ==
    /\ \A row, other \in users : row.email.word = other.email.word => row = other
    /\ \A r \in Requests :
         LET found == {row.id : row \in req[r].rows} IN
         /\ Free(r) /\ req[r].op = "signIn" =>
              /\ req[r].status = 200 => found = req[r].meant
              /\ req[r].status = 401 => req[r].meant \subseteq spent
         /\ Free(r) /\ req[r].op = "list" /\ req[r].status = 200 =>
              found \subseteq req[r].meant /\ (req[r].meant # {} => found # {})
=============================================================================
