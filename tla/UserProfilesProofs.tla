-------------------------- MODULE UserProfilesProofs --------------------------
(***************************************************************************)
(* Accounts and profiles, for every number of requests, accounts, emails   *)
(* and names: an email is one account's however it is spelled, is shown to *)
(* its owner only, only the owner changes a row, and no row ever fails the *)
(* contract it was admitted by.                                            *)
(*                                                                         *)
(* The proof rests on normal forms: what a contract has put out is what it *)
(* puts out again (IdempotentEmail, IdempotentName), rows hold nothing     *)
(* else, and each request holds outputs of the contract that admitted it.  *)
(***************************************************************************)
EXTENDS UserProfiles, PrismaQueriesProofs

-----------------------------------------------------------------------------
\* Normal forms.

NormalEmail(email) == \E word : email = EmailText(word, FALSE, FALSE, TRUE)

NormalName(name) ==
    \E word, points, letters :
       name = NameText(word, FALSE, points, letters) /\ points \in 2 .. 30 /\ letters

LEMMA EmailNormalized ==
  ASSUME NEW text \in EmailTexts, NEW email \in NormalizedEmail(text)
  PROVE  NormalEmail(email) /\ email.word = text.word
  <1>1. PICK word, upper, padded : text = EmailText(word, upper, padded, TRUE)
    BY TextsAssumption DEF NormalizedEmail
  <1>2. email = [text EXCEPT !.upper = FALSE, !.padded = FALSE]
    BY DEF NormalizedEmail
  <1>3. email = EmailText(word, FALSE, FALSE, TRUE) /\ text.word = word
    BY <1>1, <1>2 DEF EmailText
  <1>4. QED
    BY <1>3 DEF NormalEmail, EmailText

LEMMA IdempotentEmail ==
  ASSUME NEW email, NormalEmail(email)
  PROVE  NormalizedEmail(email) = {email}
  <1>1. PICK word : email = EmailText(word, FALSE, FALSE, TRUE)
    BY DEF NormalEmail
  <1>2. [email EXCEPT !.upper = FALSE, !.padded = FALSE] = email
    <2>1. email = [field \in DOMAIN email |-> email[field]] /\ email.upper = FALSE /\ email.padded = FALSE
      BY <1>1 DEF EmailText
    <2>2. QED
      BY <2>1
  <1>3. QED
    BY <1>1, <1>2 DEF NormalizedEmail, EmailText

LEMMA SameWord ==
  ASSUME NEW email, NEW other, NormalEmail(email), NormalEmail(other), email.word = other.word
  PROVE  email = other
  BY DEF NormalEmail, EmailText

LEMMA NameNormalized ==
  ASSUME NEW text \in NameTexts, NEW name \in DisplayName(text)
  PROVE  NormalName(name)
  <1>1. PICK word, padded, points, letters : text = NameText(word, padded, points, letters)
    BY TextsAssumption
  <1>2. name = [text EXCEPT !.padded = FALSE] /\ text.points \in 2 .. 30 /\ text.letters
    BY DEF DisplayName
  <1>3. name = NameText(word, FALSE, points, letters) /\ points \in 2 .. 30 /\ letters
    BY <1>1, <1>2 DEF NameText
  <1>4. QED
    BY <1>3 DEF NormalName

LEMMA IdempotentName ==
  ASSUME NEW name, NormalName(name)
  PROVE  DisplayName(name) = {name}
  <1>1. PICK word, points, letters :
          name = NameText(word, FALSE, points, letters) /\ points \in 2 .. 30 /\ letters
    BY DEF NormalName
  <1>2. [name EXCEPT !.padded = FALSE] = name
    <2>1. name = [field \in DOMAIN name |-> name[field]] /\ name.padded = FALSE
      BY <1>1 DEF NameText
    <2>2. QED
      BY <2>1
  <1>3. QED
    BY <1>1, <1>2 DEF DisplayName, NameText
-----------------------------------------------------------------------------
\* Rows, and what the contracts make of them.

RowOK(row) ==
    /\ DOMAIN row = UserFields \cup {"passwordHash"} /\ row = [field \in DOMAIN row |-> row[field]]
    /\ row.id \in Ids /\ NormalEmail(row.email) /\ NormalName(row.displayName)

\* What is left of a row for anybody but its owner.
Public(row) == [id |-> row.id, displayName |-> row.displayName]

LEMMA SelectIs ==
  ASSUME NEW row
  PROVE  /\ UserSelect(row) = [id |-> row.id, email |-> row.email, displayName |-> row.displayName]
         /\ DOMAIN UserSelect(row) = UserFields
  BY DEF UserSelect, Restrict, UserFields

LEMMA UserAgain ==
  ASSUME NEW row, NormalEmail(row.email), NormalName(row.displayName)
  PROVE  User(UserSelect(row)) = {UserSelect(row)}
  <1> DEFINE user == UserSelect(row)
  <1>1. /\ user = [id |-> row.id, email |-> row.email, displayName |-> row.displayName]
        /\ DOMAIN user = UserFields
    BY SelectIs
  <1>2. NormalizedEmail(user.email) = {user.email} /\ DisplayName(user.displayName) = {user.displayName}
    BY <1>1, IdempotentEmail, IdempotentName
  <1> HIDE DEF user
  <1>3. User(user) = {[id |-> user.id, email |-> email, displayName |-> name] :
                         email \in {user.email}, name \in {user.displayName}}
    BY <1>1, <1>2 DEF User
  <1>4. [id |-> user.id, email |-> user.email, displayName |-> user.displayName] = user
    BY <1>1
  <1>5. QED
    BY <1>3, <1>4 DEF user

LEMMA ResponseAgain ==
  ASSUME NEW row, NormalEmail(row.email), NormalName(row.displayName)
  PROVE  /\ UserResponse(UserSelect(row)) = {UserSelect(row)}
         /\ ViewerUserResponse(UserSelect(row)) = {UserSelect(row)}
  <1>1. Restrict(UserSelect(row), UserFields) = UserSelect(row)
    BY SelectIs DEF Restrict, UserSelect
  <1>2. UserResponse(UserSelect(row)) = {UserSelect(row)}
    BY <1>1, SelectIs, UserAgain DEF UserResponse
  <1>3. QED
    BY <1>2 DEF ViewerUserResponse

LEMMA ShownTo ==
  ASSUME NEW row, NormalEmail(row.email), NormalName(row.displayName), NEW viewer
  PROVE  /\ row.id = viewer => ProjectForViewer(UserSelect(row), viewer) = UserSelect(row)
         /\ ViewerUserResponse(ProjectForViewer(UserSelect(row), viewer))
               = IF row.id = viewer THEN {UserSelect(row)} ELSE {Public(row)}
  <1>1. CASE row.id = viewer
    BY <1>1, SelectIs, ResponseAgain DEF ProjectForViewer
  <1>2. CASE row.id # viewer
    <2> DEFINE shown == Restrict(UserSelect(row), UserFields \ {"email"})
    <2>1. ProjectForViewer(UserSelect(row), viewer) = shown
      BY <1>2, SelectIs DEF ProjectForViewer
    <2>2. UserFields \ {"email"} = {"id", "displayName"}
      BY DEF UserFields
    <2>3. /\ DOMAIN shown = {"id", "displayName"}
          /\ shown.id = row.id /\ shown.displayName = row.displayName
      BY <2>2, SelectIs DEF Restrict
    <2> HIDE DEF shown
    <2>4. UserResponse(shown) = {}
      BY <2>3 DEF UserResponse, UserFields
    <2>5. OtherUserResponse(shown)
             = {[id |-> row.id, displayName |-> name] : name \in {row.displayName}}
      BY <2>3, IdempotentName DEF OtherUserResponse
    <2>6. OtherUserResponse(shown) = {Public(row)}
      BY <2>5 DEF Public
    <2>7. QED
      BY <1>2, <2>1, <2>4, <2>6 DEF ViewerUserResponse
  <1>3. QED
    BY <1>1, <1>2
-----------------------------------------------------------------------------
\* What the contracts of requests put out.

FilterOK(data) ==
    /\ data.limit \in 1 .. 250
    /\ data.email = <<>> \/ \E email : NormalEmail(email) /\ data.email = <<email>>

LEMMA SignUpOutputs ==
  ASSUME NEW body \in SignUpBodies, NEW data \in SignUpRequest(body)
  PROVE  NormalEmail(data.email) /\ NormalName(data.displayName)
  <1>1. PICK email \in NormalizedEmail(body.email), name \in DisplayName(body.displayName),
             password \in Password(12, body.password) :
          data = [email |-> email, displayName |-> name, password |-> password]
    BY DEF SignUpRequest
  <1>2. body.email \in EmailTexts /\ body.displayName \in NameTexts
    BY DEF SignUpBodies
  <1>3. QED
    BY <1>1, <1>2, EmailNormalized, NameNormalized

LEMMA SignInOutputs ==
  ASSUME NEW body \in SignInBodies, NEW data \in SignInRequest(body)
  PROVE  NormalEmail(data.email)
  BY EmailNormalized DEF SignInBodies, SignInRequest

LEMMA UpdateOutputs ==
  ASSUME NEW body \in UpdateBodies, NEW data \in UpdateUserRequest(body)
  PROVE  DOMAIN data = {"displayName"} /\ NormalName(data.displayName)
  BY NameNormalized DEF UpdateBodies, UpdateUserRequest

LEMMA FilterOutputs ==
  ASSUME NEW value, NEW email \in Filter(value),
         "email" \in DOMAIN value => value.email \in EmailTexts
  PROVE  email = <<>> \/ \E normal : NormalEmail(normal) /\ email = <<normal>>
  BY EmailNormalized DEF Filter

LEMMA ListOutputs ==
  ASSUME NEW value \in ListQueries, NEW data \in ListUsersRequest(value)
  PROVE  FilterOK(data)
  <1>1. "email" \in DOMAIN value => value.email \in EmailTexts
    BY DEF ListQueries
  <1>2. PICK email \in Filter(value), limit \in 1 .. 250 : data = [email |-> email, limit |-> limit]
    BY DEF ListUsersRequest
  <1>3. QED
    BY <1>1, <1>2, FilterOutputs DEF FilterOK

LEMMA QueryOutputs ==
  ASSUME NEW value \in QueryBodies, NEW data \in QueryUsersRequest(value)
  PROVE  FilterOK(data)
  <1>1. value.criteria.email \in EmailTexts
    BY DEF QueryBodies
  <1>2. PICK email \in Filter(value.criteria), limit \in 1 .. 250 : data = [email |-> email, limit |-> limit]
    BY DEF QueryUsersRequest
  <1>3. QED
    BY <1>1, <1>2, FilterOutputs DEF FilterOK

-----------------------------------------------------------------------------
\* The inductive invariant.

Statuses == {0, 200, 201, 204, 400, 401, 403, 404, 409}

StateFields == {"pc", "status", "rows", "meant", "op", "viewer", "id", "data"}

\* A state of a request, whatever the tables.
StateOK(s) ==
    /\ DOMAIN s = StateFields /\ s = [field \in DOMAIN s |-> s[field]]
    /\ s.pc \in PCs /\ s.status \in Statuses
    /\ s.viewer \in Ids \cup {None} /\ s.id \in Ids \cup {None}
    /\ \A row \in s.rows :
          /\ DOMAIN row \subseteq UserFields
          /\ "email" \in DOMAIN row => row.id = s.viewer
    /\ s.pc = "insert" => NormalEmail(s.data.email) /\ NormalName(s.data.displayName)
    /\ s.pc = "lookup" => NormalEmail(s.data.email)
    /\ s.pc \in {"lookup", "verify"} => s.op = "signIn" /\ s.rows = {}
    /\ s.pc = "verify" => s.meant = {s.id}
    /\ s.pc = "find" => /\ s.viewer \in Ids /\ s.id \in Ids /\ s.op \in {"getMe", "getUser"}
                        /\ s.op = "getMe" => s.id = s.viewer
    /\ s.pc = "select" => s.viewer \in Ids /\ FilterOK(s.data)
    /\ s.pc \in {"owner", "write"} =>
          /\ s.viewer \in Ids /\ s.id \in Ids /\ s.op \in {"update", "delete"}
          /\ s.op = "update" => DOMAIN s.data = {"displayName"} /\ NormalName(s.data.displayName)
    /\ s.pc = "write" => s.id = s.viewer
    /\ s.pc = "answered" =>
          LET found == {row.id : row \in s.rows} IN
          /\ s.op = "signIn" /\ s.status = 200 => found = s.meant
          /\ s.op = "list" /\ s.status = 200 => found \subseteq s.meant /\ (s.meant # {} => found # {})

\* An account a sign-in has found is there or has been deleted.
HistoryOK(s) ==
    /\ s.pc = "verify" => Present(s.id) \/ s.id \in spent
    /\ s.pc = "answered" /\ s.op = "signIn" /\ s.status = 401 => s.meant \subseteq spent

UsersOK ==
    /\ IsFiniteSet(users) /\ \A row \in users : RowOK(row)
    /\ \A row, other \in users : row.id = other.id \/ row.email.word = other.email.word => row = other
    /\ spent \subseteq Ids /\ \A id \in spent : ~Present(id)

ProfilesInv ==
    /\ UsersOK
    /\ req = [r \in Requests |-> req[r]]
    /\ \A r \in Requests : StateOK(req[r]) /\ HistoryOK(req[r])

-----------------------------------------------------------------------------
\* States that requests take.

LEMMA AnsweredOK ==
  ASSUME NEW op, NEW viewer \in Ids \cup {None}, NEW status \in Statuses, NEW rows, NEW meant,
         \A row \in rows : /\ DOMAIN row \subseteq UserFields
                           /\ "email" \in DOMAIN row => row.id = viewer,
         op = "signIn" /\ status = 200 => {row.id : row \in rows} = meant,
         op = "list" /\ status = 200 => /\ {row.id : row \in rows} \subseteq meant
                                        /\ meant # {} => {row.id : row \in rows} # {}
  PROVE  StateOK(Answered(op, viewer, status, rows, meant))
  BY DEF Answered, StateOK, StateFields, PCs

LEMMA SignedInOK ==
  ASSUME NEW viewer \in Ids \cup {None}, NEW id, NEW meant
  PROVE  /\ StateOK(Answered("signIn", viewer, 200, {[id |-> id]}, {id}))
         /\ StateOK(Answered("signIn", viewer, 401, {}, meant))
  <1>1. \A row \in {[id |-> id]} : DOMAIN row = {"id"} /\ row.id = id
    OBVIOUS
  <1>2. {row.id : row \in {[id |-> id]}} = {id}
    OBVIOUS
  <1>3. {"id"} \subseteq UserFields /\ "email" \notin {"id"}
    BY DEF UserFields
  <1>4. StateOK(Answered("signIn", viewer, 200, {[id |-> id]}, {id}))
    <2> DEFINE rows == {[id |-> id]}
    <2> HIDE DEF rows
    <2>1. \A row \in rows : /\ DOMAIN row \subseteq UserFields
                            /\ "email" \in DOMAIN row => row.id = viewer
      BY <1>1, <1>3 DEF rows
    <2>2. {row.id : row \in rows} = {id}
      BY <1>2 DEF rows
    <2>3. StateOK(Answered("signIn", viewer, 200, rows, {id}))
      BY <2>1, <2>2 DEF Answered, StateOK, StateFields, PCs, Statuses
    <2>4. QED
      BY <2>3 DEF rows
  <1>5. StateOK(Answered("signIn", viewer, 401, {}, meant))
    BY DEF Answered, StateOK, StateFields, PCs, Statuses
  <1>6. QED
    BY <1>4, <1>5

LEMMA RefusedOK ==
  ASSUME NEW status \in Statuses
  PROVE  StateOK(Refused(status)) /\ HistoryOK(Refused(status))
  <1>1. StateOK(Refused(status))
    BY AnsweredOK DEF Refused
  <1>2. QED
    BY <1>1 DEF Refused, Answered, HistoryOK

\* A request that has been received.
LEMMA RunningOK ==
  ASSUME NEW op, NEW pc \in {"insert", "lookup", "find", "select", "owner"},
         NEW viewer \in Ids \cup {None}, NEW id \in Ids \cup {None}, NEW data,
         pc = "insert" => NormalEmail(data.email) /\ NormalName(data.displayName),
         pc = "lookup" => op = "signIn" /\ NormalEmail(data.email),
         pc = "find" => /\ viewer \in Ids /\ id \in Ids /\ op \in {"getMe", "getUser"}
                        /\ op = "getMe" => id = viewer,
         pc = "select" => viewer \in Ids /\ FilterOK(data),
         pc = "owner" => /\ viewer \in Ids /\ id \in Ids /\ op \in {"update", "delete"}
                         /\ op = "update" => DOMAIN data = {"displayName"} /\ NormalName(data.displayName)
  PROVE  StateOK(Running(op, pc, viewer, id, data)) /\ HistoryOK(Running(op, pc, viewer, id, data))
  BY DEF Running, StateOK, HistoryOK, StateFields, PCs, Statuses

\* What a step leaves to the other requests: accounts stay or are deleted.
Kept ==
    /\ spent \subseteq spent'
    /\ \A id : Present(id) \/ id \in spent => Present(id)' \/ id \in spent'

LEMMA Becomes ==
  ASSUME ProfilesInv, UsersOK', Kept,
         NEW r \in Requests, NEW s, Become(r, s), StateOK(s), HistoryOK(s)
  PROVE  ProfilesInv'
  <1>1. req' = [q \in Requests |-> IF q = r THEN s ELSE req[q]]
    BY DEF ProfilesInv, Become
  <1>2. ASSUME NEW q \in Requests PROVE StateOK(req'[q]) /\ HistoryOK(req[q])
    BY <1>1 DEF ProfilesInv
  <1>3. ASSUME NEW state, HistoryOK(state) PROVE HistoryOK(state)'
    BY <1>3 DEF HistoryOK, Kept
  <1>4. ASSUME NEW q \in Requests PROVE HistoryOK(req[q])'
    <2>1. PICK state : state = req'[q]
      OBVIOUS
    <2>2. HistoryOK(state)
      BY <1>1, <1>2, <2>1
    <2>3. HistoryOK(state)'
      BY <1>3, <2>2
    <2>4. QED
      BY <2>1, <2>3
  <1>5. req' = [q \in Requests |-> req'[q]]
    BY <1>1
  <1>6. QED
    BY <1>2, <1>4, <1>5 DEF ProfilesInv

LEMMA Reading == ASSUME UsersOK, NoWrites PROVE UsersOK' /\ Kept
  BY DEF UsersOK, NoWrites, Kept, Present

LEMMA RefuseStep ==
  ASSUME ProfilesInv, UsersOK', Kept, NEW r \in Requests, NEW status \in Statuses, Refuse(r, status)
  PROVE  ProfilesInv'
  <1>1. PICK s : s = Refused(status)
    OBVIOUS
  <1>2. Become(r, s) /\ StateOK(s) /\ HistoryOK(s)
    BY <1>1, RefusedOK DEF Refuse
  <1>3. QED
    BY <1>2, Becomes

LEMMA ReceiveStep ==
  ASSUME ProfilesInv, NEW r \in Requests, NEW op, NEW pc, NEW viewer, NEW id, NEW outputs,
         Receive(r, op, pc, viewer, id, outputs),
         \A data \in outputs : /\ StateOK(Running(op, pc, viewer, id, data))
                               /\ HistoryOK(Running(op, pc, viewer, id, data))
  PROVE  ProfilesInv'
  <1>1. UsersOK' /\ Kept
    BY Reading DEF ProfilesInv, Receive
  <1>2. CASE outputs = {}
    BY <1>1, <1>2, RefuseStep DEF Receive, Statuses
  <1>3. ASSUME NEW data \in outputs, Become(r, Running(op, pc, viewer, id, data))
        PROVE  ProfilesInv'
    <2>1. PICK s : s = Running(op, pc, viewer, id, data)
      OBVIOUS
    <2>2. Become(r, s) /\ StateOK(s) /\ HistoryOK(s)
      BY <1>3, <2>1
    <2>3. QED
      BY <1>1, <2>2, Becomes
  <1>4. QED
    BY <1>2, <1>3 DEF Receive
-----------------------------------------------------------------------------
\* Requests that arrive.

\* No contract lets these bodies pass.
LEMMA BadRequestRefused ==
  ASSUME NEW r \in Requests, BadRequest(r)
  PROVE  Receive(r, "none", "refused", None, None, {})
  <1>1. SignUpRequest([email |-> AnEmail, displayName |-> AName, password |-> 11]) = {}
    BY DEF SignUpRequest, Password
  <1>2. SignUpRequest([email |-> AnEmail, displayName |-> AName, password |-> 12, role |-> "admin"]) = {}
    <2>1. "role" \notin {"email", "displayName", "password"}
      OBVIOUS
    <2>2. QED
      BY <2>1 DEF SignUpRequest
  <1>3. SignInRequest([email |-> AnEmail, password |-> 0]) = {}
    BY DEF SignInRequest, Password
  <1>4. UpdateUserRequest(<<>>) = {}
    BY DEF UpdateUserRequest
  <1>5. UpdateUserRequest([displayName |-> AName, email |-> AnEmail]) = {}
    BY DEF UpdateUserRequest
  <1>6. ListUsersRequest([limit |-> 251]) = {}
    BY DEF ListUsersRequest, Given
  <1>7. ListUsersRequest([after |-> "cursor", before |-> "cursor"]) = {}
    BY DEF ListUsersRequest, OneCursor
  <1>8. QueryUsersRequest([criteria |-> <<>>]) = {}
    BY DEF QueryUsersRequest
  <1>9. QueryUsersRequest([limit |-> 1]) = {}
    BY DEF QueryUsersRequest
  <1>10. QED
    BY <1>1, <1>2, <1>3, <1>4, <1>5, <1>6, <1>7, <1>8, <1>9 DEF BadRequest

LEMMA ArriveStep ==
  ASSUME ProfilesInv, NEW r \in Requests, Arrive(r)
  PROVE  ProfilesInv'
  <1>1. CASE BadRequest(r)
    BY <1>1, BadRequestRefused, ReceiveStep
  <1>2. ASSUME NEW body \in SignUpBodies, SignUp(r, body) PROVE ProfilesInv'
    <2>1. Receive(r, "signUp", "insert", None, None, SignUpRequest(body))
      BY <1>2 DEF SignUp
    <2>2. \A data \in SignUpRequest(body) :
             /\ StateOK(Running("signUp", "insert", None, None, data))
             /\ HistoryOK(Running("signUp", "insert", None, None, data))
      BY SignUpOutputs, RunningOK
    <2>3. QED
      BY <2>1, <2>2, ReceiveStep
  <1>3. ASSUME NEW body \in SignInBodies, SignIn(r, body) PROVE ProfilesInv'
    <2>1. Receive(r, "signIn", "lookup", None, None, SignInRequest(body))
      BY <1>3 DEF SignIn
    <2>2. \A data \in SignInRequest(body) :
             /\ StateOK(Running("signIn", "lookup", None, None, data))
             /\ HistoryOK(Running("signIn", "lookup", None, None, data))
      BY SignInOutputs, RunningOK
    <2>3. QED
      BY <2>1, <2>2, ReceiveStep
  <1>4. ASSUME NEW viewer \in Ids, NEW id \in Ids, NEW op \in {"getMe", "getUser"},
               GetUser(r, op, viewer, id)
        PROVE  ProfilesInv'
    <2>1. Receive(r, op, "find", viewer, id, {<<>>}) /\ (op = "getMe" => id = viewer)
      BY <1>4 DEF GetUser
    <2>2. \A data \in {<<>>} : /\ StateOK(Running(op, "find", viewer, id, data))
                               /\ HistoryOK(Running(op, "find", viewer, id, data))
      BY <2>1, RunningOK
    <2>3. QED
      BY <2>1, <2>2, ReceiveStep
  <1>5. ASSUME NEW viewer \in Ids, NEW id \in Ids, NEW body \in UpdateBodies,
               UpdateUser(r, viewer, id, body)
        PROVE  ProfilesInv'
    <2>1. Receive(r, "update", "owner", viewer, id, UpdateUserRequest(body))
      BY <1>5 DEF UpdateUser
    <2>2. \A data \in UpdateUserRequest(body) :
             /\ StateOK(Running("update", "owner", viewer, id, data))
             /\ HistoryOK(Running("update", "owner", viewer, id, data))
      BY UpdateOutputs, RunningOK
    <2>3. QED
      BY <2>1, <2>2, ReceiveStep
  <1>6. ASSUME NEW viewer \in Ids, NEW id \in Ids, DeleteUser(r, viewer, id)
        PROVE  ProfilesInv'
    <2>1. Receive(r, "delete", "owner", viewer, id, {<<>>})
      BY <1>6 DEF DeleteUser
    <2>2. \A data \in {<<>>} : /\ StateOK(Running("delete", "owner", viewer, id, data))
                               /\ HistoryOK(Running("delete", "owner", viewer, id, data))
      BY RunningOK
    <2>3. QED
      BY <2>1, <2>2, ReceiveStep
  <1>7. ASSUME NEW viewer \in Ids, NEW value \in ListQueries, List(r, viewer, value)
        PROVE  ProfilesInv'
    <2>1. Receive(r, "list", "select", viewer, None, ListUsersRequest(value))
      BY <1>7 DEF List
    <2>2. \A data \in ListUsersRequest(value) :
             /\ StateOK(Running("list", "select", viewer, None, data))
             /\ HistoryOK(Running("list", "select", viewer, None, data))
      BY ListOutputs, RunningOK
    <2>3. QED
      BY <2>1, <2>2, ReceiveStep
  <1>8. ASSUME NEW viewer \in Ids, NEW body \in QueryBodies, Query(r, viewer, body)
        PROVE  ProfilesInv'
    <2>1. Receive(r, "query", "select", viewer, None, QueryUsersRequest(body))
      BY <1>8 DEF Query
    <2>2. \A data \in QueryUsersRequest(body) :
             /\ StateOK(Running("query", "select", viewer, None, data))
             /\ HistoryOK(Running("query", "select", viewer, None, data))
      BY QueryOutputs, RunningOK
    <2>3. QED
      BY <2>1, <2>2, ReceiveStep
  <1>9. QED
    BY <1>1, <1>2, <1>3, <1>4, <1>5, <1>6, <1>7, <1>8 DEF Arrive
-----------------------------------------------------------------------------
\* Registration and sign-in.

LEMMA Registered ==
  ASSUME UsersOK, NEW id \in UnusedIds, NEW email, NormalEmail(email), NEW name, NormalName(name),
         NEW row, row = [id |-> id, email |-> email, displayName |-> name, passwordHash |-> "hash"],
         users' \in Create(users, row, {"id", "email"}), UNCHANGED spent
  PROVE  UsersOK' /\ Kept
  <1>1. /\ users' = users \cup {row}
        /\ \A other \in users : other.id # row.id /\ other.email # row.email
    BY DEF Create
  <1>2. id \in Ids /\ id \notin spent /\ row.id = id /\ row.email = email
    BY DEF UnusedIds
  <1>3. RowOK(row)
    BY <1>2 DEF RowOK, UserFields
  <1>4. \A other \in users : other.email.word # row.email.word
    BY <1>1, <1>2, SameWord DEF UsersOK, RowOK
  <1>5. IsFiniteSet(users')
    BY <1>1, FS_AddElement DEF UsersOK
  <1>6. Kept
    BY <1>1 DEF Kept, Present
  <1>7. \A other \in users' : RowOK(other)
    BY <1>1, <1>3 DEF UsersOK
  <1>8. \A one, other \in users' :
           one.id = other.id \/ one.email.word = other.email.word => one = other
    BY <1>1, <1>4 DEF UsersOK
  <1>9. \A spentId \in spent : ~Present(spentId)'
    BY <1>1, <1>2 DEF UsersOK, Present
  <1>10. QED
    BY <1>5, <1>6, <1>7, <1>8, <1>9 DEF UsersOK

LEMMA RegisterStep ==
  ASSUME ProfilesInv, NEW r \in Requests, Register(r)
  PROVE  ProfilesInv'
  <1> DEFINE data == req[r].data
             d == [email |-> data.email, displayName |-> data.displayName]
             RowOf(id, new) == [id |-> id, email |-> new.email, displayName |-> new.displayName,
                                passwordHash |-> "hash"]
  <1>1. NormalEmail(data.email) /\ NormalName(data.displayName)
    BY DEF Register, At, ProfilesInv, StateOK
  <1>2. CreateUserRequest(data) = {d}
    BY <1>1, IdempotentEmail, IdempotentName DEF CreateUserRequest
  <1>3. UserInputs.unique = {"id", "email"}
    BY DEF UserInputs
  <1>4. PICK id \in UnusedIds :
          LET tables == UNION {Create(users, RowOf(id, new), UserInputs.unique) : new \in CreateUserRequest(data)}
          IN  \/ CreateUserRequest(data) = {} /\ Refuse(r, 500) /\ UNCHANGED users
              \/ CreateUserRequest(data) # {} /\ tables = {} /\ Refuse(r, 409) /\ UNCHANGED users
              \/ \E table \in tables : users' = table /\ Refuse(r, 201)
    BY DEF Register
  <1>5. UNION {Create(users, RowOf(id, new), UserInputs.unique) : new \in CreateUserRequest(data)}
           = Create(users, RowOf(id, d), {"id", "email"})
    BY <1>2, <1>3
  <1>6. UNCHANGED spent
    BY DEF Register
  <1>7. CASE Refuse(r, 409) /\ UNCHANGED users
    BY <1>6, <1>7, Reading, RefuseStep DEF ProfilesInv, NoWrites, Statuses
  <1>8. CASE users' \in Create(users, RowOf(id, d), {"id", "email"}) /\ Refuse(r, 201)
    <2>1. RowOf(id, d) = [id |-> id, email |-> data.email, displayName |-> data.displayName,
                          passwordHash |-> "hash"]
      OBVIOUS
    <2>2. UsersOK' /\ Kept
      BY <1>1, <1>6, <1>8, <2>1, Registered DEF ProfilesInv
    <2>3. QED
      BY <1>8, <2>2, RefuseStep DEF Statuses
  <1>9. QED
    BY <1>2, <1>4, <1>5, <1>7, <1>8

LEMMA FindIdByEmailStep ==
  ASSUME ProfilesInv, NEW r \in Requests, FindIdByEmail(r)
  PROVE  ProfilesInv'
  <1> DEFINE email == req[r].data.email
             meant == Spelled(email)
  <1>1. /\ req[r].pc = "lookup" /\ StateOK(req[r]) /\ NormalEmail(email)
        /\ UsersOK' /\ Kept
    BY Reading DEF FindIdByEmail, At, ProfilesInv, StateOK
  <1>2. NormalizedEmail(email) = {email} /\ (CHOOSE one \in NormalizedEmail(email) : TRUE) = email
    BY <1>1, IdempotentEmail
  <1>3. \/ /\ FindUnique(users, "email", email) = {}
           /\ Become(r, Answered("signIn", None, 401, {}, meant))
        \/ \E row \in FindUnique(users, "email", email) :
             Become(r, [req[r] EXCEPT !.pc = "verify", !.id = row.id, !.meant = meant])
    BY <1>2 DEF FindIdByEmail
  <1>4. CASE /\ FindUnique(users, "email", email) = {}
             /\ Become(r, Answered("signIn", None, 401, {}, meant))
    <2>1. meant = {}
      BY <1>1, <1>4, SameWord DEF Spelled, FindUnique, ProfilesInv, UsersOK, RowOK
    <2>2. PICK s : s = Answered("signIn", None, 401, {}, {})
      OBVIOUS
    <2>3. StateOK(s)
      BY <2>2, SignedInOK
    <2>4. HistoryOK(s)
      BY <2>2 DEF HistoryOK, Answered
    <2>5. QED
      BY <1>1, <1>4, <2>1, <2>2, <2>3, <2>4, Becomes
  <1>5. ASSUME NEW row \in FindUnique(users, "email", email),
               Become(r, [req[r] EXCEPT !.pc = "verify", !.id = row.id, !.meant = meant])
        PROVE  ProfilesInv'
    <2>1. row \in users /\ row.email = email
      BY DEF FindUnique
    <2>2. meant = {row.id} /\ row.id \in Ids /\ Present(row.id)
      BY <2>1 DEF Spelled, ProfilesInv, UsersOK, RowOK, Present
    <2>3. PICK s : s = [req[r] EXCEPT !.pc = "verify", !.id = row.id, !.meant = {row.id}]
      OBVIOUS
    <2>4. /\ DOMAIN s = StateFields /\ s = [field \in DOMAIN s |-> s[field]]
          /\ s.pc = "verify" /\ s.id = row.id /\ s.meant = {row.id} /\ s.status = req[r].status
          /\ s.rows = req[r].rows /\ s.op = req[r].op /\ s.viewer = req[r].viewer
      BY <1>1, <2>3 DEF StateOK, StateFields
    <2>5. StateOK(s) /\ HistoryOK(s)
      BY <1>1, <2>2, <2>4 DEF StateOK, HistoryOK, PCs
    <2>6. QED
      BY <1>1, <1>5, <2>2, <2>3, <2>5, Becomes
  <1>6. QED
    BY <1>3, <1>4, <1>5

LEMMA VerifyStep ==
  ASSUME ProfilesInv, NEW r \in Requests, Verify(r)
  PROVE  ProfilesInv'
  <1>1. /\ req[r].pc = "verify" /\ StateOK(req[r]) /\ HistoryOK(req[r])
        /\ UsersOK' /\ Kept
    BY Reading DEF Verify, At, ProfilesInv
  <1>2. PICK id, viewer : id = req[r].id /\ viewer = req[r].viewer
    OBVIOUS
  <1>3. req[r].op = "signIn" /\ req[r].meant = {id} /\ viewer \in Ids \cup {None}
    BY <1>1, <1>2 DEF StateOK
  <1>4. CASE Present(id)
    <2>1. PICK s : s = Answered("signIn", viewer, 200, {[id |-> id]}, {id})
      OBVIOUS
    <2>2. StateOK(s)
      BY <1>3, <2>1, SignedInOK
    <2>3. HistoryOK(s)
      BY <2>1 DEF HistoryOK, Answered
    <2>4. Become(r, s)
      BY <1>2, <1>3, <1>4, <2>1 DEF Verify, Answer
    <2>5. QED
      BY <1>1, <2>2, <2>3, <2>4, Becomes
  <1>5. CASE ~Present(id)
    <2>1. PICK s : s = Answered("signIn", viewer, 401, {}, {id})
      OBVIOUS
    <2>2. StateOK(s)
      BY <1>3, <2>1, SignedInOK
    <2>3. HistoryOK(s)
      BY <1>1, <1>2, <1>5, <2>1 DEF HistoryOK, Answered
    <2>4. Become(r, s)
      BY <1>2, <1>3, <1>5, <2>1 DEF Verify, Answer
    <2>5. QED
      BY <1>1, <2>2, <2>3, <2>4, Becomes
  <1>6. QED
    BY <1>4, <1>5
-----------------------------------------------------------------------------
\* Profiles.

\* What a viewer is shown of a row.
View(row, viewer) == IF row.id = viewer THEN UserSelect(row) ELSE Public(row)

LEMMA ViewOK ==
  ASSUME NEW row, NEW viewer
  PROVE  /\ DOMAIN View(row, viewer) \subseteq UserFields /\ View(row, viewer).id = row.id
         /\ "email" \in DOMAIN View(row, viewer) => View(row, viewer).id = viewer
  <1>1. CASE row.id = viewer
    BY <1>1, SelectIs DEF View
  <1>2. CASE row.id # viewer
    <2>1. DOMAIN Public(row) = {"id", "displayName"} /\ Public(row).id = row.id
      BY DEF Public
    <2>2. QED
      BY <1>2, <2>1 DEF View, UserFields
  <1>3. QED
    BY <1>1, <1>2

LEMMA FoundIs ==
  ASSUME UsersOK, NEW id
  PROVE  /\ ~Present(id) => Found(id) = {} /\ FindUnique(users, "id", id) = {}
         /\ Present(id) => \E row \in users :
                              /\ row.id = id /\ RowOK(row)
                              /\ FindUnique(users, "id", id) = {row}
                              /\ Found(id) = {UserSelect(row)}
  <1>1. CASE ~Present(id)
    BY <1>1 DEF Present, Found, FindUnique
  <1>2. CASE Present(id)
    <2>1. PICK row \in users : row.id = id
      BY <1>2 DEF Present
    <2>2. FindUnique(users, "id", id) = {row} /\ RowOK(row)
      BY <2>1 DEF FindUnique, UsersOK
    <2>3. User(UserSelect(row)) = {UserSelect(row)}
      BY <2>2, UserAgain DEF RowOK
    <2>4. Found(id) = {UserSelect(row)}
      BY <2>2, <2>3 DEF Found
    <2>5. QED
      BY <1>2, <2>1, <2>2, <2>4
  <1>3. QED
    BY <1>1, <1>2

\* An answer that shows one row.
LEMMA ShowStep ==
  ASSUME ProfilesInv, UsersOK', Kept, NEW r \in Requests, StateOK(req[r]),
         req[r].op \notin {"signIn", "list"}, NEW row,
         Answer(r, 200, {View(row, req[r].viewer)})
  PROVE  ProfilesInv'
  <1>1. PICK op, viewer, meant : op = req[r].op /\ viewer = req[r].viewer /\ meant = req[r].meant
    OBVIOUS
  <1>2. PICK rows : rows = {View(row, viewer)}
    OBVIOUS
  <1>3. \A one \in rows : /\ DOMAIN one \subseteq UserFields
                          /\ "email" \in DOMAIN one => one.id = viewer
    BY <1>2, ViewOK
  <1>4. PICK s : s = Answered(op, viewer, 200, rows, meant)
    OBVIOUS
  <1>5. viewer \in Ids \cup {None} /\ op \notin {"signIn", "list"}
    BY <1>1 DEF StateOK
  <1>6. StateOK(s) /\ HistoryOK(s)
    BY <1>3, <1>4, <1>5 DEF Answered, StateOK, StateFields, PCs, Statuses, HistoryOK
  <1>7. Become(r, s)
    BY <1>1, <1>2, <1>4 DEF Answer
  <1>8. QED
    BY <1>6, <1>7, Becomes

\* What StateOK says at the places where a row is read or written.
LEMMA PlaceOK ==
  ASSUME NEW s, StateOK(s)
  PROVE  /\ s.pc = "find" => /\ s.viewer \in Ids /\ s.id \in Ids /\ s.op \in {"getMe", "getUser"}
                             /\ s.op = "getMe" => s.id = s.viewer
         /\ s.pc = "select" => s.viewer \in Ids /\ FilterOK(s.data)
         /\ s.pc \in {"owner", "write"} =>
               /\ s.viewer \in Ids /\ s.id \in Ids /\ s.op \in {"update", "delete"}
               /\ s.op = "update" => DOMAIN s.data = {"displayName"} /\ NormalName(s.data.displayName)
         /\ s.pc = "write" => s.id = s.viewer
  BY DEF StateOK

LEMMA FindByIdStep ==
  ASSUME ProfilesInv, NEW r \in Requests, FindById(r)
  PROVE  ProfilesInv'
  <1> DEFINE id == req[r].id
             viewer == req[r].viewer
             shown == {ProjectForViewer(user, viewer) : user \in Found(id)}
  <1>0. req[r].pc = "find" /\ StateOK(req[r]) /\ UsersOK /\ UsersOK' /\ Kept
    BY Reading DEF FindById, At, ProfilesInv
  <1>1. /\ StateOK(req[r]) /\ req[r].op \notin {"signIn", "list"}
        /\ req[r].op = "getMe" => id = viewer
        /\ UsersOK /\ UsersOK' /\ Kept
    <2>1. PICK s : s = req[r]
      OBVIOUS
    <2>2. StateOK(s) /\ s.pc = "find"
      BY <1>0, <2>1
    <2>3. s.op \in {"getMe", "getUser"} /\ (s.op = "getMe" => s.id = s.viewer)
      BY <2>2, PlaceOK
    <2>4. QED
      BY <1>0, <2>1, <2>3
  <1>2. \/ ~Present(id) /\ Refuse(r, 404)
        \/ Present(id) /\ Found(id) = {} /\ Refuse(r, 500)
        \/ Found(id) # {} /\ req[r].op = "getMe" /\ Respond(r, {UserResponse(user) : user \in shown})
        \/ Found(id) # {} /\ req[r].op # "getMe" /\ Respond(r, {ViewerUserResponse(user) : user \in shown})
    BY DEF FindById
  <1>3. CASE ~Present(id) /\ Refuse(r, 404)
    BY <1>1, <1>3, RefuseStep DEF Statuses
  <1>4. CASE Present(id)
    <2>1. PICK row \in users : row.id = id /\ RowOK(row) /\ Found(id) = {UserSelect(row)}
      BY <1>1, <1>4, FoundIs
    <2>2. shown = {ProjectForViewer(UserSelect(row), viewer)}
      BY <2>1
    <2>3. ViewerUserResponse(ProjectForViewer(UserSelect(row), viewer)) = {View(row, viewer)}
      BY <2>1, ShownTo DEF RowOK, View
    <2>4. req[r].op = "getMe" =>
             UserResponse(ProjectForViewer(UserSelect(row), viewer)) = {View(row, viewer)}
      BY <1>1, <2>1, ShownTo, ResponseAgain DEF RowOK, View
    <2> HIDE DEF shown
    <2>5. Respond(r, {{View(row, viewer)}})
      <3>1. {ViewerUserResponse(user) : user \in shown} = {{View(row, viewer)}}
        BY <2>2, <2>3
      <3>2. req[r].op = "getMe" => {UserResponse(user) : user \in shown} = {{View(row, viewer)}}
        BY <2>2, <2>4
      <3>3. Found(id) # {}
        BY <2>1
      <3>4. \/ req[r].op = "getMe" /\ Respond(r, {UserResponse(user) : user \in shown})
            \/ Respond(r, {ViewerUserResponse(user) : user \in shown})
        BY <1>2, <1>4, <3>3
      <3>5. CASE req[r].op = "getMe" /\ Respond(r, {UserResponse(user) : user \in shown})
        BY <3>2, <3>5
      <3>6. CASE Respond(r, {ViewerUserResponse(user) : user \in shown})
        BY <3>1, <3>6
      <3>7. QED
        BY <3>4, <3>5, <3>6
    <2>6. Answer(r, 200, {View(row, viewer)})
      BY <2>5 DEF Respond
    <2>7. QED
      BY <1>1, <2>6, ShowStep
  <1>5. QED
    BY <1>1, <1>2, <1>3, <1>4, FoundIs
-----------------------------------------------------------------------------
\* Listings.

ByIdDown == <<[column |-> "id", direction |-> "desc"]>>

\* Two rows never have the same id, so the order of a listing tells them apart.
LEMMA IdsOrder ==
  ASSUME UsersOK, NEW rows \in SUBSET users
  PROVE  Orders(ByIdDown, rows)
  <1>1. \A row \in rows : row.id \in Nat
    BY ProfilesAssumption DEF UsersOK, RowOK
  <1>2. \A row, other \in rows : row.id = other.id => row = other
    BY DEF UsersOK
  <1>3. \A row, other \in rows : Precedes(ByIdDown, row, other) <=> row.id > other.id
    <2> SUFFICES ASSUME NEW row \in rows, NEW other \in rows
                 PROVE  Precedes(ByIdDown, row, other) <=> row.id > other.id
      OBVIOUS
    <2>1. /\ DOMAIN ByIdDown = {1} /\ 1 .. 1 - 1 = {}
          /\ ByIdDown[1].column = "id" /\ ByIdDown[1].direction = "desc"
      BY DEF ByIdDown
    <2>2. QED
      BY <2>1 DEF Precedes
  <1>4. QED
    BY <1>1, <1>2, <1>3 DEF Orders

\* The filter of a listing, and the rows it finds.
ByEmail(filter) == {{{Equals("email", email)}} : email \in ToSet(filter)}

LEMMA FilterFinds ==
  ASSUME NEW filter, filter = <<>> \/ \E email : filter = <<email>>
  PROVE  /\ filter = <<>> => RowsFound(users, ByEmail(filter)) = users
         /\ filter # <<>> => RowsFound(users, ByEmail(filter)) = {row \in users : row.email = filter[1]}
  <1>1. CASE filter = <<>>
    <2>1. ByEmail(filter) = {}
      BY <1>1 DEF ByEmail, ToSet
    <2>2. QED
      BY <1>1, <2>1 DEF RowsFound, Satisfies
  <1>2. ASSUME NEW email, filter = <<email>>
        PROVE  /\ filter # <<>> /\ filter[1] = email
               /\ RowsFound(users, ByEmail(filter)) = {row \in users : row.email = email}
    <2>1. ToSet(filter) = {email} /\ filter # <<>> /\ filter[1] = email
      BY <1>2 DEF ToSet
    <2>2. ByEmail(filter) = {{{Equals("email", email)}}}
      BY <2>1 DEF ByEmail
    <2>3. \A row : Satisfies(row, ByEmail(filter)) <=> Holds(Equals("email", email), row)
      BY <2>2 DEF Satisfies
    <2>4. \A row : Holds(Equals("email", email), row) <=> row.email = email
      BY DEF Holds, Equals
    <2>5. QED
      BY <2>1, <2>3, <2>4 DEF RowsFound
  <1>3. QED
    BY <1>1, <1>2
\* The rows of the first page: some of those found, and one unless there are none.
FirstPage(data) ==
    LET rows == FindMany(users, ByEmail(data.email), ByIdDown, data.limit + 1)
    IN  {rows[i] : i \in DOMAIN rows \cap 1 .. data.limit}

Meant(data) == IF data.email = <<>> THEN {row.id : row \in users} ELSE Spelled(data.email[1])

LEMMA FirstPageIs ==
  ASSUME UsersOK, NEW data, FilterOK(data)
  PROVE  /\ FirstPage(data) \subseteq users
         /\ {row.id : row \in FirstPage(data)} \subseteq Meant(data)
         /\ Meant(data) # {} => FirstPage(data) # {}
  <1> DEFINE found == RowsFound(users, ByEmail(data.email))
             rows == FindMany(users, ByEmail(data.email), ByIdDown, data.limit + 1)
  <1>1. data.limit \in 1 .. 250 /\ data.limit + 1 \in Nat
    <2>1. PICK limit : limit = data.limit
      OBVIOUS
    <2>2. limit \in 1 .. 250
      BY <2>1 DEF FilterOK
    <2>3. limit \in 1 .. 250 /\ limit + 1 \in Nat
      BY <2>2
    <2>4. QED
      BY <2>1, <2>3
  <1>2. FirstRows(rows, found, ByIdDown, data.limit + 1)
    <2>1. found \in SUBSET users
      BY DEF RowsFound
    <2>2. Orders(ByIdDown, found)
      BY <2>1, IdsOrder
    <2>3. IsFiniteSet(users)
      BY DEF UsersOK
    <2>4. QED
      BY <1>1, <2>2, <2>3, FindManyAnswers
  <1>3. {row.id : row \in found} = Meant(data)
    <2>1. CASE data.email = <<>>
      BY <2>1, FilterFinds DEF Meant
    <2>2. ASSUME NEW email, NormalEmail(email), data.email = <<email>>
          PROVE  {row.id : row \in found} = Meant(data)
      <3>1. data.email # <<>> /\ data.email[1] = email
        BY <2>2
      <3>2. found = {row \in users : row.email = email} /\ Meant(data) = Spelled(email)
        BY <2>2, <3>1, FilterFinds DEF Meant
      <3>3. \A row \in users : row.email = email <=> row.email.word = email.word
        BY <2>2, SameWord DEF UsersOK, RowOK
      <3> HIDE DEF found
      <3>4. QED
        BY <3>2, <3>3 DEF Spelled
    <2>3. QED
      BY <2>1, <2>2 DEF FilterOK
  <1>4. FirstPage(data) = {rows[i] : i \in DOMAIN rows \cap 1 .. data.limit}
    BY DEF FirstPage
  <1>5. found \subseteq users
    BY DEF RowsFound
  <1> HIDE DEF rows, found
  <1>6. rows \in Seq(found)
    BY <1>2 DEF FirstRows
  <1>7. FirstPage(data) \subseteq found
    BY <1>4, <1>6
  <1>8. found # {} => FirstPage(data) # {}
    <2> SUFFICES ASSUME NEW row \in found PROVE FirstPage(data) # {}
      OBVIOUS
    <2>1. (\E i \in 1 .. Len(rows) : rows[i] = row) \/ Len(rows) = data.limit + 1
      BY <1>2 DEF FirstRows
    <2>2. PICK limit : limit = data.limit
      OBVIOUS
    <2>3. limit \in 1 .. 250 /\ Len(rows) \in Nat /\ DOMAIN rows = 1 .. Len(rows)
      BY <1>1, <1>6, <2>2
    <2>4. Len(rows) >= 1
      <3>1. CASE \E i \in 1 .. Len(rows) : rows[i] = row
        BY <2>3, <3>1
      <3>2. CASE Len(rows) = limit + 1
        BY <2>3, <3>2
      <3>3. QED
        BY <2>1, <2>2, <3>1, <3>2
    <2>5. 1 \in DOMAIN rows /\ 1 \in 1 .. limit
      BY <2>3, <2>4
    <2>6. QED
      BY <1>4, <2>2, <2>5
  <1>9. QED
    BY <1>3, <1>5, <1>7, <1>8

\* What a viewer is shown of several rows.
Shown(page, viewer) == {ProjectForViewer(user, viewer) : user \in UNION {User(row) : row \in page}}

Responses(page, viewer) ==
    IF \E row \in page : User(row) = {} THEN {} ELSE ListUsersResponse(Shown(page, viewer))

LEMMA ShownPage ==
  ASSUME UsersOK, NEW kept \in SUBSET users, NEW viewer
  PROVE  Responses({UserSelect(row) : row \in kept}, viewer) = {{View(row, viewer) : row \in kept}}
  <1> DEFINE page == {UserSelect(row) : row \in kept}
             shown == Shown(page, viewer)
  <1>1. \A row \in kept : NormalEmail(row.email) /\ NormalName(row.displayName)
    BY DEF UsersOK, RowOK
  <1>2. \A row \in page : User(row) = {row}
    BY <1>1, UserAgain
  <1>3. UNION {User(row) : row \in page} = page
    <2> HIDE DEF page
    <2>1. QED
      BY <1>2
  <1>4. shown = {ProjectForViewer(UserSelect(row), viewer) : row \in kept}
    BY <1>3 DEF Shown
  <1>5. \A row \in kept :
           ViewerUserResponse(ProjectForViewer(UserSelect(row), viewer)) = {View(row, viewer)}
    BY <1>1, ShownTo DEF View
  <1> HIDE DEF shown
  <1>6. \A value \in shown : \E row \in kept : ViewerUserResponse(value) = {View(row, viewer)}
    BY <1>4, <1>5
  <1>7. UNION {ViewerUserResponse(value) : value \in shown} = {View(row, viewer) : row \in kept}
    BY <1>4, <1>5
  <1>8. ListUsersResponse(shown) = {UNION {ViewerUserResponse(value) : value \in shown}}
    BY <1>6 DEF ListUsersResponse
  <1>9. Responses(page, viewer) = ListUsersResponse(shown)
    BY <1>2 DEF Responses, shown
  <1>10. QED
    BY <1>7, <1>8, <1>9

LEMMA SelectStep ==
  ASSUME ProfilesInv, NEW r \in Requests, Select(r)
  PROVE  ProfilesInv'
  <1> DEFINE data == req[r].data
             viewer == req[r].viewer
             kept == FirstPage(data)
             rows == FindMany(users, ByEmail(data.email), ByIdDown, data.limit + 1)
             page == {UserSelect(rows[i]) : i \in DOMAIN rows \cap 1 .. data.limit}
             views == {View(row, viewer) : row \in kept}
  <1>1. /\ StateOK(req[r]) /\ req[r].pc = "select"
        /\ UsersOK /\ UsersOK' /\ Kept
    BY Reading DEF Select, At, ProfilesInv
  <1>2. viewer \in Ids /\ FilterOK(data)
    <2>1. PICK s : s = req[r]
      OBVIOUS
    <2>2. s.viewer \in Ids /\ FilterOK(s.data)
      BY <1>1, <2>1, PlaceOK
    <2>3. QED
      BY <2>1, <2>2
  <1>3. \/ Responses(page, viewer) = {} /\ Refuse(r, 500)
        \/ \E response \in Responses(page, viewer) :
             Become(r, Answered("list", viewer, 200, response, Meant(data)))
    BY DEF Select, Responses, Shown, ByEmail, ByIdDown, Meant
  <1>4. page = {UserSelect(row) : row \in kept}
    <2>1. kept = {rows[i] : i \in DOMAIN rows \cap 1 .. data.limit}
      BY DEF FirstPage
    <2> HIDE DEF kept, rows
    <2>2. QED
      BY <2>1
  <1> HIDE DEF page, rows, data, viewer
  <1>5. Responses(page, viewer) = {views}
    <2>1. kept \in SUBSET users
      BY <1>1, <1>2, FirstPageIs
    <2>2. QED
      BY <1>1, <1>4, <2>1, ShownPage
  <1>6. PICK s : s = Answered("list", viewer, 200, views, Meant(data))
    OBVIOUS
  <1>7. Become(r, s)
    BY <1>3, <1>5, <1>6
  <1>8. /\ {row.id : row \in kept} \subseteq Meant(data)
        /\ Meant(data) # {} => kept # {}
    BY <1>1, <1>2, FirstPageIs
  <1>9. {view.id : view \in views} = {row.id : row \in kept}
    BY ViewOK
  <1>10. /\ {view.id : view \in views} \subseteq Meant(data)
         /\ Meant(data) # {} => {view.id : view \in views} # {}
    <2>1. kept # {} => {row.id : row \in kept} # {}
      OBVIOUS
    <2>2. QED
      BY <1>8, <1>9, <2>1
  <1>11. \A view \in views : /\ DOMAIN view \subseteq UserFields
                             /\ "email" \in DOMAIN view => view.id = viewer
    BY ViewOK
  <1> HIDE DEF views
  <1>12. StateOK(s)
    <2>1. 200 \in Statuses /\ viewer \in Ids \cup {None}
      BY <1>2 DEF Statuses
    <2>2. StateOK(Answered("list", viewer, 200, views, Meant(data)))
      BY <1>10, <1>11, <2>1, AnsweredOK
    <2>3. QED
      BY <1>6, <2>2
  <1>13. HistoryOK(s)
    BY <1>6 DEF HistoryOK, Answered
  <1>14. QED
    BY <1>1, <1>7, <1>12, <1>13, Becomes
-----------------------------------------------------------------------------
\* Changes.

LEMMA RequireOwnerStep ==
  ASSUME ProfilesInv, NEW r \in Requests, RequireOwner(r)
  PROVE  ProfilesInv'
  <1>1. /\ StateOK(req[r]) /\ HistoryOK(req[r]) /\ req[r].pc = "owner"
        /\ UsersOK /\ UsersOK' /\ Kept
    BY Reading DEF RequireOwner, At, ProfilesInv
  <1>2. \/ ~Present(req[r].id) /\ Refuse(r, 404)
        \/ Present(req[r].id) /\ Found(req[r].id) = {} /\ Refuse(r, 500)
        \/ \E user \in Found(req[r].id) : user.id # req[r].viewer /\ Refuse(r, 403)
        \/ \E user \in Found(req[r].id) :
              user.id = req[r].viewer /\ Become(r, [req[r] EXCEPT !.pc = "write"])
    BY DEF RequireOwner
  <1>3. CASE Refuse(r, 404) \/ Refuse(r, 403)
    BY <1>1, <1>3, RefuseStep DEF Statuses
  <1>4. ~(Present(req[r].id) /\ Found(req[r].id) = {})
    BY <1>1, FoundIs
  <1>5. ASSUME NEW user \in Found(req[r].id), user.id = req[r].viewer,
               Become(r, [req[r] EXCEPT !.pc = "write"])
        PROVE  ProfilesInv'
    <2>1. PICK old : old = req[r]
      OBVIOUS
    <2>2. PICK s : s = [old EXCEPT !.pc = "write"]
      OBVIOUS
    <2>3. old.id = old.viewer
      <3>1. PICK row \in users : row.id = old.id /\ Found(old.id) = {UserSelect(row)}
        BY <1>1, <1>5, <2>1, FoundIs
      <3>2. QED
        BY <1>5, <2>1, <3>1, SelectIs
    <2>4. StateOK(old) /\ old.pc = "owner"
      BY <1>1, <2>1
    <2>5. /\ DOMAIN s = StateFields /\ s = [field \in DOMAIN s |-> s[field]]
          /\ s.pc = "write" /\ s.status = old.status /\ s.rows = old.rows /\ s.meant = old.meant
          /\ s.op = old.op /\ s.viewer = old.viewer /\ s.id = old.id /\ s.data = old.data
      BY <2>2, <2>4 DEF StateOK, StateFields
    <2>6. StateOK(s)
      BY <2>3, <2>4, <2>5 DEF StateOK, PCs
    <2>7. HistoryOK(s)
      BY <2>5 DEF HistoryOK
    <2>8. QED
      BY <1>1, <1>5, <2>1, <2>2, <2>6, <2>7, Becomes
  <1>6. QED
    BY <1>2, <1>3, <1>4, <1>5

\* The row as a change leaves it: the name may be new, nothing else.
Changed(row, data) ==
    [field \in DOMAIN row |-> IF field \in DOMAIN data THEN data[field] ELSE row[field]]

LEMMA ChangedOK ==
  ASSUME NEW row, RowOK(row), NEW data, DOMAIN data = {"displayName"}, NormalName(data.displayName)
  PROVE  /\ RowOK(Changed(row, data)) /\ Changed(row, data).id = row.id
         /\ Changed(row, data).email = row.email
         /\ Changed(row, data) = [row EXCEPT !.displayName = Changed(row, data).displayName]
  <1>1. PICK new : new = Changed(row, data)
    OBVIOUS
  <1>2. /\ DOMAIN row = UserFields \cup {"passwordHash"}
        /\ row = [field \in DOMAIN row |-> row[field]]
        /\ row.id \in Ids /\ NormalEmail(row.email)
    BY DEF RowOK
  <1>3. /\ DOMAIN new = DOMAIN row /\ new = [field \in DOMAIN new |-> new[field]]
        /\ \A field \in DOMAIN row \ {"displayName"} : new[field] = row[field]
        /\ new.displayName = data.displayName
    BY <1>1, <1>2 DEF Changed, UserFields
  <1>4. new.id = row.id /\ new.email = row.email
    BY <1>2, <1>3 DEF UserFields
  <1>5. RowOK(new)
    BY <1>2, <1>3, <1>4 DEF RowOK
  <1>6. new = [row EXCEPT !.displayName = new.displayName]
    BY <1>2, <1>3
  <1>7. QED
    BY <1>1, <1>4, <1>5, <1>6

\* What Update does to the table.
LEMMA UpdateIs ==
  ASSUME UsersOK, NEW id, NEW data, DOMAIN data = {"displayName"}, NormalName(data.displayName)
  PROVE  /\ ~Present(id) => Update(users, id, data) = {}
         /\ Present(id) => \E row \in users :
               /\ row.id = id
               /\ Update(users, id, data) = {(users \ {row}) \cup {Changed(row, data)}}
  <1>1. CASE ~Present(id)
    BY <1>1, FoundIs DEF Update
  <1>2. CASE Present(id)
    <2>1. PICK row \in users : row.id = id /\ FindUnique(users, "id", id) = {row}
      BY <1>2, FoundIs
    <2>2. Update(users, id, data) = {(users \ {one}) \cup {Changed(one, data)} : one \in {row}}
      BY <2>1 DEF Update, Changed
    <2>3. QED
      BY <1>2, <2>1, <2>2
  <1>3. QED
    BY <1>1, <1>2

LEMMA Renamed ==
  ASSUME UsersOK, NEW row \in users, NEW data, DOMAIN data = {"displayName"},
         NormalName(data.displayName),
         users' = (users \ {row}) \cup {Changed(row, data)}, UNCHANGED spent
  PROVE  UsersOK' /\ Kept
  <1>1. PICK new : new = Changed(row, data)
    OBVIOUS
  <1>2. RowOK(new) /\ new.id = row.id /\ new.email = row.email
    BY <1>1, ChangedOK DEF UsersOK
  <1>3. users' = (users \ {row}) \cup {new}
    BY <1>1
  <1>4. IsFiniteSet(users')
    <2>1. IsFiniteSet(users \ {row})
      BY FS_RemoveElement DEF UsersOK
    <2>2. QED
      BY <1>3, <2>1, FS_AddElement
  <1>5. \A other \in users' : RowOK(other)
    BY <1>2, <1>3 DEF UsersOK
  <1>6. \A one, other \in users' :
           one.id = other.id \/ one.email.word = other.email.word => one = other
    BY <1>2, <1>3 DEF UsersOK
  <1>7. \A id : Present(id)' <=> Present(id)
    BY <1>2, <1>3 DEF Present
  <1>8. Kept
    BY <1>7 DEF Kept
  <1>9. QED
    BY <1>4, <1>5, <1>6, <1>7, <1>8 DEF UsersOK

LEMMA UpdateRowStep ==
  ASSUME ProfilesInv, NEW r \in Requests, UpdateRow(r)
  PROVE  ProfilesInv'
  <1> DEFINE id == req[r].id
             data == req[r].data
             viewer == req[r].viewer
  <1>1. /\ StateOK(req[r]) /\ req[r].pc = "write" /\ req[r].op = "update"
        /\ UsersOK /\ UNCHANGED spent
    BY DEF UpdateRow, At, ProfilesInv
  <1>2. DOMAIN data = {"displayName"} /\ NormalName(data.displayName) /\ id = viewer
    <2>1. PICK s : s = req[r]
      OBVIOUS
    <2>2. StateOK(s) /\ s.pc = "write" /\ s.op = "update"
      BY <1>1, <2>1
    <2>3. DOMAIN s.data = {"displayName"} /\ NormalName(s.data.displayName) /\ s.id = s.viewer
      BY <2>2, PlaceOK
    <2>4. QED
      BY <2>1, <2>3
  <1>3. \/ Update(users, id, data) = {} /\ RecordNotFound(r) /\ UNCHANGED users
        \/ \E table \in Update(users, id, data) :
             /\ users' = table
             /\ LET parsed == UNION {User(UserSelect(row)) : row \in FindUnique(table, "id", id)}
                IN  IF parsed = {} THEN Refuse(r, 500)
                                   ELSE Respond(r, {UserResponse(user) : user \in parsed})
    BY DEF UpdateRow
  <1>4. CASE ~Present(id)
    <2>1. Refuse(r, 404) /\ NoWrites
      BY <1>1, <1>2, <1>3, <1>4, UpdateIs DEF RecordNotFound, NoWrites
    <2>2. QED
      BY <1>1, <2>1, Reading, RefuseStep DEF Statuses
  <1>5. CASE Present(id)
    <2>1. PICK row \in users :
            /\ row.id = id /\ Update(users, id, data) = {(users \ {row}) \cup {Changed(row, data)}}
      BY <1>1, <1>2, <1>5, UpdateIs
    <2>2. PICK new : new = Changed(row, data)
      OBVIOUS
    <2>3. RowOK(new) /\ new.id = id
      <3>1. PICK given : given = data
        OBVIOUS
      <3>2. RowOK(row) /\ DOMAIN given = {"displayName"} /\ NormalName(given.displayName)
        BY <1>1, <1>2, <3>1 DEF UsersOK
      <3>3. RowOK(Changed(row, given)) /\ Changed(row, given).id = row.id
        BY <3>2, ChangedOK
      <3>4. QED
        BY <2>1, <2>2, <3>1, <3>3
    <2>4. users' = (users \ {row}) \cup {new}
      BY <1>3, <2>1, <2>2
    <2>5. UsersOK' /\ Kept
      BY <1>1, <1>2, <2>2, <2>4, Renamed
    <2>6. FindUnique(users', "id", id) = {new}
      <3>1. \A other \in users \ {row} : other.id # id
        BY <1>1, <2>1 DEF UsersOK
      <3>2. QED
        BY <2>3, <2>4, <3>1 DEF FindUnique
    <2>7. UNION {User(UserSelect(one)) : one \in FindUnique(users', "id", id)} = {UserSelect(new)}
      BY <2>3, <2>6, UserAgain DEF RowOK
    <2>8. Respond(r, {UserResponse(user) : user \in {UserSelect(new)}})
      BY <1>3, <2>1, <2>7
    <2>9. UserResponse(UserSelect(new)) = {View(new, viewer)}
      BY <1>2, <2>3, ResponseAgain DEF RowOK, View
    <2>10. {UserResponse(user) : user \in {UserSelect(new)}} = {{View(new, viewer)}}
      BY <2>9
    <2>11. Answer(r, 200, {View(new, viewer)})
      BY <2>8, <2>10 DEF Respond
    <2>12. QED
      BY <1>1, <2>5, <2>11, ShowStep
  <1>6. QED
    BY <1>4, <1>5

LEMMA DeleteRowStep ==
  ASSUME ProfilesInv, NEW r \in Requests, DeleteRow(r)
  PROVE  ProfilesInv'
  <1> DEFINE id == req[r].id
  <1>1. /\ StateOK(req[r]) /\ req[r].pc = "write" /\ UsersOK
        /\ \/ Refuse(r, 404) /\ NoWrites
           \/ \E table \in Delete(users, id) :
                users' = table /\ spent' = spent \cup {id} /\ Refuse(r, 204)
    BY DEF DeleteRow, RecordNotFound, At, ProfilesInv
  <1>2. CASE Refuse(r, 404) /\ NoWrites
    BY <1>1, <1>2, Reading, RefuseStep DEF Statuses
  <1>3. ASSUME NEW table \in Delete(users, id),
               users' = table, spent' = spent \cup {id}, Refuse(r, 204)
        PROVE  ProfilesInv'
    <2>1. PICK row \in users : row.id = id /\ users' = users \ {row}
      BY <1>3 DEF Delete, FindUnique
    <2>2. IsFiniteSet(users')
      BY <1>1, <2>1, FS_RemoveElement DEF UsersOK
    <2>3. id \in Ids
      BY <1>1, <2>1 DEF UsersOK, RowOK
    <2>4. \A other \in users' : other \in users /\ other.id # id
      BY <1>1, <2>1 DEF UsersOK
    <2>5. \A one \in spent' : ~Present(one)'
      BY <1>1, <1>3, <2>4 DEF UsersOK, Present
    <2>6. UsersOK'
      BY <1>1, <1>3, <2>2, <2>3, <2>4, <2>5 DEF UsersOK
    <2>7. Kept
      BY <1>3, <2>1 DEF Kept, Present
    <2>8. QED
      BY <1>3, <2>6, <2>7, RefuseStep DEF Statuses
  <1>4. QED
    BY <1>1, <1>2, <1>3
-----------------------------------------------------------------------------
\* The theorems.

LEMMA ProfilesInit == Init => ProfilesInv
  <1> SUFFICES ASSUME Init PROVE ProfilesInv
    OBVIOUS
  <1>1. UsersOK
    BY FS_EmptySet DEF Init, UsersOK
  <1>2. req = [r \in Requests |-> Refused(0)]
    BY DEF Init
  <1>3. StateOK(Refused(0)) /\ HistoryOK(Refused(0))
    BY RefusedOK DEF Statuses
  <1>4. PICK s : s = Refused(0)
    OBVIOUS
  <1>5. req = [r \in Requests |-> s] /\ StateOK(s) /\ HistoryOK(s)
    BY <1>2, <1>3, <1>4
  <1>6. QED
    BY <1>1, <1>5 DEF ProfilesInv

LEMMA ProfilesNext == ProfilesInv /\ [Next]_vars => ProfilesInv'
  <1> SUFFICES ASSUME ProfilesInv, [Next]_vars PROVE ProfilesInv'
    OBVIOUS
  <1>1. ASSUME NEW r \in Requests, Arrive(r) PROVE ProfilesInv'
    BY <1>1, ArriveStep
  <1>2. ASSUME NEW r \in Requests, Step(r) PROVE ProfilesInv'
    BY <1>2, RegisterStep, FindIdByEmailStep, VerifyStep, FindByIdStep, SelectStep,
       RequireOwnerStep, UpdateRowStep, DeleteRowStep DEF Step
  <1>3. CASE UNCHANGED vars
    BY <1>3 DEF vars, ProfilesInv, UsersOK, Present, HistoryOK
  <1>4. QED
    BY <1>1, <1>2, <1>3 DEF Next

\* The inductive invariant holds: rows are in normal form and no two share an
\* id or an email, and every request holds outputs of its contract.
THEOREM ProfilesCorrect == Spec => []ProfilesInv
  BY ProfilesInit, ProfilesNext, PTL DEF Spec

\* No request ends in a failure, and what a row passed on its way in it passes
\* unchanged on its way out.
THEOREM ProfilesTyped == Spec => []TypeOK
  <1>1. ProfilesInv => TypeOK
    <2> SUFFICES ASSUME ProfilesInv PROVE TypeOK
      OBVIOUS
    <2>1. ASSUME NEW row \in users
          PROVE  /\ DOMAIN row = UserFields \cup {"passwordHash"} /\ row.id \in Ids
                 /\ User(UserSelect(row)) = {UserSelect(row)}
      BY UserAgain DEF ProfilesInv, UsersOK, RowOK
    <2>2. ASSUME NEW r \in Requests
          PROVE  /\ req[r].pc \in PCs
                 /\ req[r].viewer \in Ids \cup {None} /\ req[r].id \in Ids \cup {None}
                 /\ req[r].status \in {0, 200, 201, 204, 400, 401, 403, 404, 409}
      <3>1. PICK s : s = req[r] /\ StateOK(s)
        BY DEF ProfilesInv
      <3>2. /\ s.pc \in PCs /\ s.viewer \in Ids \cup {None} /\ s.id \in Ids \cup {None}
            /\ s.status \in Statuses
        BY <3>1 DEF StateOK
      <3>3. QED
        BY <3>1, <3>2 DEF Statuses
    <2>3. spent \subseteq Ids /\ \A id \in spent : ~Present(id)
      BY DEF ProfilesInv, UsersOK
    <2>4. QED
      BY <2>1, <2>2, <2>3 DEF TypeOK
  <1>2. QED
    BY <1>1, ProfilesCorrect, PTL

\* No answer shows an email to anybody but its owner, nor a hash to anybody.
THEOREM EmailsCorrect == Spec => []EmailOnlyToOwner
  <1>1. ProfilesInv => EmailOnlyToOwner
    <2> SUFFICES ASSUME ProfilesInv, NEW r \in Requests, NEW row \in req[r].rows
                 PROVE  /\ DOMAIN row \subseteq UserFields
                        /\ "email" \in DOMAIN row => row.id = req[r].viewer
      BY DEF EmailOnlyToOwner
    <2>1. PICK s : s = req[r] /\ StateOK(s)
      BY DEF ProfilesInv
    <2>2. \A one \in s.rows : /\ DOMAIN one \subseteq UserFields
                              /\ "email" \in DOMAIN one => one.id = s.viewer
      BY <2>1 DEF StateOK
    <2>3. QED
      BY <2>1, <2>2
  <1>2. QED
    BY <1>1, ProfilesCorrect, PTL

\* However an email is spelled, it is one account's, and sign-in and listings
\* find that account as long as it is there.
THEOREM SpellingsCorrect == Spec => []SpellingsMeet
  <1>1. ProfilesInv => SpellingsMeet
    <2> SUFFICES ASSUME ProfilesInv PROVE SpellingsMeet
      OBVIOUS
    <2>1. \A row, other \in users : row.email.word = other.email.word => row = other
      BY DEF ProfilesInv, UsersOK
    <2>2. ASSUME NEW r \in Requests
          PROVE  LET found == {row.id : row \in req[r].rows} IN
                 /\ Free(r) /\ req[r].op = "signIn" =>
                      /\ req[r].status = 200 => found = req[r].meant
                      /\ req[r].status = 401 => req[r].meant \subseteq spent
                 /\ Free(r) /\ req[r].op = "list" /\ req[r].status = 200 =>
                      found \subseteq req[r].meant /\ (req[r].meant # {} => found # {})
      <3>1. PICK s : s = req[r] /\ StateOK(s) /\ HistoryOK(s)
        BY DEF ProfilesInv
      <3>2. s.pc = "answered" =>
              LET found == {row.id : row \in s.rows} IN
              /\ s.op = "signIn" =>
                   /\ s.status = 200 => found = s.meant
                   /\ s.status = 401 => s.meant \subseteq spent
              /\ s.op = "list" /\ s.status = 200 =>
                   found \subseteq s.meant /\ (s.meant # {} => found # {})
        BY <3>1 DEF StateOK, HistoryOK
      <3>3. QED
        BY <3>1, <3>2 DEF Free
    <2>3. QED
      BY <2>1, <2>2 DEF SpellingsMeet
  <1>2. QED
    BY <1>1, ProfilesCorrect, PTL

\* What the next lemmas establish of each step.
OwnerChanges ==
    /\ \A row \in users \ users' : \E r \in Requests :
         At(r, "write") /\ req[r].viewer = row.id /\ req'[r] # req[r]
    /\ \A row \in users, new \in users' :
         new.id = row.id => new = [row EXCEPT !.displayName = new.displayName]

LEMMA SameRow ==
  ASSUME UsersOK, NEW row \in users
  PROVE  row = [row EXCEPT !.displayName = row.displayName]
  BY DEF UsersOK, RowOK

LEMMA NobodyChanges == ASSUME UsersOK, UNCHANGED users PROVE OwnerChanges
  BY SameRow DEF OwnerChanges, UsersOK

\* A request that writes is answered by its write.
LEMMA WriteAnswers ==
  ASSUME ProfilesInv, NEW r \in Requests, req[r].pc = "write", NEW s, Become(r, s), s.pc = "answered"
  PROVE  req'[r] # req[r]
  <1>1. req'[r] = s
    BY DEF Become, ProfilesInv
  <1>2. QED
    BY <1>1

LEMMA RegisterChanges ==
  ASSUME ProfilesInv, NEW r \in Requests, Register(r), ~UNCHANGED users
  PROVE  OwnerChanges
  <1>1. PICK id \in UnusedIds : \E new : new.id = id /\ users' = users \cup {new}
    <2>1. PICK id \in UnusedIds, data \in CreateUserRequest(req[r].data) :
            users' \in Create(users, [id |-> id, email |-> data.email,
                                      displayName |-> data.displayName,
                                      passwordHash |-> "hash"], UserInputs.unique)
      BY DEF Register
    <2>2. PICK new : new = [id |-> id, email |-> data.email,
                            displayName |-> data.displayName, passwordHash |-> "hash"]
      OBVIOUS
    <2>3. users' = users \cup {new} /\ new.id = id
      BY <2>1, <2>2 DEF Create
    <2>4. QED
      BY <2>3
  <1>2. PICK new : new.id = id /\ users' = users \cup {new}
    BY <1>1
  <1>3. \A row \in users : row.id # id
    BY DEF UnusedIds, Present
  <1>4. QED
    BY <1>2, <1>3, SameRow DEF OwnerChanges, ProfilesInv, UsersOK

LEMMA UpdateRowChanges ==
  ASSUME ProfilesInv, NEW r \in Requests, UpdateRow(r), ~UNCHANGED users
  PROVE  OwnerChanges
  <1>1. PICK s : s = req[r] /\ StateOK(s) /\ s.pc = "write" /\ s.op = "update"
    BY DEF UpdateRow, At, ProfilesInv
  <1>2. DOMAIN s.data = {"displayName"} /\ NormalName(s.data.displayName) /\ s.id = s.viewer
    BY <1>1, PlaceOK
  <1>3. UsersOK
    BY DEF ProfilesInv
  <1>4. PICK table \in Update(users, s.id, s.data) :
          /\ users' = table
          /\ LET parsed == UNION {User(UserSelect(row)) : row \in FindUnique(table, "id", s.id)}
             IN  IF parsed = {} THEN Refuse(r, 500)
                                ELSE Respond(r, {UserResponse(user) : user \in parsed})
    BY <1>1 DEF UpdateRow
  <1>5. PICK row \in users :
          row.id = s.id /\ Update(users, s.id, s.data) = {(users \ {row}) \cup {Changed(row, s.data)}}
    BY <1>2, <1>3, <1>4, UpdateIs
  <1>6. PICK new : new = Changed(row, s.data)
    OBVIOUS
  <1>7. users' = (users \ {row}) \cup {new}
    BY <1>4, <1>5, <1>6
  <1>8. new.id = row.id /\ new = [row EXCEPT !.displayName = new.displayName]
    <2>1. PICK given : given = s.data
      OBVIOUS
    <2>2. RowOK(row) /\ DOMAIN given = {"displayName"} /\ NormalName(given.displayName)
      BY <1>2, <1>3, <2>1 DEF UsersOK
    <2>3. new = Changed(row, given)
      BY <1>6, <2>1
    <2>4. QED
      BY <2>2, <2>3, ChangedOK
  <1>9. req'[r] # req[r]
    <2>1. \E state : Become(r, state) /\ state.pc = "answered"
      <3>1. \E status, rows : Answer(r, status, rows) \/ Refuse(r, status)
        BY <1>4 DEF Respond
      <3>2. QED
        BY <3>1 DEF Answer, Refuse, Refused, Answered
    <2>2. QED
      BY <1>1, <2>1, WriteAnswers
  <1>10. \A one \in users, other \in users' :
            other.id = one.id => other = [one EXCEPT !.displayName = other.displayName]
    <2> SUFFICES ASSUME NEW one \in users, NEW other \in users', other.id = one.id
                 PROVE  other = [one EXCEPT !.displayName = other.displayName]
      OBVIOUS
    <2>1. CASE other = new
      <3>1. one = row
        BY <1>3, <1>8, <2>1 DEF UsersOK
      <3>2. QED
        BY <1>8, <2>1, <3>1
    <2>2. CASE other \in users
      <3>1. one = other
        BY <1>3, <2>2 DEF UsersOK
      <3>2. QED
        BY <1>3, <3>1, SameRow
    <2>3. QED
      BY <1>7, <2>1, <2>2
  <1>11. QED
    BY <1>1, <1>2, <1>5, <1>7, <1>9, <1>10 DEF OwnerChanges, At

LEMMA DeleteRowChanges ==
  ASSUME ProfilesInv, NEW r \in Requests, DeleteRow(r), ~UNCHANGED users
  PROVE  OwnerChanges
  <1>1. PICK s : s = req[r] /\ StateOK(s) /\ s.pc = "write"
    BY DEF DeleteRow, At, ProfilesInv
  <1>2. s.id = s.viewer
    BY <1>1, PlaceOK
  <1>3. users' \in Delete(users, s.id) /\ Refuse(r, 204)
    BY <1>1 DEF DeleteRow, NoWrites
  <1>4. PICK row \in users : row.id = s.id /\ users' = users \ {row}
    BY <1>3 DEF Delete, FindUnique
  <1>5. req'[r] # req[r]
    <2>1. PICK state : state = Refused(204)
      OBVIOUS
    <2>2. Become(r, state) /\ state.pc = "answered"
      BY <1>3, <2>1 DEF Refuse, Refused, Answered
    <2>3. QED
      BY <1>1, <2>2, WriteAnswers
  <1>6. QED
    BY <1>1, <1>2, <1>4, <1>5, SameRow DEF OwnerChanges, At, ProfilesInv, UsersOK

\* Only the request of its owner changes a row or removes it, and only the name
\* of a row ever changes.
THEOREM OwnersCorrect == Spec => OnlyOwnerChanges
  <1>1. ProfilesInv /\ [Next]_vars => [OwnerChanges]_vars
    <2> SUFFICES ASSUME ProfilesInv, [Next]_vars PROVE OwnerChanges
      OBVIOUS
    <2>1. CASE UNCHANGED users
      BY <2>1, NobodyChanges DEF ProfilesInv
    <2>2. ASSUME NEW r \in Requests, Arrive(r) PROVE UNCHANGED users
      BY <2>2 DEF Arrive, BadRequest, SignUp, SignIn, GetUser, UpdateUser, DeleteUser, List, Query,
         Receive, NoWrites
    <2>3. ASSUME NEW r \in Requests, Step(r), ~UNCHANGED users PROVE OwnerChanges
      <3>1. Register(r) \/ UpdateRow(r) \/ DeleteRow(r)
        BY <2>3 DEF Step, FindIdByEmail, Verify, FindById, Select, RequireOwner, NoWrites
      <3>2. QED
        BY <2>3, <3>1, RegisterChanges, UpdateRowChanges, DeleteRowChanges
    <2>4. QED
      BY <2>1, <2>2, <2>3 DEF Next, vars
  <1>2. QED
    BY <1>1, ProfilesCorrect, PTL DEF Spec, OnlyOwnerChanges, OwnerChanges
=============================================================================
