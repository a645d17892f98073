-------------------------- MODULE HttpPipelineProofs --------------------------
(***************************************************************************)
(* The request pipeline, for every number of requests, routes, addresses,  *)
(* sessions and limits: one id per request, one failure event per 500,     *)
(* ended sessions refused, rate limits kept, and types.                    *)
(*                                                                         *)
(* The proof goes through what a request may look like at each place of    *)
(* its way (RequestInv): in particular its events are functions of its     *)
(* answer and its header.  Then come the session it shows (StaleInv) and   *)
(* the counts of the throttler (RateInv).                                  *)
(***************************************************************************)
EXTENDS HttpPipeline, SequenceTheorems, TLAPS

-----------------------------------------------------------------------------
\* The inductive invariant.

\* What http.request.failed says, if the request has failed.
Reported(r) ==
    IF phase[r] = "answered" /\ answer[r].status = 500
    THEN << [id |-> header[r], fallback |-> FALSE, route |-> FailureRoute(input[r].route),
             type |-> UnexpectedErrorType(answer[r].cause)] >>
    ELSE <<>>

RequestInv(r) ==
    /\ phase[r] = "new" =>
          /\ header[r] = None /\ onFinish[r] = None /\ store[r] = NoStore
          /\ terminal[r] = <<>> /\ r \notin stale
    /\ phase[r] # "new" =>
          /\ input[r] \in Input
          /\ store[r] \in Inbound \union {r} /\ header[r] = store[r]
          /\ onFinish[r] \in {header[r], None}
    /\ phase[r] # "answered" => answer[r] = None
    /\ phase[r] = "answered" =>
          /\ answer[r] \in Answers /\ answer[r].id \in {None, header[r]}
          /\ answer[r].cause \in ApplicationErrors => answer[r].status # 500
    /\ terminal[r] # <<>> =>
          /\ phase[r] = "answered" /\ onFinish[r] = None
          /\ terminal[r] = <<Completed(r, header[r])>>
    /\ failures[r] = Reported(r)

\* A request that came after the end of its session is not let past the guard.
Past == {"guarded", "valid", "handled"}

StaleInv(r) ==
    r \in stale =>
       /\ input[r].session \in Sessions \ active /\ owner[input[r].session] # None
       /\ phase[r] \in Past => input[r].route \in Public
       /\ answer[r] # None /\ answer[r].status \in {200, 201, 204} =>
             input[r].route \in Public \union {"preflight"}

\* Requests let through have been counted.
Counted(route) == {Applied(route)[i] : i \in DOMAIN Applied(route)}

RateInv ==
    \A n \in Throttlers, k \in Keys : n \in Counted(k[1]) =>
       granted[n][k] <= hits[n][k] /\ granted[n][k] <= Limit[n]

\* The type of each variable.
ShapeOK ==
    /\ phase \in [Requests -> Phases]
    /\ input \in [Requests -> Input \union {None}]
    /\ store \in [Requests -> Stores]
    /\ header \in [Requests -> Ids \union {None}]
    /\ onFinish \in [Requests -> Stores \union {None}]
    /\ answer \in [Requests -> Answers \union {None}]
    /\ cut \subseteq Requests
    /\ terminal = [r \in Requests |-> terminal[r]] /\ failures = [r \in Requests |-> failures[r]]
    /\ stale \subseteq Requests

TablesOK ==
    /\ accounts \subseteq Accounts
    /\ owner \in [Sessions -> Accounts \union {None}]
    /\ \A s \in active : s \in Sessions /\ owner[s] \in accounts

LimitsOK ==
    /\ hits \in [Throttlers -> [Keys -> Nat]]
    /\ \A n \in Throttlers, k \in Keys : hits[n][k] <= Limit[n] + 1
    /\ granted \in [Throttlers -> [Keys -> Nat]]

-----------------------------------------------------------------------------
\* Errors and the statuses they become.

LEMMA StatusOf ==
  ASSUME NEW error \in Errors
  PROVE  /\ MapErrorToResponse(error) \in {400, 401, 403, 404, 409, 429, 500}
         /\ error \in ApplicationErrors => MapErrorToResponse(error) # 500
  <1> USE DEF MapErrorToResponse, ApplicationErrorStatus, HttpExceptionStatus, AllowedStatuses
  <1>1. CASE error \in ApplicationErrors
    BY <1>1 DEF ApplicationErrors, UsersErrors, AuthErrors
  <1>2. CASE error \in DOMAIN HttpExceptionStatus
    BY <1>2 DEF ApplicationErrors, UsersErrors, AuthErrors
  <1>3. CASE error \in Unexpected
    BY <1>3 DEF Unexpected, ApplicationErrors, UsersErrors, AuthErrors
  <1>4. QED
    BY <1>1, <1>2, <1>3 DEF Errors

LEMMA SuccessStatus == ASSUME NEW route PROVE Success(route) \in {200, 201, 204}
  BY DEF Success

LEMMA ReportTyped ==
  ASSUME NEW id \in Ids, NEW route \in AllRoutes, NEW error
  PROVE  [id |-> id, fallback |-> FALSE, route |-> FailureRoute(route),
          type |-> UnexpectedErrorType(error)] \in UnexpectedHttpError
  BY DEF UnexpectedHttpError, FailureRoute, UnexpectedErrorType, AllRoutes
-----------------------------------------------------------------------------
\* What a turn does to its request: it lets it go on, answers it or refuses it,
\* and nobody gets past the guard without a session that has not ended.

Middle == {"arrived", "admitted"} \union Past

Runs(r) ==
    /\ phase[r] \in Middle /\ UNCHANGED <<cut, stale>>
    /\ \/ \E next \in {"admitted"} \union Past :
             /\ Proceed(r, next)
             /\ next \in Past => \/ phase[r] \in Past \/ input[r].route \in Public
                                 \/ input[r].session \in active
       \/ Succeed(r) /\ phase[r] \in Past
       \/ \E error \in Errors : Catch(r, error)

LEMMA HandlerRuns ==
  ASSUME NEW r \in Requests, Handle(r)
  PROVE  Runs(r)
  <1>1. phase[r] = "valid" /\ UNCHANGED <<cut, stale>>
    BY DEF Handle
  <1>2. ASSUME NEW error \in Errors, Catch(r, error) PROVE Runs(r)
    BY <1>1, <1>2 DEF Runs, Middle, Past
  <1>3. ASSUME Done(r) \/ Succeed(r) PROVE Runs(r)
    BY <1>1, <1>3 DEF Done, Runs, Middle, Past
  <1>4. {"CONFLICT", "INVALID_CREDENTIALS", "INVALID_REFRESH_TOKEN", "INVALID_CURRENT_PASSWORD",
         "PASSWORD_REUSE_NOT_ALLOWED", "BadRequest", "RESOURCE_NOT_FOUND", "RESOURCE_NOT_OWNED",
         "ServiceUnavailable", "NotFound", "Unknown"} \subseteq Errors
    BY DEF Errors, ApplicationErrors, UsersErrors, AuthErrors, HttpExceptionStatus, Unexpected
  <1>5. CASE SignUp(r) \/ SignIn(r) \/ Refresh(r) \/ ChangePassword(r) \/ SignOut(r)
    BY <1>2, <1>3, <1>4, <1>5 DEF SignUp, SignIn, Refresh, ChangePassword, SignOut
  <1>6. CASE ListUsers(r) \/ FindUser(r) \/ ChangeUser(r)
    BY <1>2, <1>3, <1>4, <1>6 DEF ListUsers, FindUser, ChangeUser
  <1>7. CASE Health(r) \/ NotFound(r) \/ Fail(r)
    BY <1>2, <1>3, <1>4, <1>7 DEF Health, NotFound, Fail
  <1>8. QED
    BY <1>5, <1>6, <1>7 DEF Handle

LEMMA TurnRuns ==
  ASSUME NEW r \in Requests,
         Throttle(r) \/ Authenticate(r) \/ Validate(r) \/ Handle(r) \/ Serialize(r)
  PROVE  Runs(r)
  <1> USE DEF Runs, Middle, Past
  <1>1. {"Throttled", "Unauthorized", "Unknown", "BadRequest", "ResponseContractViolation"}
           \subseteq Errors
    BY DEF Errors, HttpExceptionStatus, Unexpected
  <1>2. CASE Throttle(r)
    BY <1>1, <1>2 DEF Throttle
  <1>3. CASE Authenticate(r)
    BY <1>1, <1>3 DEF Authenticate
  <1>4. CASE Validate(r)
    BY <1>1, <1>4 DEF Validate
  <1>5. CASE Serialize(r)
    BY <1>1, <1>5 DEF Serialize
  <1>6. QED
    BY <1>2, <1>3, <1>4, <1>5, HandlerRuns

\* A step of one request is no other's.
Alone(r) ==
    \A q \in Requests \ {r} :
       /\ phase'[q] = phase[q] /\ input'[q] = input[q] /\ store'[q] = store[q]
       /\ header'[q] = header[q] /\ onFinish'[q] = onFinish[q]
       /\ answer'[q] = answer[q] /\ terminal'[q] = terminal[q] /\ failures'[q] = failures[q]
       /\ q \in stale' <=> q \in stale

LEMMA StepAlone ==
  ASSUME ShapeOK, NEW r \in Requests, Correlate(r) \/ Turn(r) \/ Cut(r)
  PROVE  Alone(r)
  <1> USE DEF ShapeOK, Alone
  <1>1. CASE Runs(r)
    <2>1. ASSUME NEW next, Proceed(r, next) PROVE Alone(r)
      BY <1>1, <2>1 DEF Runs, Proceed, Advance, answerVars
    <2>2. CASE Succeed(r)
      BY <1>1, <2>2 DEF Runs, Succeed, Advance
    <2>3. ASSUME NEW error, Catch(r, error) PROVE Alone(r)
      BY <1>1, <2>3 DEF Runs, Catch, Advance
    <2>4. QED
      BY <1>1, <2>1, <2>2, <2>3 DEF Runs
  <1>2. CASE Correlate(r)
    BY <1>2 DEF Correlate, Advance, answerVars
  <1>3. CASE Preflight(r)
    BY <1>3 DEF Preflight, Advance
  <1>4. CASE Finish(r)
    BY <1>4 DEF Finish
  <1>5. CASE Cut(r)
    BY <1>5 DEF Cut, requestVars, answerVars
  <1>6. QED
    BY <1>1, <1>2, <1>3, <1>4, <1>5, TurnRuns DEF Turn

LEMMA OthersInv ==
  ASSUME ShapeOK, NEW r \in Requests, Correlate(r) \/ Turn(r) \/ Cut(r),
         NEW q \in Requests, q # r, RequestInv(q)
  PROVE  RequestInv(q)'
  <1>1. /\ phase'[q] = phase[q] /\ input'[q] = input[q] /\ store'[q] = store[q]
        /\ header'[q] = header[q] /\ onFinish'[q] = onFinish[q]
        /\ answer'[q] = answer[q] /\ terminal'[q] = terminal[q] /\ failures'[q] = failures[q]
        /\ q \in stale' <=> q \in stale
    BY StepAlone DEF Alone
  <1>2. Reported(q)' = Reported(q)
    BY <1>1 DEF Reported
  <1>3. Completed(q, header[q])' = Completed(q, header[q])
    BY <1>1 DEF Completed
  <1>4. QED
    BY <1>1, <1>2, <1>3 DEF RequestInv
-----------------------------------------------------------------------------
\* The request that takes the step.

\* Under way, a request has its store, its header and nothing else yet.
UnderWay(r) ==
    /\ phase[r] \in Middle
    /\ input[r] \in Input
    /\ store[r] \in Inbound \union {r} /\ store[r] # NoStore /\ header[r] = store[r]
    /\ onFinish[r] \in {header[r], None}
    /\ answer[r] = None /\ terminal[r] = <<>> /\ failures[r] = <<>>

LEMMA MiddleIsUnderWay ==
  ASSUME NEW r \in Requests, RequestInv(r), phase[r] \in Middle
  PROVE  UnderWay(r)
  BY PipelineAssumption DEF RequestInv, UnderWay, Middle, Past, Reported

LEMMA ProceedInv ==
  ASSUME ShapeOK, NEW r \in Requests, UnderWay(r), NEW next \in Middle, Proceed(r, next),
         UNCHANGED <<cut, stale>>
  PROVE  ShapeOK' /\ RequestInv(r)'
  <1>1. UNCHANGED <<input, store, header, onFinish, answer, terminal, failures>>
    BY DEF Proceed, answerVars
  <1>2. phase' = [phase EXCEPT ![r] = next]
    BY DEF Proceed, Advance
  <1>3. RequestInv(r)'
    BY <1>1, <1>2 DEF UnderWay, Middle, Past, RequestInv, Reported, ShapeOK
  <1>4. QED
    BY <1>1, <1>2, <1>3 DEF ShapeOK, Middle, Past, Phases
LEMMA SucceedInv ==
  ASSUME ShapeOK, NEW r \in Requests, UnderWay(r), Succeed(r), UNCHANGED <<cut, stale>>
  PROVE  ShapeOK' /\ RequestInv(r)'
  <1> DEFINE given == [status |-> Success(input[r].route), id |-> None, cause |-> None]
  <1>1. /\ UNCHANGED <<input, store, header, onFinish, terminal, failures>>
        /\ answer' = [answer EXCEPT ![r] = given]
        /\ phase' = [phase EXCEPT ![r] = "answered"]
    BY DEF Succeed, Advance
  <1>2. /\ given \in Answers /\ given.id = None /\ given.status # 500
    BY SuccessStatus DEF Answers
  <1>3. given.cause \notin ApplicationErrors \/ given.status # 500
    BY <1>2
  <1> HIDE DEF given
  <1>4. ShapeOK'
    BY <1>1, <1>2 DEF ShapeOK, Phases
  <1>5. phase'[r] = "answered" /\ answer'[r] = given
    BY <1>1 DEF ShapeOK
  <1>6. RequestInv(r)'
    BY <1>1, <1>2, <1>5 DEF UnderWay, RequestInv, Reported
  <1>7. QED
    BY <1>4, <1>6

\* The filter answers with the id of the request, and reports a 500 once.
LEMMA CatchInv ==
  ASSUME ShapeOK, NEW r \in Requests, UnderWay(r), NEW error \in Errors, Catch(r, error),
         UNCHANGED <<cut, stale>>
  PROVE  ShapeOK' /\ RequestInv(r)'
  <1> DEFINE status == MapErrorToResponse(error)
             given  == [status |-> status, id |-> header[r], cause |-> error]
             report == [id |-> header[r], fallback |-> FALSE,
                        route |-> FailureRoute(input[r].route),
                        type |-> UnexpectedErrorType(error)]
  <1>1. RequestIdFor(r) = header[r] /\ (store[r] = NoStore) = FALSE /\ header[r] \in Ids
    BY DEF UnderWay, RequestIdFor, Ids
  <1>2. /\ UNCHANGED <<input, store, onFinish, terminal>>
        /\ phase' = [phase EXCEPT ![r] = "answered"]
        /\ header' = [header EXCEPT ![r] = header[r]]
        /\ answer' = [answer EXCEPT ![r] = given]
    BY <1>1 DEF Catch, Advance
  <1>3. failures' = IF status = 500 THEN [failures EXCEPT ![r] = Append(@, report)] ELSE failures
    BY <1>1 DEF Catch
  <1>4. /\ given \in Answers /\ given.id = header[r] /\ given.status = status
        /\ given.cause = error
        /\ error \in ApplicationErrors => status # 500
    BY <1>1, StatusOf DEF Answers
  <1>5. failures'[r] = IF status = 500 THEN <<report>> ELSE <<>>
    <2>1. Append(<<>>, report) = <<report>>
      OBVIOUS
    <2>2. QED
      BY <1>3, <2>1 DEF ShapeOK, UnderWay
  <1>6. phase'[r] = "answered" /\ answer'[r] = given /\ header'[r] = header[r] /\ input'[r] = input[r]
    BY <1>2 DEF ShapeOK
  <1>7. Reported(r)' = failures'[r]
    BY <1>4, <1>5, <1>6 DEF Reported
  <1> HIDE DEF given, status, report
  <1>8. ShapeOK'
    <2>1. failures' = [q \in Requests |-> failures'[q]]
      BY <1>3 DEF ShapeOK
    <2>2. header' \in [Requests -> Ids \union {None}]
      BY <1>2 DEF ShapeOK
    <2>3. answer' \in [Requests -> Answers \union {None}]
      BY <1>2, <1>4 DEF ShapeOK
    <2>4. phase' \in [Requests -> Phases]
      BY <1>2 DEF ShapeOK, Phases
    <2>5. QED
      BY <1>2, <2>1, <2>2, <2>3, <2>4 DEF ShapeOK
  <1>9. RequestInv(r)'
    BY <1>2, <1>4, <1>6, <1>7 DEF UnderWay, RequestInv
  <1>10. QED
    BY <1>8, <1>9
LEMMA CorrelateInv ==
  ASSUME ShapeOK, NEW r \in Requests, RequestInv(r), Correlate(r)
  PROVE  ShapeOK' /\ RequestInv(r)'
  <1>1. PICK in \in Input, inbound \in Inbound \union {NoStore} :
           LET id == IF inbound # NoStore THEN inbound ELSE r
           IN  /\ phase[r] = "new"
               /\ Advance(r, "arrived")
               /\ input' = [input EXCEPT ![r] = in]
               /\ header' = [header EXCEPT ![r] = id]
               /\ store' = [store EXCEPT ![r] = id]
               /\ onFinish' = [onFinish EXCEPT ![r] = id]
               /\ stale' = IF in.session \in Sessions \ active THEN stale \union {r} ELSE stale
               /\ UNCHANGED <<answerVars, cut>>
    BY DEF Correlate
  <1>2. PICK id \in Inbound \union {r} :
           /\ header' = [header EXCEPT ![r] = id]
           /\ store' = [store EXCEPT ![r] = id]
           /\ onFinish' = [onFinish EXCEPT ![r] = id]
    BY <1>1
  <1>3. /\ answer[r] = None /\ terminal[r] = <<>> /\ failures[r] = <<>>
    BY <1>1 DEF RequestInv, Reported
  <1>4. RequestInv(r)'
    BY <1>1, <1>2, <1>3 DEF ShapeOK, Advance, answerVars, RequestInv, Reported
  <1>5. QED
    BY <1>1, <1>2, <1>4 DEF ShapeOK, Advance, answerVars, Phases, Ids, Stores

LEMMA PreflightInv ==
  ASSUME ShapeOK, NEW r \in Requests, RequestInv(r), Preflight(r)
  PROVE  ShapeOK' /\ RequestInv(r)'
  <1> DEFINE given == [status |-> 204, id |-> None, cause |-> None]
  <1>1. UnderWay(r)
    BY MiddleIsUnderWay DEF Preflight, Middle
  <1>2. given \in Answers /\ given.id = None /\ given.status # 500
    BY DEF Answers
  <1>3. /\ UNCHANGED <<input, store, header, onFinish, terminal, failures, cut, stale>>
        /\ answer' = [answer EXCEPT ![r] = given]
        /\ phase' = [phase EXCEPT ![r] = "answered"]
    BY DEF Preflight, Advance
  <1> HIDE DEF given
  <1>4. ShapeOK'
    BY <1>2, <1>3 DEF ShapeOK, Phases
  <1>5. RequestInv(r)'
    BY <1>1, <1>2, <1>3 DEF ShapeOK, UnderWay, RequestInv, Reported
  <1>6. QED
    BY <1>4, <1>5

\* The terminal event is written in the store the listener was bound in, which
\* is that of its request, whoever emits 'finish'.
LEMMA FinishInv ==
  ASSUME ShapeOK, NEW r \in Requests, RequestInv(r), Finish(r)
  PROVE  ShapeOK' /\ RequestInv(r)'
  <1>1. phase[r] = "answered" /\ header[r] \in Ids /\ onFinish[r] = header[r] /\ terminal[r] = <<>>
    BY DEF Finish, RequestInv, Ids
  <1>2. \A emitter : Bind(onFinish[r], emitter) = header[r]
    BY <1>1, PipelineAssumption DEF Bind, Ids
  <1>3. /\ terminal' = [terminal EXCEPT ![r] = Append(@, Completed(r, header[r]))]
        /\ onFinish' = [onFinish EXCEPT ![r] = None]
        /\ UNCHANGED <<phase, input, store, header, answer, failures, cut, stale>>
    BY <1>2 DEF Finish
  <1>4. terminal'[r] = <<Completed(r, header[r])>>
    <2>1. Append(<<>>, Completed(r, header[r])) = <<Completed(r, header[r])>>
      OBVIOUS
    <2>2. QED
      BY <1>1, <1>3, <2>1 DEF ShapeOK
  <1>5. Completed(r, header[r])' = Completed(r, header[r]) /\ Reported(r)' = Reported(r)
    BY <1>3 DEF Completed, Reported
  <1>6. RequestInv(r)'
    BY <1>1, <1>3, <1>4, <1>5 DEF ShapeOK, RequestInv
  <1>7. terminal' = [q \in Requests |-> terminal'[q]]
    BY <1>3 DEF ShapeOK
  <1>8. QED
    BY <1>3, <1>6, <1>7 DEF ShapeOK

LEMMA CutInv ==
  ASSUME ShapeOK, NEW r \in Requests, RequestInv(r), Cut(r)
  PROVE  ShapeOK' /\ RequestInv(r)'
  <1>1. /\ UNCHANGED <<phase, input, store, header, onFinish, answer, terminal, failures, stale>>
        /\ cut' = cut \union {r}
    BY DEF Cut, requestVars, answerVars
  <1>2. Completed(r, header[r])' = Completed(r, header[r]) /\ Reported(r)' = Reported(r)
    BY <1>1 DEF Completed, Reported
  <1>3. QED
    BY <1>1, <1>2 DEF ShapeOK, RequestInv

LEMMA RunsInv ==
  ASSUME ShapeOK, NEW r \in Requests, RequestInv(r), Runs(r)
  PROVE  ShapeOK' /\ RequestInv(r)'
  <1>1. UnderWay(r) /\ UNCHANGED <<cut, stale>>
    BY MiddleIsUnderWay DEF Runs
  <1>2. ASSUME NEW next \in {"admitted"} \union Past, Proceed(r, next)
        PROVE  ShapeOK' /\ RequestInv(r)'
    BY <1>1, <1>2, ProceedInv DEF Middle
  <1>3. QED
    BY <1>1, <1>2, SucceedInv, CatchInv DEF Runs

LEMMA RequestStep ==
  ASSUME ShapeOK, \A q \in Requests : RequestInv(q),
         NEW r \in Requests, Correlate(r) \/ Turn(r) \/ Cut(r)
  PROVE  ShapeOK' /\ \A q \in Requests : RequestInv(q)'
  <1>1. ShapeOK' /\ RequestInv(r)'
    BY CorrelateInv, PreflightInv, FinishInv, CutInv, TurnRuns, RunsInv DEF Turn
  <1>2. QED
    BY <1>1, OthersInv
-----------------------------------------------------------------------------
\* Sessions and accounts: a session keeps its account, and one that has ended
\* does not begin again.

EndsLast ==
    \A s \in Sessions : owner[s] # None =>
       owner'[s] = owner[s] /\ (s \notin active => s \notin active')

LEMMA HandleIdentity ==
  ASSUME TablesOK, NEW r \in Requests, Handle(r)
  PROVE  TablesOK' /\ EndsLast
  <1> USE PipelineAssumption DEF TablesOK, EndsLast
  <1>1. ASSUME UNCHANGED identityVars PROVE TablesOK' /\ EndsLast
    BY <1>1 DEF identityVars
  <1>2. ASSUME NEW ended, EndSessions(ended), UNCHANGED <<accounts, owner>>
        PROVE  TablesOK' /\ EndsLast
    BY <1>2 DEF EndSessions
  <1>3. ASSUME NEW s \in Sessions, NEW a \in Accounts, owner[s] = None,
               owner' = [owner EXCEPT ![s] = a], accounts' = accounts \union {a},
               active' = active \union {s}
        PROVE  TablesOK' /\ EndsLast
    BY <1>3
  <1>4. CASE SignUp(r)
    BY <1>1, <1>3, <1>4 DEF SignUp
  <1>5. CASE SignIn(r)
    <2>1. ASSUME NEW a \in accounts, UNCHANGED accounts
          PROVE  a \in Accounts /\ accounts' = accounts \union {a}
      BY <2>1
    <2>2. QED
      BY <1>1, <1>3, <1>5, <2>1 DEF SignIn
  <1>6. CASE Refresh(r)
    BY <1>1, <1>2, <1>6 DEF Refresh
  <1>7. CASE ChangePassword(r) \/ SignOut(r)
    BY <1>1, <1>2, <1>7 DEF ChangePassword, SignOut
  <1>8. CASE ChangeUser(r)
    <2>1. ASSUME NEW a, accounts' = accounts \ {a}, UNCHANGED owner,
                 EndSessions({s \in active : owner[s] = a})
          PROVE  TablesOK' /\ EndsLast
      BY <2>1 DEF EndSessions
    <2>2. QED
      BY <1>1, <1>8, <2>1 DEF ChangeUser, identityVars
  <1>9. CASE ListUsers(r) \/ FindUser(r) \/ Health(r) \/ NotFound(r) \/ Fail(r)
    BY <1>1, <1>9 DEF ListUsers, FindUser, Health, NotFound, Fail
  <1>10. QED
    BY <1>4, <1>5, <1>6, <1>7, <1>8, <1>9 DEF Handle

LEMMA IdentityStep ==
  ASSUME TablesOK, NEW r \in Requests, Correlate(r) \/ Turn(r) \/ Cut(r)
  PROVE  TablesOK' /\ EndsLast
  <1>1. CASE UNCHANGED identityVars
    BY <1>1 DEF identityVars, TablesOK, EndsLast
  <1>2. UNCHANGED identityVars \/ Handle(r)
    BY DEF Turn, Correlate, Cut, Preflight, Throttle, Authenticate, Validate, Serialize, Finish
  <1>3. QED
    BY <1>1, <1>2, HandleIdentity

\* What a turn does to the places and answers StaleInv is about.
LEMMA StaleRuns ==
  ASSUME ShapeOK, TablesOK, NEW r \in Requests, RequestInv(r), StaleInv(r), Runs(r), EndsLast
  PROVE  StaleInv(r)'
  <1> SUFFICES ASSUME r \in stale PROVE StaleInv(r)'
    BY DEF StaleInv, Runs
  <1>1. /\ input'[r] = input[r]
        /\ input[r].session \in Sessions \ active /\ owner[input[r].session] # None
        /\ phase[r] \in Past => input[r].route \in Public
    BY DEF StaleInv, Runs, Proceed, Succeed, Catch
  <1>2. input'[r].session \in Sessions \ active' /\ owner'[input'[r].session] # None
    BY <1>1 DEF EndsLast
  <1>3. UnderWay(r)
    BY MiddleIsUnderWay DEF Runs
  <1>4. ASSUME NEW next \in {"admitted"} \union Past, Proceed(r, next),
               next \in Past => \/ phase[r] \in Past \/ input[r].route \in Public
                                \/ input[r].session \in active
        PROVE  StaleInv(r)'
    BY <1>1, <1>2, <1>3, <1>4 DEF Proceed, Advance, answerVars, ShapeOK, UnderWay, StaleInv
  <1>5. CASE Succeed(r) /\ phase[r] \in Past
    BY <1>1, <1>2, <1>5 DEF Succeed, Advance, ShapeOK, StaleInv, Past
  <1>6. ASSUME NEW error \in Errors, Catch(r, error) PROVE StaleInv(r)'
    <2>1. /\ answer'[r].status = MapErrorToResponse(error) /\ phase'[r] = "answered"
      BY <1>6 DEF Catch, Advance, ShapeOK
    <2>2. answer'[r].status \notin {200, 201, 204}
      BY <2>1, StatusOf
    <2>3. QED
      BY <1>1, <1>2, <2>1, <2>2 DEF StaleInv, Past
  <1>7. QED
    BY <1>4, <1>5, <1>6 DEF Runs

LEMMA StaleStep ==
  ASSUME ShapeOK, TablesOK, \A q \in Requests : RequestInv(q) /\ StaleInv(q),
         NEW r \in Requests, Correlate(r) \/ Turn(r) \/ Cut(r), NEW q \in Requests
  PROVE  StaleInv(q)'
  <1>1. EndsLast
    BY IdentityStep
  <1>2. CASE q # r
    BY <1>1, <1>2, StepAlone DEF Alone, StaleInv, EndsLast
  <1>3. CASE q = r /\ Runs(r)
    BY <1>1, <1>3, StaleRuns
  <1>4. CASE q = r /\ Correlate(r)
    <2>1. phase[r] = "new" /\ r \notin stale /\ answer[r] = None
      BY <1>4 DEF Correlate, RequestInv
    <2>2. PICK in \in Input :
             /\ in.session # None => owner[in.session] # None
             /\ phase' = [phase EXCEPT ![r] = "arrived"]
             /\ input' = [input EXCEPT ![r] = in]
             /\ stale' = IF in.session \in Sessions \ active THEN stale \union {r} ELSE stale
             /\ UNCHANGED <<answer, active, owner>>
      BY <1>4 DEF Correlate, Advance, answerVars, identityVars
    <2>3. phase'[r] = "arrived" /\ input'[r] = in /\ answer'[r] = None
      BY <2>1, <2>2 DEF ShapeOK
    <2>4. r \in stale' => in.session \in Sessions \ active /\ in.session # None
      BY <2>1, <2>2, PipelineAssumption
    <2>5. QED
      BY <1>4, <2>2, <2>3, <2>4 DEF StaleInv, Past
  <1>5. CASE q = r /\ Preflight(r)
    <2>1. /\ input[r].route = "preflight" /\ phase'[r] = "answered"
          /\ UNCHANGED <<input, stale, active, owner>>
      BY <1>5 DEF Preflight, Advance, identityVars, ShapeOK
    <2>2. QED
      BY <1>5, <2>1 DEF StaleInv, Past
  <1>6. CASE q = r /\ (Finish(r) \/ Cut(r))
    <2>1. UNCHANGED <<phase, input, answer, stale, active, owner>>
      BY <1>6 DEF Finish, Cut, requestVars, answerVars, identityVars
    <2>2. QED
      BY <1>6, <2>1 DEF StaleInv
  <1>7. QED
    BY <1>2, <1>3, <1>4, <1>5, <1>6, TurnRuns DEF Turn
-----------------------------------------------------------------------------
\* Rate limits.

LEMMA PairIs ==
  ASSUME NEW S, NEW x \in S, NEW y \in S, NEW seq \in Seq(S),
         Len(seq) = 2, seq[1] = x, seq[2] = y
  PROVE  seq = <<x, y>>
  <1>1. <<x, y>> \in Seq(S) /\ Len(<<x, y>>) = 2
    OBVIOUS
  <1>2. \A i \in 1 .. 2 : seq[i] = <<x, y>>[i]
    OBVIOUS
  <1>3. QED
    BY <1>1, <1>2, SeqEqual

LEMMA Concat == ASSUME NEW x, NEW y PROVE <<x>> \o <<y>> = <<x, y>>
  <1> DEFINE S == {x, y}
  <1>1. <<x>> \in Seq(S) /\ <<y>> \in Seq(S)
    OBVIOUS
  <1>2. /\ <<x>> \o <<y>> \in Seq(S) /\ Len(<<x>> \o <<y>>) = 2
        /\ (<<x>> \o <<y>>)[1] = x /\ (<<x>> \o <<y>>)[2] = y
    <2> HIDE DEF S
    <2> QED
      BY <1>1, ConcatProperties
  <1>3. QED
    BY <1>2, PairIs

LEMMA AppliedCases ==
  ASSUME NEW route
  PROVE  \/ /\ route \in HealthRoutes /\ route \notin {"signUp", "signIn"}
            /\ Applied(route) = <<>>
         \/ /\ route \notin HealthRoutes /\ route \notin {"signUp", "signIn"}
            /\ Applied(route) = <<"default">>
         \/ /\ route \in HealthRoutes /\ route \in {"signUp", "signIn"}
            /\ Applied(route) = <<route>>
         \/ /\ route \notin HealthRoutes /\ route \in {"signUp", "signIn"}
            /\ Applied(route) = <<"default", route>>
  <1>1. <<>> \o <<>> = <<>> /\ <<"default">> \o <<>> = <<"default">>
    OBVIOUS
  <1>2. <<>> \o <<route>> = <<route>>
    OBVIOUS
  <1>3. /\ <<"default">> \o <<"signUp">> = <<"default", "signUp">>
        /\ <<"default">> \o <<"signIn">> = <<"default", "signIn">>
    BY Concat
  <1>4. QED
    BY <1>1, <1>2, <1>3 DEF Applied

LEMMA CountedIs ==
  ASSUME NEW route
  PROVE  /\ Counted(route) \subseteq Throttlers
         /\ route \notin HealthRoutes => "default" \in Counted(route)
         /\ route \in {"signUp", "signIn"} => route \in Counted(route)
  <1>1. CASE Applied(route) = <<>>
    BY <1>1, AppliedCases DEF Counted
  <1>2. CASE Applied(route) = <<"default">>
    BY <1>2, AppliedCases DEF Counted, Throttlers
  <1>3. CASE Applied(route) = <<route>> /\ route \in {"signUp", "signIn"} /\ route \in HealthRoutes
    BY <1>3 DEF Counted, Throttlers
  <1>4. CASE Applied(route) = <<"default", route>> /\ route \in {"signUp", "signIn"}
    BY <1>4 DEF Counted, Throttlers
  <1>5. QED
    BY <1>1, <1>2, <1>3, <1>4, AppliedCases

\* A request that no throttler refuses has been asked about by all that apply.
LEMMA AllAsked ==
  ASSUME NEW r \in Requests,
         \A i \in Asked(r) : Admits(Applied(input[r].route)[i], Key(r))
  PROVE  {Applied(input[r].route)[i] : i \in Asked(r)} = Counted(input[r].route)
  <1> DEFINE seq == Applied(input[r].route)
  <1>1. CASE seq = <<>> \/ \E x : seq = <<x>>
    BY <1>1 DEF Asked, Counted
  <1>2. ASSUME NEW x, NEW y, seq = <<x, y>>
        PROVE  {seq[i] : i \in Asked(r)} = Counted(input[r].route)
    BY <1>2 DEF Asked, Counted
  <1>3. QED
    BY <1>1, <1>2, AppliedCases
LEMMA KeyTyped ==
  ASSUME NEW r \in Requests, input[r] \in Input
  PROVE  Key(r) \in Keys /\ Key(r)[1] = input[r].route
  BY DEF Input, Key, Keys

\* The counts of one throttler for one key, before and after it counts.
LEMMA CountIs ==
  ASSUME LimitsOK, NEW n \in Throttlers, NEW k \in Keys
  PROVE  /\ Count(n, k) \in Nat /\ Count(n, k) <= Limit[n] + 1 /\ hits[n][k] <= Count(n, k)
         /\ Admits(n, k) => Count(n, k) = hits[n][k] + 1 /\ hits[n][k] + 1 <= Limit[n]
  BY PipelineAssumption DEF LimitsOK, Count, Admits

LEMMA ThrottleStep ==
  ASSUME LimitsOK, RateInv, NEW r \in Requests, input[r] \in Input, Throttle(r)
  PROVE  LimitsOK' /\ RateInv'
  <1> DEFINE asked == {Applied(input[r].route)[i] : i \in Asked(r)}
             counted == Counted(input[r].route)
  <1>1. Key(r) \in Keys /\ Key(r)[1] = input[r].route
    BY KeyTyped
  <1>2. hits' = [n \in Throttlers |->
                   IF n \in asked THEN [hits[n] EXCEPT ![Key(r)] = Count(n, Key(r))] ELSE hits[n]]
    BY DEF Throttle
  <1>3. \/ UNCHANGED granted
        \/ /\ \A n \in asked : Admits(n, Key(r))
           /\ granted' = [n \in Throttlers |-> [granted[n] EXCEPT ![Key(r)] = @ + 1]]
    BY DEF Throttle
  <1>4. (\A n \in asked : Admits(n, Key(r))) => asked = counted
    BY AllAsked
  <1> HIDE DEF asked, counted
  <1>5. /\ hits' \in [Throttlers -> [Keys -> Nat]]
        /\ \A n \in Throttlers, k \in Keys : hits'[n][k] <= Limit[n] + 1 /\ hits[n][k] <= hits'[n][k]
    BY <1>1, <1>2, CountIs DEF LimitsOK
  <1>6. granted' \in [Throttlers -> [Keys -> Nat]]
    BY <1>3 DEF LimitsOK
  <1>7. ASSUME NEW n \in Throttlers, NEW k \in Keys, n \in Counted(k[1])
        PROVE  granted'[n][k] <= hits'[n][k] /\ granted'[n][k] <= Limit[n]
    <2>1. /\ granted[n][k] <= hits[n][k] /\ granted[n][k] <= Limit[n]
          /\ granted[n][k] \in Nat /\ hits[n][k] \in Nat /\ Limit[n] \in Nat
          /\ hits'[n][k] \in Nat /\ hits[n][k] <= hits'[n][k]
      BY <1>5, <1>7, PipelineAssumption DEF RateInv, LimitsOK
    <2>2. CASE k # Key(r) \/ UNCHANGED granted
      <3>1. granted'[n][k] = granted[n][k]
        BY <1>3, <2>2 DEF LimitsOK
      <3>2. QED
        BY <2>1, <3>1
    <2>3. CASE k = Key(r) /\ ~UNCHANGED granted
      <3>1. n \in asked /\ Admits(n, k)
        BY <1>1, <1>3, <1>4, <1>7, <2>3 DEF counted
      <3>2. hits'[n][k] = hits[n][k] + 1 /\ hits[n][k] + 1 <= Limit[n]
        BY <1>2, <2>3, <3>1, CountIs DEF LimitsOK
      <3>3. granted'[n][k] = granted[n][k] + 1
        BY <1>3, <2>3 DEF LimitsOK
      <3>4. QED
        BY <2>1, <3>2, <3>3
    <2>4. QED
      BY <2>2, <2>3
  <1>8. QED
    BY <1>5, <1>6, <1>7 DEF LimitsOK, RateInv

LEMMA WindowStep ==
  ASSUME LimitsOK, RateInv, NEW n \in Throttlers, NEW k \in Keys, WindowPasses(n, k)
  PROVE  LimitsOK' /\ RateInv'
  <1>1. /\ hits' \in [Throttlers -> [Keys -> Nat]] /\ granted' \in [Throttlers -> [Keys -> Nat]]
    BY DEF LimitsOK, WindowPasses
  <1>2. ASSUME NEW m \in Throttlers, NEW key \in Keys
        PROVE  \/ hits'[m][key] = 0 /\ granted'[m][key] = 0
               \/ hits'[m][key] = hits[m][key] /\ granted'[m][key] = granted[m][key]
    BY DEF LimitsOK, WindowPasses
  <1>3. ASSUME NEW m \in Throttlers, NEW key \in Keys
        PROVE  /\ hits'[m][key] <= Limit[m] + 1
               /\ m \in Counted(key[1]) =>
                     granted'[m][key] <= hits'[m][key] /\ granted'[m][key] <= Limit[m]
    <2>1. Limit[m] \in Nat
      BY PipelineAssumption
    <2>2. CASE hits'[m][key] = 0 /\ granted'[m][key] = 0
      BY <2>1, <2>2
    <2>3. CASE hits'[m][key] = hits[m][key] /\ granted'[m][key] = granted[m][key]
      BY <2>3 DEF LimitsOK, RateInv
    <2>4. QED
      BY <1>2, <2>2, <2>3
  <1>4. QED
    BY <1>1, <1>3 DEF LimitsOK, RateInv

LEMMA RateStep ==
  ASSUME LimitsOK, RateInv, NEW r \in Requests, RequestInv(r), Correlate(r) \/ Turn(r) \/ Cut(r)
  PROVE  LimitsOK' /\ RateInv'
  <1>1. CASE Throttle(r)
    BY <1>1, ThrottleStep DEF RequestInv, Throttle
  <1>2. CASE ~Throttle(r)
    <2>1. UNCHANGED <<hits, granted>>
      BY <1>2 DEF Turn, Correlate, Cut, Preflight, Authenticate, Validate, Handle, Serialize, Finish
    <2>2. QED
      BY <2>1 DEF LimitsOK, RateInv
  <1>3. QED
    BY <1>1, <1>2
-----------------------------------------------------------------------------
\* The inductive invariant, from the first state on.

PipelineInv ==
    /\ ShapeOK /\ TablesOK /\ LimitsOK /\ RateInv
    /\ \A r \in Requests : RequestInv(r) /\ StaleInv(r)

LEMMA PipelineInit == Init => PipelineInv
  <1> SUFFICES ASSUME Init PROVE PipelineInv
    OBVIOUS
  <1> USE PipelineAssumption DEF Init
  <1>1. ShapeOK
    BY DEF ShapeOK, Phases, Stores
  <1>2. TablesOK
    BY DEF TablesOK
  <1>3. LimitsOK /\ RateInv
    <2>1. /\ hits \in [Throttlers -> [Keys -> Nat]]
          /\ \A n \in Throttlers, k \in Keys : hits[n][k] = 0
      OBVIOUS
    <2>2. \A n \in Throttlers : Limit[n] \in Nat
      OBVIOUS
    <2>3. QED
      BY <2>1, <2>2 DEF LimitsOK, RateInv
  <1>4. ASSUME NEW r \in Requests PROVE RequestInv(r) /\ StaleInv(r)
    BY DEF RequestInv, Reported, StaleInv
  <1>5. QED
    BY <1>1, <1>2, <1>3, <1>4 DEF PipelineInv

LEMMA PipelineStep == PipelineInv /\ [Next]_vars => PipelineInv'
  <1> SUFFICES ASSUME PipelineInv, [Next]_vars PROVE PipelineInv'
    OBVIOUS
  <1>1. ASSUME NEW r \in Requests, Correlate(r) \/ Turn(r) \/ Cut(r) PROVE PipelineInv'
    <2>1. ShapeOK' /\ \A q \in Requests : RequestInv(q)'
      BY <1>1, RequestStep DEF PipelineInv
    <2>2. TablesOK'
      BY <1>1, IdentityStep DEF PipelineInv
    <2>3. \A q \in Requests : StaleInv(q)'
      BY <1>1, StaleStep DEF PipelineInv
    <2>4. LimitsOK' /\ RateInv'
      BY <1>1, RateStep DEF PipelineInv
    <2>5. QED
      BY <2>1, <2>2, <2>3, <2>4 DEF PipelineInv
  <1>2. ASSUME UNCHANGED <<requestVars, answerVars, cut, identityVars, stale>>
        PROVE  (ShapeOK /\ TablesOK)' /\ \A q \in Requests : RequestInv(q)' /\ StaleInv(q)'
    <2> USE <1>2 DEF PipelineInv, requestVars, answerVars, identityVars
    <2>1. (ShapeOK /\ TablesOK)'
      BY DEF ShapeOK, TablesOK
    <2>2. ASSUME NEW q \in Requests PROVE RequestInv(q)' /\ StaleInv(q)'
      BY DEF RequestInv, Reported, Completed, StaleInv
    <2>3. QED
      BY <2>1, <2>2
  <1>3. ASSUME NEW n \in Throttlers, NEW k \in Keys, WindowPasses(n, k) PROVE PipelineInv'
    BY <1>2, <1>3, WindowStep DEF PipelineInv, WindowPasses
  <1>4. CASE UNCHANGED vars
    BY <1>2, <1>4 DEF PipelineInv, vars, LimitsOK, RateInv
  <1>5. QED
    BY <1>1, <1>3, <1>4 DEF Next

\* In every reachable state each request looks as its place in the pipeline
\* says, its events follow from its answer, and the counts cover what was let
\* through.
THEOREM PipelineCorrect == Spec => []PipelineInv
  BY PipelineInit, PipelineStep, PTL DEF Spec

-----------------------------------------------------------------------------
\* What follows of it.

LEMMA EventsTyped ==
  ASSUME PipelineInv, NEW r \in Requests
  PROVE  /\ Len(terminal[r]) \in 0 .. 1 /\ Len(failures[r]) \in 0 .. 1
         /\ \A i \in DOMAIN terminal[r] : terminal[r][i] \in HttpRequestCompleted
         /\ \A i \in DOMAIN failures[r] : failures[r][i] \in UnexpectedHttpError
  <1>1. RequestInv(r)
    BY DEF PipelineInv
  <1>2. ASSUME phase[r] = "answered"
        PROVE  /\ input[r].route \in AllRoutes /\ header[r] \in Ids /\ answer[r].status \in Nat
    BY <1>1, <1>2 DEF RequestInv, Input, Answers, Ids
  <1>3. /\ Len(terminal[r]) \in 0 .. 1
        /\ \A i \in DOMAIN terminal[r] : terminal[r][i] \in HttpRequestCompleted
    <2>1. CASE terminal[r] = <<>>
      BY <2>1
    <2>2. CASE terminal[r] # <<>>
      <3>1. phase[r] = "answered" /\ terminal[r] = <<Completed(r, header[r])>>
        BY <1>1, <2>2 DEF RequestInv
      <3>2. Completed(r, header[r]) \in HttpRequestCompleted
        <4>1. TerminalRoute(input[r].route) \in AllRoutes
          BY <1>2, <3>1 DEF TerminalRoute, AllRoutes
        <4>2. header[r] \in Stores
          BY <1>2, <3>1 DEF Stores
        <4>3. QED
          BY <1>2, <3>1, <4>1, <4>2 DEF Completed, HttpRequestCompleted
      <3>3. QED
        BY <3>1, <3>2
    <2>3. QED
      BY <2>1, <2>2
  <1>4. /\ Len(failures[r]) \in 0 .. 1
        /\ \A i \in DOMAIN failures[r] : failures[r][i] \in UnexpectedHttpError
    <2>1. failures[r] = Reported(r)
      BY <1>1 DEF RequestInv
    <2>2. CASE failures[r] = <<>>
      BY <2>2
    <2>3. CASE failures[r] # <<>>
      <3> DEFINE report == [id |-> header[r], fallback |-> FALSE, route |-> FailureRoute(input[r].route),
                            type |-> UnexpectedErrorType(answer[r].cause)]
      <3>1. phase[r] = "answered" /\ failures[r] = <<report>>
        BY <2>1, <2>3 DEF Reported
      <3>2. report \in UnexpectedHttpError
        BY <1>2, <3>1, ReportTyped
      <3> HIDE DEF report
      <3>3. QED
        BY <3>1, <3>2
    <2>4. QED
      BY <2>2, <2>3
  <1>5. QED
    BY <1>3, <1>4

\* Every reachable state is well typed: at most one event of each kind for a
\* request, and no counter above its limit by more than the refusal.
THEOREM PipelineTyped == Spec => []TypeOK
  <1>1. PipelineInv => TypeOK
    BY EventsTyped DEF PipelineInv, ShapeOK, TablesOK, LimitsOK, TypeOK
  <1>2. QED
    BY <1>1, PipelineCorrect, PTL
LEMMA AtMostOne ==
  ASSUME NEW event, NEW seq, seq = <<>> \/ seq = <<event>>
  PROVE  \A i \in DOMAIN seq : seq[i] = event
  OBVIOUS

\* The events of a request follow from its answer and its header.
EventsOf(r) ==
    /\ \A i \in DOMAIN terminal[r] : terminal[r][i] = Completed(r, header[r])
    /\ \A i \in DOMAIN failures[r] :
          /\ failures[r][i] = [id |-> header[r], fallback |-> FALSE,
                               route |-> FailureRoute(input[r].route),
                               type |-> UnexpectedErrorType(answer[r].cause)]
          /\ answer[r].status = 500
    /\ Len(failures[r]) = IF phase[r] = "answered" /\ answer[r].status = 500 THEN 1 ELSE 0

LEMMA EventsAre ==
  ASSUME NEW r \in Requests, RequestInv(r)
  PROVE  EventsOf(r)
  <1> DEFINE report == [id |-> header[r], fallback |-> FALSE, route |-> FailureRoute(input[r].route),
                        type |-> UnexpectedErrorType(answer[r].cause)]
  <1>1. terminal[r] = <<>> \/ terminal[r] = <<Completed(r, header[r])>>
    BY DEF RequestInv
  <1>2. failures[r] = IF phase[r] = "answered" /\ answer[r].status = 500 THEN <<report>> ELSE <<>>
    BY DEF RequestInv, Reported
  <1> HIDE DEF report
  <1>3. failures[r] = <<>> \/ (failures[r] = <<report>> /\ answer[r].status = 500)
    BY <1>2
  <1>4. \A i \in DOMAIN failures[r] : failures[r][i] = report
    BY <1>3, AtMostOne
  <1>5. \A i \in DOMAIN failures[r] : answer[r].status = 500
    BY <1>3
  <1>6. Len(failures[r]) = IF phase[r] = "answered" /\ answer[r].status = 500 THEN 1 ELSE 0
    BY <1>2
  <1>7. \A i \in DOMAIN terminal[r] : terminal[r][i] = Completed(r, header[r])
    BY <1>1, AtMostOne
  <1>8. QED
    BY <1>4, <1>5, <1>6, <1>7 DEF report, EventsOf

\* However turns interleave and whichever request's context 'finish' fires in,
\* the id in the header, the error body and both events is one, and two
\* requests share one only if a client sent it.
THEOREM OneIdCorrect == Spec => []OneIdPerRequest
  <1>1. ASSUME PipelineInv PROVE OneIdPerRequest
    <2> SUFFICES ASSUME NEW r \in Requests, phase[r] # "new"
                 PROVE  /\ answer[r] # None => answer[r].id \in {None, header[r]}
                        /\ \A i \in DOMAIN terminal[r] : terminal[r][i].id = header[r]
                        /\ \A i \in DOMAIN failures[r] : failures[r][i].id = header[r]
                        /\ \A q \in Requests \ {r} : header[q] = header[r] => header[r] \in Inbound
      BY DEF OneIdPerRequest
    <2>1. \A q \in Requests : RequestInv(q)
      BY <1>1 DEF PipelineInv
    <2> EventsOf(r)
      BY <2>1, EventsAre
    <2>2. answer[r] # None => answer[r].id \in {None, header[r]}
      BY <2>1 DEF RequestInv
    <2>3. \A i \in DOMAIN terminal[r] : terminal[r][i].id = header[r]
      BY DEF EventsOf, Completed
    <2>4. \A i \in DOMAIN failures[r] : failures[r][i].id = header[r]
      BY DEF EventsOf
    <2>5. ASSUME NEW q \in Requests \ {r}, header[q] = header[r] PROVE header[r] \in Inbound
      <3>1. header[r] \in Inbound \union {r}
        BY <2>1 DEF RequestInv
      <3>2. header[q] = None \/ header[q] \in Inbound \union {q}
        BY <2>1 DEF RequestInv
      <3>3. QED
        BY <2>5, <3>1, <3>2, PipelineAssumption
    <2>6. QED
      BY <2>2, <2>3, <2>4, <2>5
  <1>2. QED
    BY <1>1, PipelineCorrect, PTL

\* Each 500 is reported once, nothing else is, no expected condition becomes
\* one, and the report matches the terminal event of its request.
THEOREM FailuresLogged == Spec => []FailuresAreLogged
  <1>1. ASSUME PipelineInv PROVE FailuresAreLogged
    <2> SUFFICES
          ASSUME NEW r \in Requests
          PROVE  /\ Len(failures[r]) = IF answer[r] # None /\ answer[r].status = 500 THEN 1 ELSE 0
                 /\ answer[r] # None /\ answer[r].cause \in ApplicationErrors => answer[r].status # 500
                 /\ \A i \in DOMAIN failures[r] :
                       LET failure == failures[r][i] IN
                       /\ ~failure.fallback
                       /\ failure.type = "RESPONSE_CONTRACT_VIOLATION"
                              <=> answer[r].cause = "ResponseContractViolation"
                       /\ \A j \in DOMAIN terminal[r] :
                             terminal[r][j] = [id |-> failure.id, route |-> failure.route, status |-> 500]
      BY DEF FailuresAreLogged
    <2>1. RequestInv(r)
      BY <1>1 DEF PipelineInv
    <2> EventsOf(r)
      BY <2>1, EventsAre
    <2>2. answer[r] # None <=> phase[r] = "answered"
      BY <2>1, AnswerAssumption DEF RequestInv
    <2>3. Len(failures[r]) = IF answer[r] # None /\ answer[r].status = 500 THEN 1 ELSE 0
      BY <2>2 DEF EventsOf
    <2>4. answer[r] # None /\ answer[r].cause \in ApplicationErrors => answer[r].status # 500
      BY <2>1, <2>2 DEF RequestInv
    <2> DEFINE report == [id |-> header[r], fallback |-> FALSE, route |-> FailureRoute(input[r].route),
                          type |-> UnexpectedErrorType(answer[r].cause)]
    <2>5. ASSUME NEW i \in DOMAIN failures[r]
          PROVE  failures[r][i] = report /\ answer[r].status = 500
      BY DEF EventsOf
    <2>6. ASSUME answer[r].status = 500, NEW j \in DOMAIN terminal[r]
          PROVE  terminal[r][j] = [id |-> header[r], route |-> FailureRoute(input[r].route), status |-> 500]
      <3>1. terminal[r][j] = Completed(r, header[r])
        BY DEF EventsOf
      <3>2. TerminalRoute(input[r].route) = FailureRoute(input[r].route)
        BY DEF TerminalRoute, FailureRoute
      <3>3. QED
        BY <2>6, <3>1, <3>2 DEF Completed
    <2>7. /\ ~report.fallback /\ report.id = header[r] /\ report.route = FailureRoute(input[r].route)
          /\ report.type = "RESPONSE_CONTRACT_VIOLATION"
                <=> answer[r].cause = "ResponseContractViolation"
      BY DEF UnexpectedErrorType
    <2> HIDE DEF report
    <2>8. QED
      BY <2>3, <2>4, <2>5, <2>6, <2>7
  <1>2. QED
    BY <1>1, PipelineCorrect, PTL

\* A session that had ended when the request came is never served, whatever
\* other requests do while it is on its way.
THEOREM EndedRefused == Spec => []EndedSessionsAreRefused
  <1>1. PipelineInv => EndedSessionsAreRefused
    BY DEF PipelineInv, ShapeOK, StaleInv, EndedSessionsAreRefused
  <1>2. QED
    BY <1>1, PipelineCorrect, PTL

\* No interleaving of requests and windows lets more through than the limits.
THEOREM RateLimitsCorrect == Spec => []RateLimitsHold
  <1>1. ASSUME PipelineInv, NEW k \in Keys
        PROVE  /\ k[1] \notin HealthRoutes => granted["default"][k] <= Limit["default"]
               /\ k[1] \in {"signUp", "signIn"} => granted[k[1]][k] <= Limit[k[1]]
    BY <1>1, CountedIs DEF PipelineInv, RateInv, Throttlers
  <1>2. PipelineInv => RateLimitsHold
    BY <1>1 DEF RateLimitsHold
  <1>3. QED
    BY <1>2, PipelineCorrect, PTL
-----------------------------------------------------------------------------
\* Declared statuses: what each handler's answers may be, by its route.

Undeclared == {"unmatched", "preflight", "getMe", "updateMe"}

AnswersAsDeclared(r) ==
    phase[r] = "answered" /\ input[r].route \notin Undeclared =>
       answer[r].status \in Declared(input[r].route)

\* A turn that answers does it with a status its route declares.
RunsDeclared(r) ==
    \/ \E next \in {"admitted"} \union Past : Proceed(r, next)
    \/ Succeed(r)
    \/ \E error \in Errors :
          /\ Catch(r, error)
          /\ input[r].route \notin Undeclared => MapErrorToResponse(error) \in Declared(input[r].route)

LEMMA StatusIs ==
  /\ MapErrorToResponse("RESOURCE_NOT_FOUND") = 404 /\ MapErrorToResponse("RESOURCE_NOT_OWNED") = 403
  /\ MapErrorToResponse("CONFLICT") = 409 /\ MapErrorToResponse("INVALID_CREDENTIALS") = 401
  /\ MapErrorToResponse("INVALID_REFRESH_TOKEN") = 401
  /\ MapErrorToResponse("INVALID_CURRENT_PASSWORD") = 403
  /\ MapErrorToResponse("PASSWORD_REUSE_NOT_ALLOWED") = 400
  /\ MapErrorToResponse("BadRequest") = 400 /\ MapErrorToResponse("Unauthorized") = 401
  /\ MapErrorToResponse("Throttled") = 429 /\ MapErrorToResponse("ServiceUnavailable") = 500
  /\ MapErrorToResponse("Unknown") = 500 /\ MapErrorToResponse("ResponseContractViolation") = 500
  BY DEF MapErrorToResponse, ApplicationErrorStatus, HttpExceptionStatus, AllowedStatuses

LEMMA HealthRoutesAre == HealthRoutes = {"healthLive", "healthReady"}
  BY DEF HealthRoutes, HandlersOf, HealthController, Route

LEMMA ListingsAre == {"list", "query"} \subseteq UserRoutes
  <1>1. UsersController[1].handler = "list" /\ UsersController[2].handler = "query"
        /\ {1, 2} \subseteq DOMAIN UsersController
    BY DEF UsersController, Route
  <1>2. QED
    BY <1>1 DEF UserRoutes, HandlersOf

LEMMA HandlerDeclared ==
  ASSUME NEW r \in Requests, Handle(r)
  PROVE  RunsDeclared(r)
  <1> DEFINE route == input[r].route
  <1>1. ASSUME NEW error \in Errors, Catch(r, error), MapErrorToResponse(error) = 500
        PROVE  RunsDeclared(r)
    BY <1>1 DEF RunsDeclared, Declared
  <1>2. ASSUME NEW error \in Errors, Catch(r, error), MapErrorToResponse(error) = 400,
               route \in Validated \union {"signOut"}
        PROVE  RunsDeclared(r)
    BY <1>2 DEF RunsDeclared, Declared
  <1>3. ASSUME NEW error \in Errors, Catch(r, error), MapErrorToResponse(error) = 401,
               route \in {"signIn", "refresh"}
        PROVE  RunsDeclared(r)
    BY <1>3 DEF RunsDeclared, Declared
  <1>4. ASSUME NEW error \in Errors, Catch(r, error), MapErrorToResponse(error) = 403,
               route \in {"changePassword", "deleteUser", "updateUser"} \union Undeclared
        PROVE  RunsDeclared(r)
    BY <1>4 DEF RunsDeclared, Declared
  <1>5. ASSUME NEW error \in Errors, Catch(r, error), MapErrorToResponse(error) = 404,
               route \in {"getUser", "deleteUser", "updateUser"} \union Undeclared
        PROVE  RunsDeclared(r)
    BY <1>5 DEF RunsDeclared, Declared
  <1>6. ASSUME Done(r) \/ Succeed(r) PROVE RunsDeclared(r)
    BY <1>6 DEF Done, RunsDeclared, Past
  <1>7. {"CONFLICT", "INVALID_CREDENTIALS", "INVALID_REFRESH_TOKEN", "INVALID_CURRENT_PASSWORD",
         "PASSWORD_REUSE_NOT_ALLOWED", "BadRequest", "RESOURCE_NOT_FOUND", "RESOURCE_NOT_OWNED",
         "ServiceUnavailable", "NotFound", "Unknown"} \subseteq Errors
    BY DEF Errors, ApplicationErrors, UsersErrors, AuthErrors, HttpExceptionStatus, Unexpected
  <1>8. CASE SignUp(r)
    <2>1. ASSUME Catch(r, "CONFLICT"), route = "signUp" PROVE RunsDeclared(r)
      BY <1>7, <2>1, StatusIs DEF RunsDeclared, Declared
    <2>2. QED
      BY <1>6, <1>8, <2>1 DEF SignUp
  <1>9. CASE SignIn(r)
    BY <1>3, <1>6, <1>7, <1>9, StatusIs DEF SignIn
  <1>10. CASE Refresh(r)
    BY <1>3, <1>6, <1>7, <1>10, StatusIs DEF Refresh
  <1>11. CASE ChangePassword(r)
    <2>1. "changePassword" \in Validated
      BY DEF Validated
    <2>2. QED
      BY <1>2, <1>4, <1>6, <1>7, <1>11, <2>1, StatusIs DEF ChangePassword
  <1>12. CASE SignOut(r)
    BY <1>2, <1>6, <1>7, <1>12, StatusIs DEF SignOut
  <1>13. CASE ListUsers(r)
    <2>1. route \in Validated
      BY <1>13, ListingsAre DEF ListUsers, Validated
    <2>2. QED
      BY <1>2, <1>6, <1>7, <1>13, <2>1, StatusIs DEF ListUsers
  <1>14. CASE FindUser(r)
    <2>1. route \in {"getUser"} \union Undeclared
      BY <1>14 DEF FindUser, Undeclared
    <2>2. QED
      BY <1>5, <1>6, <1>7, <1>14, <2>1, StatusIs DEF FindUser
  <1>15. CASE ChangeUser(r)
    <2>1. route \in {"updateUser", "deleteUser"} \union Undeclared
      BY <1>15 DEF ChangeUser, Undeclared
    <2>2. \/ Done(r) \/ Catch(r, "RESOURCE_NOT_FOUND") \/ Catch(r, "RESOURCE_NOT_OWNED")
      BY <1>15 DEF ChangeUser
    <2>3. QED
      BY <1>4, <1>5, <1>6, <1>7, <2>1, <2>2, StatusIs
  <1>16. CASE Health(r)
    BY <1>1, <1>6, <1>7, <1>16, StatusIs DEF Health
  <1>17. CASE NotFound(r)
    BY <1>7, <1>17 DEF NotFound, RunsDeclared, Undeclared
  <1>18. CASE Fail(r)
    BY <1>1, <1>7, <1>18, StatusIs DEF Fail
  <1>19. QED
    BY <1>8, <1>9, <1>10, <1>11, <1>12, <1>13, <1>14, <1>15, <1>16, <1>17, <1>18 DEF Handle

LEMMA TurnDeclared ==
  ASSUME NEW r \in Requests,
         Throttle(r) \/ Authenticate(r) \/ Validate(r) \/ Handle(r) \/ Serialize(r)
  PROVE  RunsDeclared(r)
  <1> DEFINE route == input[r].route
  <1>1. {"Throttled", "Unauthorized", "Unknown", "BadRequest", "ResponseContractViolation"}
           \subseteq Errors
    BY DEF Errors, HttpExceptionStatus, Unexpected
  <1>2. ASSUME Catch(r, "Unknown") \/ Catch(r, "ResponseContractViolation") PROVE RunsDeclared(r)
    BY <1>1, <1>2, StatusIs DEF RunsDeclared, Declared
  <1>3. ASSUME NEW next \in {"admitted"} \union Past, Proceed(r, next) PROVE RunsDeclared(r)
    BY <1>3 DEF RunsDeclared
  <1>4. CASE Throttle(r)
    <2>1. ASSUME Catch(r, "Throttled"), route \notin HealthRoutes PROVE RunsDeclared(r)
      BY <1>1, <2>1, StatusIs DEF RunsDeclared, Declared, Undeclared
    <2>2. ASSUME route \in HealthRoutes PROVE Asked(r) = {}
      BY <2>2, AppliedCases, HealthRoutesAre DEF Asked
    <2>3. QED
      BY <1>3, <1>4, <2>1, <2>2 DEF Throttle
  <1>5. CASE Authenticate(r)
    <2>1. ASSUME Catch(r, "Unauthorized"), route \notin Public PROVE RunsDeclared(r)
      BY <1>1, <2>1, StatusIs DEF RunsDeclared, Declared
    <2>2. QED
      BY <1>2, <1>3, <1>5, <2>1 DEF Authenticate, Past
  <1>6. CASE Validate(r)
    <2>1. ASSUME Catch(r, "BadRequest"), route \in Validated PROVE RunsDeclared(r)
      BY <1>1, <2>1, StatusIs DEF RunsDeclared, Declared
    <2>2. QED
      BY <1>3, <1>6, <2>1 DEF Validate, Past
  <1>7. CASE Serialize(r)
    BY <1>2, <1>7 DEF Serialize, RunsDeclared
  <1>8. QED
    BY <1>4, <1>5, <1>6, <1>7, HandlerDeclared
LEMMA SuccessDeclared == ASSUME NEW route PROVE Success(route) \in Declared(route)
  BY DEF Declared

LEMMA DeclaredStep ==
  ASSUME ShapeOK, \A q \in Requests : AnswersAsDeclared(q),
         NEW r \in Requests, Correlate(r) \/ Turn(r) \/ Cut(r), NEW q \in Requests
  PROVE  AnswersAsDeclared(q)'
  <1> USE DEF AnswersAsDeclared
  <1>1. CASE q # r
    BY <1>1, StepAlone DEF Alone
  <1>2. CASE q = r /\ RunsDeclared(r)
    <2>1. ASSUME NEW next \in {"admitted"} \union Past, Proceed(r, next)
          PROVE  AnswersAsDeclared(r)'
      BY <2>1 DEF ShapeOK, Proceed, Advance, Past
    <2>2. CASE Succeed(r)
      BY <1>2, <2>2, SuccessDeclared DEF ShapeOK, Succeed
    <2>3. ASSUME NEW error \in Errors, Catch(r, error),
                 input[r].route \notin Undeclared => MapErrorToResponse(error) \in Declared(input[r].route)
          PROVE  AnswersAsDeclared(r)'
      BY <2>3 DEF ShapeOK, Catch
    <2>4. QED
      BY <1>2, <2>1, <2>2, <2>3 DEF RunsDeclared
  <1>3. CASE q = r /\ Preflight(r)
    BY <1>3 DEF Preflight, Undeclared
  <1>4. CASE q = r /\ Correlate(r)
    BY <1>4 DEF Correlate, Advance, ShapeOK
  <1>5. CASE q = r /\ (Finish(r) \/ Cut(r))
    BY <1>5 DEF Finish, Cut, requestVars, answerVars
  <1>6. QED
    BY <1>1, <1>2, <1>3, <1>4, <1>5, TurnDeclared DEF Turn

\* If every published request reaches the handler its path was written for,
\* no turn of a request gives it a status that its operation does not declare.
THEOREM DeclaredCorrect ==
  ASSUME \A operation \in Routes \ Undeclared : Serving(operation) = operation
  PROVE  Spec => []AnswersAreDeclared
  <1> DEFINE DeclaredInv == PipelineInv /\ \A r \in Requests : AnswersAsDeclared(r)
  <1>1. Init => DeclaredInv
    BY PipelineInit DEF Init, AnswersAsDeclared
  <1>2. DeclaredInv /\ [Next]_vars => DeclaredInv'
    <2> SUFFICES ASSUME DeclaredInv, [Next]_vars PROVE \A r \in Requests : AnswersAsDeclared(r)'
      BY PipelineStep
    <2>1. CASE \E r \in Requests : Correlate(r) \/ Turn(r) \/ Cut(r)
      BY <2>1, DeclaredStep DEF PipelineInv
    <2>2. CASE UNCHANGED <<phase, input, answer>>
      BY <2>2 DEF AnswersAsDeclared
    <2>3. QED
      BY <2>1, <2>2 DEF Next, WindowPasses, vars, requestVars, answerVars
  <1>3. DeclaredInv => AnswersAreDeclared
    <2> SUFFICES ASSUME DeclaredInv, NEW r \in Requests, answer[r] # None, input[r].asked \notin Undeclared
                 PROVE  answer[r].status \in Declared(input[r].asked)
      BY DEF AnswersAreDeclared, Undeclared
    <2>1. phase[r] = "answered" /\ input[r] \in Input
      BY DEF PipelineInv, RequestInv
    <2>2. input[r].asked \in Routes /\ input[r].route = Serving(input[r].asked)
      BY <2>1 DEF Input
    <2>3. input[r].route = input[r].asked
      BY <2>2
    <2>4. QED
      BY <2>1, <2>3 DEF AnswersAsDeclared
  <1>4. QED
    BY <1>1, <1>2, <1>3, PTL DEF Spec
=============================================================================
