---------------------------- MODULE HttpPipeline ----------------------------
(***************************************************************************)
(* What a request goes through on its way to a handler and back: the       *)
(* correlation and logging middlewares, CORS, the two global guards        *)
(* (throttler, then access token), the validation pipe, the handler, the   *)
(* serializer, the exception filter and the 'finish' event.  A request     *)
(* runs in turns of one event loop; the turns of several requests          *)
(* interleave, and its connection may be cut at any time.                  *)
(*                                                                         *)
(* Handlers are reduced to what the pipeline sees of them: the errors they *)
(* raise and the sessions and accounts they create and end.                *)
(***************************************************************************)
EXTENDS Integers, Sequences, FiniteSets, NestModules

CONSTANTS
    Requests,  \* requests; each is also the UUID generated for it
    Inbound,   \* valid X-Request-Id values that clients send
    NoStore,   \* AsyncLocalStorage.getStore() = undefined; no such header
    Clients,   \* addresses the throttler tracks
    Accounts,
    Sessions,
    None,
    Routes,    \* the operations asked for, some of AllRoutes
    GlobalLimit, SignUpLimit, SignInLimit \* rateLimitConfig: requests per window

HandlersOf(controller) == {controller[i].handler : i \in DOMAIN controller}

UserRoutes == HandlersOf(UsersController)
AuthRoutes == HandlersOf(AuthController)
HealthRoutes == HandlersOf(HealthController)
\* "unmatched" is the catch-all of NotFoundController; CORS answers a
\* "preflight" before any route is looked up.
AllRoutes == UserRoutes \union AuthRoutes \union HealthRoutes \union {"unmatched", "preflight"}

Throttlers == {"default", "signUp", "signIn"}

Limit == [default |-> GlobalLimit, signUp |-> SignUpLimit, signIn |-> SignInLimit]

ASSUME PipelineAssumption ==
    /\ Routes \subseteq AllRoutes
    /\ Limit \in [Throttlers -> Nat \ {0}]
    /\ Inbound \intersect Requests = {}
    /\ NoStore \notin Inbound \union Requests
    /\ None \notin Requests \union Inbound \union Accounts \union Sessions

\* Throttle comes before Authenticate.
ASSUME GuardOrder == Guards = <<"ThrottlerGuard", "AccessTokenGuard">>

\* The handler that serves the published request of an operation.
Serving(operation) ==
    IF operation \in {"unmatched", "preflight"} THEN operation
    ELSE LET i == CHOOSE i \in DOMAIN Routing : Routing[i].handler = operation
         IN  Dispatch(Routing[i].method, Routing[i].path)

-----------------------------------------------------------------------------
\* What the decorators say of each handler.

Public == {"signUp", "signIn", "refresh", "unmatched"} \union HealthRoutes

\* Mutant: the class's @SkipThrottle not undone on sign-in.
AppliedDefaultOnly(route) == IF route \in HealthRoutes THEN <<>> ELSE <<"default">>

\* The throttlers that count a handler, in the order they are asked.
Applied(route) ==
    (IF route \in HealthRoutes THEN <<>> ELSE <<"default">>)
        \o (IF route \in {"signUp", "signIn"} THEN <<route>> ELSE <<>>)

Validated == {"signUp", "signIn", "refresh", "changePassword"} \union (UserRoutes \ {"getMe"})

NoContent == {"changePassword", "signOut", "deleteUser"}

Serialized == (AllRoutes \ NoContent) \ {"unmatched", "preflight"}

Success(route) == CASE route = "signUp" -> 201
                    [] route \in NoContent -> 204
                    [] OTHER -> 200

\* @ApiResponse, @ApiOkResponse, ...: the statuses the OpenAPI document has.
Declared(route) ==
    {Success(route), 500}
        \union (IF route \in HealthRoutes THEN {503} ELSE {})
        \union (IF route \in Validated \union {"signOut"} THEN {400} ELSE {})
        \union (IF route \notin Public \/ route \in {"signIn", "refresh"} THEN {401} ELSE {})
        \union (IF route \in {"changePassword", "deleteUser", "updateUser"} THEN {403} ELSE {})
        \union (IF route \in {"getUser", "deleteUser", "updateUser"} THEN {404} ELSE {})
        \union (IF route = "signUp" THEN {409} ELSE {})
        \union (IF route \notin HealthRoutes \union {"getMe", "updateMe"} THEN {429} ELSE {})

-----------------------------------------------------------------------------
\* Errors and the answers they become.

\* What the services of users and of auth throw.
UsersErrors == {"RESOURCE_NOT_FOUND", "RESOURCE_NOT_OWNED", "CONFLICT"}

AuthErrors == {"INVALID_CREDENTIALS", "INVALID_REFRESH_TOKEN", "INVALID_CURRENT_PASSWORD",
               "PASSWORD_REUSE_NOT_ALLOWED"}

ApplicationErrors == UsersErrors \union AuthErrors

\* The status of the codes the mapping knows.
ApplicationErrorStatus ==
    [RESOURCE_NOT_FOUND |-> 404, CONFLICT |-> 409, INVALID_CREDENTIALS |-> 401,
     INVALID_REFRESH_TOKEN |-> 401, INVALID_CURRENT_PASSWORD |-> 403,
     PASSWORD_REUSE_NOT_ALLOWED |-> 400, RESOURCE_NOT_OWNED |-> 403]

\* HttpException by the status it carries; Terminus raises the 503.
HttpExceptionStatus ==
    [BadRequest |-> 400, Unauthorized |-> 401, NotFound |-> 404, Throttled |-> 429,
     ServiceUnavailable |-> 503]

AllowedStatuses == {400, 401, 403, 404, 409, 429}

\* Whatever else is thrown; the serializer wraps its own failures.
Unexpected == {"ResponseContractViolation", "Unknown"}

Errors == ApplicationErrors \union DOMAIN HttpExceptionStatus \union Unexpected

\* The error type of a failure event.
UnexpectedErrorType(error) ==
    IF error = "ResponseContractViolation" THEN "RESPONSE_CONTRACT_VIOLATION" ELSE "UNKNOWN_ERROR"

\* Mutant: a code missing from the mapping table.
MapWithoutConflict(error) ==
    CASE error \in DOMAIN ApplicationErrorStatus \ {"CONFLICT"} -> ApplicationErrorStatus[error]
      [] error \in DOMAIN HttpExceptionStatus /\ HttpExceptionStatus[error] \in AllowedStatuses ->
            HttpExceptionStatus[error]
      [] OTHER -> 500

MapErrorToResponse(error) ==
    CASE error \in DOMAIN ApplicationErrorStatus -> ApplicationErrorStatus[error]
      [] error \in DOMAIN HttpExceptionStatus /\ HttpExceptionStatus[error] \in AllowedStatuses ->
            HttpExceptionStatus[error]
      [] OTHER -> 500

-----------------------------------------------------------------------------
VARIABLES
    phase,     \* requests: how far each one is
    input,     \* requests: operation asked for, handler that serves it (route),
               \* address, session of the token, account named
    store,     \* requests: the AsyncLocalStorage store their turns run in
    header,    \* responses: X-Request-Id
    onFinish,  \* responses: the store bound to the 'finish' listener, None
               \* when there is no listener (left)
    answer,    \* responses: status, requestId of the body and cause, or None
    cut,       \* requests whose connection is gone
    terminal,  \* requests: http.request.completed events
    failures,  \* requests: http.request.failed events
    hits,      \* throttlers and keys: requests counted in the window
    accounts,  \* accounts that exist
    owner,     \* sessions: their account, None while not issued
    active,    \* sessions neither revoked nor deleted
    granted,   \* history: requests let through in the throttler's window
    stale      \* history: requests that came after the end of their session

requestVars == <<phase, input, store, header, onFinish>>
answerVars  == <<answer, terminal, failures>>
identityVars == <<accounts, owner, active>>
vars == <<requestVars, answerVars, cut, hits, identityVars, granted, stale>>

Ids    == Inbound \union Requests
Stores == Ids \union {NoStore}
Keys   == {Serving(operation) : operation \in Routes} \X Clients

Phases == {"new", "arrived", "admitted", "guarded", "valid", "handled", "answered"}

\* The token of a public request is not looked at.
Input == {in \in [asked : Routes, route : AllRoutes, client : Clients,
                  session : Sessions \union {None}, target : Accounts \union {None}] :
            /\ in.route = Serving(in.asked)
            /\ in.route \in Public \union {"preflight"} => in.session = None
            /\ in.target # None <=> in.route \in {"getUser", "deleteUser", "updateUser"}}

\* Request.route.path as the terminal event and the failure event report it:
\* nothing matched a preflight, and only the former hides the catch-all's path.
TerminalRoute(route) == IF route \in {"unmatched", "preflight"} THEN "unmatched" ELSE route

FailureRoute(route) == IF route = "preflight" THEN "unmatched" ELSE route

HttpRequestCompleted == [id : Stores, route : AllRoutes, status : Nat]

Answers == [status : Nat, id : Ids \union {None}, cause : Errors \union {None}]

ASSUME AnswerAssumption == None \notin Answers

UnexpectedHttpError ==
    [id : Ids, fallback : BOOLEAN, route : AllRoutes,
     type : {"RESPONSE_CONTRACT_VIOLATION", "UNKNOWN_ERROR"}]

TypeOK ==
    /\ phase \in [Requests -> Phases]
    /\ input \in [Requests -> Input \union {None}]
    /\ store \in [Requests -> Stores]
    /\ header \in [Requests -> Ids \union {None}]
    /\ onFinish \in [Requests -> Stores \union {None}]
    /\ answer \in [Requests -> Answers \union {None}]
    /\ cut \subseteq Requests
    /\ \A r \in Requests : /\ Len(terminal[r]) \in 0 .. 1 /\ Len(failures[r]) \in 0 .. 1
                           /\ \A i \in DOMAIN terminal[r] : terminal[r][i] \in HttpRequestCompleted
                           /\ \A i \in DOMAIN failures[r] : failures[r][i] \in UnexpectedHttpError
    /\ hits \in [Throttlers -> [Keys -> Nat]]
    /\ \A n \in Throttlers, k \in Keys : hits[n][k] <= Limit[n] + 1
    /\ accounts \subseteq Accounts
    /\ owner \in [Sessions -> Accounts \union {None}]
    /\ \A s \in active : s \in Sessions /\ owner[s] \in accounts
    /\ granted \in [Throttlers -> [Keys -> Nat]]
    /\ stale \subseteq Requests

\* Every account that exists has signed up or in once.
Init ==
    /\ phase = [r \in Requests |-> "new"]
    /\ input = [r \in Requests |-> None]
    /\ store = [r \in Requests |-> NoStore]
    /\ header = [r \in Requests |-> None]
    /\ onFinish = [r \in Requests |-> None]
    /\ answer = [r \in Requests |-> None]
    /\ cut = {}
    /\ terminal = [r \in Requests |-> <<>>]
    /\ failures = [r \in Requests |-> <<>>]
    /\ hits = [n \in Throttlers |-> [k \in Keys |-> 0]]
    /\ owner \in [Sessions -> Accounts \union {None}]
    /\ \A s, t \in Sessions : owner[s] = owner[t] => s = t \/ owner[s] = None
    /\ accounts = {owner[s] : s \in Sessions} \ {None}
    /\ active = {s \in Sessions : owner[s] # None}
    /\ granted = hits
    /\ stale = {}

-----------------------------------------------------------------------------
\* Answers.

Key(r) == <<input[r].route, input[r].client>>

Advance(r, next) == phase' = [phase EXCEPT ![r] = next]

\* Mutant: the listener registered without bind().
BindNothing(bound, caller) == caller

\* RequestContextService.bind: the callback runs in the store it was bound in,
\* or, bound outside of any, in the one its caller has.
Bind(bound, caller) == IF bound = NoStore THEN caller ELSE bound

\* The filter's request id: the store's, else one generated on the spot.
RequestIdFor(r) == IF store[r] # NoStore THEN store[r] ELSE r

Succeed(r) ==
    /\ Advance(r, "answered")
    /\ answer' = [answer EXCEPT ![r] = [status |-> Success(input[r].route), id |-> None, cause |-> None]]
    /\ UNCHANGED <<input, store, header, onFinish, terminal, failures>>

\* HttpExceptionFilter.catch.
Catch(r, error) ==
    LET status == MapErrorToResponse(error)
        id == RequestIdFor(r)
    IN  /\ Advance(r, "answered")
        /\ header' = [header EXCEPT ![r] = id]
        /\ answer' = [answer EXCEPT ![r] = [status |-> status, id |-> id, cause |-> error]]
        /\ failures' = IF status = 500
                         THEN [failures EXCEPT ![r] = Append(@, [id |-> id, fallback |-> store[r] = NoStore,
                                                            route |-> FailureRoute(input[r].route),
                                                            type |-> UnexpectedErrorType(error)])]
                         ELSE failures
        /\ UNCHANGED <<input, store, onFinish, terminal>>

Proceed(r, next) == Advance(r, next) /\ UNCHANGED <<input, store, header, onFinish, answerVars>>

-----------------------------------------------------------------------------
\* Middlewares.

\* RequestCorrelationMiddleware, then HttpRequestLoggingMiddleware, helmet.
\* inbound is NoStore when the header is missing or no canonical UUIDv4.
Correlate(r) ==
    \E in \in Input, inbound \in Inbound \union {NoStore} :
        LET id == IF inbound # NoStore THEN inbound ELSE r
        IN  /\ phase[r] = "new"
            /\ in.session # None => owner[in.session] # None
            /\ Advance(r, "arrived")
            /\ input' = [input EXCEPT ![r] = in]
            /\ header' = [header EXCEPT ![r] = id]
            /\ store' = [store EXCEPT ![r] = id]
            /\ onFinish' = [onFinish EXCEPT ![r] = id]
            /\ stale' = IF in.session \in Sessions \ active THEN stale \union {r} ELSE stale
            /\ UNCHANGED <<answerVars, cut, hits, identityVars, granted>>

\* CORS answers a preflight itself: 204, and nothing after it runs.
Preflight(r) ==
    /\ phase[r] = "arrived" /\ input[r].route = "preflight"
    /\ Advance(r, "answered")
    /\ answer' = [answer EXCEPT ![r] = [status |-> 204, id |-> None, cause |-> None]]
    /\ UNCHANGED <<input, store, header, onFinish, terminal, failures, cut, hits, identityVars,
                   granted, stale>>

\* http.request.completed, written in the context the callback runs in.
Completed(r, id) == [id |-> id, route |-> TerminalRoute(input[r].route), status |-> answer[r].status]

\* Mutant: a listener that only successful responses trigger.
FinishOfSuccess(r) ==
    \E emitter \in {store[q] : q \in Requests} \union {NoStore} :
        /\ answer[r] # None /\ onFinish[r] # None /\ answer[r].cause = None
        /\ r \notin cut
        /\ terminal' = [terminal EXCEPT ![r] =
                          Append(@, Completed(r, Bind(onFinish[r], emitter)))]
        /\ onFinish' = [onFinish EXCEPT ![r] = None]
        /\ UNCHANGED <<phase, input, store, header, answer, failures, cut, hits, identityVars,
                       granted, stale>>

\* The logging middleware's listener, which once() removes.  The emitter is the
\* socket: its store may be that of any request of the connection, or none.
Finish(r) ==
    \E emitter \in {store[q] : q \in Requests} \union {NoStore} :
        /\ answer[r] # None /\ onFinish[r] # None
        /\ r \notin cut
        /\ terminal' = [terminal EXCEPT ![r] =
                          Append(@, Completed(r, Bind(onFinish[r], emitter)))]
        /\ onFinish' = [onFinish EXCEPT ![r] = None]
        /\ UNCHANGED <<phase, input, store, header, answer, failures, cut, hits, identityVars,
                       granted, stale>>

\* The client disconnects or closing connections is forced: the request is
\* still handled, but the response is never flushed and 'finish' never fires.
Cut(r) ==
    /\ phase[r] # "new" /\ onFinish[r] # None
    /\ cut' = cut \union {r}
    /\ r \notin cut
    /\ UNCHANGED <<requestVars, answerVars, hits, identityVars, granted, stale>>

-----------------------------------------------------------------------------
\* Guards.

\* The in-memory limiter: it counts a request, and refuses it, and all that
\* follow, once the window holds more than the limit.
Admits(n, k) == hits[n][k] < Limit[n]

Count(n, k) == IF Admits(n, k) THEN hits[n][k] + 1 ELSE Limit[n] + 1

\* ThrottlerGuard asks the throttlers one by one; the first refusal throws.
Asked(r) == {i \in DOMAIN Applied(input[r].route) :
               \A j \in 1 .. (i - 1) : Admits(Applied(input[r].route)[j], Key(r))}

Throttle(r) ==
    LET asked == {Applied(input[r].route)[i] : i \in Asked(r)}
        refused == \E n \in asked : ~Admits(n, Key(r))
    IN  /\ phase[r] = "arrived" /\ input[r].route # "preflight"
        /\ hits' = [n \in Throttlers |->
                      IF n \in asked THEN [hits[n] EXCEPT ![Key(r)] = Count(n, Key(r))] ELSE hits[n]]
        /\ IF refused
             THEN Catch(r, "Throttled") /\ UNCHANGED granted
             ELSE /\ Proceed(r, "admitted")
                  /\ granted' = [n \in Throttlers |-> [granted[n] EXCEPT ![Key(r)] = @ + 1]]
        /\ UNCHANGED <<cut, identityVars, stale>>

\* A window of one throttler passes for one handler and address.
WindowPasses(n, k) ==
    /\ hits[n][k] > 0
    /\ hits' = [hits EXCEPT ![n][k] = 0]
    /\ granted' = [granted EXCEPT ![n][k] = 0]
    /\ UNCHANGED <<requestVars, answerVars, cut, identityVars, stale>>

\* Mutant: the guard trusts the signed token and looks no session up.
AuthenticateByToken(r) ==
    /\ phase[r] = "admitted"
    /\ IF input[r].route \in Public \/ input[r].session # None
         THEN Proceed(r, "guarded")
         ELSE Catch(r, "Unauthorized")
    /\ UNCHANGED <<cut, hits, identityVars, granted, stale>>

\* AccessTokenGuard, whose steps AuthService has one by one; its two queries may
\* fail.
Authenticate(r) ==
    /\ phase[r] = "admitted"
    /\ \/ IF input[r].route \in Public \/ input[r].session \in active
            THEN Proceed(r, "guarded")
            ELSE Catch(r, "Unauthorized")
       \/ input[r].route \notin Public /\ input[r].session # None /\ Catch(r, "Unknown")
    /\ UNCHANGED <<cut, hits, identityVars, granted, stale>>

-----------------------------------------------------------------------------
\* Pipe, handler, serializer.

\* StandardSchemaValidationPipe, on handlers that have a schema.
Validate(r) ==
    /\ phase[r] = "guarded"
    /\ \/ Proceed(r, "valid")
       \/ input[r].route \in Validated /\ Catch(r, "BadRequest")
    /\ UNCHANGED <<cut, hits, identityVars, granted, stale>>

Done(r) == IF input[r].route \in Serialized THEN Proceed(r, "handled") ELSE Succeed(r)

Caller(r) == owner[input[r].session]

\* Mutant: sessions that outlive their end.
EndNone(ended) == UNCHANGED active

EndSessions(ended) == active' = active \ ended

\* Any handler may fail unexpectedly: the database, the signing of a token.
Fail(r) == Catch(r, "Unknown") /\ UNCHANGED identityVars

SignUp(r) ==
    /\ input[r].route = "signUp"
    /\ \/ \E s \in Sessions, a \in Accounts :
            /\ owner[s] = None /\ a \notin accounts /\ a \notin {owner[t] : t \in Sessions}
            /\ owner' = [owner EXCEPT ![s] = a]
            /\ accounts' = accounts \union {a}
            /\ active' = active \union {s}
            /\ Done(r)
       \/ Catch(r, "CONFLICT") /\ UNCHANGED identityVars

SignIn(r) ==
    /\ input[r].route = "signIn"
    /\ \/ \E s \in Sessions, a \in accounts :
            /\ owner[s] = None
            /\ owner' = [owner EXCEPT ![s] = a]
            /\ active' = active \union {s}
            /\ UNCHANGED accounts
            /\ Done(r)
       \/ Catch(r, "INVALID_CREDENTIALS") /\ UNCHANGED identityVars

\* A refused refresh may have been a replay, which revokes its session.
Refresh(r) ==
    /\ input[r].route = "refresh"
    /\ \/ active # {} /\ Done(r) /\ UNCHANGED identityVars
       \/ /\ Catch(r, "INVALID_REFRESH_TOKEN")
          /\ \E ended \in {{}} \union {{s} : s \in active} : EndSessions(ended)
          /\ UNCHANGED <<accounts, owner>>

ChangePassword(r) ==
    /\ input[r].route = "changePassword"
    /\ \/ /\ Caller(r) \in accounts
          /\ Succeed(r)
          /\ EndSessions({s \in active : owner[s] = Caller(r)})
          /\ UNCHANGED <<accounts, owner>>
       \/ Catch(r, "INVALID_CURRENT_PASSWORD") /\ UNCHANGED identityVars
       \/ /\ Caller(r) \in accounts
          /\ Catch(r, "PASSWORD_REUSE_NOT_ALLOWED") /\ UNCHANGED identityVars

\* sign-out takes no body.
SignOut(r) ==
    /\ input[r].route = "signOut"
    /\ \/ Succeed(r) /\ EndSessions({input[r].session}) /\ UNCHANGED <<accounts, owner>>
       \/ Catch(r, "BadRequest") /\ UNCHANGED identityVars

\* GET and QUERY /users: a cursor may be refused.
ListUsers(r) ==
    /\ input[r].route \in {"list", "query"}
    /\ Done(r) \/ Catch(r, "BadRequest")
    /\ UNCHANGED identityVars

\* The account a handler of one user is about: its caller, or the one named.
Target(r) == IF input[r].route \in {"getMe", "updateMe"} THEN Caller(r) ELSE input[r].target

FindUser(r) ==
    /\ input[r].route \in {"getMe", "getUser"}
    /\ IF Target(r) \in accounts THEN Done(r) ELSE Catch(r, "RESOURCE_NOT_FOUND")
    /\ UNCHANGED identityVars

\* requireOwner, then the statement.
ChangeUser(r) ==
    /\ input[r].route \in {"updateMe", "updateUser", "deleteUser"}
    /\ CASE Target(r) \notin accounts -> Catch(r, "RESOURCE_NOT_FOUND") /\ UNCHANGED identityVars
         [] Target(r) \in accounts /\ Target(r) # Caller(r) ->
              Catch(r, "RESOURCE_NOT_OWNED") /\ UNCHANGED identityVars
         [] OTHER ->
              /\ Done(r)
              /\ UNCHANGED owner
              /\ IF input[r].route = "deleteUser"
                   THEN /\ accounts' = accounts \ {Target(r)}
                        /\ EndSessions({s \in active : owner[s] = Target(r)})
                   ELSE UNCHANGED <<accounts, active>>

\* Terminus: healthy, or shutting down, which it reports as unavailable.
Health(r) ==
    /\ input[r].route \in HealthRoutes
    /\ Done(r) \/ Catch(r, "ServiceUnavailable")
    /\ UNCHANGED identityVars

NotFound(r) == input[r].route = "unmatched" /\ Catch(r, "NotFound") /\ UNCHANGED identityVars

Handle(r) ==
    /\ phase[r] = "valid"
    /\ \/ SignUp(r) \/ SignIn(r) \/ Refresh(r) \/ ChangePassword(r) \/ SignOut(r)
       \/ ListUsers(r) \/ FindUser(r) \/ ChangeUser(r) \/ Health(r) \/ NotFound(r)
       \/ input[r].route # "unmatched" /\ Fail(r)
    /\ UNCHANGED <<cut, hits, granted, stale>>

\* ResponseSchemaSerializerInterceptor, which Nest runs on results only.
Serialize(r) ==
    /\ phase[r] = "handled"
    /\ Succeed(r) \/ Catch(r, "ResponseContractViolation")
    /\ UNCHANGED <<cut, hits, identityVars, granted, stale>>

-----------------------------------------------------------------------------
Turn(r) == \/ Preflight(r) \/ Throttle(r) \/ Authenticate(r) \/ Validate(r) \/ Handle(r)
           \/ Serialize(r) \/ Finish(r)

Next == \/ \E r \in Requests : Correlate(r) \/ Turn(r) \/ Cut(r)
        \/ \E n \in Throttlers, k \in Keys : WindowPasses(n, k)

Spec == Init /\ [][Next]_vars

\* The event loop runs what is ready; handlers return (AuthService's liveness).
FairSpec == Spec /\ \A r \in Requests : WF_vars(Turn(r))

-----------------------------------------------------------------------------
\* Properties.

\* One X-Request-Id stands for one request wherever it appears, although the
\* turns of requests interleave and 'finish' fires in the socket's context: in
\* the header, the error body, the failure event and the terminal event.  Two
\* requests share one only if their clients sent it.
OneIdPerRequest ==
    \A r \in Requests : phase[r] # "new" =>
        /\ answer[r] # None => answer[r].id \in {None, header[r]}
        /\ \A i \in DOMAIN terminal[r] : terminal[r][i].id = header[r]
        /\ \A i \in DOMAIN failures[r] : failures[r][i].id = header[r]
        /\ \A q \in Requests \ {r} : header[q] = header[r] => header[r] \in Inbound

\* http.request.failed is written for each 500, once, and for nothing else; no
\* expected condition of the application ends up as one, and only a response
\* that broke its contract is reported as such.  Whoever then looks for the
\* terminal event of the request finds it by the same id, route and status.
FailuresAreLogged ==
    \A r \in Requests :
        /\ Len(failures[r]) = IF answer[r] # None /\ answer[r].status = 500 THEN 1 ELSE 0
        /\ answer[r] # None /\ answer[r].cause \in ApplicationErrors => answer[r].status # 500
        /\ \A i \in DOMAIN failures[r] :
              LET failure == failures[r][i] IN
              /\ ~failure.fallback
              /\ failure.type = "RESPONSE_CONTRACT_VIOLATION"
                     <=> answer[r].cause = "ResponseContractViolation"
              /\ \A j \in DOMAIN terminal[r] :
                    terminal[r][j] = [id |-> failure.id, route |-> failure.route, status |-> 500]

\* Rate limits: in one window a handler lets no more requests of an address
\* through than the global limit, sign-up and sign-in no more than their own;
\* health checks are not limited.
RateLimitsHold ==
    \A k \in Keys :
        /\ k[1] \notin HealthRoutes => granted["default"][k] <= Limit["default"]
        /\ k[1] \in {"signUp", "signIn"} => granted[k[1]][k] <= Limit[k[1]]

\* A request whose session was signed out, revoked by a password change or
\* deleted with its account before the request came is never served.
EndedSessionsAreRefused ==
    \A r \in stale : answer[r] # None /\ answer[r].status \in {200, 201, 204} =>
        input[r].route \in Public \union {"preflight"}

\* A client sees no status that the OpenAPI document does not declare for the
\* operation it asks for, whichever handler its request is given to;
\* /users/me apart (see CurrentUserAnswersAreDeclared).
AnswersAreDeclared ==
    \A r \in Requests : answer[r] # None
            /\ input[r].asked \notin {"unmatched", "preflight", "getMe", "updateMe"} =>
        answer[r].status \in Declared(input[r].asked)

\* The same of GET and PATCH /users/me, whose annotations list 200, 400, 401
\* and 500.
CurrentUserAnswersAreDeclared ==
    \A r \in Requests : answer[r] # None /\ input[r].asked \in {"getMe", "updateMe"} =>
        answer[r].status \in Declared(input[r].asked)

\* The documented contract of http.request.completed: one per request.  Here:
\* a request that was answered, and whose connection is done with, has one.
OneTerminalEventPerRequest ==
    \A r \in Requests : answer[r] # None /\ (r \in cut \/ onFinish[r] = None) => Len(terminal[r]) = 1

\* A request whose connection stays up is answered and logged.
RequestsEnd ==
    \A r \in Requests : phase[r] # "new" ~> Len(terminal[r]) = 1 \/ r \in cut

=============================================================================
