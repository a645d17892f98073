# Verification of the NestJS API boilerplate

TLA+ models of this repository's program (`src/src/`), their model-checking configurations and machine-checked
proofs. Paths below are relative to the repository (`src/` in `PROJECT.json`).

The program is one Node process (or several, next to each other) in front of PostgreSQL: accounts, sessions with
rotating refresh tokens, a paged listing of users, a periodic purge of refresh tokens, and a request pipeline and
shutdown built on NestJS.

## Inventory

| Component | State it keeps | Operations | What makes it correct |
| --- | --- | --- | --- |
| Auth service, sessions repository (`modules/auth`) | `sessions`, `refresh_digests` rows | sign-up, sign-in, refresh, sign-out, change password | one usable refresh token per session; a replay revokes; a password change or deletion leaves no session behind |
| Credentials service and repository (`modules/users`) | `users` rows (hash, unique email) | register, verify, change | the password verified is the one in force when its effect commits |
| Access-token guard | none (reads sessions and users) | `canActivate` | ended sessions are refused |
| Refresh cleanup | timer, run under way, `stopped` | start-up run, tick, batch, destroy | one run at a time; everything eligible goes; nothing is sent after destroy |
| Database transactions | PostgreSQL transactions and row locks | run, runReadCommitted | atomic, no lock cycles |
| Users service, repository, cursor codec | `users` rows | list (GET, QUERY), find, update, delete | a walk skips no unchanged user and repeats none |
| Error boundary | none | map error, answer, log | each error becomes the public answer meant for it; only failures are logged |
| Correlation, request logging | AsyncLocalStorage store per request, 'finish' listener | correlate, bind, log | one id per request everywhere; one terminal event |
| Throttling | counters per throttler, handler, address | count, refuse | each handler gets its own limits |
| Validation, serialization | none | pipe, interceptor | failures become 400 and 500 |
| Shutdown coordinator, bootstrap | state, winning signal, watchdog, listeners | install, begin, complete, fail | one shutdown, one outcome, bounded in time |
| Health | none | live, ready | public, unlimited |
| Contracts (Zod schemas) | none | request, row and response schemas | what goes in comes out; every spelling of an email meets |
| Module wiring | none | imports, routes, guards | guards in order, no route hidden by another, hooks nested |
| Configuration | the loaded namespaces | nine factories | what the program starts with is what the documentation allows |
| OpenAPI set-up | the served document | overlap check, nullable, parameters | hides no route it was compared with; the document keeps its meaning |
| Prisma service, schema, client | the connection; tables; generated inputs | connect, disconnect, statements | disconnected last; the client agrees with the tables |
| Seed | none | seed command | development only |

How they interact: a request is correlated, throttled, authenticated (guard: sessions, users), validated, and handed to
a controller, which calls the auth or users service; services run statements, in transactions where several must agree.
The cleanup shares the `refresh_digests` table with the auth service, in this process and in others. `bootstrap()` loads
the configuration, wires modules, publishes the document and calls the init hooks (connect, then start the cleanup)
before it listens. The coordinator, or a start that fails, closes the application: the destroy hooks run in the opposite
order (cleanup, then disconnect) and the server is closed last, its connections cut, which the pipeline sees as responses
never flushed.

What is hard: statements of concurrent requests interleave between `await`s and across processes, and only row locks
and conditional writes keep them apart; a lost response makes a client retry; the clock moves between a check and the
write that relies on it; ticks, failures, crashes and destruction meet a purge at any point; signals, a watchdog and
`app.close()` race; a listing is three statements without a transaction; `'finish'` fires in a foreign asynchronous
context, or not at all; an account disappears between the check of its owner and the write; every step of the start may
fail with something to undo. `PROJECT.json` lists each of these at its line, with the property that covers it.

## Modules

- `AuthStore`: the three tables, with each SQL statement as an operator on them: inserts, the conditional rotation
  `UPDATE`, revocations, the cascade of a user's deletion, the purge. Emails are unique; a digest belongs to one
  session; expiries are absolute times.
- `AuthService` (EXTENDS `AuthStore`): requests that run the handlers statement by statement. One action is one
  statement together with the code up to the next one, since JavaScript between two `await`s is atomic; the writes of a
  transaction appear in the action that commits it (`...Commit`), its row locks from the action that takes them. A
  request whose row is locked by another waits (PostgreSQL queues it). `Abort` rolls a transaction back at any point.
  `RefreshFind` is outside the transaction, as in the code; `RefreshRead` takes `at` after the lock, and a clock tick
  may fall between it and the commit. `Operations` restricts which handlers an instance exercises.
  The new password is chosen when the change commits. An access token is valid as long as its session row says so and
  its expiry, read from the same clock as the refresh token's, has not passed.
- `AuthLedger`: what clients are promised, without requests, locks or digests' history: sign up, sign in, refresh,
  revoke, change password, delete and forget, each in one step.
  `Ledger == INSTANCE AuthLedger WITH ...` keeps the tables and the clock and drops requests, locks and transactions:
  `ImplementsLedger` says that each statement is one operation of the ledger, or nothing that anybody can see.
- `RefreshCleanup`: several processes with a `RefreshCleanupService` each and one table, of which it keeps the number
  of eligible digests. A batch is sent, executed by the database, answered and continued as separate actions, so that
  ticks, destruction, crashes and other processes fall in between.
- `ShutdownCoordinator`: the process from before `listen()` to its end: `bootstrap`, the coordinator's handlers and
  the operating system's disposition of signals.
- `Configuration`: the factories of `src/config` as functions from an environment to a set with one configuration or
  none. Text is reduced to what the schemas tell apart: segments of a path, white space around a word, an integer.
- `NestModules`: the module files: imports, the routes of each controller in the order of its methods, global guards; and
  the orders the framework derives (depth-first scan; distance from the root for hooks).
- `OpenApiDocument` (EXTENDS `NestModules`): what `setupOpenApi` does with a document: overlap, nullable, parameters.
  The overlap is compared on texts, as the code does; which requests a route answers follows Express: without case
  (`LowerCase`), a segment with a parameter or wildcard (`Patterns`) taking any word. That `*` or `{/x}` may take none or
  several is left out.
- `ProcessLifecycle` (EXTENDS `ShutdownCoordinator`, `Configuration`, `OpenApiDocument`; INSTANCE of `RefreshCleanup` for
  the one process): the composition. Each step of `bootstrap()` is an action that may fail and then asks for
  `app.close()`; the close hooks are actions that wait for each other; the coordinator's actions are joined with what they
  report. When `app.close()` settles, which `ShutdownCoordinator` leaves open, is decided here by the hooks; when the hooks
  of the cleanup are called, which `RefreshCleanup` leaves open, by the life of the process. A request that comes after
  `$disconnect` reopens the client (`ServeLate`), as Prisma does.
- `Contracts`: the Zod schemas, each a function from a value to the set of its outputs.
- `PrismaQueries`: `findUnique`, `findMany` with filters, orders and `take`, `create`, `update`, `delete` as functions of a
  table. `PrismaSchema`: the tables of the migration next to the generated client's inputs and outputs.
- `UserProfiles` (EXTENDS these three): registration, sign-in by email, profiles, listings by email, renaming and
  deletion, each statement an action, between the request's contract and the response's.
- `UsersPagination` (EXTENDS `PrismaQueries`): one client walking the listing in either direction with the cursors it gets, while users change.
  A position is what the cursor encodes: the sort value (a time cut to milliseconds) and the id. The page and each
  probe are separate actions.
- `HttpPipeline` (EXTENDS `NestModules`, which decides the handler that serves a request and the order of the guards):
  requests going through middlewares, guards, pipe, handler, serializer, filter and 'finish'. Turns
  of the event loop interleave. The route table (public, limited, validated, serialized, declared statuses) is what the
  decorators say. Handlers are reduced to their errors and to the accounts and sessions they create and end. The
  throttler's store is external: a counter per throttler, handler and address that refuses past the limit until its
  window passes.
- `MCAuthService`, `MCHttpPipeline`, `MCUserProfiles`, `MCProcessLifecycle`: symmetry sets, and the environments,
  documents, emails and names that TLC tries.
- `AuthServiceProofs`, `RefreshCleanupProofs`, `ShutdownProofs`, `LifecycleProofs`, `HttpPipelineProofs`,
  `PrismaQueriesProofs`, `UserProfilesProofs`, `UsersPaginationProofs`: see Proofs.

Each module also has, next to an operator, one or two named *mutants*: the operator with a plausible bug. Substituted
for the original, each makes TLC find a property violated; they are no part of the specification.

Facts that involve no behaviour are named assumptions, which TLC evaluates in the runs of the modules that state them:
`GuardOrder` (the throttler is asked before the access token), `HookOrder` (the database module lies deeper than auth, so
it connects before and disconnects after the cleanup's hooks), `ClientMatchesTables` and `CreatesAreAdmitted` (generated
client and migration agree; every `create` of the repositories gives what the tables demand) and `FieldsAssumption`
(`userSelect` is every column but the hash, the role and the timestamps). The others only type the constants:
`None` is none of the values it is told apart from (`AnswerAssumption`, `NoneAssumption`), emails and names are texts
(`TextsAssumption`), so are the paths in the environment, and Swagger's schemas have no alternatives
(`SourcesAssumption`), the controllers' own paths are lower-case text but for the user id (`ExpressAssumption`), bounds
are numbers (`CleanupBounds`, `PaginationAssumption`, which also has finitely many ids).

## Runs

| Run | Question | Bounds, and why they are enough |
| --- | --- | --- |
| `auth_rotation` | Does rotation keep one valid token, do replays revoke, does the purge keep the evidence for that? | one session, four digests (three rotations), two requests, six instants: TTL 2, replay window 1, so tokens expire, leave the window and are purged |
| `auth_credentials` | Do sessions only live under the current password, and does none escape a change or deletion? Can waits for row locks form a circle? Are these steps the ledger's? | three requests, two users on one email, two passwords, two sessions: sign-in, change, sign-out and deletion or refresh at once. The clock stands still and nothing is purged: that a purge is a step of the ledger is only proved (`LedgerCorrect`) |
| `auth_liveness` | Can lock waits block for ever? | two requests, one user, two sessions: every pair of operations |
| `cleanup` | One run at a time, complete runs, and is the backlog drained in the end? | two processes, batches of 2 with up to 5 eligible rows: none, partial, exact and several batches; 3 faults (failures, crashes, shutdowns) |
| `shutdown_race` | From the environment to the end of the process: one shutdown, one outcome, in bounded time; a failed start releases and ends; the purge ends before the disconnect; the document hides no route as far as its texts are plain, and keeps its meaning | both signals and a foreign one, up to two waiting for their listener; 139 environments: each variable at the values its schema tells apart, and with OpenAPI enabled ten prefixes times eleven routes, at, above, below and beside the API's paths, one with a parameter and one in capitals; 24 nodes of a document; up to two eligible rows in batches of 1, one failed statement |
| `shutdown_signal_gap` | *violation*, see Findings | the same signals, three deliveries |
| `users_pages` | Does a walk skip, repeat, misorder or mislabel rows? | three users, three values (two in one millisecond), pages of 1 and 2, two changes, four requests: forwards, backwards and back again; no symmetry, 2 million states |
| `user_profiles` | Is an email shown to its owner only, found in every spelling, and a row changed by its owner only, whatever interleaves? Does no race end in a 500? | two requests, three ids (an account, another, and one that re-registers an email), two addresses of which one in two spellings and one text that is none, three names |
| `pipeline_routes` | Do ids, failure events, statuses and refusals come out right for all handlers? | two requests, ten handlers, the catch-all and the preflight, two accounts, two sessions, one client-sent id. `list`, `updateMe`, `updateUser`, `getMe` and `healthReady` are left out: they run the same actions as `query`, `deleteUser`, `getUser`, `healthLive` |
| `pipeline_limits` | Do the limits hold, is every request answered and logged? | three sign-ins, limits 2 and 1: admitted, refused by either throttler |
| `pipeline_openapi`, `pipeline_terminal_event` | *violation*, see Findings | two requests |

Symmetry is used only in runs without liveness, over identifiers the specifications never tell apart; the ledger is
symmetric in the same identifiers, so the refinement run may use it too. `CHECK_DEADLOCK FALSE` appears where the
system really stops: a process that has ended, a walk or a set of requests that is done.

Bounds written into guards: `MaxNow` (clock), finite `Sessions`, `Digests` and `Passwords` (identifiers; `LacksId`
names a request that has none left and can only give up), `MaxFaults`, `MaxRows`, `MaxPending`, `MaxChanges`,
`MaxRequests`.

### Fairness

- `AuthService`: strong fairness for each request's step, because PostgreSQL serves the waiters of a row lock in
  order, so a request that can get its lock again and again gets it; strong fairness for giving up when out of
  identifiers, which only the bound requires. Rollbacks are never assumed to happen.
- `RefreshCleanup`: the event loop and the database go on; the interval ticks; failures are finitely many.
- `ProcessLifecycle`: the event loop runs what is ready (the next step of the start, the next hook, a queued listener),
  the watchdog fires, PostgreSQL answers or refuses, and the system ends what asked for it. Signals, expiry, intervals and
  late requests are not assumed. `ShutdownTerminates` does not rest on `app.close()`: its hooks may be waiting when the
  watchdog fires. `FailedStartEnds` does rest on PostgreSQL answering, since nothing bounds that close.
- `HttpPipeline`: weak fairness of each request's next turn. That handlers return is what `auth_liveness` shows.
  Nothing is assumed of cuts, windows or arrivals.

### Findings

- `shutdown_signal_gap`: between the resolution of `listen()` and `install()` (`main.ts:33-41`) a SIGTERM ends the
  process without `app.close()`; `docs/configuration/process-lifecycle.md:26` says that after `listen()` signals start
  the shutdown.
- `pipeline_openapi`: `GET /users/me` can answer 404 (the account is deleted between guard and handler) and 429, `PATCH
  /users/me` too; neither is in their OpenAPI annotations (`users.controller.ts:105-107`, `151-154`).
- `pipeline_terminal_event`: a request whose connection is cut gets no `http.request.completed` event;
  `docs/architecture/observability.md:38-39` promises one per request.

Noted while modelling, without a run:

- `SHUTDOWN_TIMEOUT_MS` and `THROTTLE_TTL_SECONDS * 1000` have no upper bound (`shutdown.config.ts:5`), and Node fires a
  timer of more than 2^31-1 ms after 1 ms; `docs/configuration/process-lifecycle.md:19` allows any positive integer.
- `NODE_ENV` is trimmed in the app and cors namespaces, and compared as it is in `auth.config.ts:22` and by the seed
  command, so `"production "` starts without `AUTH_JWT_SECRET`; `docs/configuration/http-security.md:24` and `:58` require
  it in production.
- The overlap of documentation and API routes is checked on texts (`openapi.setup.ts:33`), while Express ignores case and
  reads segments such as `:a` as parameters. `openapi.config.ts:4-22` and `api.config.ts:10` accept both, so with
  `OPENAPI_DOCS_ROUTE` `:a/v1/users` or `API/v1/users`, or a prefix `API` or `:tenant`, the documentation may answer
  requests of the API; `docs/configuration/http-security.md:47` says that structural overlap is rejected. The model has
  Express' matching (`Accepts`), and `PlainDocsShadowNoRoute` the condition under which comparing texts is enough; without
  the condition TLC finds the first of these routes in the environments of `shutdown_race`.
- An update that sets the display name an account already has leaves `updated_at` (`migration.sql`, the trigger's `WHEN`);
  `docs/prd/users/management/users-management-pdr.md:161` says that a successful update changes it.
- The server still answers after `$disconnect` has resolved, and Prisma connects again (`ServeLate`).
- The filter's allowlist has no 503, so the 503 that `docs/api/openapi.md:97` and `health.controller.ts:21` announce for
  health checks is answered as a 500 (`MapErrorToResponse`).
- Sessions are never deleted except with their account; a client that lost the answer of a refresh and repeats it revokes
  its own session.

## Proofs

Every theorem holds for every value of its module's constants that the named assumptions allow.

### Accounts, sessions and tokens: `AuthServiceProofs`

- `TypeCorrect`: `Spec => []TypeOK`.
- `CredentialsCorrect`, and from it `LiveSessionsCorrect`, `VerifiedPasswordCorrect`, `SweepCorrect`: the three
  invariants of the password hazard.
- `RotationCorrect`, and from it `OneCurrentCorrect`, `EvidenceCorrect`, `RotationValidCorrect`, `ReplayCorrect`: the
  four invariants of rotation, replay and purge.
- `LedgerCorrect`: `Spec => ImplementsLedger`.
- `DeadlockCorrect`: `Spec => []NoDeadlock`.

None of these properties is inductive. That a change of password leaves no session behind depends on what other
requests hold: a sign-in that has verified the old password must still have the user row locked. `RequestInv(q)` says
for each request at each step which rows it has locked, which of the values it read are still the rows' values because
of that, and what it is therefore allowed to write; `Inv` is `TypeOK`, `RequestInv` of every request and
`LiveSessionsUseCurrentPassword`. The proof has one step per action; the steps of one request preserve another's
`RequestInv` because they touch no row that it has locked (`OthersUntouched`, `LockedAccountKept`, `OthersInv`).

Rotation and the refinement are proved in a circle that the order of the steps breaks. `LedgerInv` speaks of the tables
alone: every digest belongs to a session, one is current, and none is purged inside its window. `RotationInv` adds what
each refresh knows (`RefreshInv`: from its read on it holds the session's lock, and what it will rotate is still
current), why a denied token was denied for good (`DeniedInv`, through `Spent`) and what a commit owes the ledger
(`CommitInv`). Given both, each statement is one operation of the ledger or changes nothing it shows
(`LedgerStepOrNone`); the ledger's operations preserve `LedgerInv`, and what they never undo (`Lasting`: a retired
digest stays retired, an ended session stays ended) keeps the other requests' parts.

`NoDeadlock` is the safety behind `EveryRequestFinishes`: in no set of requests does each wait for another of the set.
It rests on the order of the locks, user before sessions, which `WaitInv` states of each request: a user's lock is held
by a request of that account and only where users are held, and a sweep (`changeLocks`, `deleteLocks`) never waits for
itself. Whoever waits for a user's lock waits for one who holds it; that one may wait for a session, whose holder waits
for nobody: it commits or rolls back (`WaitsEnd`). So a chain of waits has at most two links, and the proof needs no
induction over its length.

### Purge, shutdown, process

`RefreshCleanupProofs` holds for any number of instances, rows and faults and any batch size: `OneRunCorrect`,
`DrainCorrect`, `QuietCorrect`. Instances share only the eligible rows, so the invariant is one of each instance
(`InstanceInv`): `this.active` goes with the phase of the run, a destroyed module is stopped and has no timer, a process
that is down has neither, and at each phase what the statement took is the smaller of the batch and what there was.

`ShutdownProofs` holds for any signals and any number of deliveries: `TypeCorrect`, `OneShutdownCorrect`, `NotCutShort`.
The properties become inductive with `ListenersInv`: listeners exist exactly while `bootstrap()` has returned and no end
has been chosen, so a signal without a listener ends the process before the one or after the other.

`LifecycleProofs` carries these to the composed process, for any environments and documents. `ImplementsCoordinator`:
every step of `ProcessLifecycle` is a step of `ShutdownCoordinator` or leaves its variables alone, hence
`OneShutdownInProcess` and `NotCutShortInProcess`. `PurgeEndsFirst` adds that what comes after the cleanup's hook finds
`destroy = "done"` (`PurgeInv`). `FailedStartReleased` needs to know that before the configuration is loaded nothing runs,
that `app.close()` is only asked for when `bootstrap()` is over (which rests on the listeners of `ShutdownProofs`: no
signal is handled in a start that failed), and that an error that is thrown bare follows a close that resolved
(`StartInv`). `OutcomeCorrect` needs which reports may have been written before an end is taken (`ReportInv`) and that
only one is (`OneShutdown`). `LifecycleTyped` needs the cleanup's bookkeeping of its one process (`RowsInv`: what a
statement took was there) and the coordinator's types (`StepsInv`).

### Requests: `HttpPipelineProofs`

For any number of requests, any accounts, sessions, addresses, limits, and whatever `Serving` derives from the modules'
wiring: `PipelineTyped`, `OneIdCorrect`, `FailuresLogged`, `EndedRefused`, `RateLimitsCorrect`, `DeclaredCorrect`.
The invariant is one of each request at each place of its way (`RequestInv`): the store its turns run in is the one it
was correlated with, and its events are functions of its answer and its header, which gives the first two. `StaleInv`
says that a request that came after the end of its session is not past the guard, because sessions do not come back;
`RateInv` that what was let through was counted, and stays within the limit of each throttler that applies.
`DeclaredCorrect` has a hypothesis, that every operation but those of `/users/me` is served by its own handler
(`unmatched` and the preflight are no operations). It is a fact about constants (the order of the modules) that TLC confirms; it is no assumption of the module, because a
module order that breaks it is exactly what `AnswersAreDeclared` is there to catch.

### Rows: `PrismaQueriesProofs`, `UserProfilesProofs`

`FindManyAnswers`: for any finite table and any order that tells the rows found apart, `findMany` gives the first rows
of that order, in order, each once, and all of them unless `take` is reached. The places of the rows (how many come
before) are shown to be 0, 1, 2, ... by counting, without induction (`PlacesAre`).

`UserProfilesProofs` holds for any requests, ids, emails and names: `ProfilesTyped`, `EmailsCorrect`,
`SpellingsCorrect`, `OwnersCorrect`. What a contract has put out is a normal form that every later contract leaves alone
(`NormalEmail`, `NormalName`, `IdempotentEmail`, `IdempotentName`); rows hold nothing else (`RowOK`), so no row fails on
its way out. `StateOK` says of each request what its contract admitted and what its owner check saw; `HistoryOK` that the
accounts a spelling meant when it was sent are the account found, or gone.

### Pages: `UsersPaginationProofs`

For any table, page size, order of columns, and any number of requests and of changes between them: `PagesTyped`,
`SkipsNothing`, `EndsCorrect`, `RepeatsNothing`, `RoundTripCorrect`, all from `PagingCorrect`.

To a walk the table is the set of positions it lists (`Listed`), in a strict total order (`PositionsInOrder`: value, then
id). From `FindManyAnswers` and what the filters of `SeekWhere` and `CombineWhere` let through (`SeekIs`, `CombineIs`)
follows what a page holds (`PageIs`): positions beyond the boundary, in order, and what it leaves out comes later and
only if it is full. `PagingInv` adds up what a walk remembers:

- `WalkOK`: a cursor is the end of the page it came with, so the next request starts where that page ended;
- `StableOK`: an unchanged user is where a page has shown it, and one between two returned positions is returned. A
  page preserves this because it starts at the end of another and leaves no gap (`TurnStable`);
- `EndsOK`: what a probe has denied stays denied for unchanged users, though the probe is a later statement than the
  page: writes only take users out of `stable`;
- `TrailOK`: consecutive pages are disjoint, and while nothing is written each is a piece of `Listed` without gaps
  (`Segment`) that continues the one before it (`Linked`).

`RoundTripCorrect` needs no more of `TrailOK`: `ThereAndBack` shows that a piece, the one after it and the one before
that again are the same set, by counting; and a set has one sequence in order (`SortedSame`). The place of a position in
a page is the number of positions before it, so this needs no induction either. `OldCursorRefused` is where
the context in the cursor matters: without it a cursor of the other direction would restart the walk elsewhere.

### Documentation: `LifecycleProofs`

`DocsCorrect` says of every environment whose prefix and two routes are plain (`Plain`: lower-case text, no parameter or
wildcard) that a start which gets past `setupOpenApi` serves no API request with the documentation. The check compares
routes with path templates as texts; Express matches requests, which have words where templates have `{userId}`, without
case. That comparing is enough rests on plain routes matching what begins with their text (`PlainRoute`) and on `/users`
being published above `/users/{userId}` (`ControllerPathsAre`, `PrefixOfLonger`). Without `Plain` it is false, of the
code and of the model: see Findings.

`DocumentCorrect` says of any document that what is published means what Swagger wrote. The schemas follow case by case.
For a list of parameters of any length the model gives the outcome of the `Map` and not its loop: the places where a key
is set first, in their order, each with the value at the place where the key is set last (`DeduplicateParameters`). First
and last places of the keys are in bijection (`KeysAndValues`), so the list is as long as there are keys; that its
`k`-th element exists is counting (`NumbersInOrder`), and `PublishedInv` carries the result from `setupOpenApi` on.

### Only model-checked

- Liveness: `EveryRequestFinishes`, `BacklogIsDrained`, `ShutdownTerminates`, `FailedStartEnds`, `RequestsEnd`. The
  prover has no rules for fairness or ENABLED. What can go wrong in the first of them, a circle of waits, is excluded by
  `DeadlockCorrect`; that PostgreSQL then serves each waiter is the fairness assumed.
- The properties of the violation runs, which are false.

## Not modelled

- The generated client beyond its models' fields, inputs and unique keys: 5934 of the implementation's 9176 lines are
  declarations `prisma generate` writes, mostly types of operations `src` never calls. Of the hand-written code the map
  covers two thirds; what is left are imports, types, decorators' texts, dependency injection and log formats.
- Hashing, token randomness and signatures are ideal: a digest identifies its token, a token that verifies is one that
  was issued.
- The `updated_at` trigger: no property here needs the column, and no code reads it but to show it.
- What Swagger generates from the annotations: any document may come; the annotations' statuses are in `HttpPipeline`.
- `TRUST_PROXY_HOPS` decides what an address is and is outside the model. Body parsing errors are not told apart from
  validation errors, so the 400 that every route, also those of health, which do not declare it, answers to a malformed
  JSON body is not one of the model's statuses there. The throttler's store, Terminus and nestjs-pino are external.
- Repository methods nothing calls.
- How long anything takes: a watchdog may fire at any moment after it is armed.

## Plan

1. Done: auth (store, service, ledger and its refinement), cleanup, shutdown, the whole process from its environment to
   its end, configuration, OpenAPI document, module wiring, pagination, profiles and contracts, pipeline; a proof of
   every safety property the passing runs check.
2. Extend: per-request expiry of the throttler's counters.
