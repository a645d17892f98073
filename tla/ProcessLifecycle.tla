-------------------------- MODULE ProcessLifecycle --------------------------
(***************************************************************************)
(* One process from main() to its end: the configuration it loads, the     *)
(* steps of bootstrap(), the hooks of the modules that keep something      *)
(* running (the database client and the cleanup of refresh digests), and   *)
(* app.close(), which a signal or a failed start asks for.                 *)
(*                                                                         *)
(* ShutdownCoordinator gives the coordinator and the signals, and leaves   *)
(* open when app.close() settles; RefreshCleanup gives the cleanup, and    *)
(* leaves open when its hooks are called.  Both are settled here.  Nest    *)
(* calls the hooks of a module when those of the modules it imports have   *)
(* ended, and in the opposite order when it closes.                        *)
(***************************************************************************)
EXTENDS ShutdownCoordinator, Configuration, OpenApiDocument

CONSTANTS
    Environments, \* environments the process may be started in
    Documents,    \* one node of what Swagger produces: [schema, parameters]
    Batch, MaxRows, MaxFaults \* of RefreshCleanup

VARIABLES
    env,       \* process.env, until it is read
    config,    \* the loaded configuration, while bootstrap() uses it: one or none
    document,  \* history: the published node, and what Swagger produced: one or none
    stage,     \* the next step of bootstrap(): see Stages
    thrown,    \* what bootstrap() has thrown: "nothing", "error" or "aggregate"
    db,        \* the Prisma client: see Clients
    http,      \* the HTTP server accepts requests
    closing,   \* app.close(): see ClosingSteps
    stderr,    \* the emergency sink can write
    reported,  \* history: lifecycle events that have been written
    eligible, toCome, faults, life, stopped, timer, active, destroy,
    drain, rows, left, loops

bootVars    == <<env, config, document, stage, thrown>>
nestVars    == <<db, http, closing>>
reportVars  == <<stderr, reported>>
cleanupVars == <<eligible, toCome, faults, life, stopped, timer, active, destroy,
                 drain, rows, left, loops>>
lifecycleVars == <<vars, bootVars, nestVars, reportVars, cleanupVars>>

\* The order in which Initialise follows Connect, and Disconnect DestroyCleanup.
ASSUME HookOrder == Depth["database"] > Depth["auth"]

\* As RefreshCleanup assumes them.
ASSUME CleanupBounds == Batch \in Nat \ {0} /\ MaxRows \in Nat /\ MaxFaults \in Nat

\* Paths in the environment are texts cut at their slashes, and Swagger gives no
\* schema with alternatives and lists of parameters.
ASSUME SourcesAssumption ==
    /\ \A e \in Environments :
          \A v \in {"API_GLOBAL_PREFIX", "OPENAPI_DOCS_ROUTE", "OPENAPI_DOCUMENT_ROUTE"} :
             e[v] \in Seq([word : Seq(STRING), padded : BOOLEAN])
    /\ \A source \in Documents :
          /\ source.schema \in [type : Seq(STRING), list : BOOLEAN, nullable : BOOLEAN,
                                orNull : {FALSE}]
          /\ source.parameters \in Seq([in : STRING, name : STRING, from : Nat])

Process == "process"

Cleanup == INSTANCE RefreshCleanup WITH
    Instances <- {Process}, Batch <- Batch, MaxRows <- MaxRows, MaxFaults <- MaxFaults,
    eligible <- eligible, toCome <- toCome, faults <- faults, life <- life,
    stopped <- stopped, timer <- timer, active <- active, destroy <- destroy,
    drain <- drain, rows <- rows, left <- left, loops <- loops

Stages == {"configure", "setUp", "connect", "connecting", "initialise", "bind",
           "announce", "over"}

\* "reopened": a request was served after $disconnect, and Prisma connected again.
Clients == {"closed", "connecting", "open", "reopened"}

ClosingSteps == {"no", "requested", "cleanup", "disconnecting", "disposing",
                 "closed", "rejected"}

LifecycleInit ==
    /\ Init /\ Cleanup!Init
    /\ env \in Environments
    /\ config = {} /\ document = {}
    /\ stage = "configure" /\ thrown = "nothing"
    /\ db = "closed" /\ http = FALSE /\ closing = "no"
    /\ stderr \in BOOLEAN
    /\ reported = {}

-----------------------------------------------------------------------------
\* bootstrap(): create, set up, listen (the init hooks, then the port), announce
\* and install.

\* Mutant: the application is not closed when its start fails.
FailStartOpen ==
    /\ StartupFails
    /\ closing' = "closed"
    /\ stage' = "over"
    /\ config' = {} /\ document' = {}
    /\ UNCHANGED <<env, thrown, http, reportVars, cleanupVars>>

\* Something throws once there is an application.
FailStart ==
    /\ StartupFails
    /\ closing' = "requested"
    /\ stage' = "over"
    /\ config' = {} /\ document' = {}
    /\ UNCHANGED <<env, thrown, http, reportVars, cleanupVars>>

\* NestFactory.create(): the environment is read, the providers are built.
Configure ==
    /\ stage = "configure"
    /\ config' = Load(env)
    /\ env' = Minimal
    /\ IF Load(env) = {}
       THEN StartupFails /\ stage' = "over" /\ thrown' = "error"
       ELSE Create /\ stage' = "setUp" /\ UNCHANGED thrown
    /\ UNCHANGED <<document, nestVars, reportVars, cleanupVars>>

\* The node of the document that is looked at, as it is served.
Publish(source) ==
    [source     |-> source,
     schema     |-> ConvertNullable(source.schema),
     parameters |-> DeduplicateParameters(source.parameters)]

\* setupApplication() and setupOpenApi().
SetUp ==
    /\ alive /\ stage = "setUp"
    /\ \E c \in config :
          IF c.openapi.enabled /\ Overlaps(c.openapi, PublishedPaths(c.api))
          THEN FailStart
          ELSE /\ stage' = "connect"
               /\ IF c.openapi.enabled
                  THEN \E source \in Documents : document' = {Publish(source)}
                  ELSE UNCHANGED document
               /\ UNCHANGED <<vars, env, config, thrown, http, closing, reportVars, cleanupVars>>
    /\ UNCHANGED db

\* PrismaService.onModuleInit: $connect is called, and settles.  Only the port and
\* the URLs to announce are still needed of the configuration.
Connect ==
    /\ alive /\ stage = "connect"
    /\ stage' = "connecting"
    /\ db' = "connecting"
    /\ config' = {} /\ document' = {}
    /\ UNCHANGED <<vars, env, thrown, http, closing, reportVars, cleanupVars>>

Connected ==
    /\ alive /\ stage = "connecting"
    /\ \/ /\ db' = "open"
          /\ stage' = "initialise"
          /\ UNCHANGED <<vars, env, config, document, thrown, http, closing, reportVars,
                         cleanupVars>>
       \/ FailStart /\ db' = "closed"

\* The cleanup's module imports the client's, so its hook comes later.
Initialise ==
    /\ alive /\ stage = "initialise"
    /\ Cleanup!OnModuleInit(Process)
    /\ stage' = "bind"
    /\ UNCHANGED <<vars, env, config, document, thrown, nestVars, reportVars>>

\* The port is taken, or it is not.
Bind ==
    /\ alive /\ stage = "bind"
    /\ \/ /\ Listen
          /\ http' = TRUE
          /\ stage' = "announce"
          /\ UNCHANGED <<env, config, document, thrown, closing, reportVars, cleanupVars>>
       \/ FailStart
    /\ UNCHANGED db

\* await app.getUrl() may fail; the log and install() follow it at once.
Announce ==
    /\ alive /\ stage = "announce"
    /\ \/ /\ Install
          /\ stage' = "over"
          /\ reported' = reported \cup {"startup"}
          /\ UNCHANGED <<env, config, document, thrown, http, closing, stderr, cleanupVars>>
       \/ FailStart
    /\ UNCHANGED db

\* `await app.close()` in the handler of the error.
RethrowStartupError ==
    /\ closing \in {"closed", "rejected"}
    /\ CleanedUp
    /\ thrown' = IF closing = "closed" THEN "error" ELSE "aggregate"
    /\ UNCHANGED <<env, config, document, stage, nestVars, reportVars, cleanupVars>>

-----------------------------------------------------------------------------
\* app.close(), whoever has called it.

DestroyCleanup ==
    /\ alive /\ closing = "requested"
    /\ closing' = "cleanup"
    /\ Cleanup!OnModuleDestroy(Process)
    /\ UNCHANGED <<faults, vars, bootVars, db, http, reportVars>>

\* Mutant: the hook of the database module does not wait for the others.
DisconnectAtOnce ==
    /\ alive /\ closing = "cleanup"
    /\ closing' = "disconnecting"
    /\ UNCHANGED <<vars, bootVars, db, http, reportVars, cleanupVars>>

\* PrismaService.onModuleDestroy: $disconnect is called, and settles.
Disconnect ==
    /\ alive /\ closing = "cleanup"
    /\ destroy[Process] = "done"
    /\ closing' = "disconnecting"
    /\ UNCHANGED <<vars, bootVars, db, http, reportVars, cleanupVars>>

Disconnected ==
    /\ alive /\ closing = "disconnecting"
    /\ \/ db' = "closed" /\ closing' = "disposing"
       \/ db' = db /\ closing' = "rejected"
    /\ UNCHANGED <<vars, bootVars, http, reportVars, cleanupVars>>

\* The HTTP server comes last, and its connections are closed by force.
Dispose ==
    /\ alive /\ closing = "disposing"
    /\ http' = FALSE
    /\ closing' = "closed"
    /\ UNCHANGED <<vars, bootVars, db, reportVars, cleanupVars>>

\* A request that comes before queries through a client that was disconnected.
ServeLate ==
    /\ alive /\ http /\ db = "closed"
    /\ db' = "reopened"
    /\ UNCHANGED <<vars, bootVars, http, closing, reportVars, cleanupVars>>

-----------------------------------------------------------------------------
\* The coordinator, and what it reports.

ReportIf(written, event) ==
    reported' = IF written THEN reported \cup {event} ELSE reported

BeginShutdown(signal) ==
    /\ alive
    /\ Begin(signal)
    /\ closing' = IF state = "running" THEN "requested" ELSE closing
    /\ ReportIf(state = "running", "started")
    /\ UNCHANGED <<bootVars, db, http, stderr, cleanupVars>>

\* Mutant: whatever settles is reported, though another end came first.
CompleteShutdownTwice ==
    /\ closing = "closed"
    /\ Complete
    /\ ReportIf(TRUE, "completed")
    /\ UNCHANGED <<bootVars, nestVars, stderr, cleanupVars>>

CompleteShutdown ==
    /\ closing = "closed"
    /\ Complete
    /\ ReportIf(state = "closing", "completed")
    /\ UNCHANGED <<bootVars, nestVars, stderr, cleanupVars>>

\* The sink swallows the error of a write that fails: exit is asked for anyway.
\* Mutant: it does not, and exit is never reached.
FailShutdownLoudly ==
    /\ \/ CloseRejects /\ closing = "rejected" /\ ReportIf(state = "closing" /\ stderr, "failed")
       \/ WatchdogFires /\ ReportIf(stderr, "timed_out")
    /\ stderr
    /\ UNCHANGED <<bootVars, nestVars, stderr, cleanupVars>>

FailShutdown ==
    /\ \/ CloseRejects /\ closing = "rejected" /\ ReportIf(state = "closing" /\ stderr, "failed")
       \/ WatchdogFires /\ ReportIf(stderr, "timed_out")
    /\ UNCHANGED <<bootVars, nestVars, stderr, cleanupVars>>

\* The operating system, and the end of the process.
Deliver ==
    /\ \E signal \in Signals \cup OtherSignals : Signal(signal)
    /\ UNCHANGED <<bootVars, nestVars, reportVars, cleanupVars>>

End ==
    /\ Terminate \/ Uncaught
    /\ UNCHANGED <<bootVars, nestVars, reportVars, cleanupVars>>

\* The cleanup runs by itself.
Drain ==
    /\ alive
    /\ \/ Cleanup!Continue(Process) \/ Cleanup!Catch(Process) \/ Cleanup!Finally(Process)
       \/ Cleanup!DestroyDone(Process)
    /\ UNCHANGED <<vars, bootVars, nestVars, reportVars>>

Tick ==
    /\ alive
    /\ Cleanup!Interval(Process) \/ Cleanup!Expire
    /\ UNCHANGED <<vars, bootVars, nestVars, reportVars>>

Database ==
    /\ alive
    /\ Cleanup!Execute(Process) \/ Cleanup!Reply(Process) \/ Cleanup!Fail(Process)
    /\ UNCHANGED <<vars, bootVars, nestVars, reportVars>>

-----------------------------------------------------------------------------
Bootstrap ==
    \/ Configure \/ SetUp \/ Connect \/ Connected \/ Initialise \/ Bind \/ Announce
    \/ RethrowStartupError

Shutdown ==
    \/ DestroyCleanup \/ Disconnect \/ Disconnected \/ Dispose
    \/ CompleteShutdown

LifecycleNext ==
    \/ Bootstrap \/ Shutdown \/ ServeLate
    \/ \E signal \in Signals : BeginShutdown(signal)
    \/ FailShutdown
    \/ Deliver \/ End \/ Drain \/ Tick \/ Database

\* The event loop runs what is ready, the watchdog fires, the system ends what
\* asked for it, and PostgreSQL answers.
LifecycleFairness ==
    /\ WF_lifecycleVars(Bootstrap) /\ WF_lifecycleVars(Shutdown)
    /\ WF_lifecycleVars(\E signal \in Signals : BeginShutdown(signal))
    /\ WF_lifecycleVars(FailShutdown)
    /\ WF_lifecycleVars(End)
    /\ WF_lifecycleVars(Drain) /\ WF_lifecycleVars(Database)

LifecycleSpec == LifecycleInit /\ [][LifecycleNext]_lifecycleVars
LifecycleFairSpec == LifecycleSpec /\ LifecycleFairness

-----------------------------------------------------------------------------
\* Properties.

LifecycleTypeOK ==
    /\ TypeOK /\ Cleanup!TypeOK
    /\ stage \in Stages
    /\ thrown \in {"nothing", "error", "aggregate"}
    /\ db \in Clients
    /\ http \in BOOLEAN
    /\ closing \in ClosingSteps
    /\ stderr \in BOOLEAN
    /\ reported \subseteq {"startup", "started", "completed", "timed_out", "failed"}

\* What the log says is how the process ended: once a terminal action has been
\* taken, its event and no other has been written (none, if the sink could not).
OneOutcomeReported ==
    LET outcomes == reported \cap {"completed", "timed_out", "failed"}
    IN  outcomes = IF terminals = 0 \/ (state # "completed" /\ ~stderr) THEN {} ELSE {state}

\* No purge statement is out and no timer will send one when the database client
\* is disconnected: the hook of the cleanup has ended before.
PurgeEndsBeforeDisconnect ==
    closing \in {"disconnecting", "disposing", "closed", "rejected"} =>
       drain[Process] = "none" /\ ~timer[Process]

\* A start that failed, at whatever step, leaves nothing that runs: no server, no
\* connection but what a late request has opened, no purge and no timer.
FailedStartReleases ==
    phase = "failed" /\ thrown = "error" =>
       /\ ~http
       /\ db \in {"closed", "reopened"}
       /\ drain[Process] = "none" /\ ~timer[Process]

\* Nothing bounds the close after a failed start: it ends all the same, as long as
\* PostgreSQL answers.
FailedStartEnds == phase = "cleaning" ~> ~alive

\* "OpenAPI routes must not overlap": where the prefix and the two routes are plain,
\* no request of an API route, whatever its parameter, is answered by the
\* documentation instead.  The check compares texts, so a route with a parameter or
\* in another case passes it and may answer requests of the API.
PlainDocsShadowNoRoute ==
    \A c \in config :
       LET words == ToSet(c.openapi.docsRoute) \cup ToSet(c.openapi.documentRoute)
           urls  == {[i \in DOMAIN path |-> IF path[i] = UserId THEN word ELSE path[i]] :
                        path \in PublishedPaths(c.api), word \in words}
       IN  /\ stage = "connect" /\ c.openapi.enabled
           /\ \A segment \in words \cup ToSet(c.api.globalPrefix) : Plain(segment)
           => \A url \in urls :
                 ServedByApi(PublishedPaths(c.api), url) /\ ~ServedByDocs(c.openapi, url)

\* The kinds of values a schema accepts, in OpenAPI 3.0 and in 3.2, where nullable
\* means nothing.  A schema without a type is a reference to an object.
Typed(schema) == IF schema.type = <<>> /\ ~schema.list THEN {"object"} ELSE ToSet(schema.type)
Accepted30(schema) == Typed(schema) \cup (IF schema.nullable THEN {"null"} ELSE {})
Accepted32(schema) == Typed(schema) \cup (IF schema.orNull THEN {"null"} ELSE {})

\* Each published schema accepts what Swagger's did.
SchemasMeanTheSame == \A d \in document : Accepted32(d.schema) = Accepted30(d.source.schema)

\* The published document says what Swagger's said: its schemas accept the same
\* values, and each parameter described in place is there once, as it was described
\* last and in the order in which they were described first.  References to
\* parameters are dropped, of which Swagger writes none for these controllers.
DocumentMeansTheSame ==
    /\ SchemasMeanTheSame
    /\ \A d \in document :
          LET given  == d.source.parameters
              inline == {i \in DOMAIN given : given[i] # Reference}
              lasts  == {i \in inline :
                            \A j \in inline : SameParameter(given[i], given[j]) => j <= i}
          IN  /\ ToSet(d.parameters) = {given[i] : i \in lasts}
              /\ Len(d.parameters) = Cardinality(lasts)
              /\ \A k, l \in DOMAIN d.parameters : k < l =>
                    \E i \in inline :
                       /\ SameParameter(given[i], d.parameters[k])
                       /\ \A j \in inline : SameParameter(given[j], d.parameters[l]) => i < j
=============================================================================
