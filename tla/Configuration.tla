--------------------------- MODULE Configuration ---------------------------
(***************************************************************************)
(* src/config: the nine factories that turn the environment into the       *)
(* configuration of the program, or throw and keep it from starting.       *)
(*                                                                         *)
(* A variable of the environment is a sequence: <<>> when it is unset,     *)
(* else its value.  Text is abstracted to what the schemas tell apart: a   *)
(* word with or without white space around it, a path cut at its slashes,  *)
(* a list of origins cut at its commas, and for a number the integer that  *)
(* z.coerce reads ("" is 0).  A factory gives the set of its results: one  *)
(* configuration, or none when it throws.                                  *)
(***************************************************************************)
EXTENDS Integers, Sequences, SequencesExt, FiniteSets

\* A variable's value, or what a schema puts in the place of one that is unset.
OrDefault(variable, default) == IF variable = <<>> THEN default ELSE variable[1]

\* Text, and what String.prototype.trim leaves of it.
Text(word) == [word |-> word, padded |-> FALSE]
Padded(word) == [word |-> word, padded |-> TRUE]

\* z.string().trim().min(1): the trimmed word, unless nothing is left.
Trimmed(text) == IF text.word = "" THEN {} ELSE {text.word}

\* z.coerce.number().int(): no integer can be read from <<NotANumber>>.
NotANumber == [integer |-> FALSE, value |-> 0]
Number(n)  == [integer |-> TRUE, value |-> n]

IntegerIn(variable, default, range) ==
    LET n == OrDefault(variable, Number(default))
    IN  IF n.integer /\ n.value \in range THEN {n.value} ELSE {}

-----------------------------------------------------------------------------
\* Paths: the segments of a text between its slashes, so that "" is <<"">> and a
\* leading, a trailing or a double slash gives an empty segment.

UnusableSegments == {"", ".", "..", "a b", "a?b", "a#b"}

IsNormalizedRelativePath(segments) == ToSet(segments) \cap UnusableSegments = {}

\* White space around the whole path is white space in a segment of it.
ApiConfig(env) ==
    LET prefix == OrDefault(env.API_GLOBAL_PREFIX, Text(<<"api">>))
    IN  IF prefix = Text(<<"">>) THEN {[globalPrefix |-> <<>>]}
        ELSE IF ~prefix.padded /\ IsNormalizedRelativePath(prefix.word)
             THEN {[globalPrefix |-> prefix.word]}
             ELSE {}

\* Both routes are trimmed, and then follow the same rules as the prefix.
OpenApiConfig(env) ==
    LET enabled  == OrDefault(env.OPENAPI_ENABLED, "false")
        docs     == OrDefault(env.OPENAPI_DOCS_ROUTE, Text(<<"docs">>)).word
        document == OrDefault(env.OPENAPI_DOCUMENT_ROUTE, Text(<<"openapi.json">>)).word
    IN  IF /\ enabled \in {"true", "false"}
           /\ IsNormalizedRelativePath(docs) /\ IsNormalizedRelativePath(document)
           /\ docs # document
        THEN {[enabled |-> enabled = "true", docsRoute |-> docs, documentRoute |-> document]}
        ELSE {}

-----------------------------------------------------------------------------
\* The other namespaces.

\* Whoever reads the name, the description and the version only shows them.
AppConfig(env) ==
    IF \E name \in {"APP_NAME", "APP_DESCRIPTION", "APP_VERSION"} :
          env[name] # <<>> /\ Trimmed(env[name][1]) = {}
    THEN {}
    ELSE {[nodeEnv |-> nodeEnv] :
             nodeEnv \in Trimmed(OrDefault(env.NODE_ENV, Text("development")))}

\* NODE_ENV is compared as it is here, and trimmed in the app and cors namespaces.
\* The secret is the configured one or drawn when the process starts.
AuthConfig(env) ==
    LET configured == env.AUTH_JWT_SECRET # <<>>
        production == env.NODE_ENV = <<Text("production")>>
    IN  IF \/ configured /\ env.AUTH_JWT_SECRET[1] < 32
           \/ production /\ ~configured
        THEN {}
        ELSE {[jwtSecret         |-> IF configured THEN "configured" ELSE "random",
               accessTtlSeconds  |-> access,
               refreshTtlSeconds |-> refresh] :
                 access  \in IntegerIn(env.AUTH_ACCESS_TTL_SECONDS, 900, 1 .. 86400),
                 refresh \in IntegerIn(env.AUTH_REFRESH_TTL_SECONDS, 604800, 1 .. 31536000)}

\* One origin of the list: what new URL makes of it, and the parts besides
\* protocol, host and port it has ("username", "pathname", "search", ...).
NoUrl == [protocol |-> "none", origin |-> "none", parts |-> {}]
Url(protocol, origin, parts) == [protocol |-> protocol, origin |-> origin, parts |-> parts]

\* An empty item is no URL.
ParseCorsOrigins(items) ==
    LET origins == [i \in DOMAIN items |-> items[i].origin]
    IN  IF /\ \A url \in ToSet(items) : url.protocol \in {"http", "https"} /\ url.parts = {}
           /\ IsInjective(origins)
        THEN {origins}
        ELSE {}

CorsConfig(env) ==
    LET default    == <<Url("http", "http://localhost:3000", {})>>
        production == Trimmed(OrDefault(env.NODE_ENV, Text("development"))) = {"production"}
    IN  IF production /\ env.CORS_ORIGINS = <<>>
        THEN {}
        ELSE {[origins |-> origins, maxAge |-> maxAge] :
                 origins \in ParseCorsOrigins(OrDefault(env.CORS_ORIGINS, default)),
                 maxAge  \in IntegerIn(env.CORS_MAX_AGE_SECONDS, 600, 0 .. 86400)}

\* The protocol of DATABASE_URL; there is no default.
DatabaseConfig(env) ==
    {[url |-> protocol] :
        protocol \in ToSet(env.DATABASE_URL) \cap {"postgresql", "postgres"}}

HttpConfig(env) ==
    {[port |-> port, trustProxyHops |-> hops] :
        port \in IntegerIn(env.PORT, 3000, 1 .. 65535),
        hops \in IntegerIn(env.TRUST_PROXY_HOPS, 0, 0 .. 255)}

RateLimitConfig(env) ==
    {[global |-> [ttlMs |-> ttl * 1000, limit |-> limit],
      signUp |-> [ttlMs |-> 60000, limit |-> 10],
      signIn |-> [ttlMs |-> 60000, limit |-> 10]] :
        ttl   \in IntegerIn(env.THROTTLE_TTL_SECONDS, 60, Nat \ {0}),
        limit \in IntegerIn(env.THROTTLE_LIMIT, 100, Nat \ {0})}

ShutdownConfig(env) ==
    {[timeoutMs |-> timeout] :
        timeout \in IntegerIn(env.SHUTDOWN_TIMEOUT_MS, 10000, Nat \ {0})}

\* ConfigModule.forRoot loads every namespace, or the program does not start.
Load(env) ==
    {[app |-> app, api |-> api, auth |-> auth, http |-> http, cors |-> cors,
      database |-> database, rateLimit |-> rateLimit, openapi |-> openapi,
      shutdown |-> shutdown] :
        app \in AppConfig(env), api \in ApiConfig(env), auth \in AuthConfig(env),
        http \in HttpConfig(env), cors \in CorsConfig(env), database \in DatabaseConfig(env),
        rateLimit \in RateLimitConfig(env), openapi \in OpenApiConfig(env),
        shutdown \in ShutdownConfig(env)}

\* The environment with every variable unset.
Variables ==
    {"NODE_ENV", "APP_NAME", "APP_DESCRIPTION", "APP_VERSION", "API_GLOBAL_PREFIX", "AUTH_JWT_SECRET", "AUTH_ACCESS_TTL_SECONDS",
     "AUTH_REFRESH_TTL_SECONDS", "CORS_ORIGINS", "CORS_MAX_AGE_SECONDS", "DATABASE_URL",
     "PORT", "TRUST_PROXY_HOPS", "OPENAPI_ENABLED", "OPENAPI_DOCS_ROUTE",
     "OPENAPI_DOCUMENT_ROUTE", "THROTTLE_TTL_SECONDS", "THROTTLE_LIMIT", "SHUTDOWN_TIMEOUT_MS"}

\* An environment that starts: DATABASE_URL has no default.
Minimal == [v \in Variables |-> IF v = "DATABASE_URL" THEN <<"postgresql">> ELSE <<>>]

-----------------------------------------------------------------------------
\* The seed command of the database: development only, by its argument and by
\* NODE_ENV as it is.
SeedMayRun(args, env) ==
    /\ args = <<"--environment", "development">>
    /\ env.NODE_ENV \notin {<<Text("production")>>, <<Text("test")>>}
    /\ DatabaseConfig(env) # {}
=============================================================================
