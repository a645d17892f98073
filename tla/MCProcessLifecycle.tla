------------------------- MODULE MCProcessLifecycle -------------------------
(* Environments and documents for ProcessLifecycle. *)
EXTENDS ProcessLifecycle

\* Each value that a schema tells apart, in an environment that is right otherwise.
Variants ==
    {[v |-> "NODE_ENV", x |-> Text("production")], [v |-> "NODE_ENV", x |-> Text("")],
     [v |-> "APP_NAME", x |-> Padded("")],
     [v |-> "API_GLOBAL_PREFIX", x |-> Padded(<<"api">>)],
     [v |-> "API_GLOBAL_PREFIX", x |-> Text(<<"", "api">>)],
     [v |-> "AUTH_JWT_SECRET", x |-> 31], [v |-> "AUTH_JWT_SECRET", x |-> 32],
     [v |-> "AUTH_ACCESS_TTL_SECONDS", x |-> Number(86401)],
     [v |-> "AUTH_REFRESH_TTL_SECONDS", x |-> Number(0)],
     [v |-> "CORS_ORIGINS", x |-> <<NoUrl>>],
     [v |-> "CORS_ORIGINS", x |-> <<Url("https", "o1", {}), Url("https", "o2", {})>>],
     [v |-> "CORS_ORIGINS", x |-> <<Url("https", "o1", {}), Url("https", "o1", {})>>],
     [v |-> "CORS_ORIGINS", x |-> <<Url("https", "o1", {"pathname"})>>],
     [v |-> "CORS_ORIGINS", x |-> <<Url("ftp", "o1", {})>>],
     [v |-> "CORS_MAX_AGE_SECONDS", x |-> NotANumber],
     [v |-> "DATABASE_URL", x |-> "mysql"],
     [v |-> "PORT", x |-> Number(0)], [v |-> "PORT", x |-> Number(65535)],
     [v |-> "TRUST_PROXY_HOPS", x |-> Number(256)],
     [v |-> "OPENAPI_ENABLED", x |-> "yes"],
     [v |-> "OPENAPI_DOCS_ROUTE", x |-> Padded(<<"docs">>)],
     [v |-> "OPENAPI_DOCS_ROUTE", x |-> Text(<<"openapi.json">>)],
     [v |-> "OPENAPI_DOCUMENT_ROUTE", x |-> Text(<<"..", "openapi.json">>)],
     [v |-> "THROTTLE_TTL_SECONDS", x |-> Number(0)],
     [v |-> "SHUTDOWN_TIMEOUT_MS", x |-> Number(-1)]}

\* In lower case, and what the environments spell otherwise.
MCLowerCase(segment) == IF segment = "API" THEN "api" ELSE segment

Paths ==
    {<<"">>, <<"api">>, <<"api", "v1">>, <<"v1">>, <<"users">>, <<"docs">>,
     <<"api", "v1", "users", "me">>, <<"v1", "auth", "x">>, <<"docs", "v1", "users">>}

MCEnvironments ==
    {Minimal, [Minimal EXCEPT !.NODE_ENV = <<Text("production")>>, !.AUTH_JWT_SECRET = <<32>>],
     [Minimal EXCEPT !.NODE_ENV = <<Text("production")>>, !.AUTH_JWT_SECRET = <<32>>,
                     !.CORS_ORIGINS = <<<<Url("https", "o1", {})>>>>],
     [Minimal EXCEPT !.NODE_ENV = <<Padded("production")>>,
                     !.CORS_ORIGINS = <<<<Url("https", "o1", {})>>>>]}
    \cup {[Minimal EXCEPT ![variant.v] = <<variant.x>>] : variant \in Variants}
    \cup {[Minimal EXCEPT !.OPENAPI_ENABLED = <<"true">>,
                          !.API_GLOBAL_PREFIX = <<Text(prefix)>>,
                          !.OPENAPI_DOCS_ROUTE = <<Text(route)>>] :
             prefix \in Paths \cup {<<"API">>},
             route \in Paths \cup {<<":a", "v1", "users">>, <<"API", "v1", "users">>}}

MCDocuments ==
    LET q(n) == [in |-> "query", name |-> "limit", from |-> n]
        p(n) == [in |-> "path", name |-> "limit", from |-> n]
        types == {<<>>, <<"null">>, <<"string">>}
    IN  [schema : {Schema(type, FALSE, nullable) : type \in types, nullable \in BOOLEAN}
                    \cup {Schema(type, TRUE, TRUE) :
                             type \in {<<"string">>, <<"integer", "null">>}},
         parameters : {<<>>, <<q(1), q(2)>>, <<q(1), Reference, p(1), q(2)>>}]
=============================================================================
