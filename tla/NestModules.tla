----------------------------- MODULE NestModules ----------------------------
(***************************************************************************)
(* What the application's module files declare, and the three orders the   *)
(* framework derives from it: in which it asks the global guards, in which *)
(* it registers routes (the first that accepts a request serves it), and   *)
(* in which it calls the hooks of modules.  Library modules and providers  *)
(* without order are left out.                                             *)
(***************************************************************************)
EXTENDS Integers, Sequences, SequencesExt, FiniteSetsExt

-----------------------------------------------------------------------------
\* Controllers: routes in the order of the methods.  A user id is a parameter,
\* and accepts any segment.
UserId == "{userId}"

Route(method, path, handler) == [method |-> method, path |-> path, handler |-> handler]

HealthController ==
    <<Route("GET", <<"health", "live">>, "healthLive"),
      Route("GET", <<"health", "ready">>, "healthReady")>>

UsersController ==
    <<Route("GET", <<"users">>, "list"),
      Route("QUERY", <<"users">>, "query"),
      Route("GET", <<"users", "me">>, "getMe"),
      Route("GET", <<"users", UserId>>, "getUser"),
      Route("DELETE", <<"users", UserId>>, "deleteUser"),
      Route("PATCH", <<"users", "me">>, "updateMe"),
      Route("PATCH", <<"users", UserId>>, "updateUser")>>

AuthController ==
    <<Route("POST", <<"auth", "sign-up">>, "signUp"),
      Route("POST", <<"auth", "sign-in">>, "signIn"),
      Route("POST", <<"auth", "refresh">>, "refresh"),
      Route("POST", <<"auth", "change-password">>, "changePassword"),
      Route("POST", <<"auth", "sign-out">>, "signOut")>>

NotFoundController == <<Route("ALL", <<"*">>, "unmatched")>>

-----------------------------------------------------------------------------
\* Modules.
Module(imports, routes, guards) == [imports |-> imports, routes |-> routes, guards |-> guards]

DatabaseModule == Module(<<>>, <<>>, <<>>)

HealthModule == Module(<<>>, HealthController, <<>>)

UsersModule == Module(<<"database">>, UsersController, <<>>)

AuthModule == Module(<<"users", "database">>, AuthController, <<"AccessTokenGuard">>)

ObservabilityModule == Module(<<>>, <<>>, <<>>)

ErrorHandlingModule == Module(<<"observability">>, NotFoundController, <<>>)

ShutdownModule == Module(<<"observability">>, <<>>, <<>>)

\* Mutant: the catch-all registered before the routes of users and auth.
AppModuleErrorsFirst ==
    Module(<<"database", "errorHandling", "health", "users", "auth", "observability", "shutdown">>,
           <<>>, <<"ThrottlerGuard">>)

AppModule ==
    Module(<<"database", "health", "users", "auth", "observability", "errorHandling", "shutdown">>,
           <<>>, <<"ThrottlerGuard">>)

Modules ==
    [app |-> AppModule, database |-> DatabaseModule, health |-> HealthModule,
     users |-> UsersModule, auth |-> AuthModule, observability |-> ObservabilityModule,
     errorHandling |-> ErrorHandlingModule, shutdown |-> ShutdownModule]

-----------------------------------------------------------------------------
\* The framework finds modules depth first and keeps the first of each.
Found ==
    LET below[m \in DOMAIN Modules] ==
            <<m>> \o FlattenSeq([i \in DOMAIN Modules[m].imports |-> below[Modules[m].imports[i]]])
    IN  below["app"]

ScanOrder ==
    FoldLeft(LAMBDA order, m : IF Contains(order, m) THEN order ELSE Append(order, m), <<>>, Found)

Guards == FlattenSeq([i \in DOMAIN ScanOrder |-> Modules[ScanOrder[i]].guards])

Routing == FlattenSeq([i \in DOMAIN ScanOrder |-> Modules[ScanOrder[i]].routes])

\* The longest chain of imports that leads to a module: onModuleInit is called
\* from the deepest module up, onModuleDestroy from the top down.
Depth[m \in DOMAIN Modules] ==
    Max({0} \union {1 + Depth[n] : n \in {n \in DOMAIN Modules : Contains(Modules[n].imports, m)}})

-----------------------------------------------------------------------------
\* A request below the prefix and version of the API: its method and segments.
Matches(route, method, segments) ==
    /\ route.method \in {"ALL", method}
    /\ \/ route.path = <<"*">>
       \/ /\ Len(route.path) = Len(segments)
          /\ \A i \in DOMAIN segments : route.path[i] \in {segments[i], UserId}

Dispatch(method, segments) ==
    Routing[Min({i \in DOMAIN Routing : Matches(Routing[i], method, segments)})].handler

=============================================================================
