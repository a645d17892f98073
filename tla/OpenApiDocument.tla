-------------------------- MODULE OpenApiDocument --------------------------
(***************************************************************************)
(* setupOpenApi: what the program does with the document Swagger makes of  *)
(* its controllers before it serves it.  A document here is a set of paths *)
(* and a family of schemas and parameter lists that are not nested: the    *)
(* conversion works on every node of the document by itself.               *)
(***************************************************************************)
EXTENDS Naturals, Sequences, SequencesExt, FiniteSets, NestModules

CONSTANTS
    Patterns,     \* segments that Express does not read as their text: ":a", "*", "{x}"
    LowerCase(_)  \* a segment, its letters in lower case

-----------------------------------------------------------------------------
\* Paths, as the segments after the first slash.

\* The modules that the document includes, which leaves the catch-all out.
Included == <<HealthModule, UsersModule, AuthModule>>

ControllerPaths == UNION {{route.path : route \in ToSet(Included[i].routes)} : i \in DOMAIN Included}

\* Global prefix, version, and the controllers' own paths.
PublishedPaths(api) == {api.globalPrefix \o <<"v1">> \o path : path \in ControllerPaths}

\* Mutant: only the route itself is compared, not what lies below it.
OverlapsExactly(openapi, paths) ==
    \E route \in {openapi.docsRoute, openapi.documentRoute}, path \in paths : route = path

Overlaps(openapi, paths) ==
    \E route \in {openapi.docsRoute, openapi.documentRoute}, path \in paths :
       IsPrefix(path, route) \/ IsPrefix(route, path)

\* Which requests a route answers.  Express ignores case, and takes a segment of a
\* route with a parameter or a wildcard for any word: two routes that differ as
\* texts may answer the same request.
Accepts(segment, word) ==
    segment \in Patterns \/ LowerCase(segment) = LowerCase(word)

AtOrBelow(route, url) ==
    Len(route) <= Len(url) /\ \A i \in DOMAIN route : Accepts(route[i], url[i])

Answers(route, url) == Len(route) = Len(url) /\ AtOrBelow(route, url)

\* The UI and its files are at or below its route, the document at its own.
ServedByDocs(openapi, url) ==
    AtOrBelow(openapi.docsRoute, url) \/ Answers(openapi.documentRoute, url)

ServedByApi(paths, url) == \E path \in paths : Answers(path, url)

\* A segment that is answered as it is compared.
Plain(segment) == segment \notin Patterns /\ LowerCase(segment) = segment

\* The controllers' own paths are plain, but for the user id.
ASSUME ExpressAssumption ==
    /\ UserId \in Patterns
    /\ \A segment \in {"v1"} \cup UNION {ToSet(path) : path \in ControllerPaths} :
          segment = UserId \/ Plain(segment)

-----------------------------------------------------------------------------
\* Schemas: "type" is a sequence of type names, empty when there is none and
\* marked as list when it is an array; "anyOf" holds the alternatives.

Schema(type, list, nullable) == [type |-> type, list |-> list, nullable |-> nullable, orNull |-> FALSE]

\* Mutant: a schema without a type only loses the keyword.
ConvertTypedOnly(schema) ==
    IF ~schema.nullable THEN schema
    ELSE [schema EXCEPT !.nullable = FALSE, !.list = schema.type # <<>>,
                        !.type = IF @ = <<>> \/ Contains(@, "null") THEN @ ELSE Append(@, "null")]

\* A type gets "null" once and becomes a list; a schema without one, such as a
\* reference, becomes anyOf [itself, {type: null}], which orNull stands for.
ConvertNullable(schema) ==
    IF ~schema.nullable THEN schema
    ELSE IF schema.type = <<>> /\ ~schema.list
         THEN [schema EXCEPT !.nullable = FALSE, !.orNull = TRUE]
         ELSE [schema EXCEPT !.nullable = FALSE, !.list = TRUE,
                             !.type = IF Contains(@, "null") THEN @ ELSE Append(@, "null")]

-----------------------------------------------------------------------------
\* Parameters of an operation: [in, name, from], or a reference.  A Map keeps a
\* key where it was first set and the value that was set last.

Reference == [in |-> "$ref", name |-> "$ref", from |-> 0]

SameParameter(p, q) == p.in = q.in /\ p.name = q.name

\* The places of those described in place, and of all with the key of one.
Inline(parameters) == {i \in DOMAIN parameters : parameters[i] # Reference}

Twins(parameters, i) == {j \in Inline(parameters) : SameParameter(parameters[i], parameters[j])}

\* Where each key is set first, and where it is set last.
FirstSet(parameters) ==
    {i \in Inline(parameters) : \A j \in Twins(parameters, i) : i <= j}

\* Mutant: a parameter that is described again is left as it was.
LastSetFirst(parameters, i) == i

LastSet(parameters, i) ==
    CHOOSE j \in Twins(parameters, i) : \A k \in Twins(parameters, i) : k <= j

DeduplicateParameters(parameters) ==
    LET keys == FirstSet(parameters)
        nth(k) == CHOOSE i \in keys : Cardinality({j \in keys : j <= i}) = k
    IN  [k \in 1 .. Cardinality(keys) |-> parameters[LastSet(parameters, nth(k))]]
=============================================================================
