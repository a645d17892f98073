----------------------------- MODULE AuthStore -----------------------------
(***************************************************************************)
(* The three tables the authentication code shares - users, sessions and   *)
(* refresh_digests - with the row operations of the Prisma repositories.   *)
(* AuthLedger (what the API promises) and AuthService (how the requests    *)
(* get there, statement by statement) both extend it.                      *)
(*                                                                         *)
(* A row is identified for ever by its id: "unused" means not inserted     *)
(* yet, "deleted" that it was inserted and removed.  Only committed rows   *)
(* are in these variables; READ COMMITTED never shows the others.          *)
(***************************************************************************)
EXTENDS Integers, FiniteSets

CONSTANTS
    Users,        \* user ids
    Sessions,     \* session ids
    Digests,      \* SHA-256 digests of refresh tokens; one per token
    Passwords,    \* a password stands for itself and for its Argon2id hash
    None,         \* no value
    EmailOf,      \* the email each user id is registered with
    RefreshTtl,   \* auth.refreshTtlSeconds
    ReplayWindow, \* the seven days for which a retired digest is remembered
    MaxNow        \* bound: the clock stops here

ASSUME TtlAssumption ==
    /\ RefreshTtl \in Nat \ {0}
    /\ ReplayWindow \in Nat
    /\ MaxNow \in Nat

ASSUME NoneAssumption ==
    None \notin Users \cup Sessions \cup Digests \cup Passwords

VARIABLES
    now,          \* the clock that Date.now() reads, shared by the instances
    userState,    \* users: row life cycle
    hash,         \* users.password_hash
    sessionState, \* sessions: row life cycle; "revoked" is revoked_at NOT NULL
    owner,        \* sessions.user_id
    sessionExp,   \* sessions.expires_at
    opened,       \* history: the password the session was opened with
    digestState,  \* refresh_digests; "retired" is retired_at NOT NULL
    family,       \* refresh_digests.session_id
    digestExp     \* refresh_digests.expires_at

userVars    == <<userState, hash>>
sessionVars == <<sessionState, owner, sessionExp, opened>>
digestVars  == <<digestState, family, digestExp>>
storeVars   == <<now, userVars, sessionVars, digestVars>>

-----------------------------------------------------------------------------
\* Queries.

UserRow(u)      == userState[u] = "present"
SessionRow(s)   == sessionState[s] \in {"live", "revoked"}
DigestRow(d)    == digestState[d] \in {"current", "retired"}
Live(s)         == sessionState[s] = "live"
SessionsOf(u)   == {s \in Sessions : SessionRow(s) /\ owner[s] = u}
LiveSessions(u) == {s \in SessionsOf(u) : Live(s)}
DigestsOf(S)    == {d \in Digests : DigestRow(d) /\ family[d] \in S}
EmailTaken(u)   == \E x \in Users : UserRow(x) /\ EmailOf[x] = EmailOf[u]

\* An unexpired, unrevoked session (findActive).
Active(s, t) == Live(s) /\ sessionExp[s] > t

\* Mutant: the time to live is added twice.
RefreshExpiryTwice(t) == t + RefreshTtl + RefreshTtl
RefreshExpiry(t) == t + RefreshTtl

\* A retired digest still counts as evidence of a replay at time t ...
InWindow(d, t) == digestExp[d] + ReplayWindow > t

\* ... and may be forgotten once it no longer does.
\* Mutant: the purge takes every retired digest, its window over or not.
PurgeableAlways(cutoff) == {d \in Digests : digestState[d] = "retired"}
PurgeableBy(cutoff) ==
    {d \in Digests : digestState[d] = "retired" /\ digestExp[d] <= cutoff}

-----------------------------------------------------------------------------
\* Row operations, each in one committed transaction.

InsertUser(u, p) ==
    /\ userState[u] = "unused"
    /\ ~EmailTaken(u)
    /\ userState' = [userState EXCEPT ![u] = "present"]
    /\ hash' = [hash EXCEPT ![u] = p]

\* A session and its first digest, issued at time t to a user who proved p.
InsertSession(u, p, s, d, t) ==
    /\ sessionState[s] = "unused"
    /\ digestState[d] = "unused"
    /\ sessionState' = [sessionState EXCEPT ![s] = "live"]
    /\ owner' = [owner EXCEPT ![s] = u]
    /\ sessionExp' = [sessionExp EXCEPT ![s] = RefreshExpiry(t)]
    /\ opened' = [opened EXCEPT ![s] = p]
    /\ digestState' = [digestState EXCEPT ![d] = "current"]
    /\ family' = [family EXCEPT ![d] = s]
    /\ digestExp' = [digestExp EXCEPT ![d] = RefreshExpiry(t)]

\* The old digest is retired, the new one issued, the session extended.
\* Mutant: the session keeps its expiry.
RotateDigestOnly(s, old, new, t) ==
    /\ digestState[new] = "unused"
    /\ digestState' = [digestState EXCEPT ![old] = "retired", ![new] = "current"]
    /\ family' = [family EXCEPT ![new] = s]
    /\ digestExp' = [digestExp EXCEPT ![new] = RefreshExpiry(t)]
    /\ UNCHANGED sessionVars

RotateDigest(s, old, new, t) ==
    /\ digestState[new] = "unused"
    /\ digestState' = [digestState EXCEPT ![old] = "retired", ![new] = "current"]
    /\ family' = [family EXCEPT ![new] = s]
    /\ digestExp' = [digestExp EXCEPT ![new] = RefreshExpiry(t)]
    /\ sessionExp' = [sessionExp EXCEPT ![s] = RefreshExpiry(t)]
    /\ UNCHANGED <<sessionState, owner, opened>>

RevokeSessions(S) ==
    /\ sessionState' = [s \in Sessions |->
                          IF s \in S /\ Live(s) THEN "revoked" ELSE sessionState[s]]
    /\ UNCHANGED <<owner, sessionExp, opened>>

UpdateHash(u, p) ==
    /\ hash' = [hash EXCEPT ![u] = p]
    /\ UNCHANGED userState

\* The rows of u and, by ON DELETE CASCADE, of its sessions S and their digests.
DeleteUser(u, S) ==
    /\ userState' = [userState EXCEPT ![u] = "deleted"]
    /\ sessionState' = [s \in Sessions |->
                          IF s \in S THEN "deleted" ELSE sessionState[s]]
    /\ digestState' = [d \in Digests |->
                          IF d \in DigestsOf(S) THEN "deleted" ELSE digestState[d]]
    /\ UNCHANGED <<hash, owner, sessionExp, opened, family, digestExp>>

DeleteDigests(X) ==
    /\ digestState' = [d \in Digests |-> IF d \in X THEN "deleted" ELSE digestState[d]]
    /\ UNCHANGED <<family, digestExp>>

Tick ==
    /\ now < MaxNow
    /\ now' = now + 1
    /\ UNCHANGED <<userVars, sessionVars, digestVars>>

StoreInit ==
    /\ now = 0
    /\ userState = [u \in Users |-> "unused"]
    /\ hash = [u \in Users |-> None]
    /\ sessionState = [s \in Sessions |-> "unused"]
    /\ owner = [s \in Sessions |-> None]
    /\ sessionExp = [s \in Sessions |-> 0]
    /\ opened = [s \in Sessions |-> None]
    /\ digestState = [d \in Digests |-> "unused"]
    /\ family = [d \in Digests |-> None]
    /\ digestExp = [d \in Digests |-> 0]

StoreTypeOK ==
    /\ now \in 0 .. MaxNow
    /\ userState \in [Users -> {"unused", "present", "deleted"}]
    /\ hash \in [Users -> Passwords \cup {None}]
    /\ sessionState \in [Sessions -> {"unused", "live", "revoked", "deleted"}]
    /\ owner \in [Sessions -> Users \cup {None}]
    /\ sessionExp \in [Sessions -> 0 .. now + RefreshTtl]
    /\ opened \in [Sessions -> Passwords \cup {None}]
    /\ digestState \in [Digests -> {"unused", "current", "retired", "deleted"}]
    /\ family \in [Digests -> Sessions \cup {None}]
    /\ digestExp \in [Digests -> 0 .. now + RefreshTtl]
=============================================================================
