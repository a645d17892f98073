---------------------------- MODULE AuthService ----------------------------
(***************************************************************************)
(* The authentication requests as they run: each one a sequence of the     *)
(* statements it sends to PostgreSQL, interleaved with those of the other  *)
(* requests of every instance of the program, with the row locks they take *)
(* (SELECT ... FOR UPDATE, UPDATE, DELETE) and the clock reads in between. *)
(*                                                                         *)
(* Transactions are READ COMMITTED: a statement reads what is committed    *)
(* when it runs, and the writes of a transaction appear at its commit.  So *)
(* an action is one statement with the code up to the next one, and the    *)
(* writes are in the action named ...Commit.                               *)
(***************************************************************************)
EXTENDS AuthStore

CONSTANTS
    Requests,   \* what serves one HTTP request at a time
    Operations, \* what this instance runs, a subset of AllOperations
    AccessTtl,  \* auth.accessTtlSeconds
    Batch       \* BATCH_SIZE of the cleanup

AllOperations ==
    {"signUp", "signIn", "refresh", "changePassword", "signOut", "delete", "purge"}

ASSUME ServiceAssumption ==
    /\ Operations \subseteq AllOperations
    /\ AccessTtl \in Nat \ {0}
    /\ Batch \in Nat \ {0}
    /\ None \notin Requests

VARIABLES
    userLock,    \* the request that holds the row lock on a user, or None
    sessionLock, \* the same for a session
    req,         \* where each request is and what it remembers
    purgeAt      \* the clock read of the purge under way, or NoPurge

requestVars == <<userLock, sessionLock, req>>
vars == <<storeVars, requestVars, purgeAt>>

NoPurge == -1

-----------------------------------------------------------------------------
\* Requests.

\* A free request slot: "denied" if it last answered 401 to a refresh token.
FreePCs == {"idle", "denied"}

PCs == FreePCs \cup
    { "signUpIssue",                                              \* signUp
      "signInVerify", "signInIssue",                              \* signIn
      "refreshLock", "refreshRead", "refreshReplay", "refreshRotate",
      "guardUser",                                                \* AccessTokenGuard
      "changeVerify", "changeRevoke", "changeLocks",              \* changePassword
      "signOut",
      "deleteLock", "deleteLocks" }                               \* delete account

RequestState ==
    [ pc      : PCs,
      uid     : Users \cup {None},
      sid     : Sessions \cup {None},
      dig     : Digests \cup {None},
      secret  : Passwords \cup {None}, \* the password verified (or enrolled)
      at      : Nat,                   \* the clock the transaction read
      pending : SUBSET Sessions ]      \* rows an UPDATE or DELETE has yet to lock

Idle == [ pc |-> "idle", uid |-> None, sid |-> None, dig |-> None,
          secret |-> None, at |-> 0, pending |-> {} ]

Denied(d) == [Idle EXCEPT !.pc = "denied", !.dig = d]

Free(r)     == req[r].pc \in FreePCs
At(r, pc)   == req[r].pc = pc
UserOf(r)   == req[r].uid
SessOf(r)   == req[r].sid
DigOf(r)    == req[r].dig
TimeOf(r)   == req[r].at
Locked(r)   == {s \in Sessions : sessionLock[s] = r}

Become(r, state) == req' = [req EXCEPT ![r] = state]

LockUser(u, r)    == userLock' = [userLock EXCEPT ![u] = r]
LockSession(s, r) == sessionLock' = [sessionLock EXCEPT ![s] = r]

\* The transaction of r ends, by commit or rollback, and its row locks with it.
End(r, state) ==
    /\ Become(r, state)
    /\ userLock' = [u \in Users |-> IF userLock[u] = r THEN None ELSE userLock[u]]
    /\ sessionLock' = [s \in Sessions |-> IF sessionLock[s] = r THEN None ELSE sessionLock[s]]

\* Frame conditions: statements that write nothing another request can see.
NoWrites == UNCHANGED <<storeVars, purgeAt>>

-----------------------------------------------------------------------------
\* POST /auth/sign-up.

\* The INSERT into users waits for another uncommitted one with this email and
\* fails with 409 (nothing happens) if the email is taken.
SignUpRegister(r, u, p) ==
    /\ "signUp" \in Operations
    /\ Free(r)
    /\ userState[u] = "unused"
    /\ ~EmailTaken(u)
    /\ \A q \in Requests : At(q, "signUpIssue") => EmailOf[UserOf(q)] # EmailOf[u]
    /\ Become(r, [Idle EXCEPT !.pc = "signUpIssue", !.uid = u, !.secret = p, !.at = now])
    /\ UNCHANGED <<userLock, sessionLock>>
    /\ NoWrites

SignUpCommit(r, s, d) ==
    /\ At(r, "signUpIssue")
    /\ InsertUser(UserOf(r), req[r].secret)
    /\ InsertSession(UserOf(r), req[r].secret, s, d, TimeOf(r))
    /\ End(r, Idle)
    /\ UNCHANGED <<now, purgeAt>>

-----------------------------------------------------------------------------
\* POST /auth/sign-in.

SignInFind(r, u) ==
    /\ "signIn" \in Operations
    /\ Free(r)
    /\ UserRow(u)
    /\ Become(r, [Idle EXCEPT !.pc = "signInVerify", !.uid = u])
    /\ UNCHANGED <<userLock, sessionLock>>
    /\ NoWrites

\* Mutant: the hash is read without FOR UPDATE.
SignInVerifyUnlocked(r, p) ==
    /\ At(r, "signInVerify")
    /\ UserRow(UserOf(r)) /\ hash[UserOf(r)] = p
    /\ Become(r, [req[r] EXCEPT !.pc = "signInIssue", !.secret = p, !.at = now])
    /\ UNCHANGED <<userLock, sessionLock>>
    /\ NoWrites

\* FOR UPDATE on the user row, then argon2.verify of the submitted password p
\* against the hash read under the lock; the clock of issueTokens follows.
SignInVerify(r, p) ==
    /\ At(r, "signInVerify")
    /\ userLock[UserOf(r)] = None
    /\ UserRow(UserOf(r)) /\ hash[UserOf(r)] = p
    /\ LockUser(UserOf(r), r)
    /\ Become(r, [req[r] EXCEPT !.pc = "signInIssue", !.secret = p, !.at = now])
    /\ UNCHANGED sessionLock
    /\ NoWrites

\* The account is gone, or the password is not (or no longer) its own: 401.
SignInRefuse(r) ==
    /\ At(r, "signInVerify")
    /\ userLock[UserOf(r)] = None
    /\ End(r, Idle)
    /\ NoWrites

SignInCommit(r, s, d) ==
    /\ At(r, "signInIssue")
    /\ InsertSession(UserOf(r), req[r].secret, s, d, TimeOf(r))
    /\ End(r, Idle)
    /\ UNCHANGED <<now, userVars, purgeAt>>

-----------------------------------------------------------------------------
\* POST /auth/refresh.

\* Any token ever issued may be presented, its response lost or not.
RefreshFind(r, d) ==
    /\ "refresh" \in Operations
    /\ Free(r)
    /\ digestState[d] # "unused"
    /\ Become(r, IF DigestRow(d)
                 THEN [Idle EXCEPT !.pc = "refreshLock", !.sid = family[d], !.dig = d]
                 ELSE Denied(d))
    /\ UNCHANGED <<userLock, sessionLock>>
    /\ NoWrites

\* Mutant: the session row is read without FOR UPDATE.
RefreshLockNothing(r) ==
    /\ At(r, "refreshLock")
    /\ IF SessionRow(SessOf(r))
       THEN Become(r, [req[r] EXCEPT !.pc = "refreshRead"])
       ELSE Become(r, Denied(DigOf(r)))
    /\ UNCHANGED <<userLock, sessionLock>>
    /\ NoWrites

\* lockAndFindDigest: the session row first ...
RefreshLock(r) ==
    /\ At(r, "refreshLock")
    /\ sessionLock[SessOf(r)] = None
    /\ IF SessionRow(SessOf(r))
       THEN /\ LockSession(SessOf(r), r)
            /\ Become(r, [req[r] EXCEPT !.pc = "refreshRead"])
            /\ UNCHANGED userLock
       ELSE End(r, Denied(DigOf(r)))
    /\ NoWrites

\* ... then, under its lock, the digest and the session as they are now.
Replayed(d) == digestState[d] = "retired" /\ InWindow(d, now)

\* Mutant: revoked_at is not looked at.
RotatableRevoked(d, s) ==
    digestState[d] = "current" /\ digestExp[d] > now /\ sessionExp[s] > now

Rotatable(d, s) ==
    /\ digestState[d] = "current" /\ digestExp[d] > now
    /\ Active(s, now)

RefreshRead(r) ==
    /\ At(r, "refreshRead")
    /\ \/ /\ Replayed(DigOf(r))
          /\ Become(r, [req[r] EXCEPT !.pc = "refreshReplay", !.at = now])
          /\ UNCHANGED <<userLock, sessionLock>>
       \/ /\ Rotatable(DigOf(r), SessOf(r))
          /\ Become(r, [req[r] EXCEPT !.pc = "refreshRotate", !.at = now])
          /\ UNCHANGED <<userLock, sessionLock>>
       \/ /\ ~Replayed(DigOf(r)) /\ ~Rotatable(DigOf(r), SessOf(r))
          /\ End(r, Denied(DigOf(r)))
    /\ NoWrites

\* Mutant: the 401 is thrown inside the transaction, which rolls back.
RefreshReplayThrow(r) ==
    /\ At(r, "refreshReplay")
    /\ End(r, Denied(DigOf(r)))
    /\ NoWrites

\* "Return, never throw: replay revocation must commit before the public 401."
RefreshReplayCommit(r) ==
    /\ At(r, "refreshReplay")
    /\ RevokeSessions({SessOf(r)})
    /\ End(r, Denied(DigOf(r)))
    /\ UNCHANGED <<now, userVars, digestVars, purgeAt>>

\* rotateDigest compares and sets; n is the digest of the new token.
RefreshRotateCommit(r, n) ==
    /\ At(r, "refreshRotate")
    /\ IF digestState[DigOf(r)] = "current" /\ digestExp[DigOf(r)] > TimeOf(r)
       THEN /\ RotateDigest(SessOf(r), DigOf(r), n, TimeOf(r))
            /\ End(r, Idle)
       ELSE /\ UNCHANGED <<sessionVars, digestVars>>
            /\ End(r, Denied(DigOf(r)))
    /\ UNCHANGED <<now, userVars, purgeAt>>

-----------------------------------------------------------------------------
\* AccessTokenGuard, before the three operations that need a principal.

\* The latest access token of a session expires AccessTtl after the clock read
\* that also set sessionExp; older ones expire earlier.
AccessTokenValid(s) == now < sessionExp[s] - RefreshTtl + AccessTtl

GuardSession(r, s) ==
    /\ Operations \cap {"changePassword", "signOut", "delete"} # {}
    /\ Free(r)
    /\ Active(s, now)
    /\ AccessTokenValid(s)
    /\ Become(r, [Idle EXCEPT !.pc = "guardUser", !.sid = s, !.uid = owner[s]])
    /\ UNCHANGED <<userLock, sessionLock>>
    /\ NoWrites

\* findCurrent; then the handler of the route runs, or 401.
GuardUser(r) ==
    /\ At(r, "guardUser")
    /\ \/ /\ UserRow(UserOf(r))
          /\ \E pc \in {x \in {"changeVerify", "signOut", "deleteLock"} :
                          \/ x = "changeVerify" /\ "changePassword" \in Operations
                          \/ x = "signOut" /\ "signOut" \in Operations
                          \/ x = "deleteLock" /\ "delete" \in Operations} :
               Become(r, [req[r] EXCEPT !.pc = pc])
       \/ ~UserRow(UserOf(r)) /\ Become(r, Idle)
    /\ UNCHANGED <<userLock, sessionLock>>
    /\ NoWrites

-----------------------------------------------------------------------------
\* POST /auth/change-password.

\* Mutant: the hash is read without FOR UPDATE.
ChangeVerifyUnlocked(r, cur) ==
    /\ At(r, "changeVerify")
    /\ UserRow(UserOf(r)) /\ hash[UserOf(r)] = cur
    /\ Become(r, [req[r] EXCEPT !.pc = "changeRevoke", !.secret = cur])
    /\ UNCHANGED <<userLock, sessionLock>>
    /\ NoWrites

\* FOR UPDATE on the user row; cur, the submitted current password, verifies.
ChangeVerify(r, cur) ==
    /\ At(r, "changeVerify")
    /\ userLock[UserOf(r)] = None
    /\ UserRow(UserOf(r)) /\ hash[UserOf(r)] = cur
    /\ LockUser(UserOf(r), r)
    /\ Become(r, [req[r] EXCEPT !.pc = "changeRevoke", !.secret = cur])
    /\ UNCHANGED sessionLock
    /\ NoWrites

\* Account gone, wrong current password, or the new one is the old one.
ChangeRefuse(r) ==
    /\ At(r, "changeVerify")
    /\ userLock[UserOf(r)] = None
    /\ End(r, Idle)
    /\ NoWrites

\* revokeAllForUser, an UPDATE: its snapshot selects the rows ...
ChangeRevoke(r) ==
    /\ At(r, "changeRevoke")
    /\ Become(r, [req[r] EXCEPT !.pc = "changeLocks", !.pending = LiveSessions(UserOf(r))])
    /\ UNCHANGED <<userLock, sessionLock>>
    /\ NoWrites

\* ... and locks them one by one, each when its holder's transaction has ended.
\* The DELETE that cascades from the account locks its sessions likewise.
LockPending(r, s) ==
    /\ At(r, "changeLocks") \/ At(r, "deleteLocks")
    /\ s \in req[r].pending
    /\ sessionLock[s] = None
    /\ LockSession(s, r)
    /\ Become(r, [req[r] EXCEPT !.pending = @ \ {s}])
    /\ UNCHANGED userLock
    /\ NoWrites

\* Mutant: only the session of the request is revoked.
ChangeCommitOne(r, p) ==
    /\ At(r, "changeLocks")
    /\ req[r].pending = {}
    /\ p # req[r].secret
    /\ UpdateHash(UserOf(r), p)
    /\ RevokeSessions({SessOf(r)})
    /\ End(r, Idle)
    /\ UNCHANGED <<now, digestVars, purgeAt>>

\* The new password p is not the one verified (PasswordReuseNotAllowedError).
ChangeCommit(r, p) ==
    /\ At(r, "changeLocks")
    /\ req[r].pending = {}
    /\ p # req[r].secret
    /\ UpdateHash(UserOf(r), p)
    /\ RevokeSessions(Locked(r))
    /\ End(r, Idle)
    /\ UNCHANGED <<now, digestVars, purgeAt>>

-----------------------------------------------------------------------------
\* POST /auth/sign-out and DELETE /users/:id of the account itself.

\* One UPDATE in a transaction of its own.
SignOut(r) ==
    /\ At(r, "signOut")
    /\ sessionLock[SessOf(r)] = None
    /\ RevokeSessions({SessOf(r)})
    /\ End(r, Idle)
    /\ UNCHANGED <<now, userVars, digestVars, purgeAt>>

\* The DELETE finds the row gone (404), or locks it and cascades.
DeleteLock(r) ==
    /\ At(r, "deleteLock")
    /\ userLock[UserOf(r)] = None
    /\ IF UserRow(UserOf(r))
       THEN /\ LockUser(UserOf(r), r)
            /\ Become(r, [req[r] EXCEPT !.pc = "deleteLocks", !.pending = SessionsOf(UserOf(r))])
            /\ UNCHANGED sessionLock
       ELSE End(r, Idle)
    /\ NoWrites

DeleteCommit(r) ==
    /\ At(r, "deleteLocks")
    /\ req[r].pending = {}
    /\ DeleteUser(UserOf(r), Locked(r))
    /\ End(r, Idle)
    /\ UNCHANGED <<now, purgeAt>>

-----------------------------------------------------------------------------
\* What ends a transaction without a commit, and the cleanup.

\* A failed statement, a transaction timeout, a lost connection or a crash of
\* the instance: PostgreSQL rolls back and releases the locks.
Abort(r) ==
    /\ ~Free(r)
    /\ End(r, Idle)
    /\ NoWrites

\* Bound: the instance has no id left for the row this request has to insert.
LacksId(r) ==
    \/ /\ At(r, "signUpIssue") \/ At(r, "signInIssue")
       /\ \A s \in Sessions : sessionState[s] # "unused"
    \/ /\ At(r, "signUpIssue") \/ At(r, "signInIssue") \/ At(r, "refreshRotate")
       /\ \A d \in Digests : digestState[d] # "unused"

\* drain: the cutoff is computed before the statement is sent ...
PurgeCutoff ==
    /\ "purge" \in Operations
    /\ purgeAt = NoPurge
    /\ purgeAt' = now
    /\ UNCHANGED <<storeVars, requestVars>>

\* ... which takes at most Batch rows, the earliest expiry first, and skips
\* rows that are locked: those of a session being deleted may be.
PurgeBatch(X) ==
    /\ purgeAt # NoPurge
    /\ X \subseteq PurgeableBy(purgeAt - ReplayWindow)
    /\ Cardinality(X) <= Batch
    /\ \A d \in PurgeableBy(purgeAt - ReplayWindow) \ X :
          \/ sessionLock[family[d]] # None
          \/ Cardinality(X) = Batch /\ \A x \in X : digestExp[x] <= digestExp[d]
    /\ DeleteDigests(X)
    /\ purgeAt' = NoPurge
    /\ UNCHANGED <<now, userVars, sessionVars, requestVars>>

-----------------------------------------------------------------------------
Init ==
    /\ StoreInit
    /\ userLock = [u \in Users |-> None]
    /\ sessionLock = [s \in Sessions |-> None]
    /\ req = [r \in Requests |-> Idle]
    /\ purgeAt = NoPurge

\* A request arrives.
Start(r) ==
    \/ \E u \in Users, p \in Passwords : SignUpRegister(r, u, p)
    \/ \E u \in Users : SignInFind(r, u)
    \/ \E d \in Digests : RefreshFind(r, d)
    \/ \E s \in Sessions : GuardSession(r, s)

\* The next statement of a request under way.
Step(r) ==
    \/ \E s \in Sessions, d \in Digests : SignUpCommit(r, s, d) \/ SignInCommit(r, s, d)
    \/ \E p \in Passwords : SignInVerify(r, p) \/ ChangeVerify(r, p) \/ ChangeCommit(r, p)
    \/ SignInRefuse(r)
    \/ RefreshLock(r)
    \/ RefreshRead(r)
    \/ RefreshReplayCommit(r)
    \/ \E n \in Digests : RefreshRotateCommit(r, n)
    \/ GuardUser(r)
    \/ ChangeRefuse(r)
    \/ ChangeRevoke(r)
    \/ \E s \in Sessions : LockPending(r, s)
    \/ SignOut(r)
    \/ DeleteLock(r)
    \/ DeleteCommit(r)

Clock == Tick /\ UNCHANGED <<requestVars, purgeAt>>

Next ==
    \/ \E r \in Requests : Start(r) \/ Step(r) \/ Abort(r)
    \/ PurgeCutoff
    \/ \E X \in SUBSET Digests : PurgeBatch(X)
    \/ Clock

Spec == Init /\ [][Next]_vars

\* PostgreSQL queues the waiters of a row lock, so a request that can take its
\* next step again and again does take it.  Nothing makes Abort happen, except
\* where the instance is too small for the transaction to commit.
Fairness ==
    \A r \in Requests :
       /\ SF_vars(Step(r))
       /\ SF_vars(LacksId(r) /\ Abort(r))

FairSpec == Spec /\ Fairness

-----------------------------------------------------------------------------
\* Properties.

\* Every row, lock and request has its type, expiries lie at most RefreshTtl
\* ahead of the clock, and nobody remembers a clock read of the future.
TypeOK ==
    /\ StoreTypeOK
    /\ userLock \in [Users -> Requests \cup {None}]
    /\ sessionLock \in [Sessions -> Requests \cup {None}]
    /\ req \in [Requests -> RequestState]
    /\ \A r \in Requests : TimeOf(r) <= now
    /\ purgeAt \in NoPurge .. now

\* However refreshes, replays, revocations and purges interleave, a session row
\* has exactly one unretired digest, and the two expire together: a client can
\* always be told from the row which one token continues the session.
OneCurrentDigest ==
    \A s \in Sessions : SessionRow(s) =>
       /\ \E d \in Digests : digestState[d] = "current" /\ family[d] = s
       /\ \A d, e \in Digests :
             /\ digestState[d] = "current" /\ family[d] = s
             /\ digestState[e] = "current" /\ family[e] = s
             => d = e /\ digestExp[d] = sessionExp[s]

\* A sign-in racing a password change: no live session was opened with a
\* password that is not the account's current one (the user row lock is held
\* from verification to issuance, and the change revokes before it commits).
LiveSessionsUseCurrentPassword ==
    \A s \in Sessions : Live(s) =>
       /\ owner[s] \in Users
       /\ UserRow(owner[s])
       /\ opened[s] = hash[owner[s]]

\* When a refresh has been answered 401 for a retired token still inside its
\* window, the session it belongs to is not live: the revocation committed
\* before the answer and no concurrent rotation survived it.
DeniedReplayRevokesSession ==
    \A r \in Requests :
       /\ At(r, "denied")
       /\ digestState[DigOf(r)] = "retired"
       /\ InWindow(DigOf(r), now)
       => ~Live(family[DigOf(r)])

\* The purge, whose cutoff is older than the statement that uses it, never
\* removes a retired digest of an existing session inside its replay window.
PurgeKeepsReplayEvidence ==
    \A d \in Digests :
       digestState[d] = "deleted" /\ SessionRow(family[d]) => ~InWindow(d, now)

\* What a rotation has read under the session lock still holds when it writes:
\* no revocation, other rotation or purge has come in between, and its
\* compare-and-set never fails.
RotationStaysValid ==
    \A r \in Requests : At(r, "refreshRotate") =>
       /\ digestState[DigOf(r)] = "current"
       /\ digestExp[DigOf(r)] > TimeOf(r)
       /\ Live(SessOf(r))

\* No lost update of a password, and no sign-in with one that has just been
\* changed: the password a transaction has verified is the account's until that
\* transaction ends.
VerifiedPasswordStays ==
    \A r \in Requests :
       At(r, "signInIssue") \/ At(r, "changeRevoke") \/ At(r, "changeLocks") =>
          UserRow(UserOf(r)) /\ hash[UserOf(r)] = req[r].secret

\* The rows a password change or a deletion has locked or is waiting for are all
\* the live sessions (all the sessions) of the account: none appears behind it.
NoSessionEscapes ==
    \A r \in Requests :
       /\ At(r, "changeLocks") =>
             LiveSessions(UserOf(r)) \subseteq req[r].pending \cup Locked(r)
       /\ At(r, "deleteLocks") =>
             SessionsOf(UserOf(r)) = req[r].pending \cup Locked(r)

\* A request holds exactly the row locks its place in the code calls for: the
\* user row (which then exists) from verification to commit, session rows only
\* inside refresh, a password change or a deletion.
UserHolders == {"signInIssue", "changeRevoke", "changeLocks", "deleteLocks"}

SessionHolders ==
    {"refreshRead", "refreshReplay", "refreshRotate", "changeLocks", "deleteLocks"}

UserPCs == UserHolders \cup
    {"signUpIssue", "signInVerify", "guardUser", "changeVerify", "signOut", "deleteLock"}

LocksFollowRequests ==
    \A r \in Requests :
       /\ req[r].pc \in UserPCs => UserOf(r) \in Users
       /\ req[r].pc \in UserHolders => userLock[UserOf(r)] = r /\ UserRow(UserOf(r))
       /\ Locked(r) # {} => req[r].pc \in SessionHolders

\* r is at a statement that locks rows, one of which q holds.
WaitsFor(r, q) ==
    \/ req[r].pc \in {"signInVerify", "changeVerify", "deleteLock"} /\ userLock[UserOf(r)] = q
    \/ req[r].pc \in {"refreshLock", "signOut"} /\ sessionLock[SessOf(r)] = q
    \/ /\ req[r].pc \in {"changeLocks", "deleteLocks"}
       /\ \E s \in req[r].pending : sessionLock[s] = q

\* No transactions wait for each other in a circle, for which PostgreSQL would
\* have to kill one: users are locked before sessions, and only who holds the
\* user lock waits for a session while holding others.
NoDeadlock ==
    \A S \in (SUBSET Requests) \ {{}} : \E r \in S : \A q \in S : ~WaitsFor(r, q)

\* The invariant behind the three properties of credentials, inductive with
\* TypeOK (AuthServiceProofs).
CredentialsInv ==
    /\ LocksFollowRequests
    /\ VerifiedPasswordStays
    /\ NoSessionEscapes
    /\ LiveSessionsUseCurrentPassword

\* Statement by statement, the service does what the ledger does in one step.
Ledger == INSTANCE AuthLedger WITH
    Users <- Users, Sessions <- Sessions, Digests <- Digests, Passwords <- Passwords,
    None <- None, EmailOf <- EmailOf, RefreshTtl <- RefreshTtl,
    ReplayWindow <- ReplayWindow, MaxNow <- MaxNow,
    now <- now, userState <- userState, hash <- hash,
    sessionState <- sessionState, owner <- owner, sessionExp <- sessionExp,
    opened <- opened,
    digestState <- digestState, family <- family, digestExp <- digestExp

ImplementsLedger == Ledger!Spec

\* No wait for a row lock is for ever: every request is answered.
EveryRequestFinishes == \A r \in Requests : ~Free(r) ~> Free(r)
=============================================================================
