----------------------------- MODULE AuthLedger ----------------------------
(***************************************************************************)
(* What the authentication API promises, every operation in one step.      *)
(* There are no requests, locks or transactions here: AuthService, where   *)
(* they are, is shown to implement this specification.                     *)
(***************************************************************************)
EXTENDS AuthStore

\* An account comes with its first session, or not at all.
SignUp(u, p, s, d, t) ==
    /\ InsertUser(u, p)
    /\ InsertSession(u, p, s, d, t)
    /\ UNCHANGED now

\* A session is opened only with the password the account has at this moment.
SignIn(u, p, s, d, t) ==
    /\ UserRow(u)
    /\ hash[u] = p
    /\ InsertSession(u, p, s, d, t)
    /\ UNCHANGED <<now, userVars>>

\* A current, unexpired digest of a live session buys exactly one successor.
Refresh(d, n, t) ==
    /\ digestState[d] = "current"
    /\ t < digestExp[d]
    /\ Live(family[d])
    /\ RotateDigest(family[d], d, n, t)
    /\ UNCHANGED <<now, userVars>>

\* Sign-out, or the answer to a replayed token.
Revoke(s) ==
    /\ Live(s)
    /\ RevokeSessions({s})
    /\ UNCHANGED <<now, userVars, digestVars>>

\* The commit of a new password is the end of every session of the account.
ChangePassword(u, p) ==
    /\ UserRow(u)
    /\ p # hash[u]
    /\ UpdateHash(u, p)
    /\ RevokeSessions(LiveSessions(u))
    /\ UNCHANGED <<now, digestVars>>

DeleteAccount(u) ==
    /\ UserRow(u)
    /\ DeleteUser(u, SessionsOf(u))
    /\ UNCHANGED now

\* Replay evidence is dropped only when it proves nothing any more.
Forget(X) ==
    /\ \A d \in X : ~InWindow(d, now) /\ digestState[d] = "retired"
    /\ DeleteDigests(X)
    /\ UNCHANGED <<now, userVars, sessionVars>>

Init == StoreInit

Next ==
    \/ Tick
    \/ \E s \in Sessions, d \in Digests, t \in 0 .. now, p \in Passwords, u \in Users :
          SignUp(u, p, s, d, t) \/ SignIn(u, p, s, d, t)
    \/ \E d, n \in Digests, t \in 0 .. now : Refresh(d, n, t)
    \/ \E s \in Sessions : Revoke(s)
    \/ \E u \in Users, p \in Passwords : ChangePassword(u, p)
    \/ \E u \in Users : DeleteAccount(u)
    \/ \E X \in SUBSET Digests : Forget(X)

Spec == Init /\ [][Next]_storeVars
=============================================================================
