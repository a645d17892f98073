------------------------- MODULE AuthServiceProofs -------------------------
(***************************************************************************)
(* What holds of AuthService for every number of users, sessions, digests  *)
(* and requests, every lifetime and every offered set of operations.       *)
(***************************************************************************)
EXTENDS AuthService, TLAPS

-----------------------------------------------------------------------------
\* The type invariant.

LEMMA TypeInit == Init => TypeOK
  BY TtlAssumption, NoneAssumption, ServiceAssumption
  DEF Init, StoreInit, TypeOK, StoreTypeOK, RequestState, Idle, PCs, FreePCs, NoPurge,
      TimeOf

\* The request states the actions assign are request states.
LEMMA IdleTyped == Idle \in RequestState /\ Idle.at = 0
  BY DEF Idle, RequestState, PCs, FreePCs

LEMMA DeniedTyped ==
  ASSUME NEW d \in Digests \cup {None}
  PROVE  Denied(d) \in RequestState /\ Denied(d).at = 0
  BY DEF Denied, Idle, RequestState, PCs, FreePCs

LEMMA IdleFields == Idle.pc = "idle" /\ Idle.dig = None
  BY DEF Idle

LEMMA DeniedFields == ASSUME NEW d PROVE Denied(d).pc = "denied" /\ Denied(d).dig = d
  BY DEF Denied, Idle

LEMMA NowNat == TypeOK => now \in Nat
  BY TtlAssumption DEF TypeOK, StoreTypeOK

\* Requests stay typed and remember no clock read of the future.
ReqTypeOK == req \in [Requests -> RequestState] /\ \A r \in Requests : TimeOf(r) <= now

LEMMA BecomeTyped ==
  ASSUME TypeOK, NEW r \in Requests, NEW st \in RequestState, st.at <= now,
         Become(r, st), now' = now
  PROVE  ReqTypeOK'
  BY DEF TypeOK, Become, TimeOf, ReqTypeOK

LEMMA EndTyped ==
  ASSUME TypeOK, NEW r \in Requests, NEW st \in RequestState, st.at <= now,
         End(r, st), now' = now
  PROVE  ReqTypeOK'
  BY BecomeTyped DEF End

LEMMA StartTyped ==
  ASSUME TypeOK, NEW r \in Requests, Start(r)
  PROVE  ReqTypeOK'
  <1>1. Idle \in RequestState /\ Idle.at = 0 /\ now \in Nat
    BY IdleTyped, NowNat
  <1>2. now' = now
    BY DEF Start, SignUpRegister, SignInFind, RefreshFind, GuardSession, NoWrites, storeVars
  <1>3. ASSUME NEW u \in Users, NEW p \in Passwords, SignUpRegister(r, u, p)
        PROVE  ReqTypeOK'
    <2> DEFINE st == [Idle EXCEPT !.pc = "signUpIssue", !.uid = u, !.secret = p, !.at = now]
    <2>1. st \in RequestState
      BY <1>1 DEF RequestState, PCs, FreePCs
    <2>2. st.at <= now
      BY <1>1 DEF RequestState
    <2>3. QED
      BY <1>2, <1>3, <2>1, <2>2, BecomeTyped DEF SignUpRegister
  <1>4. ASSUME NEW u \in Users, SignInFind(r, u)
        PROVE  ReqTypeOK'
    <2> DEFINE st == [Idle EXCEPT !.pc = "signInVerify", !.uid = u]
    <2>1. st \in RequestState
      BY <1>1 DEF RequestState, PCs, FreePCs
    <2>2. st.at <= now
      BY <1>1 DEF RequestState
    <2>3. QED
      BY <1>2, <1>4, <2>1, <2>2, BecomeTyped DEF SignInFind
  <1>5. ASSUME NEW d \in Digests, RefreshFind(r, d)
        PROVE  ReqTypeOK'
    <2> DEFINE st == [Idle EXCEPT !.pc = "refreshLock", !.sid = family[d], !.dig = d]
    <2>1. st \in RequestState
      BY <1>1 DEF RequestState, PCs, FreePCs, TypeOK, StoreTypeOK
    <2>2. st.at <= now
      BY <1>1 DEF RequestState
    <2>3. Denied(d) \in RequestState /\ Denied(d).at <= now
      BY <1>1, DeniedTyped
    <2>4. Become(r, st) \/ Become(r, Denied(d))
      BY <1>5 DEF RefreshFind
    <2>5. QED
      BY <1>2, <2>1, <2>2, <2>3, <2>4, BecomeTyped
  <1>6. ASSUME NEW s \in Sessions, GuardSession(r, s)
        PROVE  ReqTypeOK'
    <2> DEFINE st == [Idle EXCEPT !.pc = "guardUser", !.sid = s, !.uid = owner[s]]
    <2>1. st \in RequestState
      BY <1>1 DEF RequestState, PCs, FreePCs, TypeOK, StoreTypeOK
    <2>2. st.at <= now
      BY <1>1 DEF RequestState
    <2>3. QED
      BY <1>2, <1>6, <2>1, <2>2, BecomeTyped DEF GuardSession
  <1>7. QED
    BY <1>3, <1>4, <1>5, <1>6 DEF Start

LEMMA StepTyped ==
  ASSUME TypeOK, NEW r \in Requests, Step(r) \/ Abort(r)
  PROVE  ReqTypeOK'
  <1>1. req[r] \in RequestState /\ req[r].at <= now /\ now \in Nat
    BY NowNat DEF TypeOK, TimeOf
  <1>2. now' = now
    BY DEF Step, SignUpCommit, SignInVerify, SignInRefuse, SignInCommit, RefreshLock,
           RefreshRead, RefreshReplayCommit, RefreshRotateCommit, GuardUser, ChangeVerify,
           ChangeRefuse, ChangeRevoke, LockPending, ChangeCommit, SignOut, DeleteLock,
           DeleteCommit, Abort, NoWrites, storeVars
  <1>3. ASSUME End(r, Idle) \/ Become(r, Idle) \/ End(r, Denied(DigOf(r)))
        PROVE  ReqTypeOK'
    <2>1. Idle \in RequestState /\ Idle.at <= now
      BY <1>1, IdleTyped
    <2>2. DigOf(r) \in Digests \cup {None}
      BY <1>1 DEF DigOf, RequestState
    <2>3. Denied(DigOf(r)) \in RequestState /\ Denied(DigOf(r)).at <= now
      BY <1>1, <2>2, DeniedTyped
    <2>4. QED
      BY <1>2, <1>3, <2>1, <2>3, BecomeTyped, EndTyped
  <1>4. ASSUME NEW p \in Passwords, SignInVerify(r, p)
        PROVE  ReqTypeOK'
    <2> DEFINE st == [req[r] EXCEPT !.pc = "signInIssue", !.secret = p, !.at = now]
    <2>1. st \in RequestState
      BY <1>1 DEF RequestState, PCs, FreePCs
    <2>2. st.at <= now
      BY <1>1 DEF RequestState
    <2>3. QED
      BY <1>2, <1>4, <2>1, <2>2, BecomeTyped DEF SignInVerify
  <1>5. ASSUME NEW p \in Passwords, ChangeVerify(r, p)
        PROVE  ReqTypeOK'
    <2> DEFINE st == [req[r] EXCEPT !.pc = "changeRevoke", !.secret = p]
    <2>1. st \in RequestState
      BY <1>1 DEF RequestState, PCs, FreePCs
    <2>2. st.at <= now
      BY <1>1 DEF RequestState
    <2>3. QED
      BY <1>2, <1>5, <2>1, <2>2, BecomeTyped DEF ChangeVerify
  \* The other statements that leave a request under way.
  <1>6. ASSUME NEW pc \in PCs, Become(r, [req[r] EXCEPT !.pc = pc])
        PROVE  ReqTypeOK'
    <2> DEFINE st == [req[r] EXCEPT !.pc = pc]
    <2>1. st \in RequestState
      BY <1>1 DEF RequestState
    <2>2. st.at <= now
      BY <1>1 DEF RequestState
    <2>3. QED
      BY <1>2, <1>6, <2>1, <2>2, BecomeTyped
  <1>7. ASSUME NEW pc \in PCs, Become(r, [req[r] EXCEPT !.pc = pc, !.at = now])
        PROVE  ReqTypeOK'
    <2> DEFINE st == [req[r] EXCEPT !.pc = pc, !.at = now]
    <2>1. st \in RequestState
      BY <1>1 DEF RequestState
    <2>2. st.at <= now
      BY <1>1 DEF RequestState
    <2>3. QED
      BY <1>2, <1>7, <2>1, <2>2, BecomeTyped
  <1>8. ASSUME NEW pc \in PCs, NEW S \in SUBSET Sessions,
               Become(r, [req[r] EXCEPT !.pc = pc, !.pending = S])
        PROVE  ReqTypeOK'
    <2> DEFINE st == [req[r] EXCEPT !.pc = pc, !.pending = S]
    <2>1. st \in RequestState
      BY <1>1 DEF RequestState
    <2>2. st.at <= now
      BY <1>1 DEF RequestState
    <2>3. QED
      BY <1>2, <1>8, <2>1, <2>2, BecomeTyped
  <1>9. ASSUME NEW s \in Sessions, LockPending(r, s)
        PROVE  ReqTypeOK'
    <2> DEFINE st == [req[r] EXCEPT !.pending = @ \ {s}]
    <2>1. st \in RequestState
      BY <1>1 DEF RequestState
    <2>2. st.at <= now
      BY <1>1 DEF RequestState
    <2>3. QED
      BY <1>2, <1>9, <2>1, <2>2, BecomeTyped DEF LockPending
  <1>10. CASE RefreshLock(r)
    BY <1>3, <1>6, <1>10 DEF RefreshLock, PCs, FreePCs
  <1>11. CASE RefreshRead(r)
    BY <1>3, <1>7, <1>11 DEF RefreshRead, PCs, FreePCs
  <1>12. CASE GuardUser(r)
    BY <1>3, <1>6, <1>12 DEF GuardUser, PCs, FreePCs
  <1>13. CASE ChangeRevoke(r)
    <2>1. LiveSessions(UserOf(r)) \in SUBSET Sessions /\ "changeLocks" \in PCs
      BY DEF LiveSessions, SessionsOf, PCs
    <2>2. QED
      BY <1>8, <1>13, <2>1 DEF ChangeRevoke
  <1>14. CASE DeleteLock(r)
    <2>1. SessionsOf(UserOf(r)) \in SUBSET Sessions /\ "deleteLocks" \in PCs
      BY DEF SessionsOf, PCs
    <2>2. QED
      BY <1>3, <1>8, <1>14, <2>1 DEF DeleteLock
  <1>15. QED
    BY <1>3, <1>4, <1>5, <1>9, <1>10, <1>11, <1>12, <1>13, <1>14
    DEF Step, Abort, SignUpCommit, SignInRefuse, SignInCommit, RefreshReplayCommit,
        RefreshRotateCommit, ChangeRefuse, ChangeCommit, SignOut, DeleteCommit

\* Locks are held by requests.
LockTypeOK ==
    /\ userLock \in [Users -> Requests \cup {None}]
    /\ sessionLock \in [Sessions -> Requests \cup {None}]

LEMMA LockTyped ==
  ASSUME TypeOK, NEW r \in Requests, Start(r) \/ Step(r) \/ Abort(r)
  PROVE  LockTypeOK'
  <1> USE DEF TypeOK, LockTypeOK
  <1>1. ASSUME NEW st, End(r, st) PROVE LockTypeOK'
    BY <1>1 DEF End
  <1>2. ASSUME NEW u, LockUser(u, r), UNCHANGED sessionLock PROVE LockTypeOK'
    BY <1>2 DEF LockUser
  <1>3. ASSUME NEW s, LockSession(s, r), UNCHANGED userLock PROVE LockTypeOK'
    BY <1>3 DEF LockSession
  <1>4. ASSUME UNCHANGED <<userLock, sessionLock>> PROVE LockTypeOK'
    BY <1>4
  <1> HIDE DEF TypeOK, LockTypeOK
  <1>5. CASE Start(r)
    BY <1>4, <1>5 DEF Start, SignUpRegister, SignInFind, RefreshFind, GuardSession
  <1>6. CASE Step(r)
    BY <1>1, <1>2, <1>3, <1>4, <1>6
    DEF Step, SignUpCommit, SignInVerify, SignInRefuse, SignInCommit, RefreshLock,
        RefreshRead, RefreshReplayCommit, RefreshRotateCommit, GuardUser, ChangeVerify,
        ChangeRefuse, ChangeRevoke, LockPending, ChangeCommit, SignOut, DeleteLock,
        DeleteCommit
  <1>7. CASE Abort(r)
    BY <1>1, <1>7 DEF Abort
  <1>8. QED
    BY <1>5, <1>6, <1>7

\* The row operations keep the tables typed.
LEMMA ExpiryTyped ==
  ASSUME TypeOK, NEW r \in Requests
  PROVE  RefreshExpiry(TimeOf(r)) \in 0 .. now + RefreshTtl
  BY TtlAssumption, NowNat DEF TypeOK, TimeOf, RefreshExpiry, RequestState

LEMMA StoreTyped ==
  ASSUME TypeOK, NEW r \in Requests, Start(r) \/ Step(r) \/ Abort(r)
  PROVE  StoreTypeOK'
  <1> USE DEF TypeOK, StoreTypeOK, storeVars, userVars, sessionVars, digestVars
  <1>1. ASSUME NoWrites PROVE StoreTypeOK'
    BY <1>1 DEF NoWrites
  <1>2. ASSUME NEW s \in Sessions, NEW d \in Digests, SignUpCommit(r, s, d)
        PROVE  StoreTypeOK'
    BY <1>2, ExpiryTyped
    DEF SignUpCommit, InsertUser, InsertSession, RequestState, UserOf
  <1>3. ASSUME NEW s \in Sessions, NEW d \in Digests, SignInCommit(r, s, d)
        PROVE  StoreTypeOK'
    BY <1>3, ExpiryTyped DEF SignInCommit, InsertSession, RequestState, UserOf
  <1>4. ASSUME NEW n \in Digests, RefreshRotateCommit(r, n) PROVE StoreTypeOK'
    <2>1. UNCHANGED <<now, userVars>>
      BY <1>4 DEF RefreshRotateCommit
    <2>2. CASE UNCHANGED <<sessionVars, digestVars>>
      BY <2>1, <2>2
    <2>3. CASE RotateDigest(SessOf(r), DigOf(r), n, TimeOf(r))
      <3>1. SessOf(r) \in Sessions \cup {None}
        BY DEF RequestState, SessOf
      <3>2. sessionVars' = <<sessionState, owner, sessionExp', opened>>
        BY <2>3 DEF RotateDigest
      <3>3. sessionExp' \in [Sessions -> 0 .. now + RefreshTtl]
        BY <2>3, ExpiryTyped DEF RotateDigest
      <3>4. digestState' \in [Digests -> {"unused", "current", "retired", "deleted"}]
        BY <2>3 DEF RotateDigest
      <3>5. family' \in [Digests -> Sessions \cup {None}]
        BY <2>3, <3>1 DEF RotateDigest
      <3>6. digestExp' \in [Digests -> 0 .. now + RefreshTtl]
        BY <2>3, ExpiryTyped DEF RotateDigest
      <3>7. QED
        BY <2>1, <3>2, <3>3, <3>4, <3>5, <3>6
    <2>4. QED
      BY <1>4, <2>2, <2>3 DEF RefreshRotateCommit
  <1>5. ASSUME NEW S, RevokeSessions(S), UNCHANGED <<now, digestVars>>,
               UNCHANGED userVars \/ \E p \in Passwords : UpdateHash(UserOf(r), p)
        PROVE  StoreTypeOK'
    BY <1>5 DEF RevokeSessions, UpdateHash
  <1>6. ASSUME DeleteCommit(r) PROVE StoreTypeOK'
    BY <1>6 DEF DeleteCommit, DeleteUser
  <1> HIDE DEF TypeOK, StoreTypeOK, storeVars, userVars, sessionVars, digestVars
  <1>7. CASE Start(r)
    BY <1>1, <1>7 DEF Start, SignUpRegister, SignInFind, RefreshFind, GuardSession
  <1>8. CASE Step(r)
    BY <1>1, <1>2, <1>3, <1>4, <1>5, <1>6, <1>8
    DEF Step, SignInVerify, SignInRefuse, RefreshLock, RefreshRead, RefreshReplayCommit,
        GuardUser, ChangeVerify, ChangeRefuse, ChangeRevoke, LockPending, ChangeCommit,
        SignOut, DeleteLock
  <1>9. CASE Abort(r)
    BY <1>1, <1>9 DEF Abort
  <1>10. QED
    BY <1>7, <1>8, <1>9

LEMMA TypeStep == TypeOK /\ [Next]_vars => TypeOK'
  <1> SUFFICES ASSUME TypeOK, [Next]_vars PROVE TypeOK'
    OBVIOUS
  <1> USE DEF storeVars, userVars, sessionVars, digestVars, requestVars
  <1>1. ASSUME NEW r \in Requests, Start(r) \/ Step(r) \/ Abort(r) PROVE TypeOK'
    <2>1. ReqTypeOK' /\ LockTypeOK' /\ StoreTypeOK'
      BY <1>1, StartTyped, StepTyped, LockTyped, StoreTyped
    <2>2. UNCHANGED <<now, purgeAt>>
      BY <1>1
      DEF Start, Step, Abort, SignUpRegister, SignInFind, RefreshFind, GuardSession,
          SignUpCommit, SignInVerify, SignInRefuse, SignInCommit, RefreshLock,
          RefreshRead, RefreshReplayCommit, RefreshRotateCommit, GuardUser, ChangeVerify,
          ChangeRefuse, ChangeRevoke, LockPending, ChangeCommit, SignOut, DeleteLock,
          DeleteCommit, NoWrites
    <2>3. QED
      BY <2>1, <2>2 DEF TypeOK, ReqTypeOK, LockTypeOK
  <1>2. CASE PurgeCutoff
    BY <1>2, NowNat DEF PurgeCutoff, TypeOK, StoreTypeOK, TimeOf, NoPurge
  <1>3. ASSUME NEW X \in SUBSET Digests, PurgeBatch(X) PROVE TypeOK'
    BY <1>3, NowNat DEF PurgeBatch, DeleteDigests, TypeOK, StoreTypeOK, TimeOf, NoPurge
  <1>4. CASE Clock
    BY <1>4, NowNat, TtlAssumption DEF Clock, Tick, TypeOK, StoreTypeOK, TimeOf, NoPurge, RequestState
  <1>5. CASE UNCHANGED vars
    BY <1>5 DEF vars, TypeOK, StoreTypeOK, TimeOf
  <1>6. QED
    BY <1>1, <1>2, <1>3, <1>4, <1>5 DEF Next

\* Rows, locks and requests are always of their type, and no expiry lies further
\* ahead of the clock than the configured lifetime.
THEOREM TypeCorrect == Spec => []TypeOK
  <1>1. QED
    BY TypeInit, TypeStep, PTL DEF Spec

-----------------------------------------------------------------------------
\* Credentials: what a transaction verified under the user lock stays true, and
\* no live session was opened with an old password.

\* The part of CredentialsInv that speaks of one request.
RequestInv(q) ==
    /\ req[q].pc \in UserPCs => UserOf(q) \in Users
    /\ req[q].pc \in UserHolders => userLock[UserOf(q)] = q /\ UserRow(UserOf(q))
    /\ Locked(q) # {} => req[q].pc \in SessionHolders
    /\ At(q, "signInIssue") \/ At(q, "changeRevoke") \/ At(q, "changeLocks") =>
          hash[UserOf(q)] = req[q].secret
    /\ At(q, "changeLocks") =>
          LiveSessions(UserOf(q)) \subseteq req[q].pending \cup Locked(q)
    /\ At(q, "deleteLocks") =>
          SessionsOf(UserOf(q)) = req[q].pending \cup Locked(q)

Inv == TypeOK /\ (\A q \in Requests : RequestInv(q)) /\ LiveSessionsUseCurrentPassword

LEMMA InvIsCredentialsInv == Inv <=> TypeOK /\ CredentialsInv
  BY DEF Inv, RequestInv, CredentialsInv, LocksFollowRequests, VerifiedPasswordStays,
         NoSessionEscapes, At, UserHolders

\* A step of r leaves the other requests and their locks alone.
LEMMA OthersUntouched ==
  ASSUME Inv, NEW r \in Requests, Start(r) \/ Step(r) \/ Abort(r),
         NEW q \in Requests, q # r
  PROVE  /\ req'[q] = req[q]
         /\ \A u \in Users : userLock[u] = q => userLock'[u] = q
         /\ Locked(q)' = Locked(q)
  <1> USE DEF Inv, TypeOK, Locked
  <1>1. None \notin Requests
    BY ServiceAssumption
  <1>2. ASSUME NEW st, Become(r, st) PROVE req'[q] = req[q]
    BY <1>2 DEF Become
  <1>3. ASSUME NEW st, End(r, st)
        PROVE  /\ req'[q] = req[q]
               /\ \A u \in Users : userLock[u] = q => userLock'[u] = q
               /\ Locked(q)' = Locked(q)
    BY <1>1, <1>3 DEF End, Become
  <1>4. ASSUME NEW u, userLock[u] = None, LockUser(u, r), UNCHANGED sessionLock
        PROVE  /\ \A v \in Users : userLock[v] = q => userLock'[v] = q
               /\ Locked(q)' = Locked(q)
    BY <1>1, <1>4 DEF LockUser
  <1>5. ASSUME NEW s, sessionLock[s] = None, LockSession(s, r), UNCHANGED userLock
        PROVE  /\ \A v \in Users : userLock[v] = q => userLock'[v] = q
               /\ Locked(q)' = Locked(q)
    BY <1>1, <1>5 DEF LockSession
  <1>6. ASSUME UNCHANGED <<userLock, sessionLock>>
        PROVE  /\ \A v \in Users : userLock[v] = q => userLock'[v] = q
               /\ Locked(q)' = Locked(q)
    BY <1>6
  <1> HIDE DEF Inv, TypeOK, Locked
  <1>7. CASE Start(r)
    BY <1>2, <1>6, <1>7 DEF Start, SignUpRegister, SignInFind, RefreshFind, GuardSession
  <1>8. CASE Step(r)
    BY <1>2, <1>3, <1>4, <1>5, <1>6, <1>8
    DEF Step, SignUpCommit, SignInVerify, SignInRefuse, SignInCommit, RefreshLock,
        RefreshRead, RefreshReplayCommit, RefreshRotateCommit, GuardUser, ChangeVerify,
        ChangeRefuse, ChangeRevoke, LockPending, ChangeCommit, SignOut, DeleteLock,
        DeleteCommit
  <1>9. CASE Abort(r)
    BY <1>3, <1>9 DEF Abort
  <1>10. QED
    BY <1>7, <1>8, <1>9

\* A step of r leaves the account alone whose row another request has locked: it
\* may end sessions of the account but neither adds nor deletes one.
AccountKept(u) ==
    /\ userState'[u] = userState[u]
    /\ hash'[u] = hash[u]
    /\ SessionsOf(u)' = SessionsOf(u)
    /\ LiveSessions(u)' \subseteq LiveSessions(u)

LEMMA LockedAccountKept ==
  ASSUME Inv, NEW r \in Requests, Start(r) \/ Step(r) \/ Abort(r),
         NEW u \in Users, UserRow(u), userLock[u] # r, userLock[u] # None
  PROVE  AccountKept(u)
  <1> USE DEF AccountKept, SessionsOf, LiveSessions, SessionRow, Live, UserRow, At
  <1>1. TypeOK /\ RequestInv(r)
    BY DEF Inv
  <1>2. ASSUME NoWrites PROVE AccountKept(u)
    BY <1>2 DEF NoWrites, storeVars, userVars, sessionVars
  <1>3. ASSUME NEW s \in Sessions, NEW d \in Digests, SignUpCommit(r, s, d)
        PROVE  AccountKept(u)
    <2>1. UserOf(r) # u
      BY <1>3 DEF SignUpCommit, InsertUser
    <2>2. QED
      BY <1>1, <1>3, <2>1 DEF SignUpCommit, InsertUser, InsertSession, TypeOK, StoreTypeOK
  <1>4. ASSUME NEW s \in Sessions, NEW d \in Digests, SignInCommit(r, s, d)
        PROVE  AccountKept(u)
    <2>1. UserOf(r) # u
      BY <1>1, <1>4 DEF SignInCommit, RequestInv, UserHolders
    <2>2. QED
      BY <1>1, <1>4, <2>1 DEF SignInCommit, InsertSession, TypeOK, StoreTypeOK, userVars
  <1>5. ASSUME NEW n \in Digests, RefreshRotateCommit(r, n) PROVE AccountKept(u)
    BY <1>5 DEF RefreshRotateCommit, RotateDigest, sessionVars, userVars
  <1>6. ASSUME NEW S, RevokeSessions(S), UNCHANGED userVars PROVE AccountKept(u)
    BY <1>1, <1>6 DEF RevokeSessions, userVars, TypeOK, StoreTypeOK
  <1>7. ASSUME NEW p \in Passwords, ChangeCommit(r, p) PROVE AccountKept(u)
    <2>1. UserOf(r) # u
      BY <1>1, <1>7 DEF ChangeCommit, RequestInv, UserHolders
    <2>2. QED
      BY <1>1, <1>7, <2>1 DEF ChangeCommit, UpdateHash, RevokeSessions, TypeOK, StoreTypeOK
  <1>8. ASSUME DeleteCommit(r) PROVE AccountKept(u)
    <2>1. UserOf(r) # u
      BY <1>1, <1>8 DEF DeleteCommit, RequestInv, UserHolders
    <2>2. Locked(r) = SessionsOf(UserOf(r))
      BY <1>1, <1>8 DEF DeleteCommit, RequestInv
    <2>3. QED
      BY <1>1, <1>8, <2>1, <2>2 DEF DeleteCommit, DeleteUser, TypeOK, StoreTypeOK
  <1> HIDE DEF AccountKept, SessionsOf, LiveSessions, SessionRow, Live, UserRow, At
  <1>9. CASE Start(r)
    BY <1>2, <1>9 DEF Start, SignUpRegister, SignInFind, RefreshFind, GuardSession
  <1>10. CASE Step(r)
    BY <1>2, <1>3, <1>4, <1>5, <1>6, <1>7, <1>8, <1>10
    DEF Step, SignInVerify, SignInRefuse, RefreshLock, RefreshRead, RefreshReplayCommit,
        GuardUser, ChangeVerify, ChangeRefuse, ChangeRevoke, LockPending,
        SignOut, DeleteLock
  <1>11. CASE Abort(r)
    BY <1>2, <1>11 DEF Abort
  <1>12. QED
    BY <1>9, <1>10, <1>11

\* So what another request has verified stays true.
LEMMA OthersInv ==
  ASSUME Inv, NEW r \in Requests, Start(r) \/ Step(r) \/ Abort(r),
         NEW q \in Requests, q # r
  PROVE  RequestInv(q)'
  <1>1. /\ req'[q] = req[q]
        /\ \A u \in Users : userLock[u] = q => userLock'[u] = q
        /\ Locked(q)' = Locked(q)
    BY OthersUntouched
  <1>2. RequestInv(q)
    BY DEF Inv
  <1>3. CASE req[q].pc \in UserHolders
    <2>1. PICK u \in Users : u = UserOf(q) /\ UserRow(u) /\ userLock[u] = q
      BY <1>2, <1>3 DEF RequestInv, UserPCs
    <2>2. AccountKept(u)
      BY <2>1, LockedAccountKept, ServiceAssumption
    <2>3. UserOf(q)' = u
      BY <1>1, <2>1 DEF UserOf
    <2>4. /\ SessionsOf(UserOf(q))' = SessionsOf(u)
          /\ LiveSessions(UserOf(q))' \subseteq LiveSessions(u)
      BY <2>2, <2>3 DEF AccountKept, SessionsOf, LiveSessions
    <2>5. QED
      BY <1>1, <1>2, <2>1, <2>2, <2>3, <2>4 DEF RequestInv, AccountKept, UserRow, At
  <1>4. CASE req[q].pc \notin UserHolders
    BY <1>1, <1>2, <1>4 DEF RequestInv, UserHolders, At, UserOf
  <1>5. QED
    BY <1>3, <1>4

\* Where a request goes without taking a user lock, nothing is claimed but that
\* it remembers a user id and has given back its session locks.
LEMMA ModestInv ==
  ASSUME NEW r \in Requests, (req[r].pc \notin UserHolders)',
         (req[r].pc \in UserPCs => UserOf(r) \in Users)',
         (Locked(r) # {} => req[r].pc \in SessionHolders)'
  PROVE  RequestInv(r)'
  BY DEF RequestInv, UserHolders, At

\* A request that has ended holds nothing.
LEMMA EndInv ==
  ASSUME Inv, NEW r \in Requests,
         End(r, Idle) \/ \E d : End(r, Denied(d))
  PROVE  RequestInv(r)'
  <1>1. PICK st : End(r, st) /\ st.pc \in FreePCs
    BY IdleFields, DeniedFields DEF FreePCs
  <1>2. req'[r] = st
    BY <1>1 DEF Inv, TypeOK, End, Become
  <1>3. Locked(r)' = {}
    BY <1>1, ServiceAssumption DEF Inv, TypeOK, End, Locked
  <1>4. QED
    BY <1>1, <1>2, <1>3, ModestInv DEF FreePCs, UserPCs, UserHolders

\* A live session belongs to an account.
LEMMA ActiveOwner ==
  ASSUME Inv, NEW s \in Sessions, Active(s, now)
  PROVE  owner[s] \in Users
  BY DEF Inv, LiveSessionsUseCurrentPassword, Active

LEMMA StartInv ==
  ASSUME Inv, NEW r \in Requests, Start(r)
  PROVE  RequestInv(r)'
  <1>1. Free(r) /\ UNCHANGED sessionLock
    BY DEF Start, SignUpRegister, SignInFind, RefreshFind, GuardSession
  <1>2. Locked(r)' = {}
    BY <1>1 DEF Inv, RequestInv, Locked, Free, FreePCs, SessionHolders
  <1>3. ASSUME NEW st, Become(r, st), st.pc \notin UserHolders,
               st.pc \in UserPCs => st.uid \in Users
        PROVE  RequestInv(r)'
    <2>1. req'[r] = st
      BY <1>3 DEF Inv, TypeOK, Become
    <2>2. QED
      BY <1>2, <1>3, <2>1, ModestInv DEF UserOf
  <1>4. Idle \in RequestState
    BY IdleTyped
  <1>5. ASSUME NEW u \in Users, NEW p \in Passwords, SignUpRegister(r, u, p)
        PROVE  RequestInv(r)'
    <2> DEFINE st == [Idle EXCEPT !.pc = "signUpIssue", !.uid = u, !.secret = p, !.at = now]
    <2>1. st.pc = "signUpIssue" /\ st.uid = u
      BY <1>4 DEF RequestState
    <2>2. Become(r, st)
      BY <1>5 DEF SignUpRegister
    <2> HIDE DEF st
    <2>3. QED
      BY <1>3, <2>1, <2>2 DEF UserHolders
  <1>6. ASSUME NEW u \in Users, SignInFind(r, u)
        PROVE  RequestInv(r)'
    <2> DEFINE st == [Idle EXCEPT !.pc = "signInVerify", !.uid = u]
    <2>1. st.pc = "signInVerify" /\ st.uid = u
      BY <1>4 DEF RequestState
    <2>2. Become(r, st)
      BY <1>6 DEF SignInFind
    <2> HIDE DEF st
    <2>3. QED
      BY <1>3, <2>1, <2>2 DEF UserHolders
  <1>7. ASSUME NEW d \in Digests, RefreshFind(r, d)
        PROVE  RequestInv(r)'
    <2> DEFINE st == [Idle EXCEPT !.pc = "refreshLock", !.sid = family[d], !.dig = d]
    <2>1. st.pc = "refreshLock" /\ Denied(d).pc = "denied"
      BY <1>4, DeniedFields DEF RequestState
    <2>2. Become(r, st) \/ Become(r, Denied(d))
      BY <1>7 DEF RefreshFind
    <2> HIDE DEF st
    <2>3. QED
      BY <1>3, <2>1, <2>2 DEF UserHolders, UserPCs
  <1>8. ASSUME NEW s \in Sessions, GuardSession(r, s)
        PROVE  RequestInv(r)'
    <2> DEFINE st == [Idle EXCEPT !.pc = "guardUser", !.sid = s, !.uid = owner[s]]
    <2>1. st.pc = "guardUser" /\ st.uid = owner[s]
      BY <1>4 DEF RequestState
    <2>2. Become(r, st) /\ owner[s] \in Users
      BY <1>8, ActiveOwner DEF GuardSession
    <2> HIDE DEF st
    <2>3. QED
      BY <1>3, <2>1, <2>2 DEF UserHolders
  <1>9. QED
    BY <1>5, <1>6, <1>7, <1>8 DEF Start

\* The statements that take the user lock, or sweep the sessions under it.
LEMMA TakesUserLock ==
  ASSUME Inv, NEW r \in Requests, NEW p \in Passwords,
         SignInVerify(r, p) \/ ChangeVerify(r, p)
  PROVE  RequestInv(r)'
  <1>1. req[r] \in RequestState /\ RequestInv(r)
    BY DEF Inv, TypeOK
  <1>2. req[r].pc \in {"signInVerify", "changeVerify"} /\ UserOf(r) \in Users
    BY <1>1 DEF SignInVerify, ChangeVerify, At, RequestInv, UserPCs
  <1>3. /\ userLock' = [userLock EXCEPT ![UserOf(r)] = r]
        /\ UNCHANGED <<sessionLock, userState, hash>>
        /\ UserRow(UserOf(r)) /\ hash[UserOf(r)] = p
    BY DEF SignInVerify, ChangeVerify, LockUser, NoWrites, storeVars, userVars
  <1>4. Locked(r)' = {}
    BY <1>1, <1>2, <1>3 DEF RequestInv, Locked, SessionHolders
  <1>5. ASSUME NEW st, Become(r, st), st.uid = req[r].uid, st.secret = p,
               st.pc \in {"signInIssue", "changeRevoke"}
        PROVE  RequestInv(r)'
    <2>1. req'[r] = st
      BY <1>5 DEF Inv, TypeOK, Become
    <2>2. UserOf(r)' = UserOf(r)
      BY <1>5, <2>1 DEF UserOf
    <2>3. userLock'[UserOf(r)] = r
      BY <1>2, <1>3 DEF Inv, TypeOK
    <2>4. QED
      BY <1>2, <1>3, <1>4, <1>5, <2>1, <2>2, <2>3 DEF RequestInv, At, UserRow
  <1>6. CASE SignInVerify(r, p)
    <2> DEFINE st == [req[r] EXCEPT !.pc = "signInIssue", !.secret = p, !.at = now]
    <2>1. st.pc = "signInIssue" /\ st.uid = req[r].uid /\ st.secret = p
      BY <1>1 DEF RequestState
    <2>2. Become(r, st)
      BY <1>6 DEF SignInVerify
    <2> HIDE DEF st
    <2>3. QED
      BY <1>5, <2>1, <2>2
  <1>7. CASE ChangeVerify(r, p)
    <2> DEFINE st == [req[r] EXCEPT !.pc = "changeRevoke", !.secret = p]
    <2>1. st.pc = "changeRevoke" /\ st.uid = req[r].uid /\ st.secret = p
      BY <1>1 DEF RequestState
    <2>2. Become(r, st)
      BY <1>7 DEF ChangeVerify
    <2> HIDE DEF st
    <2>3. QED
      BY <1>5, <2>1, <2>2
  <1>8. QED
    BY <1>6, <1>7

LEMMA SweepBegins ==
  ASSUME Inv, NEW r \in Requests, ChangeRevoke(r)
  PROVE  RequestInv(r)'
  <1> DEFINE st == [req[r] EXCEPT !.pc = "changeLocks",
                                  !.pending = LiveSessions(UserOf(r))]
  <1>1. req[r] \in RequestState /\ RequestInv(r) /\ At(r, "changeRevoke")
    BY DEF Inv, TypeOK, ChangeRevoke
  <1>2. PICK u \in Users : /\ u = UserOf(r) /\ userLock[u] = r /\ UserRow(u)
                           /\ hash[u] = req[r].secret
    BY <1>1 DEF RequestInv, UserPCs, UserHolders, At
  <1>3. st.pc = "changeLocks" /\ st.uid = req[r].uid /\ st.secret = req[r].secret
    BY <1>1 DEF RequestState
  <1>4. st.pending = LiveSessions(u)
    BY <1>1, <1>2 DEF RequestState
  <1>5. req'[r] = st
    BY DEF ChangeRevoke, Become, Inv, TypeOK
  <1> HIDE DEF st
  <1>6. UserOf(r)' = u
    BY <1>2, <1>3, <1>5 DEF UserOf
  <1>7. /\ UNCHANGED <<userLock, sessionLock, userState, hash>>
        /\ LiveSessions(u)' = LiveSessions(u)
    BY DEF ChangeRevoke, NoWrites, storeVars, userVars, sessionVars, LiveSessions,
           SessionsOf, SessionRow, Live
  <1>8. LiveSessions(UserOf(r))' = LiveSessions(u)
    BY <1>6, <1>7 DEF LiveSessions, SessionsOf
  <1>9. QED
    BY <1>2, <1>3, <1>4, <1>5, <1>6, <1>7, <1>8
    DEF RequestInv, At, UserRow, SessionHolders, Locked

LEMMA DeletionBegins ==
  ASSUME Inv, NEW r \in Requests, DeleteLock(r)
  PROVE  RequestInv(r)'
  <1> DEFINE st == [req[r] EXCEPT !.pc = "deleteLocks",
                                  !.pending = SessionsOf(UserOf(r))]
  <1>1. req[r] \in RequestState /\ RequestInv(r) /\ At(r, "deleteLock")
    BY DEF Inv, TypeOK, DeleteLock
  <1>2. PICK u \in Users : u = UserOf(r) /\ Locked(r) = {}
    BY <1>1 DEF RequestInv, UserPCs, SessionHolders, At
  <1>3. CASE End(r, Idle)
    BY <1>3, EndInv
  <1>4. CASE UserRow(u) /\ LockUser(u, r) /\ Become(r, st) /\ UNCHANGED sessionLock
    <2>1. st.pc = "deleteLocks" /\ st.uid = req[r].uid
      BY <1>1 DEF RequestState
    <2>2. st.pending = SessionsOf(u)
      BY <1>1, <1>2 DEF RequestState
    <2>3. req'[r] = st
      BY <1>4 DEF Become, Inv, TypeOK
    <2> HIDE DEF st
    <2>4. UserOf(r)' = u
      BY <1>2, <2>1, <2>3 DEF UserOf
    <2>5. userLock'[u] = r
      BY <1>2, <1>4 DEF LockUser, Inv, TypeOK
    <2>6. UNCHANGED <<userState>> /\ SessionsOf(u)' = SessionsOf(u)
      BY DEF DeleteLock, NoWrites, storeVars, userVars, sessionVars, SessionsOf, SessionRow
    <2>7. SessionsOf(UserOf(r))' = SessionsOf(u) /\ Locked(r)' = {}
      BY <1>2, <1>4, <2>4, <2>6 DEF SessionsOf, Locked
    <2>8. QED
      BY <1>2, <1>4, <2>1, <2>2, <2>3, <2>4, <2>5, <2>6, <2>7
      DEF RequestInv, At, UserRow
  <1>5. QED
    BY <1>2, <1>3, <1>4 DEF DeleteLock

LEMMA SweepGoesOn ==
  ASSUME Inv, NEW r \in Requests, NEW s \in Sessions, LockPending(r, s)
  PROVE  RequestInv(r)'
  <1> DEFINE st == [req[r] EXCEPT !.pending = @ \ {s}]
  <1>1. /\ req[r] \in RequestState /\ RequestInv(r)
        /\ At(r, "changeLocks") \/ At(r, "deleteLocks")
        /\ s \in req[r].pending /\ sessionLock[s] = None
    BY DEF Inv, TypeOK, LockPending
  <1>2. PICK u \in Users : /\ u = UserOf(r) /\ userLock[u] = r /\ UserRow(u)
                           /\ At(r, "changeLocks") => hash[u] = req[r].secret
    BY <1>1 DEF RequestInv, UserPCs, UserHolders, At
  <1>3. st.pc = req[r].pc /\ st.uid = req[r].uid /\ st.secret = req[r].secret
    BY <1>1 DEF RequestState
  <1>4. st.pending = req[r].pending \ {s}
    BY <1>1 DEF RequestState
  <1>5. req'[r] = st
    BY DEF LockPending, Become, Inv, TypeOK
  <1> HIDE DEF st
  <1>6. UserOf(r)' = u
    BY <1>2, <1>3, <1>5 DEF UserOf
  <1>7. /\ UNCHANGED <<userLock, userState, hash>>
        /\ LiveSessions(u)' = LiveSessions(u) /\ SessionsOf(u)' = SessionsOf(u)
    BY DEF LockPending, NoWrites, storeVars, userVars, sessionVars, LiveSessions,
           SessionsOf, SessionRow, Live
  <1>8. /\ LiveSessions(UserOf(r))' = LiveSessions(u)
        /\ SessionsOf(UserOf(r))' = SessionsOf(u)
    BY <1>6, <1>7 DEF LiveSessions, SessionsOf
  <1>9. Locked(r)' = Locked(r) \cup {s}
    BY <1>1, ServiceAssumption DEF LockPending, LockSession, Locked, Inv, TypeOK
  <1>10. req'[r].pending \cup Locked(r)' = req[r].pending \cup Locked(r)
    BY <1>1, <1>4, <1>5, <1>9
  <1>11. /\ At(r, "changeLocks") => LiveSessions(u) \subseteq req[r].pending \cup Locked(r)
         /\ At(r, "deleteLocks") => SessionsOf(u) = req[r].pending \cup Locked(r)
    BY <1>1, <1>2 DEF RequestInv
  <1>12. QED
    BY <1>1, <1>2, <1>3, <1>5, <1>6, <1>7, <1>8, <1>10, <1>11
    DEF RequestInv, At, UserRow, SessionHolders, Locked

LEMMA StepInv ==
  ASSUME Inv, NEW r \in Requests, Step(r) \/ Abort(r)
  PROVE  RequestInv(r)'
  <1>1. req[r] \in RequestState /\ RequestInv(r)
    BY DEF Inv, TypeOK
  <1>2. ASSUME RefreshLock(r) PROVE RequestInv(r)'
    <2> DEFINE st == [req[r] EXCEPT !.pc = "refreshRead"]
    <2>1. st.pc = "refreshRead"
      BY <1>1 DEF RequestState
    <2>2. CASE Become(r, st)
      <3>1. req'[r] = st
        BY <2>2 DEF Become, Inv, TypeOK
      <3> HIDE DEF st
      <3>2. QED
        BY <2>1, <3>1, ModestInv DEF UserHolders, UserPCs, SessionHolders
    <2>3. QED
      BY <1>2, <2>2, EndInv DEF RefreshLock
  <1>3. ASSUME RefreshRead(r) PROVE RequestInv(r)'
    <2>1. ASSUME NEW pc \in {"refreshReplay", "refreshRotate"},
                 Become(r, [req[r] EXCEPT !.pc = pc, !.at = now])
          PROVE  RequestInv(r)'
      <3> DEFINE st == [req[r] EXCEPT !.pc = pc, !.at = now]
      <3>1. st.pc = pc
        BY <1>1 DEF RequestState
      <3>2. req'[r] = st
        BY <2>1 DEF Become, Inv, TypeOK
      <3> HIDE DEF st
      <3>3. QED
        BY <2>1, <3>1, <3>2, ModestInv DEF UserHolders, UserPCs, SessionHolders
    <2>2. QED
      BY <1>3, <2>1, EndInv DEF RefreshRead
  <1>4. ASSUME GuardUser(r) PROVE RequestInv(r)'
    <2>1. UserOf(r) \in Users /\ Locked(r)' = {}
      BY <1>1, <1>4 DEF GuardUser, RequestInv, UserPCs, SessionHolders, Locked, At
    <2>2. ASSUME NEW pc \in {"changeVerify", "signOut", "deleteLock"},
                 Become(r, [req[r] EXCEPT !.pc = pc])
          PROVE  RequestInv(r)'
      <3> DEFINE st == [req[r] EXCEPT !.pc = pc]
      <3>1. st.pc = pc /\ st.uid = req[r].uid
        BY <1>1 DEF RequestState
      <3>2. req'[r] = st
        BY <2>2 DEF Become, Inv, TypeOK
      <3> HIDE DEF st
      <3>3. QED
        BY <2>1, <2>2, <3>1, <3>2, ModestInv DEF UserHolders, UserOf
    <2>3. CASE Become(r, Idle)
      BY <2>1, <2>3, IdleFields, ModestInv DEF Become, Inv, TypeOK, UserHolders, UserPCs
    <2>4. QED
      BY <1>4, <2>2, <2>3 DEF GuardUser
  <1>5. QED
    BY <1>2, <1>3, <1>4, EndInv, TakesUserLock, SweepBegins, DeletionBegins, SweepGoesOn
    DEF Step, Abort, SignUpCommit, SignInRefuse, SignInCommit, RefreshReplayCommit,
        RefreshRotateCommit, ChangeRefuse, ChangeCommit, SignOut, DeleteCommit

\* Live sessions keep answering to the current password of an existing account.
LEMMA LiveInv ==
  ASSUME Inv, NEW r \in Requests, Start(r) \/ Step(r) \/ Abort(r)
  PROVE  LiveSessionsUseCurrentPassword'
  <1> USE DEF LiveSessionsUseCurrentPassword, Live, UserRow
  <1>1. TypeOK /\ RequestInv(r) /\ LiveSessionsUseCurrentPassword
    BY DEF Inv
  <1>2. ASSUME NoWrites PROVE LiveSessionsUseCurrentPassword'
    BY <1>1, <1>2 DEF NoWrites, storeVars, userVars, sessionVars
  <1>3. ASSUME NEW s \in Sessions, NEW d \in Digests, SignUpCommit(r, s, d)
        PROVE  LiveSessionsUseCurrentPassword'
    <2>1. UserOf(r) \in Users
      BY <1>1, <1>3 DEF SignUpCommit, RequestInv, UserPCs, At
    <2>2. QED
      BY <1>1, <1>3, <2>1
      DEF SignUpCommit, InsertUser, InsertSession, TypeOK, StoreTypeOK
  <1>4. ASSUME NEW s \in Sessions, NEW d \in Digests, SignInCommit(r, s, d)
        PROVE  LiveSessionsUseCurrentPassword'
    <2>1. UserOf(r) \in Users /\ UserRow(UserOf(r)) /\ hash[UserOf(r)] = req[r].secret
      BY <1>1, <1>4 DEF SignInCommit, RequestInv, UserPCs, UserHolders, At
    <2>2. QED
      BY <1>1, <1>4, <2>1 DEF SignInCommit, InsertSession, TypeOK, StoreTypeOK, userVars
  <1>5. ASSUME NEW n \in Digests, RefreshRotateCommit(r, n)
        PROVE  LiveSessionsUseCurrentPassword'
    BY <1>1, <1>5 DEF RefreshRotateCommit, RotateDigest, sessionVars, userVars
  <1>6. ASSUME NEW S, RevokeSessions(S), UNCHANGED userVars
        PROVE  LiveSessionsUseCurrentPassword'
    BY <1>1, <1>6 DEF RevokeSessions, userVars
  <1>7. ASSUME NEW p \in Passwords, ChangeCommit(r, p)
        PROVE  LiveSessionsUseCurrentPassword'
    <2>1. LiveSessions(UserOf(r)) \subseteq Locked(r)
      BY <1>1, <1>7 DEF ChangeCommit, RequestInv
    <2>2. QED
      BY <1>1, <1>7, <2>1
      DEF ChangeCommit, UpdateHash, RevokeSessions, LiveSessions, SessionsOf, SessionRow,
          TypeOK, StoreTypeOK
  <1>8. ASSUME DeleteCommit(r)
        PROVE  LiveSessionsUseCurrentPassword'
    <2>1. SessionsOf(UserOf(r)) = Locked(r)
      BY <1>1, <1>8 DEF DeleteCommit, RequestInv
    <2>2. QED
      BY <1>1, <1>8, <2>1
      DEF DeleteCommit, DeleteUser, SessionsOf, SessionRow, TypeOK, StoreTypeOK
  <1> HIDE DEF LiveSessionsUseCurrentPassword, Live, UserRow
  <1>9. CASE Start(r)
    BY <1>2, <1>9 DEF Start, SignUpRegister, SignInFind, RefreshFind, GuardSession
  <1>10. CASE Step(r)
    BY <1>2, <1>3, <1>4, <1>5, <1>6, <1>7, <1>8, <1>10
    DEF Step, SignInVerify, SignInRefuse, RefreshLock, RefreshRead, RefreshReplayCommit,
        GuardUser, ChangeVerify, ChangeRefuse, ChangeRevoke, LockPending,
        SignOut, DeleteLock
  <1>11. CASE Abort(r)
    BY <1>2, <1>11 DEF Abort
  <1>12. QED
    BY <1>9, <1>10, <1>11

LEMMA InvInit == Init => Inv
  <1> SUFFICES ASSUME Init PROVE Inv
    OBVIOUS
  <1>1. TypeOK
    BY TypeInit
  <1>2. ASSUME NEW q \in Requests PROVE RequestInv(q)
    <2>1. req[q].pc = "idle" /\ Locked(q) = {}
      BY IdleFields, ServiceAssumption DEF Init, Locked
    <2>2. QED
      BY <2>1 DEF RequestInv, UserPCs, UserHolders, At
  <1>3. LiveSessionsUseCurrentPassword
    BY DEF Init, StoreInit, LiveSessionsUseCurrentPassword, Live
  <1>4. QED
    BY <1>1, <1>2, <1>3 DEF Inv

LEMMA InvStep == Inv /\ [Next]_vars => Inv'
  <1> SUFFICES ASSUME Inv, [Next]_vars PROVE Inv'
    OBVIOUS
  <1>1. TypeOK'
    BY TypeStep DEF Inv
  <1>2. ASSUME NEW r \in Requests, Start(r) \/ Step(r) \/ Abort(r) PROVE Inv'
    <2>1. \A q \in Requests : RequestInv(q)'
      BY <1>2, StartInv, StepInv, OthersInv
    <2>2. QED
      BY <1>1, <1>2, <2>1, LiveInv DEF Inv
  <1>3. ASSUME UNCHANGED <<userVars, sessionVars, requestVars>> PROVE Inv'
    <2>1. \A q \in Requests : RequestInv(q)'
      BY <1>3
      DEF Inv, RequestInv, userVars, sessionVars, requestVars, UserOf, Locked, UserRow, At,
          LiveSessions, SessionsOf, SessionRow, Live
    <2>2. LiveSessionsUseCurrentPassword'
      BY <1>3 DEF Inv, LiveSessionsUseCurrentPassword, userVars, sessionVars, UserRow, Live
    <2>3. QED
      BY <1>1, <2>1, <2>2 DEF Inv
  <1>4. QED
    BY <1>2, <1>3 DEF Next, PurgeCutoff, PurgeBatch, Clock, Tick, vars, storeVars

\* For every number of users, sessions and requests: no live session was opened
\* with a password that is not its account's any more, what a transaction has
\* verified under its locks stays true until it ends, and no session escapes the
\* sweep of a password change or a deletion.
THEOREM CredentialsCorrect == Spec => []CredentialsInv
  <1>1. Inv => CredentialsInv
    BY InvIsCredentialsInv
  <1>2. QED
    BY <1>1, InvInit, InvStep, PTL DEF Spec

\* A sign-in that races a password change leaves no session under the old one.
THEOREM LiveSessionsCorrect == Spec => []LiveSessionsUseCurrentPassword
  <1>1. CredentialsInv => LiveSessionsUseCurrentPassword
    BY DEF CredentialsInv
  <1>2. QED
    BY <1>1, CredentialsCorrect, PTL

\* No password update is lost and none happens under a sign-in being issued.
THEOREM VerifiedPasswordCorrect == Spec => []VerifiedPasswordStays
  <1>1. CredentialsInv => VerifiedPasswordStays
    BY DEF CredentialsInv
  <1>2. QED
    BY <1>1, CredentialsCorrect, PTL

\* No session of the account appears behind a sweep that is under way.
THEOREM SweepCorrect == Spec => []NoSessionEscapes
  <1>1. CredentialsInv => NoSessionEscapes
    BY DEF CredentialsInv
  <1>2. QED
    BY <1>1, CredentialsCorrect, PTL
-----------------------------------------------------------------------------
\* Refresh tokens: the rotation invariants, and that statement by statement the
\* service implements AuthLedger.  What a request has read under its row locks
\* stays true, so its commit is a step of the ledger; the ledger's steps keep the
\* tables sound; so what requests read is sound.

\* The inductive invariant.

\* Every digest was issued to a session, whose row is there as long as its own.
FamilyInv ==
    \A d \in Digests : digestState[d] # "unused" =>
       /\ family[d] \in Sessions
       /\ sessionState[family[d]] # "unused"
       /\ DigestRow(d) => SessionRow(family[d])

\* The tables alone.
LedgerInv == FamilyInv /\ OneCurrentDigest /\ PurgeKeepsReplayEvidence

\* A refresh remembers the session of its digest, and holds the lock of its row
\* from the read on.
RefreshPCs == {"refreshLock", "refreshRead", "refreshReplay", "refreshRotate"}

RefreshHolders == RefreshPCs \ {"refreshLock"}

RefreshInv(q) ==
    /\ req[q].pc \in RefreshPCs =>
          /\ DigOf(q) \in Digests
          /\ digestState[DigOf(q)] # "unused"
          /\ SessOf(q) = family[DigOf(q)]
    /\ req[q].pc \in RefreshHolders => sessionLock[SessOf(q)] = q
    /\ At(q, "refreshRotate") =>
          /\ digestState[DigOf(q)] = "current"
          /\ digestExp[DigOf(q)] > TimeOf(q)
          /\ Live(SessOf(q))

\* A token was refused for a reason that lasts.
Spent(d) ==
    \/ digestState[d] = "deleted"
    \/ ~Live(family[d])
    \/ digestState[d] = "retired" /\ ~InWindow(d, now)
    \/ /\ digestState[d] = "current" /\ digestExp[d] <= now
       /\ \A q \in Requests : At(q, "refreshRotate") => DigOf(q) # d

DeniedInv(q) ==
    At(q, "denied") =>
       /\ DigOf(q) \in Digests
       /\ digestState[DigOf(q)] # "unused"
       /\ Spent(DigOf(q))

\* What the ledger asks of a sign-up, a sign-in and a password change, beyond
\* CredentialsInv.
CommitInv(q) ==
    /\ At(q, "signUpIssue") \/ At(q, "signInIssue") => req[q].secret \in Passwords
    /\ At(q, "changeLocks") =>
          \A s \in req[q].pending \cup Locked(q) :
             sessionState[s] # "unused" /\ owner[s] = UserOf(q)
    /\ At(q, "guardUser") \/ At(q, "signOut") => SessOf(q) \in Sessions

RotationInv ==
    /\ LedgerInv
    /\ \A q \in Requests : RefreshInv(q) /\ DeniedInv(q) /\ CommitInv(q)

-----------------------------------------------------------------------------
\* The steps of the ledger, from the row operations of AuthStore.

LEMMA LedgerSignUp ==
  ASSUME NEW u \in Users, NEW p \in Passwords, NEW s \in Sessions, NEW d \in Digests,
         NEW t \in 0 .. now, InsertUser(u, p), InsertSession(u, p, s, d, t), UNCHANGED now
  PROVE  Ledger!Next
  <1>1. Ledger!SignUp(u, p, s, d, t)
    BY DEF Ledger!SignUp, Ledger!InsertUser, InsertUser, Ledger!EmailTaken, EmailTaken,
           Ledger!UserRow, UserRow, Ledger!InsertSession, InsertSession,
           Ledger!RefreshExpiry, RefreshExpiry
  <1>2. QED
    BY <1>1 DEF Ledger!Next

LEMMA LedgerSignIn ==
  ASSUME NEW u \in Users, NEW p \in Passwords, NEW s \in Sessions, NEW d \in Digests,
         NEW t \in 0 .. now, UserRow(u), hash[u] = p, InsertSession(u, p, s, d, t),
         UNCHANGED <<now, userVars>>
  PROVE  Ledger!Next
  <1>1. Ledger!SignIn(u, p, s, d, t)
    BY DEF Ledger!SignIn, Ledger!UserRow, UserRow, Ledger!InsertSession, InsertSession,
           Ledger!RefreshExpiry, RefreshExpiry, Ledger!userVars, userVars
  <1>2. QED
    BY <1>1 DEF Ledger!Next

LEMMA LedgerRefresh ==
  ASSUME NEW d \in Digests, NEW n \in Digests, NEW t \in 0 .. now,
         digestState[d] = "current", t < digestExp[d], Live(family[d]),
         RotateDigest(family[d], d, n, t), UNCHANGED <<now, userVars>>
  PROVE  Ledger!Next
  <1>1. Ledger!Refresh(d, n, t)
    BY DEF Ledger!Refresh, Ledger!Live, Live, Ledger!RotateDigest, RotateDigest,
           Ledger!RefreshExpiry, RefreshExpiry, Ledger!userVars, userVars
  <1>2. QED
    BY <1>1 DEF Ledger!Next

\* To revoke a session that is not live is to do nothing.
LEMMA RevokeDead ==
  ASSUME TypeOK, NEW s \in Sessions, ~Live(s), RevokeSessions({s})
  PROVE  UNCHANGED sessionVars
  BY DEF TypeOK, StoreTypeOK, RevokeSessions, Live, sessionVars

LEMMA LedgerRevoke ==
  ASSUME TypeOK, NEW s \in Sessions, RevokeSessions({s}),
         UNCHANGED <<now, userVars, digestVars>>
  PROVE  Ledger!Next \/ UNCHANGED storeVars
  <1>1. CASE Live(s)
    <2>1. Ledger!Revoke(s)
      BY <1>1 DEF Ledger!Revoke, Ledger!Live, Live, Ledger!RevokeSessions, RevokeSessions,
                  Ledger!userVars, userVars, Ledger!digestVars, digestVars
    <2>2. QED
      BY <2>1 DEF Ledger!Next
  <1>2. CASE ~Live(s)
    BY <1>2, RevokeDead DEF storeVars
  <1>3. QED
    BY <1>1, <1>2

\* Revoking S is revoking the live sessions of u when S has all of them and
\* sessions of u only.
LEMMA LedgerChangePassword ==
  ASSUME NEW u \in Users, NEW p \in Passwords, NEW S \in SUBSET Sessions,
         UserRow(u), p # hash[u], UpdateHash(u, p), RevokeSessions(S),
         LiveSessions(u) \subseteq S, \A s \in S : owner[s] = u,
         UNCHANGED <<now, digestVars>>
  PROVE  Ledger!Next
  <1>1. \A s \in Sessions : s \in S /\ Live(s) <=> s \in LiveSessions(u) /\ Live(s)
    BY DEF LiveSessions, SessionsOf, SessionRow, Live
  <1>2. RevokeSessions(LiveSessions(u))
    BY <1>1 DEF RevokeSessions
  <1>3. LiveSessions(u) = Ledger!LiveSessions(u)
    BY DEF LiveSessions, Ledger!LiveSessions, SessionsOf, Ledger!SessionsOf,
           SessionRow, Ledger!SessionRow, Live, Ledger!Live
  <1>4. Ledger!ChangePassword(u, p)
    BY <1>2, <1>3
    DEF Ledger!ChangePassword, Ledger!UserRow, UserRow, Ledger!UpdateHash, UpdateHash,
        Ledger!RevokeSessions, RevokeSessions, Ledger!Live, Live,
        Ledger!digestVars, digestVars
  <1>5. QED
    BY <1>4 DEF Ledger!Next

LEMMA LedgerDeleteAccount ==
  ASSUME NEW u \in Users, UserRow(u), DeleteUser(u, SessionsOf(u)), UNCHANGED now
  PROVE  Ledger!Next
  <1>1. SessionsOf(u) = Ledger!SessionsOf(u)
    BY DEF SessionsOf, Ledger!SessionsOf, SessionRow, Ledger!SessionRow
  <1>2. DigestsOf(SessionsOf(u)) = Ledger!DigestsOf(Ledger!SessionsOf(u))
    BY <1>1 DEF DigestsOf, Ledger!DigestsOf, DigestRow, Ledger!DigestRow
  <1>3. Ledger!DeleteAccount(u)
    BY <1>1, <1>2
    DEF Ledger!DeleteAccount, Ledger!UserRow, UserRow, Ledger!DeleteUser, DeleteUser
  <1>4. QED
    BY <1>3 DEF Ledger!Next
-----------------------------------------------------------------------------
\* What a step of the ledger does to sessions and digests.

Issues(s, d, t) == \E u, p : InsertSession(u, p, s, d, t) /\ UNCHANGED now

Rotates(d, n, t) ==
    /\ digestState[d] = "current" /\ t < digestExp[d] /\ Live(family[d])
    /\ RotateDigest(family[d], d, n, t)
    /\ UNCHANGED now

Revokes(S) == RevokeSessions(S) /\ UNCHANGED <<now, digestVars>>

Deletes(S) ==
    /\ sessionState' = [s \in Sessions |-> IF s \in S THEN "deleted" ELSE sessionState[s]]
    /\ digestState' = [d \in Digests |->
                         IF d \in DigestsOf(S) THEN "deleted" ELSE digestState[d]]
    /\ UNCHANGED <<now, owner, sessionExp, opened, family, digestExp>>

Forgets(X) ==
    /\ \A d \in X : ~InWindow(d, now) /\ digestState[d] = "retired"
    /\ DeleteDigests(X)
    /\ UNCHANGED <<now, sessionVars>>

LedgerEvent ==
    \/ now' = now + 1 /\ UNCHANGED <<sessionVars, digestVars>>
    \/ \E s \in Sessions, d \in Digests, t \in 0 .. now : Issues(s, d, t)
    \/ \E d, n \in Digests, t \in 0 .. now : Rotates(d, n, t)
    \/ \E S \in SUBSET Sessions : Revokes(S) \/ Deletes(S)
    \/ \E X \in SUBSET Digests : Forgets(X)

LEMMA LedgerCases == Ledger!Next => LedgerEvent
  <1> SUFFICES ASSUME Ledger!Next PROVE LedgerEvent
    OBVIOUS
  <1>1. CASE Ledger!Tick
    BY <1>1 DEF Ledger!Tick, LedgerEvent, Ledger!sessionVars, sessionVars,
                Ledger!digestVars, digestVars
  <1>2. ASSUME NEW s \in Sessions, NEW d \in Digests, NEW t \in 0 .. now,
               NEW p \in Passwords, NEW u \in Users,
               Ledger!SignUp(u, p, s, d, t) \/ Ledger!SignIn(u, p, s, d, t)
        PROVE  LedgerEvent
    <2>1. Issues(s, d, t)
      BY <1>2 DEF Ledger!SignUp, Ledger!SignIn, Ledger!InsertSession, InsertSession,
                  Ledger!RefreshExpiry, RefreshExpiry, Issues
    <2>2. QED
      BY <2>1 DEF LedgerEvent
  <1>3. ASSUME NEW d \in Digests, NEW n \in Digests, NEW t \in 0 .. now,
               Ledger!Refresh(d, n, t)
        PROVE  LedgerEvent
    <2>1. Rotates(d, n, t)
      BY <1>3 DEF Ledger!Refresh, Ledger!Live, Live, Ledger!RotateDigest, RotateDigest,
                  Ledger!RefreshExpiry, RefreshExpiry, Rotates
    <2>2. QED
      BY <2>1 DEF LedgerEvent
  <1>4. ASSUME NEW s \in Sessions, Ledger!Revoke(s) PROVE LedgerEvent
    <2>1. Revokes({s})
      BY <1>4 DEF Ledger!Revoke, Ledger!Live, Live, Ledger!RevokeSessions, RevokeSessions,
                  Ledger!digestVars, digestVars, Revokes
    <2>2. QED
      BY <2>1 DEF LedgerEvent
  <1>5. ASSUME NEW u \in Users, NEW p \in Passwords, Ledger!ChangePassword(u, p)
        PROVE  LedgerEvent
    <2>1. Revokes(Ledger!LiveSessions(u))
      BY <1>5 DEF Ledger!ChangePassword, Ledger!Live, Live, Ledger!RevokeSessions,
                  RevokeSessions, Ledger!digestVars, digestVars, Revokes
    <2>2. QED
      BY <2>1 DEF LedgerEvent, Ledger!LiveSessions, Ledger!SessionsOf
  <1>6. ASSUME NEW u \in Users, Ledger!DeleteAccount(u) PROVE LedgerEvent
    <2>1. Deletes(Ledger!SessionsOf(u))
      BY <1>6 DEF Ledger!DeleteAccount, Ledger!DeleteUser, Ledger!DigestsOf, DigestsOf,
                  Ledger!DigestRow, DigestRow, Deletes
    <2>2. QED
      BY <2>1 DEF LedgerEvent, Ledger!SessionsOf
  <1>7. ASSUME NEW X \in SUBSET Digests, Ledger!Forget(X) PROVE LedgerEvent
    <2>1. Forgets(X)
      BY <1>7 DEF Ledger!Forget, Ledger!InWindow, InWindow, Ledger!DeleteDigests,
                  DeleteDigests, Ledger!sessionVars, sessionVars, Forgets
    <2>2. QED
      BY <2>1 DEF LedgerEvent
  <1>8. QED
    BY <1>1, <1>2, <1>3, <1>4, <1>5, <1>6, <1>7 DEF Ledger!Next

\* The types the lemmas below use.
LEMMA StoreTypes ==
  TypeOK => /\ now \in Nat
            /\ sessionState \in [Sessions -> {"unused", "live", "revoked", "deleted"}]
            /\ owner \in [Sessions -> Users \cup {None}]
            /\ sessionExp \in [Sessions -> Nat]
            /\ digestState \in [Digests -> {"unused", "current", "retired", "deleted"}]
            /\ family \in [Digests -> Sessions \cup {None}]
            /\ digestExp \in [Digests -> Nat]
  BY NowNat, TtlAssumption DEF TypeOK, StoreTypeOK

\* What has been issued keeps its session, owner and expiry, and what has ended
\* does not begin again.
Lasting ==
    /\ now' \in Nat /\ now <= now'
    /\ \A d \in Digests : digestState[d] # "unused" =>
          /\ digestState'[d] # "unused"
          /\ family'[d] = family[d] /\ digestExp'[d] = digestExp[d]
          /\ digestState[d] = "deleted" => digestState'[d] = "deleted"
          /\ digestState[d] = "retired" => digestState'[d] \in {"retired", "deleted"}
    /\ \A s \in Sessions : sessionState[s] # "unused" =>
          /\ sessionState'[s] # "unused"
          /\ owner'[s] = owner[s]
          /\ ~Live(s) => ~Live(s)'
          /\ SessionRow(s)' => SessionRow(s)

LEMMA EventsLast ==
  ASSUME TypeOK, FamilyInv, LedgerEvent
  PROVE  Lasting
  <1> USE StoreTypes DEF Live, SessionRow
  <1>1. CASE now' = now + 1 /\ UNCHANGED <<sessionVars, digestVars>>
    BY <1>1 DEF Lasting, sessionVars, digestVars
  <1>2. ASSUME NEW s \in Sessions, NEW d \in Digests, NEW t \in 0 .. now, Issues(s, d, t)
        PROVE  Lasting
    BY <1>2 DEF Lasting, Issues, InsertSession
  <1>3. ASSUME NEW d \in Digests, NEW n \in Digests, NEW t \in 0 .. now, Rotates(d, n, t)
        PROVE  Lasting
    BY <1>3 DEF Lasting, Rotates, RotateDigest, FamilyInv
  <1>4. ASSUME NEW S \in SUBSET Sessions, Revokes(S) PROVE Lasting
    BY <1>4 DEF Lasting, Revokes, RevokeSessions, digestVars
  <1>5. ASSUME NEW S \in SUBSET Sessions, Deletes(S) PROVE Lasting
    BY <1>5 DEF Lasting, Deletes, DigestsOf, DigestRow
  <1>6. ASSUME NEW X \in SUBSET Digests, Forgets(X) PROVE Lasting
    BY <1>6 DEF Lasting, Forgets, DeleteDigests, sessionVars
  <1>7. QED
    BY <1>1, <1>2, <1>3, <1>4, <1>5, <1>6 DEF LedgerEvent
\* Rows of digests never outlive those of their sessions.
LEMMA FamilyStep ==
  ASSUME TypeOK, FamilyInv, LedgerEvent
  PROVE  FamilyInv'
  <1> USE StoreTypes DEF FamilyInv, DigestRow, SessionRow
  <1>1. CASE now' = now + 1 /\ UNCHANGED <<sessionVars, digestVars>>
    BY <1>1 DEF sessionVars, digestVars
  <1>2. ASSUME NEW s \in Sessions, NEW d \in Digests, NEW t \in 0 .. now, Issues(s, d, t)
        PROVE  FamilyInv'
    BY <1>2 DEF Issues, InsertSession
  <1>3. ASSUME NEW d \in Digests, NEW n \in Digests, NEW t \in 0 .. now, Rotates(d, n, t)
        PROVE  FamilyInv'
    BY <1>3 DEF Rotates, RotateDigest, Live
  <1>4. ASSUME NEW S \in SUBSET Sessions, Revokes(S) PROVE FamilyInv'
    BY <1>4 DEF Revokes, RevokeSessions, Live, digestVars
  <1>5. ASSUME NEW S \in SUBSET Sessions, Deletes(S) PROVE FamilyInv'
    BY <1>5 DEF Deletes, DigestsOf
  <1>6. ASSUME NEW X \in SUBSET Digests, Forgets(X) PROVE FamilyInv'
    BY <1>6 DEF Forgets, DeleteDigests, sessionVars
  <1>7. QED
    BY <1>1, <1>2, <1>3, <1>4, <1>5, <1>6 DEF LedgerEvent

\* A rotation replaces the one current digest of its session, and the purge and
\* the revocations leave current digests alone.
Currents(s) == {d \in Digests : digestState[d] = "current" /\ family[d] = s}

LEMMA OneCurrent ==
  OneCurrentDigest <=>
    \A s \in Sessions : SessionRow(s) =>
       \E d \in Digests : Currents(s) = {d} /\ digestExp[d] = sessionExp[s]
  BY DEF OneCurrentDigest, Currents

LEMMA OneCurrentStep ==
  ASSUME TypeOK, FamilyInv, OneCurrentDigest, LedgerEvent
  PROVE  OneCurrentDigest'
  <1> USE StoreTypes DEF SessionRow
  <1> SUFFICES ASSUME NEW s \in Sessions, SessionRow(s)'
               PROVE  \E d \in Digests : Currents(s)' = {d} /\ digestExp'[d] = sessionExp'[s]
    BY DEF OneCurrentDigest, Currents
  <1>1. ASSUME SessionRow(s), Currents(s)' = Currents(s), sessionExp'[s] = sessionExp[s]
        PROVE  \E d \in Digests : Currents(s)' = {d} /\ digestExp'[d] = sessionExp'[s]
    <2>1. PICK d \in Digests : Currents(s) = {d} /\ digestExp[d] = sessionExp[s]
      BY <1>1, OneCurrent
    <2>2. digestState[d] # "unused"
      BY <2>1 DEF Currents
    <2>3. digestExp'[d] = digestExp[d]
      BY <2>2, EventsLast DEF Lasting
    <2>4. QED
      BY <1>1, <2>1, <2>3
  <1>2. CASE now' = now + 1 /\ UNCHANGED <<sessionVars, digestVars>>
    BY <1>1, <1>2 DEF Currents, sessionVars, digestVars
  <1>3. ASSUME NEW x \in Sessions, NEW d \in Digests, NEW t \in 0 .. now, Issues(x, d, t)
        PROVE  \E e \in Digests : Currents(s)' = {e} /\ digestExp'[e] = sessionExp'[s]
    <2>1. CASE x = s
      <3>1. Currents(s) = {}
        BY <1>3, <2>1 DEF Issues, InsertSession, FamilyInv, Currents
      <3>2. Currents(s)' = {d}
        BY <1>3, <2>1, <3>1 DEF Issues, InsertSession, Currents
      <3>3. digestExp'[d] = sessionExp'[s]
        BY <1>3, <2>1 DEF Issues, InsertSession
      <3>4. QED
        BY <3>2, <3>3
    <2>2. CASE x # s
      BY <1>1, <1>3, <2>2 DEF Issues, InsertSession, Currents
    <2>3. QED
      BY <2>1, <2>2
  <1>4. ASSUME NEW d \in Digests, NEW n \in Digests, NEW t \in 0 .. now, Rotates(d, n, t)
        PROVE  \E e \in Digests : Currents(s)' = {e} /\ digestExp'[e] = sessionExp'[s]
    <2>1. SessionRow(s) /\ n # d
      BY <1>4 DEF Rotates, RotateDigest
    <2>2. CASE family[d] = s
      <3>1. Currents(s) = {d}
        BY <1>4, <2>1, <2>2, OneCurrent DEF Rotates, Currents
      <3>2. Currents(s)' = {n}
        BY <1>4, <2>1, <2>2, <3>1 DEF Rotates, RotateDigest, Currents
      <3>3. digestExp'[n] = sessionExp'[s]
        BY <1>4, <2>2 DEF Rotates, RotateDigest
      <3>4. QED
        BY <3>2, <3>3
    <2>3. CASE family[d] # s
      BY <1>1, <1>4, <2>1, <2>3 DEF Rotates, RotateDigest, Currents
    <2>4. QED
      BY <2>2, <2>3
  <1>5. ASSUME NEW S \in SUBSET Sessions, Revokes(S)
        PROVE  \E e \in Digests : Currents(s)' = {e} /\ digestExp'[e] = sessionExp'[s]
    BY <1>1, <1>5 DEF Revokes, RevokeSessions, Live, Currents, digestVars
  <1>6. ASSUME NEW S \in SUBSET Sessions, Deletes(S)
        PROVE  \E e \in Digests : Currents(s)' = {e} /\ digestExp'[e] = sessionExp'[s]
    BY <1>1, <1>6 DEF Deletes, DigestsOf, DigestRow, Currents
  <1>7. ASSUME NEW X \in SUBSET Digests, Forgets(X)
        PROVE  \E e \in Digests : Currents(s)' = {e} /\ digestExp'[e] = sessionExp'[s]
    BY <1>1, <1>7 DEF Forgets, DeleteDigests, Currents, sessionVars
  <1>8. QED
    BY <1>2, <1>3, <1>4, <1>5, <1>6, <1>7 DEF LedgerEvent

\* Evidence that is gone had lost its value, and does not regain it.
LEMMA WindowPasses ==
  ASSUME TypeOK, FamilyInv, LedgerEvent, NEW d \in Digests, digestState[d] # "unused",
         ~InWindow(d, now)
  PROVE  ~InWindow(d, now)'
  BY StoreTypes, TtlAssumption, EventsLast DEF Lasting, InWindow

LEMMA EvidenceStep ==
  ASSUME TypeOK, FamilyInv, PurgeKeepsReplayEvidence, LedgerEvent
  PROVE  PurgeKeepsReplayEvidence'
  <1> USE StoreTypes
  <1> SUFFICES ASSUME NEW d \in Digests, digestState'[d] = "deleted", SessionRow(family[d])'
               PROVE  ~InWindow(d, now)'
    BY DEF PurgeKeepsReplayEvidence
  <1>1. digestState[d] # "unused"
    BY DEF LedgerEvent, Issues, InsertSession, Rotates, RotateDigest, Revokes, Deletes,
           DigestsOf, DigestRow, Forgets, DeleteDigests, digestVars
  <1>2. family'[d] = family[d] /\ family[d] \in Sessions /\ SessionRow(family[d])
    <2>1. family[d] \in Sessions /\ sessionState[family[d]] # "unused"
      BY <1>1 DEF FamilyInv
    <2>2. family'[d] = family[d]
      BY <1>1, EventsLast DEF Lasting
    <2>3. SessionRow(family[d])'
      BY <2>2 DEF SessionRow
    <2>4. SessionRow(family[d])
      BY <2>1, <2>2, <2>3, EventsLast DEF Lasting, SessionRow
    <2>5. QED
      BY <2>1, <2>2, <2>4
  <1>3. CASE digestState[d] = "deleted"
    BY <1>1, <1>2, <1>3, WindowPasses DEF PurgeKeepsReplayEvidence
  <1>4. CASE digestState[d] # "deleted"
    <2>1. ASSUME NEW S \in SUBSET Sessions, Deletes(S) PROVE FALSE
      BY <1>1, <1>2, <1>4, <2>1 DEF Deletes, DigestsOf, SessionRow
    <2>2. \E X \in SUBSET Digests : Forgets(X)
      BY <1>4, <2>1
      DEF LedgerEvent, Issues, InsertSession, Rotates, RotateDigest, Revokes, digestVars
    <2>3. ~InWindow(d, now)
      BY <1>4, <2>2 DEF Forgets, DeleteDigests
    <2>4. QED
      BY <1>1, <2>3, WindowPasses
  <1>5. QED
    BY <1>3, <1>4

LEMMA LedgerStep ==
  ASSUME TypeOK, LedgerInv, LedgerEvent
  PROVE  LedgerInv'
  BY FamilyStep, OneCurrentStep, EvidenceStep DEF LedgerInv
-----------------------------------------------------------------------------
\* Every commit of a request is a step of the ledger; its other statements are
\* none.

LEMMA TimeTyped ==
  ASSUME TypeOK, NEW r \in Requests
  PROVE  TimeOf(r) \in 0 .. now
  BY NowNat DEF TypeOK, TimeOf, RequestState

LedgerStepOrNone == Ledger!Next \/ UNCHANGED storeVars

LEMMA CommitsImplement ==
  ASSUME Inv, RotationInv, NEW r \in Requests, Start(r) \/ Step(r) \/ Abort(r)
  PROVE  LedgerStepOrNone
  <1>1. /\ TypeOK /\ req[r] \in RequestState /\ TimeOf(r) \in 0 .. now
        /\ RequestInv(r) /\ RefreshInv(r) /\ CommitInv(r)
    BY TimeTyped DEF Inv, TypeOK, RotationInv
  <1>2. ASSUME NEW s \in Sessions, NEW d \in Digests, SignUpCommit(r, s, d) PROVE LedgerStepOrNone
    <2>1. UserOf(r) \in Users /\ req[r].secret \in Passwords
      BY <1>1, <1>2 DEF SignUpCommit, At, RequestInv, UserPCs, CommitInv
    <2>2. QED
      BY <1>1, <1>2, <2>1, LedgerSignUp DEF SignUpCommit, LedgerStepOrNone
  <1>3. ASSUME NEW s \in Sessions, NEW d \in Digests, SignInCommit(r, s, d) PROVE LedgerStepOrNone
    <2>1. UserOf(r) \in Users /\ req[r].secret \in Passwords
      BY <1>1, <1>3 DEF SignInCommit, At, RequestInv, UserPCs, UserHolders, CommitInv
    <2>2. UserRow(UserOf(r)) /\ hash[UserOf(r)] = req[r].secret
      BY <1>1, <1>3 DEF SignInCommit, At, RequestInv, UserHolders
    <2>3. QED
      BY <1>1, <1>3, <2>1, <2>2, LedgerSignIn DEF SignInCommit, LedgerStepOrNone
  <1>4. ASSUME NEW n \in Digests, RefreshRotateCommit(r, n) PROVE LedgerStepOrNone
    <2>1. /\ DigOf(r) \in Digests /\ SessOf(r) = family[DigOf(r)] /\ Live(SessOf(r))
          /\ digestState[DigOf(r)] = "current" /\ digestExp[DigOf(r)] > TimeOf(r)
      BY <1>1, <1>4 DEF RefreshRotateCommit, At, RefreshInv, RefreshPCs
    <2>2. RotateDigest(family[DigOf(r)], DigOf(r), n, TimeOf(r)) /\ UNCHANGED <<now, userVars>>
      BY <1>4, <2>1 DEF RefreshRotateCommit
    <2>3. TimeOf(r) < digestExp[DigOf(r)]
      BY <1>1, <2>1, StoreTypes
    <2>4. QED
      BY <1>1, <2>1, <2>2, <2>3, LedgerRefresh DEF LedgerStepOrNone
  <1>5. ASSUME RefreshReplayCommit(r) PROVE LedgerStepOrNone
    <2>1. SessOf(r) \in Sessions
      BY <1>1, <1>5
      DEF RefreshReplayCommit, At, RefreshInv, RefreshPCs, RotationInv, LedgerInv, FamilyInv
    <2>2. QED
      BY <1>1, <1>5, <2>1, LedgerRevoke DEF RefreshReplayCommit, LedgerStepOrNone
  <1>6. ASSUME NEW p \in Passwords, ChangeCommit(r, p) PROVE LedgerStepOrNone
    <2>1. UserOf(r) \in Users /\ UserRow(UserOf(r)) /\ hash[UserOf(r)] = req[r].secret
      BY <1>1, <1>6 DEF ChangeCommit, At, RequestInv, UserPCs, UserHolders
    <2>2. LiveSessions(UserOf(r)) \subseteq Locked(r) /\ \A s \in Locked(r) : owner[s] = UserOf(r)
      BY <1>1, <1>6 DEF ChangeCommit, RequestInv, CommitInv
    <2>3. Locked(r) \in SUBSET Sessions
      BY DEF Locked
    <2>4. QED
      BY <1>6, <2>1, <2>2, <2>3, LedgerChangePassword DEF ChangeCommit, LedgerStepOrNone
  <1>7. ASSUME SignOut(r) PROVE LedgerStepOrNone
    <2>1. SessOf(r) \in Sessions
      BY <1>1, <1>7 DEF SignOut, CommitInv
    <2>2. QED
      BY <1>1, <1>7, <2>1, LedgerRevoke DEF SignOut, LedgerStepOrNone
  <1>8. ASSUME DeleteCommit(r) PROVE LedgerStepOrNone
    <2>1. UserOf(r) \in Users /\ UserRow(UserOf(r)) /\ SessionsOf(UserOf(r)) = Locked(r)
      BY <1>1, <1>8 DEF DeleteCommit, At, RequestInv, UserPCs, UserHolders
    <2>2. QED
      BY <1>8, <2>1, LedgerDeleteAccount DEF DeleteCommit, LedgerStepOrNone
  <1>9. ASSUME NoWrites PROVE LedgerStepOrNone
    BY <1>9 DEF NoWrites, LedgerStepOrNone
  <1>10. CASE Start(r)
    BY <1>9, <1>10 DEF Start, SignUpRegister, SignInFind, RefreshFind, GuardSession
  <1>11. CASE Step(r)
    BY <1>2, <1>3, <1>4, <1>5, <1>6, <1>7, <1>8, <1>9, <1>11
    DEF Step, SignInVerify, SignInRefuse, RefreshLock, RefreshRead, GuardUser,
        ChangeVerify, ChangeRefuse, ChangeRevoke, LockPending, DeleteLock
  <1>12. CASE Abort(r)
    BY <1>9, <1>12 DEF Abort
  <1>13. QED
    BY <1>10, <1>11, <1>12

\* A purge forgets what its cutoff, older than now, lets it.
LEMMA PurgeForgets ==
  ASSUME TypeOK, NEW X \in SUBSET Digests, PurgeBatch(X)
  PROVE  Ledger!Next
  <1>1. ASSUME NEW d \in X PROVE digestState[d] = "retired" /\ ~InWindow(d, now)
    <2>1. digestState[d] = "retired" /\ digestExp[d] <= purgeAt - ReplayWindow
      BY DEF PurgeBatch, PurgeableBy
    <2>2. purgeAt \in Int /\ purgeAt <= now
      BY NowNat DEF TypeOK, NoPurge
    <2>3. QED
      BY <2>1, <2>2, StoreTypes, TtlAssumption DEF InWindow
  <1>2. Ledger!Forget(X)
    BY <1>1 DEF PurgeBatch, DeleteDigests, Ledger!Forget, Ledger!DeleteDigests,
                InWindow, Ledger!InWindow, Ledger!userVars, userVars,
                Ledger!sessionVars, sessionVars
  <1>3. QED
    BY <1>2 DEF Ledger!Next

LEMMA ClockTicks == Clock => Ledger!Next
  BY DEF Clock, Tick, Ledger!Next, Ledger!Tick, Ledger!userVars, userVars,
         Ledger!sessionVars, sessionVars, Ledger!digestVars, digestVars

LEMMA StepImplements ==
  ASSUME Inv, RotationInv, [Next]_vars
  PROVE  LedgerStepOrNone
  <1>1. CASE UNCHANGED vars
    BY <1>1 DEF vars, LedgerStepOrNone
  <1>2. CASE PurgeCutoff
    BY <1>2 DEF PurgeCutoff, LedgerStepOrNone
  <1>3. ASSUME NEW X \in SUBSET Digests, PurgeBatch(X) PROVE Ledger!Next
    BY <1>3, PurgeForgets DEF Inv
  <1>4. QED
    BY <1>1, <1>2, <1>3, CommitsImplement, ClockTicks DEF Next, LedgerStepOrNone
\* So whatever step is taken, the tables stay sound and what has ended has ended.
LEMMA StepLasts ==
  ASSUME Inv, RotationInv, [Next]_vars
  PROVE  LedgerInv' /\ Lasting
  <1>1. TypeOK /\ LedgerInv /\ FamilyInv
    BY DEF Inv, RotationInv, LedgerInv
  <1>2. CASE Ledger!Next
    BY <1>1, <1>2, LedgerCases, LedgerStep, EventsLast
  <1>3. CASE UNCHANGED storeVars
    BY <1>1, <1>3, StoreTypes
    DEF storeVars, sessionVars, digestVars, LedgerInv, FamilyInv, OneCurrentDigest,
        PurgeKeepsReplayEvidence, InWindow, DigestRow, SessionRow, Live, Lasting
  <1>4. QED
    BY <1>2, <1>3, StepImplements DEF LedgerStepOrNone

-----------------------------------------------------------------------------
\* The other requests: what one holds the lock of, a step of another leaves as
\* it is.

LEMMA LockedSessionKept ==
  ASSUME Inv, RotationInv, NEW r \in Requests, Start(r) \/ Step(r) \/ Abort(r),
         NEW s \in Sessions, sessionState[s] # "unused",
         sessionLock[s] # r, sessionLock[s] # None
  PROVE  /\ sessionState'[s] = sessionState[s]
         /\ \A d \in Digests : digestState[d] = "current" /\ family[d] = s =>
               digestState'[d] = "current"
  <1> DEFINE Goal ==
        /\ sessionState'[s] = sessionState[s]
        /\ \A d \in Digests : digestState[d] = "current" /\ family[d] = s =>
              digestState'[d] = "current"
  <1> USE StoreTypes DEF Live
  <1>1. TypeOK /\ RequestInv(r) /\ RefreshInv(r)
    BY DEF Inv, RotationInv
  <1>2. ASSUME NoWrites PROVE Goal
    BY <1>2 DEF NoWrites, storeVars, sessionVars, digestVars
  <1>3. ASSUME NEW x \in Sessions, NEW d \in Digests,
               SignUpCommit(r, x, d) \/ SignInCommit(r, x, d)
        PROVE  Goal
    BY <1>1, <1>3 DEF SignUpCommit, SignInCommit, InsertSession
  <1>4. ASSUME NEW n \in Digests, RefreshRotateCommit(r, n) PROVE Goal
    <2>1. DigOf(r) \in Digests /\ family[DigOf(r)] # s
      BY <1>1, <1>4 DEF RefreshRotateCommit, At, RefreshInv, RefreshPCs, RefreshHolders
    <2>2. QED
      BY <1>1, <1>4, <2>1 DEF RefreshRotateCommit, RotateDigest, sessionVars, digestVars
  <1>5. ASSUME NEW S, RevokeSessions(S), s \notin S, UNCHANGED digestVars PROVE Goal
    BY <1>5 DEF RevokeSessions, digestVars
  <1>6. ASSUME RefreshReplayCommit(r) PROVE Goal
    <2>1. s # SessOf(r)
      BY <1>1, <1>6 DEF RefreshReplayCommit, At, RefreshInv, RefreshPCs, RefreshHolders
    <2>2. QED
      BY <1>5, <1>6, <2>1 DEF RefreshReplayCommit
  <1>7. ASSUME NEW p \in Passwords, ChangeCommit(r, p) PROVE Goal
    BY <1>5, <1>7 DEF ChangeCommit, Locked
  <1>8. ASSUME SignOut(r) PROVE Goal
    BY <1>5, <1>8 DEF SignOut
  <1>9. ASSUME DeleteCommit(r) PROVE Goal
    BY <1>1, <1>9 DEF DeleteCommit, DeleteUser, DigestsOf, Locked
  <1> HIDE DEF Goal
  <1>10. CASE Start(r)
    <2>1. NoWrites
      BY <1>10 DEF Start, SignUpRegister, SignInFind, RefreshFind, GuardSession
    <2>2. QED
      BY <1>2, <2>1 DEF Goal
  <1>11. CASE Step(r)
    <2>1. \/ NoWrites
          \/ \E x \in Sessions, d \in Digests : SignUpCommit(r, x, d) \/ SignInCommit(r, x, d)
          \/ \E n \in Digests : RefreshRotateCommit(r, n)
          \/ RefreshReplayCommit(r) \/ SignOut(r) \/ DeleteCommit(r)
          \/ \E p \in Passwords : ChangeCommit(r, p)
      BY <1>11
      DEF Step, SignInVerify, SignInRefuse, RefreshLock, RefreshRead, GuardUser,
          ChangeVerify, ChangeRefuse, ChangeRevoke, LockPending, DeleteLock
    <2>2. QED
      BY <1>2, <1>3, <1>4, <1>6, <1>7, <1>8, <1>9, <2>1 DEF Goal
  <1>12. CASE Abort(r)
    BY <1>2, <1>12 DEF Abort, Goal
  <1>13. QED
    BY <1>10, <1>11, <1>12

LEMMA OthersRefresh ==
  ASSUME Inv, RotationInv, NEW r \in Requests, Start(r) \/ Step(r) \/ Abort(r),
         NEW q \in Requests, q # r
  PROVE  RefreshInv(q)' /\ CommitInv(q)'
  <1>1. req'[q] = req[q] /\ Locked(q)' = Locked(q)
    BY OthersUntouched
  <1>2. /\ RefreshInv(q) /\ CommitInv(q) /\ FamilyInv /\ TypeOK
        /\ Lasting
    BY StepLasts DEF RotationInv, LedgerInv, Inv, Next
  <1>3. /\ DigOf(q)' = DigOf(q) /\ SessOf(q)' = SessOf(q) /\ TimeOf(q)' = TimeOf(q)
        /\ UserOf(q)' = UserOf(q)
    BY <1>1 DEF DigOf, SessOf, TimeOf, UserOf
  <1>4. CASE req[q].pc \in RefreshPCs
    <2>1. /\ DigOf(q) \in Digests /\ digestState[DigOf(q)] # "unused"
          /\ SessOf(q) = family[DigOf(q)]
          /\ SessOf(q) \in Sessions /\ sessionState[SessOf(q)] # "unused"
      BY <1>2, <1>4 DEF RefreshInv, FamilyInv
    <2>2. /\ digestState'[DigOf(q)] # "unused" /\ SessOf(q) = family'[DigOf(q)]
          /\ digestExp'[DigOf(q)] = digestExp[DigOf(q)]
      BY <1>2, <2>1 DEF Lasting
    <2>3. CASE req[q].pc \in RefreshHolders
      <3>1. sessionLock[SessOf(q)] = q
        BY <1>2, <2>3 DEF RefreshInv
      <3>2. sessionLock'[SessOf(q)] = q
        BY <1>1, <2>1, <3>1 DEF Locked
      <3>3. /\ sessionState'[SessOf(q)] = sessionState[SessOf(q)]
            /\ digestState[DigOf(q)] = "current" => digestState'[DigOf(q)] = "current"
        BY <2>1, <3>1, LockedSessionKept, ServiceAssumption
      <3>4. RefreshInv(q)'
        BY <1>1, <1>2, <1>3, <2>1, <2>2, <3>2, <3>3 DEF RefreshInv, At, Live
      <3>5. CommitInv(q)'
        BY <1>1, <2>3 DEF CommitInv, At, RefreshHolders, RefreshPCs
      <3>6. QED
        BY <3>4, <3>5
    <2>4. CASE req[q].pc = "refreshLock"
      BY <1>1, <1>2, <1>3, <2>1, <2>2, <2>4 DEF RefreshInv, CommitInv, At, RefreshHolders
    <2>5. QED
      BY <1>4, <2>3, <2>4 DEF RefreshHolders
  <1>5. CASE req[q].pc \notin RefreshPCs
    <2>1. RefreshInv(q)'
      BY <1>1, <1>5 DEF RefreshInv, RefreshPCs, RefreshHolders, At
    <2>2. req[q].pending \subseteq Sessions /\ Locked(q) \subseteq Sessions
      BY <1>2 DEF TypeOK, RequestState, Locked
    <2>3. CommitInv(q)'
      BY <1>1, <1>2, <1>3, <2>2 DEF CommitInv, At, Lasting
    <2>4. QED
      BY <2>1, <2>3
  <1>6. QED
    BY <1>4, <1>5
-----------------------------------------------------------------------------
\* Where a step leaves the request that takes it.

LEMMA Became ==
  ASSUME TypeOK, NEW r \in Requests, NEW st, Become(r, st) \/ End(r, st)
  PROVE  req'[r] = st
  BY DEF TypeOK, Become, End

\* Places the invariant says nothing of.
QuietPCs ==
    {"idle", "signInVerify", "changeVerify", "changeRevoke", "deleteLock", "deleteLocks"}

Keeps(r, pc) == req'[r].pc = pc /\ req'[r].sid = req[r].sid /\ req'[r].dig = req[r].dig

Refused(r) == req'[r].pc = "denied" /\ req'[r].dig = req[r].dig

Moves(r) ==
    \/ req'[r].pc \in QuietPCs
    \/ req'[r].pc = "signUpIssue" /\ req'[r].secret \in Passwords
    \/ req'[r].pc = "signInIssue" /\ req'[r].secret \in Passwords
    \/ req'[r].pc = "guardUser" /\ req'[r].sid \in Sessions
    \/ At(r, "guardUser") /\ Keeps(r, "signOut")
    \/ \E d \in Digests :
          /\ NoWrites /\ digestState[d] # "unused" /\ req'[r].dig = d
          /\ \/ req'[r].pc = "denied" /\ ~DigestRow(d)
             \/ req'[r].pc = "refreshLock" /\ req'[r].sid = family[d]
    \/ RefreshLock(r) /\ SessionRow(SessOf(r)) /\ Keeps(r, "refreshRead")
    \/ RefreshLock(r) /\ ~SessionRow(SessOf(r)) /\ Refused(r)
    \/ RefreshRead(r) /\ UNCHANGED sessionLock /\ Keeps(r, "refreshReplay")
    \/ /\ RefreshRead(r) /\ UNCHANGED sessionLock /\ Rotatable(DigOf(r), SessOf(r))
       /\ Keeps(r, "refreshRotate") /\ req'[r].at = now
    \/ /\ RefreshRead(r) /\ ~Replayed(DigOf(r)) /\ ~Rotatable(DigOf(r), SessOf(r))
       /\ Refused(r)
    \/ RefreshReplayCommit(r) /\ Refused(r)
    \/ /\ ChangeRevoke(r) /\ req'[r].pc = "changeLocks" /\ req'[r].uid = req[r].uid
       /\ req'[r].pending = LiveSessions(UserOf(r))
    \/ \E s \in Sessions :
          /\ LockPending(r, s) /\ At(r, "changeLocks")
          /\ req'[r].pc = "changeLocks" /\ req'[r].uid = req[r].uid
          /\ req'[r].pending = req[r].pending \ {s}

LEMMA StartMoves ==
  ASSUME Inv, NEW r \in Requests, Start(r)
  PROVE  Moves(r)
  <1>1. TypeOK /\ Idle \in RequestState
    BY IdleTyped DEF Inv
  <1>2. ASSUME NEW u \in Users, NEW p \in Passwords, SignUpRegister(r, u, p) PROVE Moves(r)
    <2>1. req'[r] = [Idle EXCEPT !.pc = "signUpIssue", !.uid = u, !.secret = p, !.at = now]
      BY <1>1, <1>2, Became DEF SignUpRegister
    <2>2. req'[r].pc = "signUpIssue" /\ req'[r].secret = p
      BY <1>1, <2>1 DEF RequestState
    <2>3. QED
      BY <2>2 DEF Moves
  <1>3. ASSUME NEW u \in Users, SignInFind(r, u) PROVE Moves(r)
    <2>1. req'[r] = [Idle EXCEPT !.pc = "signInVerify", !.uid = u]
      BY <1>1, <1>3, Became DEF SignInFind
    <2>2. req'[r].pc = "signInVerify"
      BY <1>1, <2>1 DEF RequestState
    <2>3. QED
      BY <2>2 DEF Moves, QuietPCs
  <1>4. ASSUME NEW d \in Digests, RefreshFind(r, d) PROVE Moves(r)
    <2>1. NoWrites /\ digestState[d] # "unused"
      BY <1>4 DEF RefreshFind
    <2>2. CASE DigestRow(d)
      <3>1. req'[r] = [Idle EXCEPT !.pc = "refreshLock", !.sid = family[d], !.dig = d]
        BY <1>1, <1>4, <2>2, Became DEF RefreshFind
      <3>2. req'[r].pc = "refreshLock" /\ req'[r].sid = family[d] /\ req'[r].dig = d
        BY <1>1, <3>1 DEF RequestState
      <3>3. QED
        BY <2>1, <3>2 DEF Moves
    <2>3. CASE ~DigestRow(d)
      <3>1. req'[r] = Denied(d)
        BY <1>1, <1>4, <2>3, Became DEF RefreshFind
      <3>2. QED
        BY <2>1, <2>3, <3>1, DeniedFields DEF Moves
    <2>4. QED
      BY <2>2, <2>3
  <1>5. ASSUME NEW s \in Sessions, GuardSession(r, s) PROVE Moves(r)
    <2>1. req'[r] = [Idle EXCEPT !.pc = "guardUser", !.sid = s, !.uid = owner[s]]
      BY <1>1, <1>5, Became DEF GuardSession
    <2>2. req'[r].pc = "guardUser" /\ req'[r].sid = s
      BY <1>1, <2>1 DEF RequestState
    <2>3. QED
      BY <2>2 DEF Moves
  <1>6. QED
    BY <1>2, <1>3, <1>4, <1>5 DEF Start

LEMMA RefreshMoves ==
  ASSUME Inv, NEW r \in Requests, RefreshInv(r),
         RefreshLock(r) \/ RefreshRead(r) \/ RefreshReplayCommit(r)
         \/ \E n \in Digests : RefreshRotateCommit(r, n)
  PROVE  Moves(r)
  <1>1. TypeOK /\ req[r] \in RequestState
    BY DEF Inv, TypeOK
  <1>2. ASSUME End(r, Denied(DigOf(r))) PROVE Refused(r)
    BY <1>1, <1>2, Became, DeniedFields DEF DigOf, Refused
  <1>3. CASE RefreshLock(r)
    <2>1. CASE SessionRow(SessOf(r))
      <3>1. req'[r] = [req[r] EXCEPT !.pc = "refreshRead"]
        BY <1>1, <1>3, <2>1, Became DEF RefreshLock
      <3>2. Keeps(r, "refreshRead")
        BY <1>1, <3>1 DEF RequestState, Keeps
      <3>3. QED
        BY <1>3, <2>1, <3>2 DEF Moves
    <2>2. CASE ~SessionRow(SessOf(r))
      BY <1>2, <1>3, <2>2 DEF RefreshLock, Moves
    <2>3. QED
      BY <2>1, <2>2
  <1>4. CASE RefreshRead(r)
    <2>1. ASSUME NEW pc \in PCs, Become(r, [req[r] EXCEPT !.pc = pc, !.at = now])
          PROVE  Keeps(r, pc) /\ req'[r].at = now
      BY <1>1, <2>1, Became DEF RequestState, Keeps
    <2>2. CASE Become(r, [req[r] EXCEPT !.pc = "refreshReplay", !.at = now])
               /\ UNCHANGED sessionLock
      <3>1. Keeps(r, "refreshReplay")
        BY <2>1, <2>2 DEF PCs
      <3>2. QED
        BY <1>4, <2>2, <3>1 DEF Moves
    <2>3. CASE /\ Rotatable(DigOf(r), SessOf(r)) /\ UNCHANGED sessionLock
               /\ Become(r, [req[r] EXCEPT !.pc = "refreshRotate", !.at = now])
      <3>1. Keeps(r, "refreshRotate") /\ req'[r].at = now
        BY <2>1, <2>3 DEF PCs
      <3>2. QED
        BY <1>4, <2>3, <3>1 DEF Moves
    <2>4. CASE /\ ~Replayed(DigOf(r)) /\ ~Rotatable(DigOf(r), SessOf(r))
               /\ End(r, Denied(DigOf(r)))
      BY <1>2, <1>4, <2>4 DEF Moves
    <2>5. QED
      BY <1>4, <2>2, <2>3, <2>4 DEF RefreshRead
  <1>5. CASE RefreshReplayCommit(r)
    BY <1>2, <1>5 DEF RefreshReplayCommit, Moves
  <1>6. ASSUME NEW n \in Digests, RefreshRotateCommit(r, n) PROVE Moves(r)
    <2>1. End(r, Idle)
      BY <1>6 DEF RefreshRotateCommit, RefreshInv, At
    <2>2. req'[r].pc = "idle"
      BY <1>1, <2>1, Became, IdleFields
    <2>3. QED
      BY <2>2 DEF Moves, QuietPCs
  <1>7. QED
    BY <1>3, <1>4, <1>5, <1>6

LEMMA StepMoves ==
  ASSUME Inv, RotationInv, NEW r \in Requests, Start(r) \/ Step(r) \/ Abort(r)
  PROVE  Moves(r)
  <1>1. TypeOK /\ req[r] \in RequestState
    BY DEF Inv, TypeOK
  <1>2. ASSUME req'[r].pc \in QuietPCs PROVE Moves(r)
    BY <1>2 DEF Moves
  <1>3. ASSUME End(r, Idle) PROVE Moves(r)
    BY <1>1, <1>2, <1>3, Became, IdleFields DEF QuietPCs
  <1>4. ASSUME NEW p \in Passwords, SignInVerify(r, p) PROVE Moves(r)
    <2>1. req'[r] = [req[r] EXCEPT !.pc = "signInIssue", !.secret = p, !.at = now]
      BY <1>1, <1>4, Became DEF SignInVerify
    <2>2. req'[r].pc = "signInIssue" /\ req'[r].secret = p
      BY <1>1, <2>1 DEF RequestState
    <2>3. QED
      BY <2>2 DEF Moves
  <1>5. ASSUME NEW p \in Passwords, ChangeVerify(r, p) PROVE Moves(r)
    <2>1. req'[r] = [req[r] EXCEPT !.pc = "changeRevoke", !.secret = p]
      BY <1>1, <1>5, Became DEF ChangeVerify
    <2>2. QED
      BY <1>1, <1>2, <2>1 DEF RequestState, QuietPCs
  <1>6. ASSUME GuardUser(r) PROVE Moves(r)
    <2>1. ASSUME NEW pc \in {"changeVerify", "signOut", "deleteLock"},
                 Become(r, [req[r] EXCEPT !.pc = pc])
          PROVE  Moves(r)
      <3>1. req'[r] = [req[r] EXCEPT !.pc = pc]
        BY <1>1, <2>1, Became
      <3>2. Keeps(r, pc)
        BY <1>1, <3>1 DEF RequestState, Keeps
      <3>3. QED
        BY <1>2, <1>6, <3>2 DEF GuardUser, Keeps, Moves, QuietPCs
    <2>2. CASE Become(r, Idle)
      BY <1>1, <1>2, <2>2, Became, IdleFields DEF QuietPCs
    <2>3. QED
      BY <1>6, <2>1, <2>2 DEF GuardUser
  <1>7. ASSUME ChangeRevoke(r) PROVE Moves(r)
    <2>1. req'[r] = [req[r] EXCEPT !.pc = "changeLocks", !.pending = LiveSessions(UserOf(r))]
      BY <1>1, <1>7, Became DEF ChangeRevoke
    <2>2. /\ req'[r].pc = "changeLocks" /\ req'[r].uid = req[r].uid
          /\ req'[r].pending = LiveSessions(UserOf(r))
      BY <1>1, <2>1 DEF RequestState
    <2>3. QED
      BY <1>7, <2>2 DEF Moves
  <1>8. ASSUME NEW s \in Sessions, LockPending(r, s) PROVE Moves(r)
    <2>1. req'[r] = [req[r] EXCEPT !.pending = @ \ {s}]
      BY <1>1, <1>8, Became DEF LockPending
    <2>2. /\ req'[r].pc = req[r].pc /\ req'[r].uid = req[r].uid
          /\ req'[r].pending = req[r].pending \ {s}
      BY <1>1, <2>1 DEF RequestState
    <2>3. CASE At(r, "changeLocks")
      BY <1>8, <2>2, <2>3 DEF Moves, At
    <2>4. CASE At(r, "deleteLocks")
      BY <1>2, <2>2, <2>4 DEF QuietPCs, At
    <2>5. QED
      BY <1>8, <2>3, <2>4 DEF LockPending
  <1>9. ASSUME DeleteLock(r) PROVE Moves(r)
    <2>1. CASE Become(r, [req[r] EXCEPT !.pc = "deleteLocks", !.pending = SessionsOf(UserOf(r))])
      <3>1. req'[r] = [req[r] EXCEPT !.pc = "deleteLocks", !.pending = SessionsOf(UserOf(r))]
        BY <1>1, <2>1, Became
      <3>2. QED
        BY <1>1, <1>2, <3>1 DEF RequestState, QuietPCs
    <2>2. QED
      BY <1>3, <1>9, <2>1 DEF DeleteLock
  <1>10. RefreshInv(r)
    BY DEF RotationInv
  <1>11. CASE Step(r)
    BY <1>3, <1>4, <1>5, <1>6, <1>7, <1>8, <1>9, <1>10, <1>11, RefreshMoves
    DEF Step, SignUpCommit, SignInCommit, SignInRefuse, ChangeRefuse, ChangeCommit,
        SignOut, DeleteCommit
  <1>12. QED
    BY <1>3, <1>11, StartMoves DEF Abort
\* What a refresh remembers is so when it begins to remember it.
LEMMA OwnRefresh ==
  ASSUME Inv, RotationInv, NEW r \in Requests, Moves(r)
  PROVE  RefreshInv(r)'
  <1> USE DEF RefreshInv, RefreshHolders, RefreshPCs, At, DigOf, SessOf, TimeOf
  <1>1. TypeOK /\ RefreshInv(r) /\ FamilyInv
    BY DEF Inv, RotationInv, LedgerInv
  <1>2. ASSUME NoWrites, DigOf(r) \in Digests, digestState[DigOf(r)] # "unused",
               SessOf(r) = family[DigOf(r)], req'[r].sid = req[r].sid,
               req'[r].dig = req[r].dig
        PROVE  /\ DigOf(r)' \in Digests /\ digestState'[DigOf(r)'] # "unused"
               /\ SessOf(r)' = family'[DigOf(r)'] /\ SessOf(r) \in Sessions
    BY <1>1, <1>2 DEF NoWrites, storeVars, digestVars, FamilyInv
  <1>3. CASE req'[r].pc \notin RefreshPCs
    BY <1>3
  <1>4. ASSUME NEW d \in Digests, NoWrites, digestState[d] # "unused", req'[r].dig = d,
               req'[r].pc = "refreshLock", req'[r].sid = family[d]
        PROVE  RefreshInv(r)'
    BY <1>4 DEF NoWrites, storeVars, digestVars
  <1>5. CASE RefreshLock(r) /\ SessionRow(SessOf(r)) /\ Keeps(r, "refreshRead")
    <2>1. NoWrites /\ LockSession(SessOf(r), r) /\ req[r].pc \in RefreshPCs
      BY <1>5 DEF RefreshLock
    <2>2. req'[r].pc = "refreshRead" /\ req'[r].sid = req[r].sid /\ req'[r].dig = req[r].dig
      BY <1>5 DEF Keeps
    <2>3. SessOf(r) \in Sessions
      BY <1>1, <1>2, <2>1, <2>2
    <2>4. sessionLock'[SessOf(r)'] = r
      BY <1>1, <2>1, <2>2, <2>3 DEF LockSession, TypeOK
    <2>5. QED
      BY <1>1, <1>2, <2>1, <2>2, <2>4
  <1>6. CASE RefreshRead(r) /\ UNCHANGED sessionLock /\ Keeps(r, "refreshReplay")
    BY <1>1, <1>2, <1>6 DEF RefreshRead, Keeps
  <1>7. CASE /\ RefreshRead(r) /\ UNCHANGED sessionLock /\ Rotatable(DigOf(r), SessOf(r))
             /\ Keeps(r, "refreshRotate") /\ req'[r].at = now
    <2>1. NoWrites /\ req[r].pc \in RefreshHolders
      BY <1>7 DEF RefreshRead
    <2>2. /\ req'[r].pc = "refreshRotate" /\ req'[r].sid = req[r].sid
          /\ req'[r].dig = req[r].dig
      BY <1>7 DEF Keeps
    <2>3. /\ DigOf(r) \in Digests /\ digestState[DigOf(r)] # "unused"
          /\ SessOf(r) = family[DigOf(r)] /\ sessionLock[SessOf(r)] = r
      BY <1>1, <2>1
    <2>4. /\ digestState[DigOf(r)] = "current" /\ digestExp[DigOf(r)] > now
          /\ Live(SessOf(r))
      BY <1>7 DEF Rotatable, Active
    <2>5. /\ digestState'[DigOf(r)'] = "current" /\ digestExp'[DigOf(r)'] > TimeOf(r)'
          /\ Live(SessOf(r))'
      BY <1>7, <2>1, <2>2, <2>4 DEF NoWrites, storeVars, digestVars, sessionVars, Live
    <2>6. QED
      BY <1>2, <1>7, <2>1, <2>2, <2>3, <2>5
  <1>8. QED
    BY <1>3, <1>4, <1>5, <1>6, <1>7 DEF Moves, QuietPCs, Keeps, Refused

LEMMA OwnCommit ==
  ASSUME Inv, RotationInv, NEW r \in Requests, Moves(r)
  PROVE  CommitInv(r)'
  <1> USE DEF CommitInv, At, SessOf, UserOf
  <1>1. TypeOK /\ CommitInv(r) /\ RequestInv(r)
    BY DEF Inv, RotationInv
  <1>2. CASE /\ ChangeRevoke(r) /\ req'[r].pc = "changeLocks" /\ req'[r].uid = req[r].uid
             /\ req'[r].pending = LiveSessions(UserOf(r))
    <2>1. NoWrites /\ Locked(r) = {} /\ UNCHANGED sessionLock
      BY <1>1, <1>2 DEF ChangeRevoke, RequestInv, SessionHolders
    <2>2. QED
      BY <1>2, <2>1
      DEF NoWrites, storeVars, sessionVars, Locked, LiveSessions, SessionsOf, SessionRow
  <1>3. ASSUME NEW s \in Sessions, LockPending(r, s), req[r].pc = "changeLocks",
               req'[r].pc = "changeLocks", req'[r].uid = req[r].uid,
               req'[r].pending = req[r].pending \ {s}
        PROVE  CommitInv(r)'
    <2>1. NoWrites /\ s \in req[r].pending /\ LockSession(s, r)
      BY <1>3 DEF LockPending
    <2>2. Locked(r)' = Locked(r) \cup {s}
      BY <1>1, <2>1 DEF Locked, LockSession, TypeOK
    <2>3. QED
      BY <1>1, <1>3, <2>1, <2>2 DEF NoWrites, storeVars, sessionVars
  <1>4. CASE req'[r].pc \notin {"changeLocks", "signUpIssue", "signInIssue", "guardUser", "signOut"}
    BY <1>4
  <1>5. CASE At(r, "guardUser") /\ Keeps(r, "signOut")
    BY <1>1, <1>5 DEF Keeps
  <1>6. QED
    BY <1>2, <1>3, <1>4, <1>5 DEF Moves, QuietPCs, Keeps, Refused
-----------------------------------------------------------------------------
\* A refused token stays refused for a reason that lasts.

Rotating(d) == \E q \in Requests : At(q, "refreshRotate") /\ DigOf(q) = d

\* Only the request that rotates a digest retires it.
LEMMA RetiresOwn ==
  ASSUME Inv, RotationInv, NEW r \in Requests, Start(r) \/ Step(r) \/ Abort(r),
         NEW d \in Digests, digestState[d] = "current", ~Rotating(d)
  PROVE  digestState'[d] \in {"current", "deleted"}
  <1> USE StoreTypes
  <1>1. TypeOK
    BY DEF Inv
  <1>2. ASSUME UNCHANGED digestState PROVE digestState'[d] \in {"current", "deleted"}
    BY <1>2
  <1>3. ASSUME NEW s \in Sessions, NEW n \in Digests,
               SignUpCommit(r, s, n) \/ SignInCommit(r, s, n)
        PROVE  digestState'[d] \in {"current", "deleted"}
    BY <1>1, <1>3 DEF SignUpCommit, SignInCommit, InsertSession
  <1>4. ASSUME NEW n \in Digests, RefreshRotateCommit(r, n)
        PROVE  digestState'[d] \in {"current", "deleted"}
    <2>1. DigOf(r) # d
      BY <1>4 DEF RefreshRotateCommit, Rotating
    <2>2. QED
      BY <1>1, <1>4, <2>1 DEF RefreshRotateCommit, RotateDigest, digestVars
  <1>5. CASE DeleteCommit(r)
    BY <1>5 DEF DeleteCommit, DeleteUser
  <1>6. \/ UNCHANGED digestState
        \/ \E s \in Sessions, n \in Digests : SignUpCommit(r, s, n) \/ SignInCommit(r, s, n)
        \/ \E n \in Digests : RefreshRotateCommit(r, n)
        \/ DeleteCommit(r)
    <2>1. CASE Start(r) \/ Abort(r)
      BY <2>1 DEF Start, SignUpRegister, SignInFind, RefreshFind, GuardSession, Abort,
                  NoWrites, storeVars, digestVars
    <2>2. CASE Step(r)
      BY <2>2
      DEF Step, SignInVerify, SignInRefuse, RefreshLock, RefreshRead, RefreshReplayCommit,
          GuardUser, ChangeVerify, ChangeRefuse, ChangeRevoke, ChangeCommit, LockPending,
          SignOut, DeleteLock, NoWrites, storeVars, digestVars
    <2>3. QED
      BY <2>1, <2>2
  <1>7. QED
    BY <1>2, <1>3, <1>4, <1>5, <1>6

\* Nobody begins to rotate an expired digest.
LEMMA NoneRotates ==
  ASSUME Inv, RotationInv, NEW r \in Requests, Start(r) \/ Step(r) \/ Abort(r),
         NEW d \in Digests, digestExp[d] <= now, ~Rotating(d)
  PROVE  ~Rotating(d)'
  <1> SUFFICES ASSUME NEW q \in Requests, At(q, "refreshRotate")', DigOf(q)' = d
               PROVE  FALSE
    BY DEF Rotating
  <1>1. CASE q # r
    BY <1>1, OthersUntouched DEF Rotating, At, DigOf
  <1>2. CASE q = r
    <2>1. Rotatable(DigOf(r), SessOf(r)) /\ DigOf(r) = d
      BY <1>2, StepMoves DEF Moves, Keeps, Refused, QuietPCs, At, DigOf
    <2>2. digestExp[d] > now
      BY <2>1 DEF Rotatable
    <2>3. QED
      BY <2>2, StoreTypes DEF Inv
  <1>3. QED
    BY <1>1, <1>2

LEMMA SpentStays ==
  ASSUME Inv, RotationInv, [Next]_vars, NEW d \in Digests, digestState[d] # "unused", Spent(d)
  PROVE  Spent(d)'
  <1>1. /\ TypeOK /\ Lasting
        /\ family[d] \in Sessions /\ sessionState[family[d]] # "unused"
    BY StepLasts DEF Inv, RotationInv, LedgerInv, FamilyInv
  <1>2. /\ digestState'[d] # "unused" /\ family'[d] = family[d] /\ digestExp'[d] = digestExp[d]
        /\ now \in Nat /\ now' \in Nat /\ now <= now' /\ digestExp[d] \in Nat
    BY <1>1, StoreTypes DEF Lasting
  <1>3. CASE digestState[d] = "deleted"
    BY <1>1, <1>3 DEF Lasting, Spent
  <1>4. CASE ~Live(family[d])
    <2>1. ~Live(family[d])'
      BY <1>1, <1>2, <1>4 DEF Lasting, Live
    <2>2. QED
      BY <2>1 DEF Spent
  <1>5. CASE digestState[d] = "retired" /\ ~InWindow(d, now)
    <2>1. ~InWindow(d, now)'
      BY <1>2, <1>5, TtlAssumption DEF InWindow
    <2>2. digestState'[d] \in {"retired", "deleted"}
      BY <1>1, <1>5 DEF Lasting
    <2>3. QED
      BY <2>1, <2>2 DEF Spent
  <1>6. CASE digestState[d] = "current" /\ digestExp[d] <= now /\ ~Rotating(d)
    <2>1. digestExp'[d] <= now'
      BY <1>2, <1>6
    <2>2. ASSUME NEW r \in Requests, Start(r) \/ Step(r) \/ Abort(r)
          PROVE  digestState'[d] \in {"current", "deleted"} /\ ~Rotating(d)'
      BY <1>6, <2>2, RetiresOwn, NoneRotates
    <2>3. ASSUME UNCHANGED req, digestState'[d] = digestState[d]
          PROVE  digestState'[d] \in {"current", "deleted"} /\ ~Rotating(d)'
      BY <1>6, <2>3 DEF Rotating, At, DigOf
    <2>4. ASSUME NEW X \in SUBSET Digests, PurgeBatch(X)
          PROVE  UNCHANGED req /\ digestState'[d] = digestState[d]
      BY <1>6, <2>4 DEF PurgeBatch, PurgeableBy, DeleteDigests, requestVars
    <2>5. ASSUME PurgeCutoff \/ Clock \/ UNCHANGED vars
          PROVE  UNCHANGED req /\ digestState'[d] = digestState[d]
      BY <2>5 DEF PurgeCutoff, Clock, Tick, vars, storeVars, digestVars, requestVars
    <2>6. digestState'[d] \in {"current", "deleted"} /\ ~Rotating(d)'
      BY <2>2, <2>3, <2>4, <2>5 DEF Next
    <2>7. QED
      BY <2>1, <2>6 DEF Spent, Rotating
  <1>7. QED
    BY <1>3, <1>4, <1>5, <1>6 DEF Spent, Rotating
\* When a digest is read under the lock of its session and is neither a replay
\* nor rotatable, it is spent: the two expiries agree, and no other request is
\* rotating it, for it would hold that lock.
LEMMA ReadRefuses ==
  ASSUME Inv, RotationInv, NEW r \in Requests, RefreshRead(r),
         ~Replayed(DigOf(r)), ~Rotatable(DigOf(r), SessOf(r))
  PROVE  /\ DigOf(r) \in Digests /\ digestState[DigOf(r)] # "unused"
         /\ Spent(DigOf(r)) /\ ~Rotating(DigOf(r))
  <1>1. PICK d \in Digests : d = DigOf(r) /\ digestState[d] # "unused" /\ SessOf(r) = family[d]
    BY DEF RotationInv, RefreshInv, RefreshRead, At, RefreshPCs
  <1>2. sessionLock[family[d]] = r /\ At(r, "refreshRead")
    BY <1>1 DEF RotationInv, RefreshInv, RefreshRead, At, RefreshHolders, RefreshPCs
  <1>3. ~Rotating(d)
    BY <1>2 DEF Rotating, RotationInv, RefreshInv, At, RefreshHolders, RefreshPCs
  <1>4. /\ family[d] \in Sessions /\ OneCurrentDigest
        /\ digestState[d] \in {"current", "retired", "deleted"}
        /\ now \in Nat /\ digestExp[d] \in Nat
    BY <1>1, StoreTypes DEF Inv, RotationInv, LedgerInv, FamilyInv
  <1>5. ASSUME digestState[d] = "retired" PROVE Spent(d)
    BY <1>1, <1>5 DEF Replayed, Spent
  <1>6. ASSUME digestState[d] = "current", Live(family[d]) PROVE Spent(d)
    <2>1. digestExp[d] = sessionExp[family[d]]
      BY <1>4, <1>6 DEF OneCurrentDigest, SessionRow, Live
    <2>2. ~(digestExp[d] > now)
      BY <1>1, <1>6, <2>1 DEF Rotatable, Active
    <2>3. digestExp[d] <= now
      BY <1>4, <2>2
    <2>4. QED
      BY <1>1, <1>3, <1>6, <2>3 DEF Spent, Rotating
  <1>7. Spent(d)
    BY <1>4, <1>5, <1>6 DEF Spent
  <1>8. QED
    BY <1>1, <1>3, <1>7

LEMMA OwnDenied ==
  ASSUME Inv, RotationInv, NEW r \in Requests, Start(r) \/ Step(r) \/ Abort(r)
  PROVE  DeniedInv(r)'
  <1> SUFFICES ASSUME At(r, "denied")'
               PROVE  \E d \in Digests :
                         DigOf(r)' = d /\ digestState'[d] # "unused" /\ Spent(d)'
    <2>1. ASSUME NEW d \in Digests, DigOf(r)' = d, Spent(d)' PROVE (Spent(DigOf(r)))'
      BY <2>1 DEF Spent
    <2>2. QED
      BY <2>1 DEF DeniedInv
  <1>1. /\ TypeOK /\ FamilyInv /\ RefreshInv(r) /\ Lasting /\ [Next]_vars
    BY StepLasts DEF Inv, RotationInv, LedgerInv, Next
  <1>2. ASSUME NEW d \in Digests, digestState[d] # "unused", Spent(d)
        PROVE  digestState'[d] # "unused" /\ Spent(d)'
    BY <1>1, <1>2, SpentStays DEF Lasting
  <1>3. ASSUME NEW d \in Digests, digestState[d] # "unused", ~DigestRow(d), req'[r].dig = d
        PROVE  DigOf(r)' = d /\ digestState'[d] # "unused" /\ Spent(d)'
    <2>1. Spent(d)
      BY <1>1, <1>3, StoreTypes DEF DigestRow, Spent
    <2>2. DigOf(r)' = d
      BY <1>3 DEF DigOf
    <2>3. QED
      BY <1>2, <1>3, <2>1, <2>2
  <1>4. ASSUME req[r].pc \in RefreshPCs, Refused(r)
        PROVE  \E d \in Digests, s \in Sessions :
                  /\ d = DigOf(r) /\ d = DigOf(r)' /\ s = SessOf(r)
                  /\ digestState[d] # "unused" /\ family[d] = s
    BY <1>1, <1>4 DEF RefreshInv, FamilyInv, Refused, DigOf
  <1>5. CASE RefreshLock(r) /\ ~SessionRow(SessOf(r)) /\ Refused(r)
    <2>1. req[r].pc \in RefreshPCs
      BY <1>5 DEF RefreshLock, At, RefreshPCs
    <2>2. PICK d \in Digests : /\ d = DigOf(r)' /\ digestState[d] # "unused"
                               /\ family[d] = SessOf(r)
      BY <1>4, <1>5, <2>1
    <2>3. Spent(d)
      BY <1>5, <2>2 DEF Spent, SessionRow, Live
    <2>4. QED
      BY <1>2, <2>2, <2>3
  <1>6. CASE RefreshRead(r) /\ ~Replayed(DigOf(r)) /\ ~Rotatable(DigOf(r), SessOf(r)) /\ Refused(r)
    <2>1. DigOf(r)' = DigOf(r)
      BY <1>6 DEF Refused, DigOf
    <2>2. PICK d \in Digests : d = DigOf(r) /\ digestState[d] # "unused" /\ Spent(d)
      BY <1>6, ReadRefuses
    <2>3. QED
      BY <1>2, <2>1, <2>2
  <1>7. CASE RefreshReplayCommit(r) /\ Refused(r)
    <2>1. req[r].pc \in RefreshPCs
      BY <1>7 DEF RefreshReplayCommit, At, RefreshPCs
    <2>2. PICK d \in Digests, s \in Sessions :
             d = DigOf(r)' /\ s = SessOf(r) /\ digestState[d] # "unused" /\ family[d] = s
      BY <1>4, <1>7, <2>1
    <2>3. sessionState'[s] # "live"
      BY <1>7, <2>2 DEF RefreshReplayCommit, RevokeSessions, Live
    <2>4. digestState'[d] # "unused" /\ family'[d] = s
      BY <1>1, <2>2 DEF Lasting
    <2>5. Spent(d)'
      BY <2>3, <2>4 DEF Spent, Live
    <2>6. QED
      BY <2>2, <2>4, <2>5
  <1>8. QED
    BY <1>3, <1>5, <1>6, <1>7, StepMoves DEF Moves, QuietPCs, Keeps, At
LEMMA DeniedKept ==
  ASSUME Inv, RotationInv, [Next]_vars, NEW q \in Requests, req'[q] = req[q]
  PROVE  DeniedInv(q)'
  <1>1. CASE At(q, "denied")
    <2>1. PICK d \in Digests : d = DigOf(q) /\ digestState[d] # "unused" /\ Spent(d)
      BY <1>1 DEF RotationInv, DeniedInv
    <2>2. Spent(d)' /\ digestState'[d] # "unused"
      BY <2>1, SpentStays, StepLasts DEF Lasting
    <2>3. DigOf(q)' = d
      BY <2>1 DEF DigOf
    <2>4. (Spent(DigOf(q)))'
      BY <2>2, <2>3 DEF Spent
    <2>5. QED
      BY <2>2, <2>3, <2>4 DEF DeniedInv
  <1>2. CASE ~At(q, "denied")
    BY <1>2 DEF DeniedInv, At
  <1>3. QED
    BY <1>1, <1>2

-----------------------------------------------------------------------------
\* The invariant holds initially and is kept by every step.

LEMMA RotationInit == Init => RotationInv
  <1> SUFFICES ASSUME Init PROVE RotationInv
    OBVIOUS
  <1>1. LedgerInv
    BY DEF Init, StoreInit, LedgerInv, FamilyInv, OneCurrentDigest,
           PurgeKeepsReplayEvidence, SessionRow, DigestRow
  <1>2. ASSUME NEW q \in Requests PROVE RefreshInv(q) /\ DeniedInv(q) /\ CommitInv(q)
    BY IdleFields
    DEF Init, RefreshInv, DeniedInv, CommitInv, RefreshHolders, RefreshPCs, At
  <1>3. QED
    BY <1>1, <1>2 DEF RotationInv

\* Time and the purge touch nothing that a request relies on: a purge takes only
\* retired digests.
LEMMA QuietStep ==
  ASSUME Inv, RotationInv, [Next]_vars, UNCHANGED requestVars,
         UNCHANGED vars \/ PurgeCutoff \/ Clock \/ \E X \in SUBSET Digests : PurgeBatch(X),
         NEW q \in Requests
  PROVE  RefreshInv(q)' /\ DeniedInv(q)' /\ CommitInv(q)'
  <1>1. /\ TypeOK /\ FamilyInv /\ RefreshInv(q) /\ DeniedInv(q) /\ CommitInv(q) /\ Lasting
        /\ UNCHANGED <<req, sessionLock>>
    BY StepLasts DEF Inv, RotationInv, LedgerInv, requestVars
  <1>2. /\ UNCHANGED sessionVars
        /\ \A d \in Digests : digestState[d] = "current" => digestState'[d] = "current"
    <2>1. ASSUME NEW X \in SUBSET Digests, PurgeBatch(X)
          PROVE  /\ UNCHANGED sessionVars
                 /\ \A d \in Digests : digestState[d] = "current" => digestState'[d] = "current"
      BY <2>1 DEF PurgeBatch, PurgeableBy, DeleteDigests
    <2>2. CASE UNCHANGED vars \/ PurgeCutoff \/ Clock
      BY <2>2 DEF vars, PurgeCutoff, Clock, Tick, storeVars, digestVars, sessionVars
    <2>3. QED
      BY <2>1, <2>2
  <1>3. RefreshInv(q)'
    BY <1>1, <1>2
    DEF RefreshInv, FamilyInv, Lasting, RefreshHolders, RefreshPCs, At, DigOf, SessOf,
        TimeOf, Live, sessionVars
  <1>4. CommitInv(q)'
    BY <1>1, <1>2 DEF CommitInv, At, SessOf, UserOf, Locked, sessionVars
  <1>5. DeniedInv(q)'
    BY <1>1, DeniedKept
  <1>6. QED
    BY <1>3, <1>4, <1>5

LEMMA RequestStep ==
  ASSUME Inv, RotationInv, NEW r \in Requests, Start(r) \/ Step(r) \/ Abort(r),
         NEW q \in Requests
  PROVE  RefreshInv(q)' /\ DeniedInv(q)' /\ CommitInv(q)'
  <1>1. CASE q = r
    BY <1>1, StepMoves, OwnRefresh, OwnDenied, OwnCommit
  <1>2. CASE q # r
    <2>1. RefreshInv(q)' /\ CommitInv(q)'
      BY <1>2, OthersRefresh
    <2>2. req'[q] = req[q] /\ [Next]_vars
      BY <1>2, OthersUntouched DEF Next
    <2>3. QED
      BY <2>1, <2>2, DeniedKept
  <1>3. QED
    BY <1>1, <1>2

LEMMA RotationStep == Inv /\ RotationInv /\ [Next]_vars => RotationInv'
  <1> SUFFICES ASSUME Inv, RotationInv, [Next]_vars PROVE RotationInv'
    OBVIOUS
  <1>1. LedgerInv'
    BY StepLasts
  <1>2. ASSUME NEW q \in Requests PROVE RefreshInv(q)' /\ DeniedInv(q)' /\ CommitInv(q)'
    <2>1. CASE \E r \in Requests : Start(r) \/ Step(r) \/ Abort(r)
      BY <2>1, RequestStep
    <2>2. CASE UNCHANGED vars \/ PurgeCutoff \/ Clock \/ \E X \in SUBSET Digests : PurgeBatch(X)
      <3>1. UNCHANGED requestVars
        BY <2>2 DEF vars, PurgeCutoff, Clock, PurgeBatch
      <3>2. QED
        BY <2>2, <3>1, QuietStep
    <2>3. QED
      BY <2>1, <2>2 DEF Next
  <1>3. QED
    BY <1>1, <1>2 DEF RotationInv
-----------------------------------------------------------------------------
\* The theorems.

\* The invariant of refresh tokens, of every size of the system.
THEOREM RotationCorrect == Spec => [](Inv /\ RotationInv)
  <1>1. Init => Inv /\ RotationInv
    BY InvInit, RotationInit
  <1>2. Inv /\ RotationInv /\ [Next]_vars => (Inv /\ RotationInv)'
    BY InvStep, RotationStep
  <1>3. QED
    BY <1>1, <1>2, PTL DEF Spec

\* An existing session always has exactly one token that continues it.
THEOREM OneCurrentCorrect == Spec => []OneCurrentDigest
  <1>1. RotationInv => OneCurrentDigest
    BY DEF RotationInv, LedgerInv
  <1>2. QED
    BY <1>1, RotationCorrect, PTL

\* The purge never removes what would still tell a replay.
THEOREM EvidenceCorrect == Spec => []PurgeKeepsReplayEvidence
  <1>1. RotationInv => PurgeKeepsReplayEvidence
    BY DEF RotationInv, LedgerInv
  <1>2. QED
    BY <1>1, RotationCorrect, PTL

\* No revocation, rotation or purge comes between the read of a rotation and its
\* write, so rotateDigest never fails its compare-and-set.
THEOREM RotationValidCorrect == Spec => []RotationStaysValid
  <1>1. RotationInv => RotationStaysValid
    BY DEF RotationInv, RefreshInv, RotationStaysValid
  <1>2. QED
    BY <1>1, RotationCorrect, PTL

\* A replay that has been answered 401 has ended its session.
THEOREM ReplayCorrect == Spec => []DeniedReplayRevokesSession
  <1>1. RotationInv => DeniedReplayRevokesSession
    BY DEF RotationInv, DeniedInv, Spent, DeniedReplayRevokesSession
  <1>2. QED
    BY <1>1, RotationCorrect, PTL

\* Statement by statement, the service is an implementation of the ledger.
THEOREM LedgerCorrect == Spec => ImplementsLedger
  <1>1. Init => Ledger!Init
    BY DEF Init, StoreInit, Ledger!Init, Ledger!StoreInit
  <1>2. Inv /\ RotationInv /\ [Next]_vars => [Ledger!Next]_(Ledger!storeVars)
    BY StepImplements
    DEF LedgerStepOrNone, storeVars, userVars, sessionVars, digestVars, Ledger!storeVars,
        Ledger!userVars, Ledger!sessionVars, Ledger!digestVars
  <1>3. QED
    BY <1>1, <1>2, RotationCorrect, PTL DEF Spec, ImplementsLedger, Ledger!Spec
-----------------------------------------------------------------------------
\* Row locks: nobody waits in a circle.  A user lock belongs to a request that
\* works on that account, and a sweep never waits for a lock of its own; so two
\* waits in a row end at a request that waits for nothing.

WaitInv(q) ==
    /\ \A u \in Users : userLock[u] = q => req[q].pc \in UserHolders /\ UserOf(q) = u
    /\ req[q].pc \in {"changeLocks", "deleteLocks"} => req[q].pending \cap Locked(q) = {}

NoUserLock(r) == \A u \in Users : userLock[u] # r

\* Another request gets no lock by a step of r.
LEMMA OthersWait ==
  ASSUME Inv, NEW r \in Requests, Start(r) \/ Step(r) \/ Abort(r),
         NEW q \in Requests, q # r, WaitInv(q)
  PROVE  WaitInv(q)'
  <1>1. req'[q] = req[q] /\ Locked(q)' = Locked(q)
    BY OthersUntouched
  <1>2. \A u \in Users : userLock'[u] = q => userLock[u] = q
    <2> USE DEF Inv, TypeOK
    <2>1. ASSUME NEW st, End(r, st) PROVE \A u \in Users : userLock'[u] = q => userLock[u] = q
      BY <2>1, ServiceAssumption DEF End
    <2>2. ASSUME NEW v, LockUser(v, r) PROVE \A u \in Users : userLock'[u] = q => userLock[u] = q
      BY <2>2 DEF LockUser
    <2> HIDE DEF Inv, TypeOK
    <2>3. QED
      BY <2>1, <2>2
      DEF Start, SignUpRegister, SignInFind, RefreshFind, GuardSession, Abort,
          Step, SignUpCommit, SignInVerify, SignInRefuse, SignInCommit, RefreshLock,
          RefreshRead, RefreshReplayCommit, RefreshRotateCommit, GuardUser, ChangeVerify,
          ChangeRefuse, ChangeRevoke, LockPending, ChangeCommit, SignOut, DeleteLock,
          DeleteCommit
  <1>3. UserOf(q)' = UserOf(q)
    BY <1>1 DEF UserOf
  <1>4. QED
    BY <1>1, <1>2, <1>3 DEF WaitInv

\* The request itself: a lock taken is one of the account it works on.
LEMMA OwnWait ==
  ASSUME Inv, NEW r \in Requests, Start(r) \/ Step(r) \/ Abort(r), WaitInv(r)
  PROVE  WaitInv(r)'
  <1>1. TypeOK /\ RequestInv(r) /\ req[r] \in RequestState
    BY DEF Inv, TypeOK
  <1>2. ASSUME NoUserLock(r)', req'[r].pc \notin {"changeLocks", "deleteLocks"}
        PROVE  WaitInv(r)'
    BY <1>2 DEF WaitInv, NoUserLock
  <1>3. ASSUME req[r].pc \notin UserHolders, UNCHANGED userLock PROVE NoUserLock(r)'
    BY <1>3 DEF WaitInv, NoUserLock
  <1>4. ASSUME NEW st, End(r, st), st.pc \in FreePCs PROVE WaitInv(r)'
    <2>1. req'[r] = st
      BY <1>1, <1>4, Became
    <2>2. NoUserLock(r)'
      BY <1>1, <1>4, ServiceAssumption DEF End, NoUserLock, TypeOK
    <2>3. QED
      BY <1>2, <1>4, <2>1, <2>2 DEF FreePCs
  <1>5. End(r, Idle) => WaitInv(r)'
    BY <1>4, IdleFields DEF FreePCs
  <1>6. ASSUME NEW d, End(r, Denied(d)) PROVE WaitInv(r)'
    BY <1>4, <1>6, DeniedFields DEF FreePCs
  \* Statements that take no user lock and lead to none that sweeps.
  <1>7. ASSUME req[r].pc \notin UserHolders, UNCHANGED userLock,
               req'[r].pc \notin {"changeLocks", "deleteLocks"}
        PROVE  WaitInv(r)'
    BY <1>2, <1>3, <1>7
  <1>8. CASE Start(r)
    <2>1. req[r].pc \notin UserHolders /\ UNCHANGED userLock
      BY <1>8 DEF Start, SignUpRegister, SignInFind, RefreshFind, GuardSession, Free,
                  FreePCs, UserHolders
    <2>2. Idle \in RequestState
      BY IdleTyped
    <2>3. ASSUME NEW u \in Users, NEW p \in Passwords, SignUpRegister(r, u, p)
          PROVE  req'[r].pc = "signUpIssue"
      <3>1. req'[r] = [Idle EXCEPT !.pc = "signUpIssue", !.uid = u, !.secret = p, !.at = now]
        BY <1>1, <2>3, Became DEF SignUpRegister
      <3>2. QED
        BY <2>2, <3>1 DEF RequestState
    <2>4. ASSUME NEW u \in Users, SignInFind(r, u) PROVE req'[r].pc = "signInVerify"
      <3>1. req'[r] = [Idle EXCEPT !.pc = "signInVerify", !.uid = u]
        BY <1>1, <2>4, Became DEF SignInFind
      <3>2. QED
        BY <2>2, <3>1 DEF RequestState
    <2>5. ASSUME NEW d \in Digests, RefreshFind(r, d)
          PROVE  req'[r].pc \in {"refreshLock", "denied"}
      <3>1. CASE Become(r, [Idle EXCEPT !.pc = "refreshLock", !.sid = family[d], !.dig = d])
        <4>1. req'[r] = [Idle EXCEPT !.pc = "refreshLock", !.sid = family[d], !.dig = d]
          BY <1>1, <3>1, Became
        <4>2. QED
          BY <2>2, <4>1 DEF RequestState
      <3>2. CASE Become(r, Denied(d))
        BY <1>1, <3>2, Became, DeniedFields
      <3>3. QED
        BY <2>5, <3>1, <3>2 DEF RefreshFind
    <2>6. ASSUME NEW s \in Sessions, GuardSession(r, s) PROVE req'[r].pc = "guardUser"
      <3>1. req'[r] = [Idle EXCEPT !.pc = "guardUser", !.sid = s, !.uid = owner[s]]
        BY <1>1, <2>6, Became DEF GuardSession
      <3>2. QED
        BY <2>2, <3>1 DEF RequestState
    <2>7. QED
      BY <1>7, <1>8, <2>1, <2>3, <2>4, <2>5, <2>6 DEF Start
  <1>9. ASSUME NEW p \in Passwords, SignInVerify(r, p) \/ ChangeVerify(r, p)
        PROVE  WaitInv(r)'
    <2>1. \/ req'[r] = [req[r] EXCEPT !.pc = "signInIssue", !.secret = p, !.at = now]
          \/ req'[r] = [req[r] EXCEPT !.pc = "changeRevoke", !.secret = p]
      BY <1>1, <1>9, Became DEF SignInVerify, ChangeVerify
    <2>2. req'[r].uid = req[r].uid /\ req'[r].pc \in {"signInIssue", "changeRevoke"}
      BY <1>1, <2>1 DEF RequestState
    <2>3. UserOf(r)' = UserOf(r)
      BY <2>2 DEF UserOf
    <2>4. NoUserLock(r)
      BY <1>9 DEF WaitInv, NoUserLock, SignInVerify, ChangeVerify, At, UserHolders
    <2>5. LockUser(UserOf(r), r)
      BY <1>9 DEF SignInVerify, ChangeVerify
    <2>6. QED
      BY <1>1, <2>2, <2>3, <2>4, <2>5
      DEF WaitInv, NoUserLock, LockUser, TypeOK, UserHolders
  <1>10. CASE ChangeRevoke(r)
    <2>1. req'[r] = [req[r] EXCEPT !.pc = "changeLocks", !.pending = LiveSessions(UserOf(r))]
      BY <1>1, <1>10, Became DEF ChangeRevoke
    <2>2. req'[r].uid = req[r].uid /\ req'[r].pc = "changeLocks"
      BY <1>1, <2>1 DEF RequestState
    <2>3. UserOf(r)' = UserOf(r)
      BY <2>2 DEF UserOf
    <2>4. Locked(r) = {} /\ UNCHANGED <<userLock, sessionLock>>
      BY <1>1, <1>10 DEF ChangeRevoke, At, RequestInv, SessionHolders
    <2>5. QED
      BY <2>2, <2>3, <2>4 DEF WaitInv, UserHolders, Locked
  <1>11. CASE DeleteLock(r)
    <2>1. CASE End(r, Idle)
      BY <1>5, <2>1
    <2>2. CASE LockUser(UserOf(r), r) /\ UNCHANGED sessionLock
               /\ Become(r, [req[r] EXCEPT !.pc = "deleteLocks",
                                           !.pending = SessionsOf(UserOf(r))])
      <3>1. req'[r] = [req[r] EXCEPT !.pc = "deleteLocks", !.pending = SessionsOf(UserOf(r))]
        BY <1>1, <2>2, Became
      <3>2. req'[r].uid = req[r].uid /\ req'[r].pc = "deleteLocks"
        BY <1>1, <3>1 DEF RequestState
      <3>3. UserOf(r)' = UserOf(r)
        BY <3>2 DEF UserOf
      <3>4. Locked(r) = {} /\ NoUserLock(r)
        BY <1>1, <1>11 DEF DeleteLock, At, RequestInv, SessionHolders, WaitInv,
                           NoUserLock, UserHolders
      <3>5. Locked(r)' = {}
        BY <2>2, <3>4 DEF Locked
      <3>6. QED
        BY <1>1, <2>2, <3>2, <3>3, <3>4, <3>5
        DEF WaitInv, NoUserLock, LockUser, TypeOK, UserHolders
    <2>3. QED
      BY <1>11, <2>1, <2>2 DEF DeleteLock
  <1>12. ASSUME NEW s \in Sessions, LockPending(r, s) PROVE WaitInv(r)'
    <2>1. req'[r] = [req[r] EXCEPT !.pending = @ \ {s}]
      BY <1>1, <1>12, Became DEF LockPending
    <2>2. /\ req'[r].uid = req[r].uid /\ req'[r].pc = req[r].pc
          /\ req'[r].pending = req[r].pending \ {s}
      BY <1>1, <2>1 DEF RequestState
    <2>3. UserOf(r)' = UserOf(r)
      BY <2>2 DEF UserOf
    <2>4. Locked(r)' = Locked(r) \cup {s} /\ UNCHANGED userLock
      BY <1>1, <1>12 DEF LockPending, LockSession, Locked, TypeOK
    <2>5. QED
      BY <2>2, <2>3, <2>4 DEF WaitInv
  <1>13. CASE RefreshLock(r)
    <2>1. CASE End(r, Denied(DigOf(r)))
      BY <1>6, <2>1
    <2>2. CASE UNCHANGED userLock /\ Become(r, [req[r] EXCEPT !.pc = "refreshRead"])
      <3>1. req'[r] = [req[r] EXCEPT !.pc = "refreshRead"]
        BY <1>1, <2>2, Became
      <3>2. req'[r].pc = "refreshRead"
        BY <1>1, <3>1 DEF RequestState
      <3>3. QED
        BY <1>7, <1>13, <2>2, <3>2 DEF RefreshLock, At, UserHolders
    <2>3. QED
      BY <1>13, <2>1, <2>2 DEF RefreshLock
  <1>14. CASE RefreshRead(r)
    <2>1. CASE End(r, Denied(DigOf(r)))
      BY <1>6, <2>1
    <2>2. ASSUME UNCHANGED userLock, NEW pc \in {"refreshReplay", "refreshRotate"},
                 Become(r, [req[r] EXCEPT !.pc = pc, !.at = now])
          PROVE  WaitInv(r)'
      <3>1. req'[r] = [req[r] EXCEPT !.pc = pc, !.at = now]
        BY <1>1, <2>2, Became
      <3>2. req'[r].pc = pc
        BY <1>1, <3>1 DEF RequestState
      <3>3. QED
        BY <1>7, <1>14, <2>2, <3>2 DEF RefreshRead, At, UserHolders
    <2>3. QED
      BY <1>14, <2>1, <2>2 DEF RefreshRead
  <1>15. CASE GuardUser(r)
    <2>1. CASE Become(r, Idle)
      BY <1>1, <1>7, <1>15, <2>1, Became, IdleFields DEF GuardUser, At, UserHolders
    <2>2. ASSUME NEW pc \in {"changeVerify", "signOut", "deleteLock"},
                 Become(r, [req[r] EXCEPT !.pc = pc])
          PROVE  WaitInv(r)'
      <3>1. req'[r] = [req[r] EXCEPT !.pc = pc]
        BY <1>1, <2>2, Became
      <3>2. req'[r].pc = pc
        BY <1>1, <3>1 DEF RequestState
      <3>3. QED
        BY <1>7, <1>15, <2>2, <3>2 DEF GuardUser, At, UserHolders
    <2>3. QED
      BY <1>15, <2>1, <2>2 DEF GuardUser
  <1>16. CASE Step(r)
    BY <1>5, <1>6, <1>9, <1>10, <1>11, <1>12, <1>13, <1>14, <1>15, <1>16
    DEF Step, SignUpCommit, SignInRefuse, SignInCommit, RefreshReplayCommit,
        RefreshRotateCommit, ChangeRefuse, ChangeCommit, SignOut, DeleteCommit
  <1>17. QED
    BY <1>5, <1>8, <1>16 DEF Abort

\* Who is waited for, and waits in turn, is waited for by reason of a user lock and
\* waits for a session; who holds that session and swept would hold that user
\* lock as well.
LEMMA WaitsEnd ==
  ASSUME Inv, RotationInv, \A q \in Requests : WaitInv(q),
         NEW r \in Requests, NEW q \in Requests, NEW p \in Requests, NEW o \in Requests,
         WaitsFor(r, q), WaitsFor(q, p), WaitsFor(p, o)
  PROVE  FALSE
  <1> DEFINE Sweeps(x) == req[x].pc \in {"changeLocks", "deleteLocks"}
             Parked == {"signInVerify", "changeVerify", "deleteLock", "refreshLock", "signOut"}
  \* Who holds a lock and waits, sweeps.
  <1>1. ASSUME NEW x \in Requests, NEW y \in Requests, NEW z \in Requests,
               WaitsFor(x, y), WaitsFor(y, z)
        PROVE  Sweeps(y)
    <2>1. req[y].pc \in Parked \/ Sweeps(y)
      BY <1>1 DEF WaitsFor
    <2>2. (\E u \in Users : userLock[u] = y) \/ Locked(y) # {}
      <3>1. TypeOK /\ RequestInv(x) /\ RefreshInv(x) /\ CommitInv(x) /\ FamilyInv
        BY DEF Inv, RotationInv, LedgerInv
      <3>2. req[x] \in RequestState
        BY <3>1 DEF TypeOK
      <3>3. CASE req[x].pc \in {"signInVerify", "changeVerify", "deleteLock"}
        BY <1>1, <3>1, <3>3 DEF WaitsFor, RequestInv, UserPCs
      <3>4. CASE req[x].pc \in {"refreshLock", "signOut"}
        BY <1>1, <3>1, <3>4
        DEF WaitsFor, RefreshInv, RefreshPCs, CommitInv, FamilyInv, Locked, At
      <3>5. CASE Sweeps(x)
        BY <1>1, <3>2, <3>5 DEF WaitsFor, RequestState, Locked
      <3>6. QED
        BY <1>1, <3>3, <3>4, <3>5 DEF WaitsFor
    <2>3. req[y].pc \in UserHolders \cup SessionHolders
      BY <2>2 DEF WaitInv, Inv, RequestInv
    <2>4. QED
      BY <2>1, <2>3 DEF UserHolders, SessionHolders
  <1>2. Sweeps(q) /\ Sweeps(p)
    BY <1>1
  \* A sweep has or awaits the locks of sessions of the account it has locked.
  <1>3. ASSUME NEW x \in Requests, Sweeps(x)
        PROVE  /\ userLock[UserOf(x)] = x
               /\ \A s \in req[x].pending \cup Locked(x) : owner[s] = UserOf(x)
               /\ req[x].pending \cap Locked(x) = {}
    BY <1>3
    DEF Inv, RequestInv, RotationInv, CommitInv, WaitInv, At, UserHolders, SessionsOf
  <1>4. PICK s \in req[q].pending : sessionLock[s] = p
    BY <1>2 DEF WaitsFor
  <1>5. s \in Sessions /\ s \in Locked(p)
    BY <1>4 DEF Inv, TypeOK, RequestState, Locked
  <1>6. q = p
    BY <1>2, <1>3, <1>4, <1>5
  <1>7. QED
    BY <1>2, <1>3, <1>4, <1>5, <1>6

\* No circle of waiting transactions ever forms, whatever the requests: the circle
\* would be a chain of three waits.
THEOREM DeadlockCorrect == Spec => []NoDeadlock
  <1> DEFINE Waits == \A q \in Requests : WaitInv(q)
  <1>1. Init => Waits
    BY IdleFields, ServiceAssumption DEF Init, WaitInv
  <1>2. Inv /\ Waits /\ [Next]_vars => Waits'
    <2> SUFFICES ASSUME Inv, Waits, [Next]_vars, NEW q \in Requests PROVE WaitInv(q)'
      OBVIOUS
    <2>1. ASSUME NEW r \in Requests, Start(r) \/ Step(r) \/ Abort(r) PROVE WaitInv(q)'
      BY <2>1, OwnWait, OthersWait
    <2>2. CASE UNCHANGED requestVars
      BY <2>2 DEF requestVars, WaitInv, UserOf, Locked
    <2>3. QED
      BY <2>1, <2>2 DEF Next, PurgeCutoff, PurgeBatch, Clock, vars
  <1>3. Inv /\ RotationInv /\ Waits => NoDeadlock
    <2> SUFFICES ASSUME Inv, RotationInv, Waits, NEW S \in SUBSET Requests, S # {},
                        \A r \in S : \E q \in S : WaitsFor(r, q)
                 PROVE  FALSE
      BY DEF NoDeadlock
    <2>1. PICK r \in S, q \in S : WaitsFor(r, q)
      OBVIOUS
    <2>2. PICK p \in S : WaitsFor(q, p)
      OBVIOUS
    <2>3. PICK o \in S : WaitsFor(p, o)
      OBVIOUS
    <2>4. QED
      BY <2>1, <2>2, <2>3, WaitsEnd
  <1> HIDE DEF Waits
  <1>4. QED
    BY <1>1, <1>2, <1>3, RotationCorrect, PTL DEF Spec
=============================================================================
