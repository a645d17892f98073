------------------------ MODULE RefreshCleanupProofs ------------------------
(***************************************************************************)
(* What RefreshCleanup promises of each instance, for any number of        *)
(* instances, any batch size and any number of rows and faults.            *)
(*                                                                         *)
(* The three properties are about one instance at a time, and instances    *)
(* share nothing but the rows that are eligible, so one invariant of an    *)
(* instance (InstanceInv) is enough: it says how this.active, this.timer,  *)
(* this.stopped and the process go together, and what is known, at each    *)
(* phase of a run, of the rows its statement took.                         *)
(***************************************************************************)
EXTENDS RefreshCleanup, TLAPS

InstanceInv(i) ==
    /\ active[i] <=> drain[i] # "none"
    /\ loops[i] = IF drain[i] = "none" THEN 0 ELSE 1
    /\ destroy[i] # "no" => stopped[i] /\ ~timer[i]
    /\ destroy[i] = "done" => drain[i] = "none"
    /\ life[i] = "down" => drain[i] = "none" /\ ~timer[i]
    /\ drain[i] \in {"executing", "replied"} => rows[i] = SmallerOf(Batch, left[i])
    /\ drain[i] = "failed" => rows[i] = 0
    /\ drain[i] = "settling" /\ ~stopped[i] /\ rows[i] > 0 => left[i] = rows[i]

\* The types of RefreshCleanup!TypeOK, without its bounds on the rows.
Types ==
    /\ eligible \in Nat
    /\ life \in [Instances -> {"down", "created", "up"}]
    /\ stopped \in [Instances -> BOOLEAN]
    /\ timer \in [Instances -> BOOLEAN]
    /\ active \in [Instances -> BOOLEAN]
    /\ destroy \in [Instances -> {"no", "waiting", "done"}]
    /\ drain \in [Instances -> Phases]
    /\ rows \in [Instances -> Nat]
    /\ left \in [Instances -> Nat]
    /\ loops \in [Instances -> Nat]

Inv == Types /\ \A i \in Instances : InstanceInv(i)

-----------------------------------------------------------------------------
LEMMA InvInit == Init => Inv
  BY CleanupAssumption DEF Init, Inv, Types, InstanceInv, Phases

\* RunOnce, which the start and each tick call, keeps what it writes typed.
LEMMA RunOnceTyped ==
  ASSUME Types, NEW i \in Instances, RunOnce(i)
  PROVE  /\ active' \in [Instances -> BOOLEAN]
         /\ drain' \in [Instances -> Phases]
         /\ rows' = rows /\ left' = left
         /\ loops' \in [Instances -> Nat]
  <1>1. CASE stopped[i] \/ active[i]
    BY <1>1 DEF Types, RunOnce, runVars
  <1>2. CASE ~(stopped[i] \/ active[i])
    <2>1. /\ active' = [active EXCEPT ![i] = TRUE]
          /\ drain' = [drain EXCEPT ![i] = "sent"]
          /\ loops' = [loops EXCEPT ![i] = loops[i] + 1]
          /\ rows' = rows /\ left' = left
      BY <1>2 DEF RunOnce
    <2>2. active' \in [Instances -> BOOLEAN]
      BY <2>1 DEF Types
    <2>3. drain' \in [Instances -> Phases]
      BY <2>1 DEF Types, Phases
    <2>4. loops[i] + 1 \in Nat
      BY DEF Types
    <2>5. loops' \in [Instances -> Nat]
      BY <2>1, <2>4 DEF Types
    <2> QED
      BY <2>1, <2>2, <2>3, <2>5
  <1> QED
    BY <1>1, <1>2

\* The service's own steps.
LEMMA ServiceInv ==
  ASSUME Inv, NEW i \in Instances,
         Proceed(i) \/ Interval(i) \/ Close(i)
  PROVE  Inv'
  <1>1. CASE OnModuleInit(i)
    <2>1. CASE stopped[i] \/ active[i]
      BY <1>1, <2>1 DEF Inv, Types, InstanceInv, OnModuleInit, RunOnce, runVars, Phases
    <2>2. CASE ~(stopped[i] \/ active[i])
      <3>1. drain[i] = "none" /\ loops[i] = 0
        BY <2>2 DEF Inv, InstanceInv
      <3>2. Types'
        BY <1>1, RunOnceTyped DEF Inv, Types, OnModuleInit
      <3>3. InstanceInv(i)'
        BY <1>1, <2>2, <3>1 DEF Inv, Types, InstanceInv, OnModuleInit, RunOnce
      <3>4. ASSUME NEW j \in Instances, j # i PROVE InstanceInv(j)'
        BY <1>1, <2>2, <3>4 DEF Inv, Types, InstanceInv, OnModuleInit, RunOnce
      <3> QED
        BY <3>3, <3>4, <3>2 DEF Inv
    <2> QED
      BY <2>1, <2>2
  <1>2. CASE Interval(i)
    <2>1. CASE stopped[i] \/ active[i]
      BY <1>2, <2>1 DEF Inv, Types, InstanceInv, Interval, RunOnce, runVars
    <2>2. CASE ~(stopped[i] \/ active[i])
      <3>1. drain[i] = "none" /\ loops[i] = 0
        BY <2>2 DEF Inv, InstanceInv
      <3>2. Types'
        BY <1>2, RunOnceTyped DEF Inv, Types, Interval
      <3>3. InstanceInv(i)'
        BY <1>2, <2>2, <3>1 DEF Inv, Types, InstanceInv, Interval, RunOnce
      <3>4. ASSUME NEW j \in Instances, j # i PROVE InstanceInv(j)'
        BY <1>2, <2>2, <3>4 DEF Inv, Types, InstanceInv, Interval, RunOnce
      <3> QED
        BY <3>3, <3>4, <3>2 DEF Inv
    <2> QED
      BY <2>1, <2>2
  <1>3. CASE Continue(i)
    BY <1>3, CleanupAssumption
    DEF Inv, Types, InstanceInv, Continue, ShortBatch, SmallerOf, serviceVars, Phases
  <1>4. CASE Catch(i)
    BY <1>4 DEF Inv, Types, InstanceInv, Catch, serviceVars, Phases
  <1>5. CASE Finally(i)
    BY <1>5 DEF Inv, Types, InstanceInv, Finally, Phases
  <1>6. CASE DestroyDone(i)
    BY <1>6 DEF Inv, Types, InstanceInv, DestroyDone, runVars, Phases
  <1>7. CASE Close(i)
    BY <1>7 DEF Inv, Types, InstanceInv, Close, OnModuleDestroy, runVars, Phases
  <1> QED
    BY <1>1, <1>2, <1>3, <1>4, <1>5, <1>6, <1>7 DEF Proceed

\* PostgreSQL, and the end and the beginning of processes.
LEMMA SurroundingsInv ==
  ASSUME Inv, NEW i \in Instances,
         Execute(i) \/ Reply(i) \/ Fail(i) \/ Terminate(i) \/ Crash(i) \/ Restart(i)
  PROVE  Inv'
  <1>1. CASE Execute(i)
    BY <1>1, CleanupAssumption
    DEF Inv, Types, InstanceInv, Execute, SmallerOf, Limit, serviceVars, Phases
  <1>2. CASE Reply(i)
    BY <1>2 DEF Inv, Types, InstanceInv, Reply, serviceVars, Phases
  <1>3. CASE Fail(i)
    BY <1>3 DEF Inv, Types, InstanceInv, Fail, serviceVars, Phases
  <1>4. CASE Terminate(i)
    BY <1>4 DEF Inv, Types, InstanceInv, Terminate, Exit, Phases
  <1>5. CASE Crash(i)
    BY <1>5 DEF Inv, Types, InstanceInv, Crash, Exit, Phases
  <1>6. CASE Restart(i)
    BY <1>6 DEF Inv, Types, InstanceInv, Restart, Phases
  <1> QED
    BY <1>1, <1>2, <1>3, <1>4, <1>5, <1>6

LEMMA InvStep == Inv /\ [Next]_vars => Inv'
  <1> SUFFICES ASSUME Inv, [Next]_vars PROVE Inv'
    OBVIOUS
  <1>1. CASE Expire
    BY <1>1 DEF Inv, Types, InstanceInv, Expire, serviceVars, runVars
  <1>2. CASE UNCHANGED vars
    BY <1>2 DEF Inv, Types, InstanceInv, vars, serviceVars, runVars
  <1> QED
    BY <1>1, <1>2, ServiceInv, SurroundingsInv DEF Next

THEOREM Correct == Spec => []Inv
  BY InvInit, InvStep, PTL DEF Spec

-----------------------------------------------------------------------------
\* An instance never has two runs, and this.active is set while it has one: the
\* check of RunOnce shares the run among concurrent ticks.
THEOREM OneRunCorrect == Spec => []OneRunAtATime
  <1>1. ASSUME Inv, NEW i \in Instances
        PROVE  loops[i] <= 1 /\ (active[i] <=> drain[i] # "none") /\ (active[i] <=> loops[i] = 1)
    <2>1. /\ active[i] <=> drain[i] # "none"
          /\ loops[i] = IF drain[i] = "none" THEN 0 ELSE 1
      BY <1>1 DEF Inv, InstanceInv
    <2>2. CASE drain[i] = "none"
      BY <2>1, <2>2
    <2>3. CASE drain[i] # "none"
      BY <2>1, <2>3
    <2> QED
      BY <2>2, <2>3
  <1>2. Inv => OneRunAtATime
    BY <1>1 DEF OneRunAtATime
  <1> QED
    BY <1>2, Correct, PTL

\* After onModuleDestroy no statement is out and no timer runs: the database
\* client, whose hook comes next, is not used any more by the cleanup.
THEOREM QuietCorrect == Spec => []QuietAfterDestroy
  <1>1. Inv => QuietAfterDestroy
    BY DEF Inv, InstanceInv, QuietAfterDestroy
  <1> QED
    BY <1>1, Correct, PTL

\* A run that ended without a fault or a shutdown took the last eligible row: a
\* short batch means that there was nothing more to take.
THEOREM DrainCorrect == Spec => []RunDrainsEverything
  <1>1. Inv => RunDrainsEverything
    BY DEF Inv, InstanceInv, RunDrainsEverything
  <1> QED
    BY <1>1, Correct, PTL

=============================================================================
