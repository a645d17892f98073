--------------------------- MODULE LifecycleProofs --------------------------
(***************************************************************************)
(* A whole process is a process as ShutdownCoordinator describes it: what  *)
(* ShutdownProofs shows of the shutdown holds with the start, the close    *)
(* hooks, the cleanup and the database client around it, for every         *)
(* environment the process may be started in.                              *)
(***************************************************************************)
EXTENDS ProcessLifecycle, ShutdownProofs, FiniteSetTheorems

\* Steps that only the other components take.
LEMMA OthersStutter ==
  ASSUME \/ Connect \/ Initialise
         \/ DestroyCleanup \/ Disconnect \/ Disconnected \/ Dispose
         \/ ServeLate \/ Drain \/ Tick \/ Database
  PROVE  UNCHANGED vars
  BY DEF Connect, Initialise, DestroyCleanup, Disconnect, Disconnected, Dispose,
         ServeLate, Drain, Tick, Database

\* A start that fails does so in the coordinator's machine too.
LEMMA BootstrapStep ==
  ASSUME Configure \/ SetUp \/ Connected \/ Bind \/ Announce \/ RethrowStartupError
  PROVE  [Next]_vars
  <1>1. CASE Configure
    BY <1>1 DEF Configure, Next
  <1>2. CASE SetUp
    BY <1>2 DEF SetUp, FailStart, Next
  <1>3. CASE Connected
    BY <1>3 DEF Connected, FailStart, Next
  <1>4. CASE Bind
    BY <1>4 DEF Bind, FailStart, Next
  <1>5. CASE Announce
    BY <1>5 DEF Announce, FailStart, Next
  <1>6. CASE RethrowStartupError
    BY <1>6 DEF RethrowStartupError, Next
  <1> QED
    BY <1>1, <1>2, <1>3, <1>4, <1>5, <1>6

\* The coordinator's handlers, with what they report.
LEMMA CoordinatorStep ==
  ASSUME \/ CompleteShutdown \/ FailShutdown \/ Deliver \/ End
         \/ \E signal \in Signals : BeginShutdown(signal)
  PROVE  [Next]_vars
  <1>1. CASE CompleteShutdown
    BY <1>1 DEF CompleteShutdown, Next
  <1>2. CASE FailShutdown
    BY <1>2 DEF FailShutdown, Next
  <1>3. CASE Deliver
    BY <1>3 DEF Deliver, Next
  <1>4. CASE End
    BY <1>4 DEF End, Next
  <1>5. CASE \E signal \in Signals : BeginShutdown(signal)
    BY <1>5 DEF BeginShutdown, Next
  <1> QED
    BY <1>1, <1>2, <1>3, <1>4, <1>5

\* Every step of a process is one of the coordinator's machine, or changes nothing
\* of it.
THEOREM ImplementsCoordinator == LifecycleSpec => Spec
  <1>1. LifecycleInit => Init
    BY DEF LifecycleInit
  <1>2. [LifecycleNext]_lifecycleVars => [Next]_vars
    <2> SUFFICES ASSUME [LifecycleNext]_lifecycleVars PROVE [Next]_vars
      OBVIOUS
    <2>1. CASE UNCHANGED lifecycleVars
      BY <2>1 DEF lifecycleVars
    <2>2. CASE LifecycleNext
      BY <2>2, OthersStutter, BootstrapStep, CoordinatorStep
      DEF LifecycleNext, Bootstrap, Shutdown
    <2> QED
      BY <2>1, <2>2
  <1> QED
    BY <1>1, <1>2, PTL DEF LifecycleSpec, Spec

\* In every process, whatever fails at its start or its end: one app.close() by
\* the coordinator, one terminal action, a watchdog armed from one to the other.
THEOREM OneShutdownInProcess == LifecycleSpec => []OneShutdown
  BY ImplementsCoordinator, OneShutdownCorrect, PTL

\* In every process, no SIGTERM or SIGINT after install() cuts the shutdown short.
THEOREM NotCutShortInProcess == LifecycleSpec => []SignalsDoNotCutShort
  BY ImplementsCoordinator, NotCutShort, PTL

-----------------------------------------------------------------------------
\* The cleanup in the process: like InstanceInv of RefreshCleanupProofs, for the
\* one instance whose hooks are called in order.
CleanupInv ==
    /\ stopped \in [{Process} -> BOOLEAN]
    /\ timer \in [{Process} -> BOOLEAN]
    /\ active \in [{Process} -> BOOLEAN]
    /\ destroy \in [{Process} -> {"no", "waiting", "done"}]
    /\ drain \in [{Process} -> Cleanup!Phases]
    /\ active[Process] <=> drain[Process] # "none"
    /\ destroy[Process] # "no" => stopped[Process] /\ ~timer[Process]
    /\ destroy[Process] = "done" => drain[Process] = "none"

\* The client is only disconnected once the hook of the cleanup has ended.
Later == {"disconnecting", "disposing", "closed", "rejected"}

PurgeInv == CleanupInv /\ (closing \in Later => destroy[Process] = "done")

LEMMA PurgeInit == LifecycleInit => PurgeInv
  BY DEF LifecycleInit, Cleanup!Init, PurgeInv, CleanupInv, Later, Cleanup!Phases

\* A run is started, or nothing happens.
LEMMA RunOnceInv ==
  ASSUME CleanupInv, Cleanup!RunOnce(Process), UNCHANGED <<stopped, destroy>>
  PROVE  /\ active' \in [{Process} -> BOOLEAN]
         /\ drain' \in [{Process} -> Cleanup!Phases]
         /\ active'[Process] <=> drain'[Process] # "none"
         /\ destroy[Process] = "done" => drain'[Process] = "none"
  <1>1. CASE stopped[Process] \/ active[Process]
    BY <1>1 DEF CleanupInv, Cleanup!RunOnce, Cleanup!runVars
  <1>2. CASE ~(stopped[Process] \/ active[Process])
    <2>1. active' = [active EXCEPT ![Process] = TRUE] /\ drain' = [drain EXCEPT ![Process] = "sent"]
      BY <1>2 DEF Cleanup!RunOnce
    <2> QED
      BY <1>2, <2>1 DEF CleanupInv, Cleanup!Phases
  <1> QED
    BY <1>1, <1>2

\* The cleanup's own steps; `destroy` is left alone or set to "done".
LEMMA CleanupStep ==
  ASSUME PurgeInv, Initialise \/ DestroyCleanup \/ Drain \/ Tick \/ Database
  PROVE  PurgeInv'
  <1> USE DEF PurgeInv, CleanupInv, Later, Cleanup!Phases, Cleanup!serviceVars, Cleanup!runVars
  <1>1. CASE Initialise
    <2>1. /\ Cleanup!RunOnce(Process) /\ UNCHANGED <<stopped, destroy, closing>>
          /\ timer' = [timer EXCEPT ![Process] = ~stopped[Process]]
      BY <1>1 DEF Initialise, Cleanup!OnModuleInit, nestVars
    <2>2. timer' \in [{Process} -> BOOLEAN] /\ (stopped[Process] => ~timer'[Process])
      BY <2>1
    <2> QED
      BY <2>1, <2>2, RunOnceInv
  <1>2. CASE DestroyCleanup
    BY <1>2 DEF DestroyCleanup, Cleanup!OnModuleDestroy
  <1>3. CASE Drain
    <2>1. CASE Cleanup!Continue(Process)
      BY <1>3, <2>1 DEF Drain, Cleanup!Continue, nestVars
    <2>2. CASE Cleanup!Catch(Process)
      BY <1>3, <2>2 DEF Drain, Cleanup!Catch, nestVars
    <2>3. CASE Cleanup!Finally(Process)
      BY <1>3, <2>3 DEF Drain, Cleanup!Finally, nestVars
    <2>4. CASE Cleanup!DestroyDone(Process)
      BY <1>3, <2>4 DEF Drain, Cleanup!DestroyDone, nestVars
    <2> QED
      BY <1>3, <2>1, <2>2, <2>3, <2>4 DEF Drain
  <1>4. CASE Tick
    BY <1>4, RunOnceInv DEF Tick, Cleanup!Interval, Cleanup!Expire, nestVars
  <1>5. CASE Database
    <2>1. CASE Cleanup!Execute(Process)
      BY <1>5, <2>1 DEF Database, Cleanup!Execute, nestVars
    <2>2. CASE Cleanup!Reply(Process)
      BY <1>5, <2>2 DEF Database, Cleanup!Reply, nestVars
    <2>3. CASE Cleanup!Fail(Process)
      BY <1>5, <2>3 DEF Database, Cleanup!Fail, nestVars
    <2> QED
      BY <1>5, <2>1, <2>2, <2>3 DEF Database
  <1> QED
    BY <1>1, <1>2, <1>3, <1>4, <1>5

\* The other steps leave the cleanup alone, and only Disconnect, which waits for
\* its hook, goes on to what comes later.
LEMMA OtherStep ==
  ASSUME PurgeInv, LifecycleNext, ~(Initialise \/ DestroyCleanup \/ Drain \/ Tick \/ Database)
  PROVE  PurgeInv'
  <1>1. UNCHANGED cleanupVars
    BY DEF LifecycleNext, Bootstrap, Shutdown, Configure, SetUp, Connect, Connected, Bind, Announce,
           RethrowStartupError, FailStart, Disconnect, Disconnected, Dispose, CompleteShutdown,
           ServeLate, BeginShutdown, FailShutdown, Deliver, End
  <1>2. closing' \in Later => closing \in Later \/ destroy[Process] = "done"
    BY DEF LifecycleNext, Bootstrap, Shutdown, Configure, SetUp, Connect, Connected, Bind, Announce,
           RethrowStartupError, FailStart, Disconnect, Disconnected, Dispose, CompleteShutdown,
           ServeLate, BeginShutdown, FailShutdown, Deliver, End, nestVars, Later
  <1> QED
    BY <1>1, <1>2 DEF PurgeInv, CleanupInv, cleanupVars

LEMMA PurgeKept == PurgeInv /\ [LifecycleNext]_lifecycleVars => PurgeInv'
  <1> SUFFICES ASSUME PurgeInv, [LifecycleNext]_lifecycleVars PROVE PurgeInv'
    OBVIOUS
  <1>1. CASE UNCHANGED lifecycleVars
    BY <1>1 DEF lifecycleVars, nestVars, cleanupVars, PurgeInv, CleanupInv
  <1>2. CASE LifecycleNext
    BY <1>2, CleanupStep, OtherStep
  <1> QED
    BY <1>1, <1>2

\* However a process starts and ends, whatever fails and whenever it ticks: when
\* the client is disconnected no purge statement is out and none will be sent.
THEOREM PurgeEndsFirst == LifecycleSpec => []PurgeEndsBeforeDisconnect
  <1>1. PurgeInv => PurgeEndsBeforeDisconnect
    BY DEF PurgeInv, CleanupInv, PurgeEndsBeforeDisconnect, Later
  <1> QED
    BY <1>1, PurgeInit, PurgeKept, PTL DEF LifecycleSpec

-----------------------------------------------------------------------------
\* A start that fails.  Nothing runs before the configuration is loaded, app.close()
\* is only asked for when bootstrap() is over, and an error that is thrown bare,
\* not in an AggregateError, means that app.close() has resolved.
Untouched ==
    closing = "no" /\ ~http /\ db = "closed" /\ drain[Process] = "none" /\ ~timer[Process]

StartInv ==
    /\ http \in BOOLEAN
    /\ stage = "configure" => phase = "creating" /\ thrown = "nothing" /\ Untouched
    /\ phase = "running" \/ closing # "no" => stage = "over"
    /\ closing \in {"disposing", "closed"} => db \in {"closed", "reopened"}
    /\ closing = "closed" => ~http
    /\ thrown = "error" => phase = "failed" /\ stage = "over" /\ (closing = "closed" \/ Untouched)

LEMMA StartInit == LifecycleInit => StartInv
  BY DEF LifecycleInit, Init, Cleanup!Init, StartInv, Untouched

LEMMA FailStartInv ==
  ASSUME StartInv, stage \notin {"configure", "over"}, FailStart, db' \in {db, "closed"}
  PROVE  StartInv'
  BY DEF StartInv, Untouched, FailStart, StartupFails

LEMMA BootstrapKeepsStart ==
  ASSUME StartInv, Bootstrap
  PROVE  StartInv'
  <1>1. CASE Configure
    BY <1>1 DEF Configure, StartupFails, Create, nestVars, cleanupVars, StartInv, Untouched
  <1>2. CASE SetUp
    <2>1. CASE FailStart
      BY <1>2, <2>1, FailStartInv DEF SetUp
    <2>2. CASE ~FailStart
      BY <1>2, <2>2 DEF SetUp, vars, cleanupVars, StartInv, Untouched
    <2> QED
      BY <2>1, <2>2
  <1>3. CASE Connect
    BY <1>3 DEF Connect, vars, cleanupVars, StartInv, Untouched
  <1>4. CASE Connected
    <2>1. CASE FailStart
      <3>1. stage = "connecting" /\ db' \in {db, "closed"}
        <4>1. stage = "connecting" /\ stage' = "over"
          BY <1>4, <2>1 DEF Connected, FailStart
        <4> QED
          BY <1>4, <4>1 DEF Connected
      <3> QED
        BY <2>1, <3>1, FailStartInv
    <2>2. CASE ~FailStart
      BY <1>4, <2>2 DEF Connected, vars, cleanupVars, StartInv, Untouched
    <2> QED
      BY <2>1, <2>2
  <1>5. CASE Initialise
    BY <1>5 DEF Initialise, vars, nestVars, StartInv, Untouched
  <1>6. CASE Bind
    <2>1. CASE FailStart
      BY <1>6, <2>1, FailStartInv DEF Bind
    <2>2. CASE ~FailStart
      BY <1>6, <2>2 DEF Bind, Listen, cleanupVars, StartInv, Untouched
    <2> QED
      BY <2>1, <2>2
  <1>7. CASE Announce
    <2>1. CASE FailStart
      BY <1>7, <2>1, FailStartInv DEF Announce
    <2>2. CASE ~FailStart
      BY <1>7, <2>2 DEF Announce, Install, cleanupVars, StartInv, Untouched
    <2> QED
      BY <2>1, <2>2
  <1>8. CASE RethrowStartupError
    BY <1>8 DEF RethrowStartupError, CleanedUp, nestVars, cleanupVars, StartInv, Untouched
  <1> QED
    BY <1>1, <1>2, <1>3, <1>4, <1>5, <1>6, <1>7, <1>8 DEF Bootstrap

\* app.close(), the coordinator and the operating system.
LEMMA ShutdownKeepsStart ==
  ASSUME Inv, StartInv,
         \/ Shutdown \/ ServeLate \/ FailShutdown \/ Deliver \/ End
         \/ \E signal \in Signals : BeginShutdown(signal)
  PROVE  StartInv'
  <1>1. CASE DestroyCleanup
    BY <1>1 DEF DestroyCleanup, vars, bootVars, StartInv, Untouched
  <1>2. CASE Disconnect
    BY <1>2 DEF Disconnect, vars, bootVars, cleanupVars, StartInv, Untouched
  <1>3. CASE Disconnected
    BY <1>3 DEF Disconnected, vars, bootVars, cleanupVars, StartInv, Untouched
  <1>4. CASE Dispose
    BY <1>4 DEF Dispose, vars, bootVars, cleanupVars, StartInv, Untouched
  <1>5. CASE ServeLate
    BY <1>5 DEF ServeLate, vars, bootVars, cleanupVars, StartInv, Untouched
  <1>6. CASE CompleteShutdown
    BY <1>6 DEF CompleteShutdown, Complete, bootVars, nestVars, cleanupVars, StartInv, Untouched
  <1>7. CASE FailShutdown
    BY <1>7 DEF FailShutdown, CloseRejects, WatchdogFires, Fail, bootVars, nestVars, cleanupVars,
                StartInv, Untouched
  <1>8. CASE Deliver
    BY <1>8 DEF Deliver, Signal, Die, bootVars, nestVars, cleanupVars, StartInv, Untouched
  <1>9. CASE End
    BY <1>9 DEF End, Terminate, Uncaught, Die, bootVars, nestVars, cleanupVars, StartInv, Untouched
  <1>10. ASSUME NEW signal \in Signals, BeginShutdown(signal)
         PROVE  StartInv'
    <2>1. state = "running" => phase = "running"
      BY <1>10, BeginRunning DEF BeginShutdown
    <2> QED
      BY <1>10, <2>1
      DEF BeginShutdown, Begin, bootVars, cleanupVars, StartInv, Untouched
  <1> QED
    BY <1>1, <1>2, <1>3, <1>4, <1>5, <1>6, <1>7, <1>8, <1>9, <1>10 DEF Shutdown

\* The cleanup by itself starts nothing where it has no timer and no run.
LEMMA CleanupKeepsStart ==
  ASSUME StartInv, Drain \/ Tick \/ Database
  PROVE  StartInv'
  <1>1. /\ UNCHANGED <<vars, bootVars, nestVars>>
        /\ timer' = timer
        /\ drain[Process] = "none" /\ ~timer[Process] => drain'[Process] = "none"
    BY DEF Drain, Tick, Database, Cleanup!Continue, Cleanup!Catch, Cleanup!Finally,
           Cleanup!DestroyDone, Cleanup!Interval, Cleanup!Expire, Cleanup!Execute, Cleanup!Reply,
           Cleanup!Fail, Cleanup!serviceVars, Cleanup!runVars
  <1> QED
    BY <1>1 DEF vars, bootVars, nestVars, StartInv, Untouched

\* A start that failed at whatever step, and whose app.close() resolved, leaves no
\* server, no purge, no timer, and no connection but what a late request opened.
THEOREM FailedStartReleased == LifecycleSpec => []FailedStartReleases
  <1>1. Inv /\ StartInv /\ [LifecycleNext]_lifecycleVars => StartInv'
    <2> SUFFICES ASSUME Inv, StartInv, [LifecycleNext]_lifecycleVars PROVE StartInv'
      OBVIOUS
    <2>1. CASE UNCHANGED lifecycleVars
      BY <2>1 DEF lifecycleVars, vars, bootVars, nestVars, cleanupVars, StartInv, Untouched
    <2>2. CASE LifecycleNext
      BY <2>2, BootstrapKeepsStart, ShutdownKeepsStart, CleanupKeepsStart DEF LifecycleNext
    <2> QED
      BY <2>1, <2>2
  <1>2. StartInv /\ PurgeInv => FailedStartReleases
    BY DEF StartInv, Untouched, PurgeInv, CleanupInv, Later, FailedStartReleases
  <1>3. LifecycleSpec => []Inv
    BY ImplementsCoordinator, Correct, PTL
  <1>4. LifecycleSpec => []PurgeInv
    BY PurgeInit, PurgeKept, PTL DEF LifecycleSpec
  <1> QED
    BY <1>1, <1>2, <1>3, <1>4, StartInit, PTL DEF LifecycleSpec

-----------------------------------------------------------------------------
\* What the log says.
ReportInv ==
    /\ stderr \in BOOLEAN
    /\ reported \subseteq {"startup", "started", "completed", "timed_out", "failed"}
    /\ OneOutcomeReported

Outcomes == {"completed", "timed_out", "failed"}

\* An end is reported when it is chosen, unless the sink is needed and cannot write.
LEMMA OutcomeReported ==
  ASSUME Inv, ReportInv, state = "closing", NEW final \in Outcomes, EndAs(final),
         ReportIf(final = "completed" \/ stderr, final), UNCHANGED stderr
  PROVE  ReportInv'
  <1>1. terminals = 0 /\ terminals' = 1 /\ state' = final
    BY DEF Inv, OneShutdown, EndAs
  <1>2. reported \cap Outcomes = {}
    BY <1>1 DEF ReportInv, OneOutcomeReported, Outcomes
  <1>3. reported' = IF final = "completed" \/ stderr THEN reported \cup {final} ELSE reported
    BY DEF ReportIf
  <1>4. reported' \cap Outcomes = IF final = "completed" \/ stderr THEN {final} ELSE {}
    BY <1>2, <1>3 DEF Outcomes
  <1>5. reported' \subseteq {"startup", "started", "completed", "timed_out", "failed"}
    BY <1>3 DEF ReportInv, Outcomes
  <1>6. OneOutcomeReported'
    BY <1>1, <1>4 DEF OneOutcomeReported, Outcomes
  <1> QED
    BY <1>5, <1>6 DEF ReportInv

\* What is written besides, and when no end is chosen.
LEMMA NoOutcomeReported ==
  ASSUME ReportInv, reported' \subseteq reported \cup {"startup", "started"}, reported \subseteq reported',
         UNCHANGED <<stderr, terminals>>, terminals = 0 \/ state' = state
  PROVE  ReportInv'
  <1>1. reported' \cap Outcomes = reported \cap Outcomes
    BY DEF Outcomes
  <1> QED
    BY <1>1 DEF ReportInv, OneOutcomeReported, Outcomes

LEMMA CompleteReports == ASSUME Inv, ReportInv, CompleteShutdown PROVE ReportInv'
  <1>1. CASE state = "closing"
    BY <1>1, OutcomeReported DEF CompleteShutdown, Complete, Outcomes, ReportIf
  <1>2. CASE state # "closing"
    BY <1>2, NoOutcomeReported DEF CompleteShutdown, Complete, ReportIf
  <1> QED
    BY <1>1, <1>2

LEMMA FailReports == ASSUME Inv, ReportInv, FailShutdown PROVE ReportInv'
  <1>1. UNCHANGED stderr
    BY DEF FailShutdown
  <1>2. CASE CloseRejects /\ ReportIf(state = "closing" /\ stderr, "failed")
    <2>1. CASE state = "closing"
      BY <1>1, <1>2, <2>1, OutcomeReported DEF CloseRejects, Fail, Outcomes, ReportIf
    <2>2. CASE state # "closing"
      BY <1>1, <1>2, <2>2, NoOutcomeReported DEF CloseRejects, Fail, ReportIf
    <2> QED
      BY <2>1, <2>2
  <1>3. CASE WatchdogFires /\ ReportIf(stderr, "timed_out")
    <2>1. state = "closing" /\ EndAs("timed_out")
      BY <1>3 DEF WatchdogFires, Fail, Inv, OneShutdown
    <2> QED
      BY <1>1, <1>3, <2>1, OutcomeReported DEF Outcomes, ReportIf
  <1> QED
    BY <1>2, <1>3 DEF FailShutdown

LEMMA ReportKept == Inv /\ ReportInv /\ [LifecycleNext]_lifecycleVars => ReportInv'
  <1> SUFFICES ASSUME Inv, ReportInv, [LifecycleNext]_lifecycleVars PROVE ReportInv'
    OBVIOUS
  <1>1. ASSUME NEW signal \in Signals, BeginShutdown(signal) PROVE ReportInv'
    <2>1. terminals = 0 \/ state' = state
      BY <1>1 DEF BeginShutdown, Begin, Inv, OneShutdown
    <2> QED
      BY <1>1, <2>1, NoOutcomeReported DEF BeginShutdown, Begin, ReportIf
  <1>2. CASE Announce
    BY <1>2, NoOutcomeReported
    DEF Announce, Install, FailStart, StartupFails, coordinatorVars, historyVars, reportVars
  <1>3. CASE Deliver \/ End
    BY <1>3, NoOutcomeReported
    DEF Deliver, End, Signal, Die, Terminate, Uncaught, coordinatorVars, historyVars, reportVars
  <1>4. CASE Configure \/ SetUp \/ Connected \/ Bind \/ RethrowStartupError
    <2>1. UNCHANGED <<reportVars, coordinatorVars, historyVars>>
      BY <1>4 DEF Configure, SetUp, Connected, Bind, RethrowStartupError, FailStart, StartupFails,
                  Create, Listen, CleanedUp, vars
    <2> QED
      BY <2>1, NoOutcomeReported DEF coordinatorVars, historyVars, reportVars
  <1>5. CASE \/ Connect \/ Initialise \/ DestroyCleanup \/ Disconnect \/ Disconnected \/ Dispose
             \/ ServeLate \/ Drain \/ Tick \/ Database
    <2>1. UNCHANGED <<reportVars, vars>>
      BY <1>5 DEF Connect, Initialise, DestroyCleanup, Disconnect, Disconnected, Dispose,
                  ServeLate, Drain, Tick, Database
    <2> QED
      BY <2>1, NoOutcomeReported DEF coordinatorVars, historyVars, vars, reportVars
  <1>6. CASE UNCHANGED lifecycleVars
    BY <1>6, NoOutcomeReported DEF lifecycleVars, coordinatorVars, historyVars, vars, reportVars
  <1> QED
    BY <1>1, <1>2, <1>3, <1>4, <1>5, <1>6, CompleteReports, FailReports
    DEF LifecycleNext, Bootstrap, Shutdown

LEMMA ReportCorrect == LifecycleSpec => []ReportInv
  <1>1. LifecycleInit => ReportInv
    BY DEF LifecycleInit, Init, ReportInv, OneOutcomeReported
  <1>2. LifecycleSpec => []Inv
    BY ImplementsCoordinator, Correct, PTL
  <1> QED
    BY <1>1, <1>2, ReportKept, PTL DEF LifecycleSpec

\* In every process, whatever races for its end: the log has the event of the
\* terminal action that was taken and of no other, or none if nothing can be
\* written.
THEOREM OutcomeCorrect == LifecycleSpec => []OneOutcomeReported
  BY ReportCorrect, PTL DEF ReportInv
-----------------------------------------------------------------------------
\* Types.  The rows of the cleanup are counted: what is eligible and what the
\* statement under way has locked has become eligible before.
Locked == IF drain[Process] = "executing" THEN rows[Process] ELSE 0

RowsInv ==
    /\ eligible \in Nat /\ toCome \in 0 .. MaxRows /\ faults \in 0 .. MaxFaults
    /\ life \in [{Process} -> {"down", "created", "up"}]
    /\ rows \in [{Process} -> 0 .. Batch]
    /\ left \in [{Process} -> 0 .. MaxRows]
    /\ loops \in [{Process} -> Nat]
    /\ loops[Process] = IF drain[Process] = "none" THEN 0 ELSE 1
    /\ eligible + Locked <= MaxRows - toCome

LEMMA RowsInit == LifecycleInit => RowsInv
  BY CleanupBounds DEF LifecycleInit, Cleanup!Init, RowsInv, Locked

\* A run is started while no statement is out.
LEMMA RunOnceRows ==
  ASSUME CleanupInv, RowsInv, Cleanup!RunOnce(Process)
  PROVE  /\ UNCHANGED <<rows, left>> /\ Locked' = Locked
         /\ loops' \in [{Process} -> Nat]
         /\ loops'[Process] = IF drain'[Process] = "none" THEN 0 ELSE 1
  <1>1. CASE stopped[Process] \/ active[Process]
    BY <1>1 DEF CleanupInv, RowsInv, Locked, Cleanup!RunOnce, Cleanup!runVars
  <1>2. CASE ~(stopped[Process] \/ active[Process])
    <2>1. drain[Process] = "none" /\ loops[Process] = 0
      BY <1>2 DEF CleanupInv, RowsInv
    <2>2. /\ drain' = [drain EXCEPT ![Process] = "sent"] /\ UNCHANGED <<rows, left>>
          /\ loops' = [loops EXCEPT ![Process] = loops[Process] + 1]
      BY <1>2 DEF Cleanup!RunOnce
    <2>3. drain'[Process] = "sent"
      BY <2>2 DEF CleanupInv
    <2>4. loops' = [loops EXCEPT ![Process] = 1]
      BY <2>1, <2>2
    <2>5. loops' \in [{Process} -> Nat] /\ loops'[Process] = 1
      BY <2>4 DEF RowsInv
    <2> QED
      BY <2>1, <2>2, <2>3, <2>5 DEF Locked
  <1> QED
    BY <1>1, <1>2

\* PostgreSQL locks rows, gives them back when the statement fails, and more
\* become eligible.
LEMMA StatementRows ==
  ASSUME CleanupInv, RowsInv,
         \/ Cleanup!Execute(Process) \/ Cleanup!Reply(Process) \/ Cleanup!Fail(Process)
         \/ Cleanup!Expire
  PROVE  RowsInv'
  <1>0. Batch \in Nat \ {0} /\ MaxRows \in Nat /\ MaxFaults \in Nat
    BY CleanupBounds
  <1>1. CASE Cleanup!Execute(Process)
    <2> DEFINE taken == Cleanup!SmallerOf(Cleanup!Limit, eligible)
    <2>1. taken \in 0 .. Batch /\ taken <= eligible /\ eligible - taken \in Nat
      BY <1>0 DEF RowsInv, Cleanup!SmallerOf, Cleanup!Limit
    <2>2. /\ drain[Process] = "sent" /\ drain' = [drain EXCEPT ![Process] = "executing"]
          /\ rows' = [rows EXCEPT ![Process] = taken] /\ left' = [left EXCEPT ![Process] = eligible]
          /\ eligible' = eligible - taken /\ UNCHANGED <<toCome, faults, life, loops>>
      BY <1>1 DEF Cleanup!Execute
    <2> HIDE DEF taken
    <2>3. eligible \in 0 .. MaxRows
      BY <1>0, <2>2 DEF RowsInv, Locked
    <2>4. /\ rows' \in [{Process} -> 0 .. Batch] /\ rows'[Process] = taken
          /\ left' \in [{Process} -> 0 .. MaxRows] /\ drain'[Process] = "executing"
      BY <2>1, <2>2, <2>3 DEF RowsInv, CleanupInv
    <2>5. eligible' + Locked' = eligible + Locked
      BY <2>1, <2>2, <2>4 DEF Locked, RowsInv
    <2> QED
      BY <2>1, <2>2, <2>4, <2>5 DEF RowsInv
  <1>2. CASE Cleanup!Reply(Process)
    <2>1. /\ drain[Process] = "executing" /\ drain' = [drain EXCEPT ![Process] = "replied"]
          /\ UNCHANGED <<eligible, toCome, faults, life, rows, left, loops>>
      BY <1>2 DEF Cleanup!Reply
    <2>2. drain'[Process] = "replied"
      BY <2>1 DEF CleanupInv
    <2>3. rows[Process] \in Nat
      BY DEF RowsInv
    <2>4. Locked = rows[Process] /\ Locked' = 0
      BY <2>1, <2>2 DEF Locked
    <2>5. eligible + 0 <= MaxRows - toCome
      BY <1>0, <2>3, <2>4 DEF RowsInv
    <2> QED
      BY <2>1, <2>2, <2>4, <2>5 DEF RowsInv
  <1>3. CASE Cleanup!Fail(Process)
    <2>1. /\ drain[Process] \in {"sent", "executing"} /\ drain' = [drain EXCEPT ![Process] = "failed"]
          /\ faults < MaxFaults /\ faults' = faults + 1
          /\ eligible' = IF drain[Process] = "executing" THEN eligible + rows[Process] ELSE eligible
          /\ rows' = [rows EXCEPT ![Process] = 0] /\ UNCHANGED <<toCome, life, left, loops>>
      BY <1>3 DEF Cleanup!Fail
    <2>2. drain'[Process] = "failed" /\ rows' \in [{Process} -> 0 .. Batch]
      BY <1>0, <2>1 DEF CleanupInv, RowsInv
    <2>3. rows[Process] \in Nat /\ eligible \in Nat
      BY DEF RowsInv
    <2>4. eligible' = eligible + Locked /\ Locked' = 0 /\ eligible' \in Nat
      BY <2>1, <2>2, <2>3 DEF Locked
    <2>5. faults' \in 0 .. MaxFaults
      BY <1>0, <2>1 DEF RowsInv
    <2> QED
      BY <2>1, <2>2, <2>4, <2>5 DEF RowsInv
  <1>4. CASE Cleanup!Expire
    <2>1. /\ toCome > 0 /\ toCome' = toCome - 1 /\ eligible' = eligible + 1
          /\ UNCHANGED <<faults, life, drain, rows, left, loops>>
      BY <1>4 DEF Cleanup!Expire, Cleanup!runVars
    <2>2. Locked' = Locked /\ Locked \in Nat
      BY <2>1 DEF Locked, RowsInv
    <2>3. toCome' \in 0 .. MaxRows /\ eligible' \in Nat /\ eligible' + Locked <= MaxRows - toCome'
      BY <1>0, <2>1, <2>2 DEF RowsInv
    <2> QED
      BY <2>1, <2>2, <2>3 DEF RowsInv
  <1> QED
    BY <1>1, <1>2, <1>3, <1>4

\* The service.
LEMMA ServiceRows ==
  ASSUME CleanupInv, RowsInv,
         \/ Cleanup!OnModuleInit(Process) \/ Cleanup!Interval(Process)
         \/ Cleanup!OnModuleDestroy(Process) /\ UNCHANGED faults
         \/ Cleanup!Continue(Process) \/ Cleanup!Catch(Process) \/ Cleanup!Finally(Process)
         \/ Cleanup!DestroyDone(Process)
  PROVE  RowsInv'
  <1>1. CASE Cleanup!OnModuleInit(Process)
    <2>1. /\ Cleanup!RunOnce(Process) /\ life' = [life EXCEPT ![Process] = "up"]
          /\ UNCHANGED <<eligible, toCome, faults>>
      BY <1>1 DEF Cleanup!OnModuleInit
    <2>2. life' \in [{Process} -> {"down", "created", "up"}]
      BY <2>1 DEF RowsInv
    <2> QED
      BY <2>1, <2>2, RunOnceRows DEF RowsInv
  <1>2. CASE Cleanup!Interval(Process)
    <2>1. Cleanup!RunOnce(Process) /\ UNCHANGED <<eligible, toCome, faults, life>>
      BY <1>2 DEF Cleanup!Interval
    <2> QED
      BY <2>1, RunOnceRows DEF RowsInv
  <1>3. CASE Cleanup!OnModuleDestroy(Process) /\ UNCHANGED faults
    BY <1>3 DEF Cleanup!OnModuleDestroy, Cleanup!runVars, RowsInv, Locked
  <1>4. CASE Cleanup!Continue(Process) \/ Cleanup!Catch(Process)
    <2>1. /\ drain[Process] \in {"replied", "failed"}
          /\ \/ drain' = [drain EXCEPT ![Process] = "settling"]
             \/ drain' = [drain EXCEPT ![Process] = "sent"]
          /\ UNCHANGED <<eligible, toCome, faults, life, rows, left, loops>>
      BY <1>4 DEF Cleanup!Continue, Cleanup!Catch
    <2>2. drain'[Process] \in {"settling", "sent"}
      BY <2>1 DEF CleanupInv
    <2>3. Locked' = Locked
      BY <2>1, <2>2 DEF Locked
    <2> QED
      BY <2>1, <2>2, <2>3 DEF RowsInv
  <1>5. CASE Cleanup!Finally(Process)
    <2>1. /\ drain[Process] = "settling" /\ drain' = [drain EXCEPT ![Process] = "none"]
          /\ loops' = [loops EXCEPT ![Process] = loops[Process] - 1]
          /\ UNCHANGED <<eligible, toCome, faults, life, rows, left>>
      BY <1>5 DEF Cleanup!Finally
    <2>2. drain'[Process] = "none" /\ loops[Process] = 1
      BY <2>1 DEF CleanupInv, RowsInv
    <2>3. loops' = [loops EXCEPT ![Process] = 0]
      BY <2>1, <2>2
    <2>4. loops' \in [{Process} -> Nat] /\ loops'[Process] = 0
      BY <2>3 DEF RowsInv
    <2>5. Locked' = Locked
      BY <2>1, <2>2 DEF Locked
    <2> QED
      BY <2>1, <2>2, <2>4, <2>5 DEF RowsInv
  <1>6. CASE Cleanup!DestroyDone(Process)
    BY <1>6 DEF Cleanup!DestroyDone, Cleanup!runVars, RowsInv, Locked
  <1> QED
    BY <1>1, <1>2, <1>3, <1>4, <1>5, <1>6

LEMMA RowsKept == PurgeInv /\ RowsInv /\ [LifecycleNext]_lifecycleVars => RowsInv'
  <1> SUFFICES ASSUME PurgeInv, RowsInv, [LifecycleNext]_lifecycleVars PROVE RowsInv'
    OBVIOUS
  <1>1. CASE Initialise \/ DestroyCleanup \/ Drain \/ Tick \/ Database
    BY <1>1, StatementRows, ServiceRows
    DEF PurgeInv, Initialise, DestroyCleanup, Drain, Tick, Database
  <1>2. CASE UNCHANGED cleanupVars
    BY <1>2 DEF cleanupVars, RowsInv, Locked
  <1>3. UNCHANGED cleanupVars \/ Initialise \/ DestroyCleanup \/ Drain \/ Tick \/ Database
    BY DEF LifecycleNext, Bootstrap, Shutdown, Configure, SetUp, Connect, Connected, Bind, Announce,
           RethrowStartupError, FailStart, Disconnect, Disconnected, Dispose, CompleteShutdown,
           ServeLate, BeginShutdown, FailShutdown, Deliver, End, lifecycleVars
  <1> QED
    BY <1>1, <1>2, <1>3

\* The variables of bootstrap() and of Nest.
StepsInv ==
    /\ stage \in Stages /\ thrown \in {"nothing", "error", "aggregate"}
    /\ db \in Clients /\ http \in BOOLEAN /\ closing \in ClosingSteps

LEMMA StepsKept == StepsInv /\ [LifecycleNext]_lifecycleVars => StepsInv'
  <1> SUFFICES ASSUME StepsInv, [LifecycleNext]_lifecycleVars PROVE StepsInv'
    OBVIOUS
  <1> USE DEF StepsInv, Stages, Clients, ClosingSteps, bootVars, nestVars
  <1>1. CASE Bootstrap
    BY <1>1 DEF Bootstrap, Configure, SetUp, Connect, Connected, Initialise, Bind, Announce,
                RethrowStartupError, FailStart
  <1>2. CASE Shutdown \/ ServeLate
    BY <1>2 DEF Shutdown, DestroyCleanup, Disconnect, Disconnected, Dispose, CompleteShutdown, ServeLate
  <1>3. CASE (\E signal \in Signals : BeginShutdown(signal)) \/ FailShutdown
    BY <1>3 DEF BeginShutdown, FailShutdown
  <1>4. CASE Deliver \/ End \/ Drain \/ Tick \/ Database
    BY <1>4 DEF Deliver, End, Drain, Tick, Database
  <1>5. CASE UNCHANGED lifecycleVars
    BY <1>5 DEF lifecycleVars
  <1> QED
    BY <1>1, <1>2, <1>3, <1>4, <1>5 DEF LifecycleNext

\* In every process all variables have their types, and the cleanup neither loses
\* a row nor counts one twice, whichever statement fails.
THEOREM LifecycleTyped == LifecycleSpec => []LifecycleTypeOK
  <1>1. LifecycleInit => StepsInv
    BY DEF LifecycleInit, StepsInv, Stages, Clients, ClosingSteps
  <1>2. Inv /\ PurgeInv /\ RowsInv /\ StepsInv /\ ReportInv => LifecycleTypeOK
    <2> SUFFICES ASSUME Inv, PurgeInv, RowsInv, StepsInv, ReportInv PROVE LifecycleTypeOK
      OBVIOUS
    <2>1. eligible \in 0 .. MaxRows - toCome
      <3>1. Locked \in Nat /\ eligible \in Nat /\ MaxRows - toCome \in Int
        BY CleanupBounds DEF RowsInv, Locked
      <3> QED
        BY <3>1 DEF RowsInv
    <2>2. Cleanup!TypeOK
      BY <2>1 DEF RowsInv, PurgeInv, CleanupInv, Cleanup!TypeOK
    <2> QED
      BY <2>2 DEF Inv, StepsInv, ReportInv, LifecycleTypeOK
  <1>3. LifecycleSpec => []Inv
    BY ImplementsCoordinator, Correct, PTL
  <1>4. LifecycleSpec => []PurgeInv
    BY PurgeInit, PurgeKept, PTL DEF LifecycleSpec
  <1>5. LifecycleSpec => []RowsInv
    BY <1>4, RowsInit, RowsKept, PTL DEF LifecycleSpec
  <1>6. LifecycleSpec => []StepsInv
    BY <1>1, StepsKept, PTL DEF LifecycleSpec
  <1> QED
    BY <1>2, <1>3, <1>4, <1>5, <1>6, ReportCorrect, PTL
-----------------------------------------------------------------------------
\* The documentation beside the API.

\* Segments of paths.  The provers do not see that the words named here are strings.
Words ==
    STRING \cup {"v1", "health", "live", "ready", "users", "me", "auth", "sign-up", "sign-in",
                 "refresh", "change-password", "sign-out", "api", "docs", "openapi.json", UserId}

\* Of the paths of the controllers only users/{userId} has a parameter, and the
\* path above it is one of them.
LEMMA ControllerPathsAre ==
  /\ \A path \in ControllerPaths : path = <<"users", UserId>> \/ path \in Seq(Words \ {UserId})
  /\ <<"users">> \in ControllerPaths
  <1>1. DOMAIN Included = 1 .. 3 /\ Included[1] = HealthModule /\ Included[2] = UsersModule
        /\ Included[3] = AuthModule
    BY DEF Included
  <1>2. /\ HealthModule.routes = HealthController /\ UsersModule.routes = UsersController
        /\ AuthModule.routes = AuthController
    BY DEF HealthModule, UsersModule, AuthModule, Module
  <1>3. ControllerPaths = {route.path : route \in ToSet(HealthController)}
                     \cup {route.path : route \in ToSet(UsersController)}
                     \cup {route.path : route \in ToSet(AuthController)}
    BY <1>1, <1>2 DEF ControllerPaths
  <1>4. \A method, path, handler : Route(method, path, handler).path = path
    BY DEF Route
  <1>5. \A route \in ToSet(HealthController) :
           \E word \in {"live", "ready"} : route.path = <<"health", word>>
    <2>1. DOMAIN HealthController = 1 .. 2
      BY DEF HealthController
    <2>2. /\ HealthController[1].path = <<"health", "live">>
          /\ HealthController[2].path = <<"health", "ready">>
      BY <1>4 DEF HealthController
    <2>3. QED
      BY <2>1, <2>2 DEF ToSet
  <1>6. \A route \in ToSet(AuthController) :
           \E word \in {"sign-up", "sign-in", "refresh", "change-password", "sign-out"} :
              route.path = <<"auth", word>>
    <2>1. DOMAIN AuthController = 1 .. 5
      BY DEF AuthController
    <2>2. /\ AuthController[1].path = <<"auth", "sign-up">>
          /\ AuthController[2].path = <<"auth", "sign-in">>
          /\ AuthController[3].path = <<"auth", "refresh">>
          /\ AuthController[4].path = <<"auth", "change-password">>
          /\ AuthController[5].path = <<"auth", "sign-out">>
      BY <1>4 DEF AuthController
    <2>3. QED
      BY <2>1, <2>2 DEF ToSet
  <1>7. /\ \A route \in ToSet(UsersController) :
              route.path \in {<<"users">>, <<"users", "me">>, <<"users", UserId>>}
        /\ \E route \in ToSet(UsersController) : route.path = <<"users">>
    <2>1. DOMAIN UsersController = 1 .. 7
      BY DEF UsersController
    <2>2. /\ UsersController[1].path = <<"users">> /\ UsersController[2].path = <<"users">>
          /\ UsersController[3].path = <<"users", "me">>
          /\ UsersController[4].path = <<"users", UserId>>
          /\ UsersController[5].path = <<"users", UserId>>
          /\ UsersController[6].path = <<"users", "me">>
          /\ UsersController[7].path = <<"users", UserId>>
      BY <1>4 DEF UsersController
    <2>3. QED
      BY <2>1, <2>2 DEF ToSet
  <1>8. /\ UserId # "health" /\ UserId # "live" /\ UserId # "ready" /\ UserId # "users"
        /\ UserId # "me" /\ UserId # "auth" /\ UserId # "sign-up" /\ UserId # "sign-in"
        /\ UserId # "refresh" /\ UserId # "change-password" /\ UserId # "sign-out"
    BY DEF UserId
  <1>9. PICK plain : plain = Words \ {UserId}
    OBVIOUS
  <1>10. \A one, two \in plain : <<one>> \in Seq(plain) /\ <<one, two>> \in Seq(plain)
    OBVIOUS
  <1>11. \A path \in ControllerPaths : path = <<"users", UserId>> \/ path \in Seq(plain)
    <2> SUFFICES ASSUME NEW path \in ControllerPaths
                 PROVE  path = <<"users", UserId>> \/ path \in Seq(plain)
      OBVIOUS
    <2>1. CASE \E route \in ToSet(HealthController) : path = route.path
      BY <1>5, <1>8, <1>9, <1>10, <2>1 DEF Words
    <2>2. CASE \E route \in ToSet(UsersController) : path = route.path
      BY <1>7, <1>8, <1>9, <1>10, <2>2 DEF Words
    <2>3. CASE \E route \in ToSet(AuthController) : path = route.path
      BY <1>6, <1>8, <1>9, <1>10, <2>3 DEF Words
    <2>4. QED
      BY <1>3, <2>1, <2>2, <2>3
  <1>12. QED
    BY <1>3, <1>7, <1>9, <1>11

\* A request of a path, with a word for each parameter.
Requested(path, word) == [i \in DOMAIN path |-> IF path[i] = UserId THEN word ELSE path[i]]

LEMMA PrefixIs ==
  ASSUME NEW S, NEW s \in Seq(S), NEW t \in Seq(S)
  PROVE  IsPrefix(s, t) <=> Len(s) <= Len(t) /\ \A i \in 1 .. Len(s) : s[i] = t[i]
  <1>1. SubSeq(s, 1, Len(s)) = s
    OBVIOUS
  <1>2. ASSUME Len(s) <= Len(t)
        PROVE  SubSeq(t, 1, Len(s)) = s <=> \A i \in 1 .. Len(s) : s[i] = t[i]
    <2>1. /\ SubSeq(t, 1, Len(s)) \in Seq(S) /\ Len(SubSeq(t, 1, Len(s))) = Len(s)
          /\ \A i \in 1 .. Len(s) : SubSeq(t, 1, Len(s))[i] = t[i]
      BY <1>2
    <2>2. QED
      BY <2>1
  <1>3. QED
    BY <1>1, <1>2 DEF IsPrefix

LEMMA PrefixedUrl ==
  ASSUME NEW base \in Seq(Words \ {UserId}), NEW path \in Seq(Words \ {UserId}), NEW word
  PROVE  Requested(base \o path, word) = base \o path
  <1>1. PICK full, plain : full = base \o path /\ plain = Words \ {UserId}
    OBVIOUS
  <1>2. full \in Seq(plain)
    BY <1>1
  <1>3. \A i \in DOMAIN full : full[i] # UserId
    BY <1>1, <1>2
  <1>4. Requested(full, word) = [i \in DOMAIN full |-> full[i]]
    BY <1>3 DEF Requested
  <1>5. full = [i \in DOMAIN full |-> full[i]]
    BY <1>2
  <1>6. QED
    BY <1>1, <1>4, <1>5

LEMMA ParameterUrl ==
  ASSUME NEW base \in Seq(Words \ {UserId}), NEW word
  PROVE  Requested(base \o <<"users", UserId>>, word) = (base \o <<"users">>) \o <<word>>
  <1>1. PICK n \in Nat : n = Len(base)
    OBVIOUS
  <1>2. PICK path : path = base \o <<"users", UserId>>
    OBVIOUS
  <1>3. /\ DOMAIN path = 1 .. n + 2 /\ path[n + 1] = "users" /\ path[n + 2] = UserId
        /\ \A i \in 1 .. n : path[i] = base[i] /\ base[i] # UserId
    BY <1>1, <1>2
  <1>4. PICK url : url = (base \o <<"users">>) \o <<word>>
    OBVIOUS
  <1>5. PICK S : S = Words \cup {word}
    OBVIOUS
  <1>6. base \in Seq(S) /\ <<"users">> \in Seq(S) /\ <<word>> \in Seq(S)
    BY <1>5 DEF Words
  <1>7. /\ DOMAIN url = 1 .. n + 2 /\ url[n + 1] = "users" /\ url[n + 2] = word
        /\ \A i \in 1 .. n : url[i] = base[i]
        /\ url \in Seq(S)
    BY <1>1, <1>4, <1>6
  <1>8. "users" # UserId
    BY DEF UserId
  <1>9. PICK given : given = Requested(path, word)
    OBVIOUS
  <1>10. DOMAIN given = 1 .. n + 2 /\ \A i \in 1 .. n + 2 : given[i] = url[i]
    <2>1. \A i \in 1 .. n + 2 : given[i] = IF path[i] = UserId THEN word ELSE path[i]
      BY <1>3, <1>9 DEF Requested
    <2>2. \A i \in 1 .. n + 2 : i \in 1 .. n \/ i = n + 1 \/ i = n + 2
      OBVIOUS
    <2>3. DOMAIN given = 1 .. n + 2
      BY <1>3, <1>9 DEF Requested
    <2>4. QED
      BY <1>3, <1>7, <1>8, <2>1, <2>2, <2>3
  <1>11. given = url
    <2>1. given = [i \in 1 .. n + 2 |-> given[i]]
      BY <1>3, <1>9 DEF Requested
    <2>2. url = [i \in 1 .. n + 2 |-> url[i]]
      BY <1>7
    <2>3. QED
      BY <1>10, <2>1, <2>2
  <1>12. QED
    BY <1>2, <1>4, <1>9, <1>11

LEMMA PrefixOfLonger ==
  ASSUME NEW S, NEW route \in Seq(S), NEW base \in Seq(S), NEW word \in S,
         IsPrefix(route, base \o <<word>>)
  PROVE  IsPrefix(route, base) \/ IsPrefix(base, route)
  <1>1. PICK n, m \in Nat : n = Len(base) /\ m = Len(route)
    OBVIOUS
  <1>2. PICK url : url = base \o <<word>>
    OBVIOUS
  <1>3. /\ url \in Seq(S)
        /\ Len(url) = n + 1 /\ \A i \in 1 .. n : url[i] = base[i]
    <2>1. <<word>> \in Seq(S)
      OBVIOUS
    <2>2. QED
      BY <1>1, <1>2, <2>1
  <1>4. m <= n + 1 /\ \A i \in 1 .. m : route[i] = url[i]
    <2>1. IsPrefix(route, url)
      BY <1>2
    <2>2. Len(route) <= Len(url) /\ \A i \in 1 .. Len(route) : route[i] = url[i]
      BY <1>3, <2>1, PrefixIs
    <2>3. QED
      BY <1>1, <1>3, <2>2
  <1>5. CASE m <= n
    <2>1. \A i \in 1 .. m : route[i] = base[i]
      BY <1>3, <1>4, <1>5
    <2>2. QED
      BY <1>1, <1>5, <2>1, PrefixIs
  <1>6. CASE m = n + 1
    <2>1. \A i \in 1 .. n : base[i] = route[i]
      BY <1>3, <1>4, <1>6
    <2>2. QED
      BY <1>1, <1>6, <2>1, PrefixIs
  <1>7. QED
    BY <1>4, <1>5, <1>6

LEMMA ListOf ==
  ASSUME NEW S, NEW n \in Nat, NEW f \in [1 .. n -> S]
  PROVE  f \in Seq(S) /\ Len(f) = n
  OBVIOUS

\* Of a published path each segment but the user id is plain, if the prefix is.
LEMMA PublishedPlain ==
  ASSUME NEW prefix \in Seq(Words), \A segment \in ToSet(prefix) : Plain(segment),
         NEW tail \in ControllerPaths, tail \in Seq(Words)
  PROVE  LET path == (prefix \o <<"v1">>) \o tail
         IN  \A i \in 1 .. Len(path) : path[i] = UserId \/ Plain(path[i])
  <1>1. PICK n, m \in Nat : n = Len(prefix) /\ m = Len(tail)
    OBVIOUS
  <1>2. PICK path : path = (prefix \o <<"v1">>) \o tail
    OBVIOUS
  <1>3. "v1" \in Words
    BY DEF Words
  <1>4. <<"v1">> \in Seq(Words)
    BY <1>3
  <1>5. /\ Len(path) = n + 1 + m /\ path[n + 1] = "v1"
        /\ \A i \in 1 .. n : path[i] = prefix[i]
        /\ \A i \in 1 .. m : path[n + 1 + i] = tail[i]
    BY <1>1, <1>2, <1>4
  <1>6. \A i \in 1 .. n : Plain(path[i])
    BY <1>1, <1>5 DEF ToSet
  <1>7. path[n + 1] = UserId \/ Plain(path[n + 1])
    BY <1>5, ExpressAssumption
  <1>8. ASSUME NEW i \in 1 .. m PROVE path[n + 1 + i] = UserId \/ Plain(path[n + 1 + i])
    <2>1. tail[i] \in ToSet(tail)
      BY <1>1 DEF ToSet
    <2>2. tail[i] \in UNION {ToSet(other) : other \in ControllerPaths}
      BY <2>1
    <2>3. tail[i] = UserId \/ Plain(tail[i])
      BY <2>2, ExpressAssumption
    <2>4. QED
      BY <1>5, <2>3
  <1>9. \A i \in 1 .. n + 1 + m :
           i \in 1 .. n \/ i = n + 1 \/ \E j \in 1 .. m : i = n + 1 + j
    <2> SUFFICES ASSUME NEW i \in 1 .. n + 1 + m, i > n + 1
                 PROVE  \E j \in 1 .. m : i = n + 1 + j
      OBVIOUS
    <2>1. i - (n + 1) \in 1 .. m /\ i = n + 1 + (i - (n + 1))
      OBVIOUS
    <2>2. QED
      BY <2>1
  <1>10. QED
    BY <1>2, <1>5, <1>6, <1>7, <1>8, <1>9

\* To a plain route Express gives the lower-case requests that begin with its text.
LEMMA PlainRoute ==
  ASSUME NEW route \in Seq(Words), \A segment \in ToSet(route) : Plain(segment),
         NEW url \in Seq(Words), \A i \in 1 .. Len(url) : LowerCase(url[i]) = url[i]
  PROVE  /\ AtOrBelow(route, url) => IsPrefix(route, url)
         /\ Answers(route, url) => route = url
  <1>1. ASSUME AtOrBelow(route, url)
        PROVE  Len(route) <= Len(url) /\ \A i \in 1 .. Len(route) : route[i] = url[i]
    <2>1. Len(route) <= Len(url)
      BY <1>1 DEF AtOrBelow
    <2>2. ASSUME NEW i \in 1 .. Len(route) PROVE route[i] = url[i]
      <3>1. Plain(route[i]) /\ Accepts(route[i], url[i])
        BY <1>1 DEF ToSet, AtOrBelow
      <3>2. i \in 1 .. Len(url)
        BY <2>1
      <3>3. LowerCase(url[i]) = url[i]
        BY <3>2
      <3>4. QED
        BY <3>1, <3>3 DEF Plain, Accepts
    <2>3. QED
      BY <2>1, <2>2
  <1>2. QED
    BY <1>1, PrefixIs DEF Answers

\* What does not overlap with the published paths answers no request of one.
LEMMA NothingShadowed ==
  ASSUME NEW api, NEW openapi,
         api.globalPrefix \in Seq(Words \ {UserId}),
         openapi.docsRoute \in Seq(Words), openapi.documentRoute \in Seq(Words),
         \A segment \in ToSet(openapi.docsRoute) \cup ToSet(openapi.documentRoute)
                           \cup ToSet(api.globalPrefix) : Plain(segment),
         ~Overlaps(openapi, PublishedPaths(api)),
         NEW path \in PublishedPaths(api), NEW word \in Words, Plain(word)
  PROVE  /\ ServedByApi(PublishedPaths(api), Requested(path, word))
         /\ ~ServedByDocs(openapi, Requested(path, word))
  <1>1. PICK base : base = api.globalPrefix \o <<"v1">>
    OBVIOUS
  <1>2. base \in Seq(Words \ {UserId}) /\ base \in Seq(Words)
    <2>1. PICK plain : plain = Words \ {UserId} /\ "v1" \in plain
      BY DEF Words, UserId
    <2>2. <<"v1">> \in Seq(plain) /\ api.globalPrefix \in Seq(plain)
      BY <2>1
    <2>3. base \in Seq(plain)
      BY <1>1, <2>2
    <2>4. base \in Seq(Words)
      BY <2>1, <2>3
    <2>5. QED
      BY <2>1, <2>3, <2>4
  <1>3. \A tail \in ControllerPaths : base \o tail \in PublishedPaths(api)
    BY <1>1 DEF PublishedPaths
  <1>4. PICK tail \in ControllerPaths : path = base \o tail
    BY <1>1 DEF PublishedPaths
  <1>5. \A route \in {openapi.docsRoute, openapi.documentRoute}, other \in PublishedPaths(api) :
           ~IsPrefix(other, route) /\ ~IsPrefix(route, other)
    BY DEF Overlaps
  <1>6. PICK docs, json \in Seq(Words) : docs = openapi.docsRoute /\ json = openapi.documentRoute
    OBVIOUS
  <1>7. path \in Seq(Words) /\ tail \in Seq(Words)
    <2>1. "users" \in Words /\ UserId \in Words
      BY DEF Words
    <2>2. tail \in Seq(Words)
      <3>1. CASE tail = <<"users", UserId>>
        BY <2>1, <3>1
      <3>2. CASE tail \in Seq(Words \ {UserId})
        <4>1. PICK plain : plain = Words \ {UserId}
          OBVIOUS
        <4>2. tail \in Seq(plain) /\ plain \subseteq Words
          BY <3>2, <4>1
        <4>3. QED
          BY <4>2
      <3>3. QED
        BY <3>1, <3>2, ControllerPathsAre
    <2>3. QED
      BY <1>2, <1>4, <2>2
  <1>8. ServedByApi(PublishedPaths(api), Requested(path, word))
    <2>1. PICK url : url = Requested(path, word)
      OBVIOUS
    <2>2. PICK n \in Nat : n = Len(path) /\ DOMAIN path = 1 .. n
      BY <1>7
    <2>3. \A i \in 1 .. n : url[i] = IF path[i] = UserId THEN word ELSE path[i]
      BY <2>1, <2>2 DEF Requested
    <2>4. DOMAIN url = 1 .. n
      BY <2>1, <2>2 DEF Requested
    <2>5. Len(url) = n
      BY <2>4
    <2>6. \A i \in 1 .. n : Accepts(path[i], url[i])
      BY <2>3, ExpressAssumption DEF Accepts
    <2>7. Answers(path, url)
      BY <2>2, <2>5, <2>6 DEF Answers, AtOrBelow
    <2>8. QED
      BY <2>1, <2>7 DEF ServedByApi
  <1>9. ~IsPrefix(docs, Requested(path, word)) /\ Requested(path, word) # json
    <2>1. CASE tail \in Seq(Words \ {UserId})
      <3>1. Requested(path, word) = path
        BY <1>2, <1>4, <2>1, PrefixedUrl
      <3>2. IsPrefix(path, path)
        BY <1>7, PrefixIs
      <3>3. QED
        BY <1>5, <1>6, <3>1, <3>2
    <2>2. CASE tail = <<"users", UserId>>
      <3>1. PICK users : users = base \o <<"users">> /\ users \in Seq(Words)
        <4>1. "users" \in Words
          BY DEF Words
        <4>2. <<"users">> \in Seq(Words)
          BY <4>1
        <4>3. base \o <<"users">> \in Seq(Words)
          BY <1>2, <4>2
        <4>4. QED
          BY <4>3
      <3>2. PICK url : url = users \o <<word>> /\ url = Requested(path, word)
        BY <1>2, <1>4, <2>2, <3>1, ParameterUrl
      <3>3. users \in PublishedPaths(api)
        BY <1>3, <3>1, ControllerPathsAre
      <3>4. ~IsPrefix(docs, users) /\ ~IsPrefix(users, docs) /\ ~IsPrefix(users, json)
        BY <1>5, <1>6, <3>3
      <3>5. ~IsPrefix(docs, url)
        <4>1. ~IsPrefix(docs, users \o <<word>>)
          BY <3>1, <3>4, PrefixOfLonger
        <4>2. QED
          BY <3>2, <4>1
      <3>6. IsPrefix(users, url)
        <4>1. url \in Seq(Words) /\ Len(users) <= Len(url)
              /\ \A i \in 1 .. Len(users) : users[i] = url[i]
          <5>1. <<word>> \in Seq(Words)
            OBVIOUS
          <5>2. QED
            BY <3>1, <3>2, <5>1
        <4>2. QED
          BY <3>1, <4>1, PrefixIs
      <3>7. QED
        BY <3>2, <3>4, <3>5, <3>6
    <2>3. QED
      BY <2>1, <2>2, ControllerPathsAre
  <1>10. PICK url : url = Requested(path, word)
    OBVIOUS
  <1>11. url \in Seq(Words) /\ \A i \in 1 .. Len(url) : LowerCase(url[i]) = url[i]
    <2>1. PICK n \in Nat : n = Len(path) /\ DOMAIN path = 1 .. n
      BY <1>7
    <2>2. url = [i \in 1 .. n |-> IF path[i] = UserId THEN word ELSE path[i]]
      BY <1>10, <2>1 DEF Requested
    <2>3. \A i \in 1 .. n : path[i] \in Words
      BY <1>7, <2>1
    <2>4. url \in Seq(Words) /\ Len(url) = n
      <3>1. \A i \in 1 .. n : (IF path[i] = UserId THEN word ELSE path[i]) \in Words
        BY <2>3
      <3>2. url \in [1 .. n -> Words]
        BY <2>2, <3>1
      <3>3. QED
        BY <2>1, <3>2, ListOf
    <2>5. \A i \in 1 .. n : path[i] = UserId \/ Plain(path[i])
      <3>1. PICK prefix : prefix = api.globalPrefix
        OBVIOUS
      <3>2. prefix \in Seq(Words)
        <4>1. PICK plain : plain = Words \ {UserId}
          OBVIOUS
        <4>2. prefix \in Seq(plain) /\ plain \subseteq Words
          BY <3>1, <4>1
        <4>3. QED
          BY <4>2
      <3>3. path = (prefix \o <<"v1">>) \o tail
        BY <1>1, <1>4, <3>1
      <3>4. \A segment \in ToSet(prefix) : Plain(segment)
        BY <3>1
      <3>5. QED
        BY <1>7, <2>1, <3>2, <3>3, <3>4, PublishedPlain
    <2>6. ASSUME NEW i \in 1 .. n PROVE LowerCase(url[i]) = url[i]
      BY <2>2, <2>5 DEF Plain
    <2>7. QED
      BY <2>4, <2>6
  <1>12. ~AtOrBelow(docs, url) /\ ~Answers(json, url)
    <2>1. /\ \A segment \in ToSet(docs) : Plain(segment)
          /\ \A segment \in ToSet(json) : Plain(segment)
      BY <1>6
    <2>2. QED
      BY <1>6, <1>9, <1>10, <1>11, <2>1, PlainRoute
  <1>13. QED
    BY <1>6, <1>8, <1>10, <1>12 DEF ServedByDocs

\* What a process may have loaded.
Loaded == UNION {Load(e) : e \in Environments}

LEMMA LoadedPaths ==
  ASSUME NEW c \in Loaded
  PROVE  /\ c.api.globalPrefix \in Seq(Words)
         /\ c.openapi.docsRoute \in Seq(Words) /\ c.openapi.documentRoute \in Seq(Words)
  <1>1. PICK e \in Environments : c \in Load(e)
    BY DEF Loaded
  <1>2. c.api \in ApiConfig(e) /\ c.openapi \in OpenApiConfig(e)
    BY <1>1 DEF Load
  <1>3. PICK T : T = [word : Seq(STRING), padded : BOOLEAN]
    OBVIOUS
  <1>4. /\ e.API_GLOBAL_PREFIX \in Seq(T) /\ e.OPENAPI_DOCS_ROUTE \in Seq(T)
        /\ e.OPENAPI_DOCUMENT_ROUTE \in Seq(T)
    BY <1>3, SourcesAssumption
  <1>5. \A w \in Words : <<w>> \in Seq(Words)
    OBVIOUS
  <1>6. \A path \in Seq(STRING) : path \in Seq(Words)
    BY DEF Words
  <1>7. ASSUME NEW variable \in Seq(T), NEW w \in Words
        PROVE  OrDefault(variable, Text(<<w>>)).word \in Seq(Words)
    <2>1. CASE variable = <<>>
      BY <1>5, <2>1 DEF OrDefault, Text
    <2>2. CASE variable # <<>>
      <3>1. variable[1] \in T
        BY <2>2
      <3>2. QED
        BY <1>3, <1>6, <2>2, <3>1 DEF OrDefault
    <2>3. QED
      BY <2>1, <2>2
  <1>8. "api" \in Words /\ "docs" \in Words /\ "openapi.json" \in Words
    BY DEF Words
  <1>9. c.openapi.docsRoute \in Seq(Words) /\ c.openapi.documentRoute \in Seq(Words)
    BY <1>2, <1>4, <1>7, <1>8 DEF OpenApiConfig
  <1>10. c.api.globalPrefix \in Seq(Words)
    <2>1. PICK prefix : prefix = OrDefault(e.API_GLOBAL_PREFIX, Text(<<"api">>))
      OBVIOUS
    <2>2. prefix.word \in Seq(Words)
      BY <1>4, <1>7, <1>8, <2>1
    <2>3. c.api.globalPrefix = <<>> \/ c.api.globalPrefix = prefix.word
      <3>1. CASE prefix = Text(<<"">>)
        <4>1. PICK none : none = <<>>
          OBVIOUS
        <4>2. c.api = [globalPrefix |-> none]
          BY <1>2, <2>1, <3>1, <4>1 DEF ApiConfig
        <4>3. QED
          BY <4>1, <4>2
      <3>2. CASE prefix # Text(<<"">>)
        <4>1. c.api = [globalPrefix |-> prefix.word]
          BY <1>2, <2>1, <3>2 DEF ApiConfig
        <4>2. QED
          BY <4>1
      <3>3. QED
        BY <3>1, <3>2
    <2>4. <<>> \in Seq(Words)
      OBVIOUS
    <2>5. QED
      BY <2>2, <2>3, <2>4
  <1>11. QED
    BY <1>9, <1>10

\* An environment gives one prefix and one pair of routes, or none.
LEMMA OneOfEach ==
  ASSUME NEW e, NEW c \in Load(e), NEW d \in Load(e)
  PROVE  c.api = d.api /\ c.openapi = d.openapi
  <1>1. /\ c.api \in ApiConfig(e) /\ d.api \in ApiConfig(e)
        /\ c.openapi \in OpenApiConfig(e) /\ d.openapi \in OpenApiConfig(e)
    BY DEF Load
  <1>2. \A n, m \in ApiConfig(e) : n = m
    BY DEF ApiConfig
  <1>3. \A n, m \in OpenApiConfig(e) : n = m
    BY DEF OpenApiConfig
  <1>4. QED
    BY <1>1, <1>2, <1>3

\* The environment is read once, and bootstrap() goes on to connect only with a
\* configuration whose routes do not overlap.
DocsInv ==
    /\ stage = "configure" => env \in Environments
    /\ config \subseteq Loaded
    /\ \A c, d \in config : c.api = d.api /\ c.openapi = d.openapi
    /\ stage = "connect" =>
          \A c \in config : c.openapi.enabled => ~Overlaps(c.openapi, PublishedPaths(c.api))

LEMMA DocsKept == DocsInv /\ [LifecycleNext]_lifecycleVars => DocsInv'
  <1> SUFFICES ASSUME DocsInv, [LifecycleNext]_lifecycleVars PROVE DocsInv'
    OBVIOUS
  <1>1. CASE Configure
    <2>1. config' \in {{}, Load(env)} /\ Load(env) \subseteq Loaded
      BY <1>1 DEF Configure, DocsInv, Loaded
    <2>2. stage' \in {"over", "setUp"}
      BY <1>1 DEF Configure
    <2>3. QED
      BY <2>1, <2>2, OneOfEach DEF DocsInv
  <1>2. CASE SetUp
    <2>1. PICK c \in config :
             IF c.openapi.enabled /\ Overlaps(c.openapi, PublishedPaths(c.api))
             THEN FailStart
             ELSE stage' = "connect" /\ config' = config
      BY <1>2 DEF SetUp
    <2>2. CASE FailStart
      BY <2>2 DEF FailStart, DocsInv
    <2>3. CASE ~FailStart
      <3>1. /\ stage' = "connect" /\ config' = config
            /\ c.openapi.enabled => ~Overlaps(c.openapi, PublishedPaths(c.api))
        BY <2>1, <2>3
      <3>2. \A d \in config : d.openapi.enabled => ~Overlaps(d.openapi, PublishedPaths(d.api))
        BY <3>1 DEF DocsInv
      <3>3. QED
        BY <3>1, <3>2 DEF DocsInv
    <2>4. QED
      BY <2>2, <2>3
  <1>3. CASE Connect \/ Connected \/ Initialise \/ Bind \/ Announce \/ RethrowStartupError
    BY <1>3 DEF Connect, Connected, Initialise, Bind, Announce, RethrowStartupError, FailStart,
                DocsInv
  <1>4. CASE UNCHANGED bootVars
    BY <1>4 DEF bootVars, DocsInv
  <1>5. QED
    BY <1>1, <1>2, <1>3, <1>4
    DEF LifecycleNext, Bootstrap, Shutdown, DestroyCleanup, Disconnect, Disconnected, Dispose,
        CompleteShutdown, ServeLate, BeginShutdown, FailShutdown, Deliver, End, Drain, Tick,
        Database, lifecycleVars
\* Whatever prefix and routes a process is configured with: if it gets past its
\* set-up, the documentation answers no request of an API route, as Express matches
\* them, unless a segment of the three is no plain text.
THEOREM DocsCorrect == LifecycleSpec => []PlainDocsShadowNoRoute
  <1>1. LifecycleInit => DocsInv
    BY DEF LifecycleInit, DocsInv
  <1>2. DocsInv => PlainDocsShadowNoRoute
    <2> SUFFICES ASSUME DocsInv, NEW c \in config, stage = "connect", c.openapi.enabled,
                        NEW path \in PublishedPaths(c.api),
                        NEW word \in ToSet(c.openapi.docsRoute) \cup ToSet(c.openapi.documentRoute),
                        \A segment \in ToSet(c.openapi.docsRoute)
                                          \cup ToSet(c.openapi.documentRoute)
                                          \cup ToSet(c.api.globalPrefix) : Plain(segment)
                 PROVE  /\ ServedByApi(PublishedPaths(c.api), Requested(path, word))
                        /\ ~ServedByDocs(c.openapi, Requested(path, word))
      BY DEF PlainDocsShadowNoRoute, Requested
    <2>1. c \in Loaded /\ ~Overlaps(c.openapi, PublishedPaths(c.api))
      BY DEF DocsInv
    <2>2. /\ c.api.globalPrefix \in Seq(Words \ {UserId})
          /\ c.openapi.docsRoute \in Seq(Words) /\ c.openapi.documentRoute \in Seq(Words)
      <3>1. PICK prefix \in Seq(Words) : prefix = c.api.globalPrefix
        BY <2>1, LoadedPaths
      <3>2. \A i \in 1 .. Len(prefix) : Plain(prefix[i])
        BY <3>1 DEF ToSet
      <3>3. \A i \in 1 .. Len(prefix) : prefix[i] # UserId
        BY <3>2, ExpressAssumption DEF Plain
      <3>4. QED
        BY <2>1, <3>1, <3>3, LoadedPaths
    <2>3. word \in Words
      <3>1. PICK docs, json : docs = c.openapi.docsRoute /\ json = c.openapi.documentRoute
        OBVIOUS
      <3>2. docs \in Seq(Words) /\ json \in Seq(Words)
        BY <2>2, <3>1
      <3>3. (\E i \in DOMAIN docs : word = docs[i]) \/ (\E i \in DOMAIN json : word = json[i])
        BY <3>1 DEF ToSet
      <3>4. QED
        BY <3>2, <3>3
    <2>4. Plain(word)
      OBVIOUS
    <2>5. QED
      BY <2>1, <2>2, <2>3, <2>4, NothingShadowed
  <1>3. QED
    BY <1>1, <1>2, DocsKept, PTL DEF LifecycleSpec

\* A schema accepts the same kinds of values after convertNullable, with or without
\* a type, as a list or not, and if null was among its types before.
LEMMA ConversionKeeps ==
  ASSUME NEW schema \in [type : Seq(STRING), list : BOOLEAN, nullable : BOOLEAN, orNull : {FALSE}]
  PROVE  Accepted32(ConvertNullable(schema)) = Accepted30(schema)
  <1> DEFINE given == schema.type
             made  == ConvertNullable(schema)
  <1>1. CASE ~schema.nullable
    BY <1>1 DEF ConvertNullable, Accepted30, Accepted32
  <1>2. CASE schema.nullable /\ given = <<>> /\ ~schema.list
    <2>1. made = [schema EXCEPT !.nullable = FALSE, !.orNull = TRUE]
      BY <1>2 DEF ConvertNullable
    <2>2. made.type = <<>> /\ ~made.list /\ made.orNull
      BY <1>2, <2>1
    <2>3. QED
      BY <1>2, <2>2 DEF Typed, Accepted30, Accepted32
  <1>3. CASE schema.nullable /\ ~(given = <<>> /\ ~schema.list)
    <2>1. PICK types : types = IF Contains(given, "null") THEN given ELSE Append(given, "null")
      OBVIOUS
    <2>2. made = [schema EXCEPT !.nullable = FALSE, !.list = TRUE, !.type = types]
      BY <1>3, <2>1 DEF ConvertNullable
    <2>3. made.type = types /\ made.list /\ ~made.orNull
      BY <2>2
    <2>4. ToSet(types) = ToSet(given) \cup {"null"}
      BY <2>1 DEF ToSet, Contains
    <2>5. QED
      BY <1>3, <2>3, <2>4 DEF Typed, Accepted30, Accepted32
  <1>4. QED
    BY <1>1, <1>2, <1>3

\* What is published was made of a node of Swagger's document.
PublishedInv ==
    \A d \in document :
       /\ d.source \in Documents
       /\ d.schema = ConvertNullable(d.source.schema)
       /\ d.parameters = DeduplicateParameters(d.source.parameters)

LEMMA PublishedCorrect == LifecycleSpec => []PublishedInv
  <1>1. LifecycleInit => PublishedInv
    BY DEF LifecycleInit, PublishedInv
  <1>2. PublishedInv /\ [LifecycleNext]_lifecycleVars => PublishedInv'
    <2> SUFFICES ASSUME PublishedInv, [LifecycleNext]_lifecycleVars PROVE PublishedInv'
      OBVIOUS
    <2>1. CASE SetUp
      <3>1. \/ document' = {} \/ document' = document
            \/ \E source \in Documents : document' = {Publish(source)}
        BY <2>1 DEF SetUp, FailStart
      <3>2. QED
        BY <3>1 DEF Publish, PublishedInv
    <2>2. document' = {} \/ document' = document \/ SetUp
      BY DEF LifecycleNext, Bootstrap, Configure, Connect, Connected, Initialise, Bind, Announce,
             RethrowStartupError, FailStart, bootVars, Shutdown, DestroyCleanup, Disconnect,
             Disconnected, Dispose, CompleteShutdown, ServeLate, BeginShutdown, FailShutdown,
             Deliver, End, Drain, Tick, Database, lifecycleVars
    <2>3. QED
      BY <2>1, <2>2 DEF PublishedInv
  <1>3. QED
    BY <1>1, <1>2, PTL DEF LifecycleSpec
-----------------------------------------------------------------------------
\* Parameters: a finite set of numbers can be counted through in order, so it has
\* a first and a last, and a list with one place for each.

Upto(S, i) == {j \in S : j <= i}

LEMMA NumbersInOrder ==
  ASSUME NEW S \in SUBSET Nat, IsFiniteSet(S)
  PROVE  /\ Cardinality(S) \in Nat
         /\ \A i \in S : Cardinality(Upto(S, i)) \in 1 .. Cardinality(S)
         /\ \A i, j \in S : i < j <=> Cardinality(Upto(S, i)) < Cardinality(Upto(S, j))
         /\ \A k \in 1 .. Cardinality(S) : \E i \in S : Cardinality(Upto(S, i)) = k
  <1> DEFINE n == Cardinality(S)
             place == [i \in S |-> Cardinality(Upto(S, i))]
  <1>1. n \in Nat
    BY FS_CardinalityType
  <1>2. ASSUME NEW i \in S
        PROVE  IsFiniteSet(Upto(S, i)) /\ Cardinality(Upto(S, i)) \in 1 .. n
    <2>1. Upto(S, i) \in SUBSET S /\ i \in Upto(S, i)
      BY DEF Upto
    <2>2. IsFiniteSet(Upto(S, i)) /\ Cardinality(Upto(S, i)) <= n
      BY <2>1, FS_Subset
    <2>3. Cardinality(Upto(S, i)) \in Nat /\ Cardinality(Upto(S, i)) # 0
      BY <2>1, <2>2, FS_CardinalityType, FS_EmptySet
    <2>4. QED
      BY <1>1, <2>2, <2>3
  <1>3. ASSUME NEW i \in S, NEW j \in S, i < j
        PROVE  Cardinality(Upto(S, i)) < Cardinality(Upto(S, j))
    <2>1. Upto(S, i) \in SUBSET Upto(S, j) /\ j \in Upto(S, j) /\ j \notin Upto(S, i)
      <3>1. i \in Nat /\ j \in Nat /\ ~(j <= i) /\ j <= j
        BY <1>3
      <3>2. ASSUME NEW k \in S, k <= i PROVE k <= j
        <4>1. k \in Nat
          OBVIOUS
        <4>2. QED
          BY <1>3, <3>1, <3>2, <4>1
      <3>3. QED
        BY <3>1, <3>2 DEF Upto
    <2>2. Cardinality(Upto(S, i)) <= Cardinality(Upto(S, j))
          /\ Cardinality(Upto(S, i)) # Cardinality(Upto(S, j))
      BY <1>2, <2>1, FS_Subset
    <2>3. QED
      BY <1>2, <2>2
  <1>4. \A i, j \in S : i < j <=> Cardinality(Upto(S, i)) < Cardinality(Upto(S, j))
    BY <1>2, <1>3
  <1>5. place \in Injection(S, 1 .. n)
    <2>1. place \in [S -> 1 .. n]
      BY <1>2
    <2>2. ASSUME NEW i \in S, NEW j \in S, place[i] = place[j] PROVE i = j
      <3>1. ~(i < j) /\ ~(j < i)
        BY <1>2, <1>3, <2>2
      <3>2. QED
        BY <3>1
    <2> HIDE DEF place
    <2>3. QED
      BY <2>1, <2>2 DEF Injection, IsInjective
  <1>6. IsFiniteSet(1 .. n) /\ Cardinality(1 .. n) = n
    BY <1>1, FS_Interval
  <1>7. place \in Surjection(S, 1 .. n)
    <2> HIDE DEF place
    <2>1. QED
      BY <1>5, <1>6, FS_Injection
  <1>8. \A k \in 1 .. n : \E i \in S : place[i] = k
    <2> HIDE DEF place
    <2>1. QED
      BY <1>7 DEF Surjection
  <1>9. QED
    BY <1>1, <1>2, <1>4, <1>8

LEMMA FirstAndLast ==
  ASSUME NEW S \in SUBSET Nat, IsFiniteSet(S), S # {}
  PROVE  /\ \E i \in S : \A j \in S : i <= j
         /\ \E i \in S : \A j \in S : j <= i
  <1>1. Cardinality(S) \in Nat \ {0}
    BY FS_CardinalityType, FS_EmptySet
  <1>2. PICK i \in S : Cardinality(Upto(S, i)) = 1
    BY <1>1, NumbersInOrder
  <1>3. PICK l \in S : Cardinality(Upto(S, l)) = Cardinality(S)
    BY <1>1, NumbersInOrder
  <1>4. ASSUME NEW j \in S PROVE i <= j /\ j <= l
    <2>1. Cardinality(Upto(S, j)) \in 1 .. Cardinality(S)
      BY NumbersInOrder
    <2>2. ~(j < i) /\ ~(l < j)
      BY <1>1, <1>2, <1>3, <2>1, NumbersInOrder
    <2>3. QED
      BY <2>2
  <1>5. QED
    BY <1>4

Parameter == [in : STRING, name : STRING, from : Nat]

\* The places of the last description of each parameter.
LastSets(given) ==
    {i \in Inline(given) : \A j \in Inline(given) : SameParameter(given[i], given[j]) => j <= i}

\* Every parameter has a place where it is set first and one where it is set last.
LEMMA TwinsAre ==
  ASSUME NEW given \in Seq(Parameter)
  PROVE  /\ Inline(given) \in SUBSET Nat /\ IsFiniteSet(Inline(given))
         /\ \A i \in Inline(given) :
               /\ i \in Twins(given, i)
               /\ \A j \in Twins(given, i) : j \in Inline(given) /\ Twins(given, j) = Twins(given, i)
               /\ \E f \in FirstSet(given) : f \in Twins(given, i)
               /\ LastSet(given, i) \in Twins(given, i) \cap LastSets(given)
  <1>1. Inline(given) \in SUBSET (1 .. Len(given)) /\ Len(given) \in Nat
    BY DEF Inline
  <1>2. Inline(given) \in SUBSET Nat /\ IsFiniteSet(Inline(given))
    <2>1. IsFiniteSet(1 .. Len(given))
      BY <1>1, FS_Interval
    <2>2. QED
      BY <1>1, <2>1, FS_Subset
  <1>3. ASSUME NEW i \in Inline(given)
        PROVE  /\ i \in Twins(given, i)
               /\ \A j \in Twins(given, i) : j \in Inline(given) /\ Twins(given, j) = Twins(given, i)
    BY DEF Twins, SameParameter
  <1>4. ASSUME NEW i \in Inline(given)
        PROVE  /\ \E f \in Twins(given, i) : \A j \in Twins(given, i) : f <= j
               /\ \E l \in Twins(given, i) : \A j \in Twins(given, i) : j <= l
    <2>1. Twins(given, i) \in SUBSET Inline(given)
      BY DEF Twins
    <2>2. Twins(given, i) \in SUBSET Nat /\ IsFiniteSet(Twins(given, i)) /\ Twins(given, i) # {}
      BY <1>2, <1>3, <2>1, FS_Subset
    <2>3. QED
      BY <2>2, FirstAndLast
  <1>5. ASSUME NEW i \in Inline(given)
        PROVE  \E f \in FirstSet(given) : f \in Twins(given, i)
    <2>1. PICK f \in Twins(given, i) : \A j \in Twins(given, i) : f <= j
      BY <1>4
    <2>2. f \in FirstSet(given)
      BY <1>3, <2>1 DEF FirstSet
    <2>3. QED
      BY <2>2
  <1>6. ASSUME NEW i \in Inline(given)
        PROVE  LastSet(given, i) \in Twins(given, i) \cap LastSets(given)
    <2>1. PICK l : l = LastSet(given, i)
      OBVIOUS
    <2>2. l \in Twins(given, i) /\ \A j \in Twins(given, i) : j <= l
      BY <1>4, <2>1 DEF LastSet
    <2>3. l \in Inline(given) /\ \A j \in Twins(given, l) : j <= l
      BY <1>3, <2>2
    <2>4. l \in LastSets(given)
      BY <2>3 DEF LastSets, Twins
    <2>5. QED
      BY <2>1, <2>2, <2>4
  <1>7. QED
    BY <1>2, <1>3, <1>5, <1>6

\* As many parameters are set first as are set last, one of each key.
LEMMA KeysAndValues ==
  ASSUME NEW given \in Seq(Parameter)
  PROVE  /\ FirstSet(given) \in SUBSET Nat /\ IsFiniteSet(FirstSet(given))
         /\ Cardinality(LastSets(given)) = Cardinality(FirstSet(given))
         /\ \A l \in LastSets(given) : \E i \in FirstSet(given) : LastSet(given, i) = l
  <1> DEFINE value == [i \in FirstSet(given) |-> LastSet(given, i)]
  <1>1. FirstSet(given) \in SUBSET Inline(given) /\ LastSets(given) \in SUBSET Inline(given)
    BY DEF FirstSet, LastSets
  <1>2. FirstSet(given) \in SUBSET Nat /\ IsFiniteSet(FirstSet(given))
    BY <1>1, TwinsAre, FS_Subset
  <1>3. ASSUME NEW l \in LastSets(given)
        PROVE  \E i \in FirstSet(given) : LastSet(given, i) = l
    <2>1. PICK i \in FirstSet(given) : i \in Twins(given, l)
      BY <1>1, TwinsAre
    <2>2. PICK k : k = LastSet(given, i)
      OBVIOUS
    <2>3. Twins(given, i) = Twins(given, l)
      BY <1>1, <2>1, TwinsAre
    <2>4. k \in Twins(given, i) /\ k \in LastSets(given)
      BY <1>1, <2>2, TwinsAre
    <2>5. k \in Twins(given, l) /\ l \in Twins(given, k) /\ k \in Nat /\ l \in Nat
      <3>1. k \in Twins(given, l)
        BY <2>3, <2>4
      <3>2. Twins(given, k) = Twins(given, l) /\ l \in Twins(given, l)
        BY <1>1, <3>1, TwinsAre
      <3>3. k \in Inline(given) /\ l \in Inline(given) /\ Inline(given) \in SUBSET Nat
        BY <1>1, <2>4, TwinsAre
      <3>4. QED
        BY <3>1, <3>2, <3>3
    <2>6. k <= l /\ l <= k
      BY <1>1, <2>4, <2>5 DEF LastSets, Twins
    <2>7. k = l
      BY <2>5, <2>6
    <2>8. QED
      BY <2>2, <2>7
  <1>4. value \in Bijection(FirstSet(given), LastSets(given))
    <2>1. value \in [FirstSet(given) -> LastSets(given)]
      BY <1>1, TwinsAre
    <2>2. ASSUME NEW i \in FirstSet(given), NEW j \in FirstSet(given), value[i] = value[j]
          PROVE  i = j
      <3>1. LastSet(given, i) \in Twins(given, i) /\ LastSet(given, j) \in Twins(given, j)
        BY <1>1, TwinsAre
      <3>2. PICK k : k \in Twins(given, i) /\ k \in Twins(given, j)
        BY <2>2, <3>1
      <3>3. Twins(given, k) = Twins(given, i) /\ Twins(given, k) = Twins(given, j)
        BY <1>1, <3>2, TwinsAre
      <3>4. i \in Twins(given, j) /\ j \in Twins(given, i)
        BY <1>1, <3>3, TwinsAre
      <3>5. i <= j /\ j <= i
        BY <3>4 DEF FirstSet
      <3>6. QED
        BY <1>2, <3>5
    <2>3. \A l \in LastSets(given) : \E i \in FirstSet(given) : value[i] = l
      BY <1>3
    <2> HIDE DEF value
    <2>4. QED
      BY <2>1, <2>2, <2>3 DEF Bijection, Injection, Surjection, IsInjective
  <1>5. ExistsBijection(FirstSet(given), LastSets(given))
    BY <1>4 DEF ExistsBijection
  <1>6. Cardinality(LastSets(given)) = Cardinality(FirstSet(given))
    BY <1>2, <1>5, FS_Bijection
  <1>7. QED
    BY <1>2, <1>3, <1>6

\* What is published of a list of parameters: each as it was set last, once, in the
\* order in which they were set first.
LEMMA ParametersKept ==
  ASSUME NEW given \in Seq(Parameter)
  PROVE  /\ ToSet(DeduplicateParameters(given)) = {given[i] : i \in LastSets(given)}
         /\ Len(DeduplicateParameters(given)) = Cardinality(LastSets(given))
         /\ \A k, l \in DOMAIN DeduplicateParameters(given) : k < l =>
               \E i \in Inline(given) :
                  /\ SameParameter(given[i], DeduplicateParameters(given)[k])
                  /\ \A j \in Inline(given) :
                        SameParameter(given[j], DeduplicateParameters(given)[l]) => i < j
  <1> DEFINE keys == FirstSet(given)
             n == Cardinality(keys)
             place(i) == Cardinality(Upto(keys, i))
             nth(k) == CHOOSE i \in keys : place(i) = k
             made == DeduplicateParameters(given)
  <1>1. /\ keys \in SUBSET Nat /\ keys \in SUBSET Inline(given)
        /\ n = Cardinality(LastSets(given))
        /\ \A l \in LastSets(given) : \E i \in keys : LastSet(given, i) = l
    BY KeysAndValues DEF FirstSet
  <1>2. /\ n \in Nat /\ \A i \in keys : place(i) \in 1 .. n
        /\ \A i, j \in keys : i < j <=> place(i) < place(j)
        /\ \A k \in 1 .. n : \E i \in keys : place(i) = k
    BY KeysAndValues, NumbersInOrder
  <1>3. made = [k \in 1 .. n |-> given[LastSet(given, nth(k))]]
    BY DEF DeduplicateParameters, Upto
  <1> HIDE DEF keys, n, place, made
  <1>4. ASSUME NEW k \in 1 .. n PROVE nth(k) \in keys /\ place(nth(k)) = k
    BY <1>2
  <1> HIDE DEF nth
  <1>5. ASSUME NEW i \in keys PROVE nth(place(i)) = i
    <2>1. PICK k : k = place(i)
      OBVIOUS
    <2>2. k \in 1 .. n
      BY <1>2, <2>1
    <2>3. nth(k) \in keys /\ place(nth(k)) = place(i)
      BY <1>4, <2>1, <2>2
    <2>4. PICK j : j = nth(k)
      OBVIOUS
    <2>5. j \in keys /\ place(j) = place(i) /\ place(i) \in Nat
      BY <1>2, <2>3, <2>4
    <2>6. ~(place(i) < place(j)) /\ ~(place(j) < place(i))
      <3>1. PICK p : p = place(i) /\ p = place(j)
        BY <2>5
      <3>2. QED
        BY <2>5, <3>1
    <2>7. ~(i < j) /\ ~(j < i)
      BY <1>2, <2>5, <2>6
    <2>8. i \in Nat /\ j \in Nat
      BY <1>1, <2>5
    <2>9. QED
      BY <2>1, <2>4, <2>7, <2>8
  <1>6. DOMAIN made = 1 .. n /\ Len(made) = n
    BY <1>2, <1>3
  <1>7. ToSet(made) = {given[i] : i \in LastSets(given)}
    <2>1. ASSUME NEW k \in 1 .. n
          PROVE  \E i \in LastSets(given) : made[k] = given[i]
      <3>1. nth(k) \in Inline(given)
        BY <1>1, <1>4
      <3>2. LastSet(given, nth(k)) \in LastSets(given)
        BY <3>1, TwinsAre
      <3>3. QED
        BY <1>3, <3>2
    <2>2. ASSUME NEW l \in LastSets(given)
          PROVE  \E k \in 1 .. n : made[k] = given[l]
      <3>1. PICK i \in keys : LastSet(given, i) = l
        BY <1>1
      <3>2. place(i) \in 1 .. n /\ nth(place(i)) = i
        BY <1>2, <1>5
      <3>3. QED
        BY <1>3, <3>1, <3>2
    <2>3. ToSet(made) = {made[k] : k \in 1 .. n}
      BY <1>6 DEF ToSet
    <2>4. QED
      BY <2>1, <2>2, <2>3
  <1>8. ASSUME NEW k \in 1 .. n, NEW l \in 1 .. n, k < l
        PROVE  \E i \in Inline(given) :
                  /\ SameParameter(given[i], made[k])
                  /\ \A j \in Inline(given) : SameParameter(given[j], made[l]) => i < j
    <2>1. PICK i \in keys, h \in keys : i = nth(k) /\ h = nth(l)
      BY <1>4
    <2>2. i < h /\ i \in Inline(given) /\ h \in Inline(given) /\ Inline(given) \in SUBSET Nat
      BY <1>1, <1>2, <1>4, <1>8, <2>1, TwinsAre
    <2>3. SameParameter(given[i], made[k])
      <3>1. LastSet(given, i) \in Twins(given, i)
        BY <2>2, TwinsAre
      <3>2. QED
        BY <1>3, <2>1, <3>1 DEF Twins
    <2>4. ASSUME NEW j \in Inline(given), SameParameter(given[j], made[l])
          PROVE  i < j
      <3>1. LastSet(given, h) \in Twins(given, h)
        BY <2>2, TwinsAre
      <3>2. made[l] = given[LastSet(given, h)]
        BY <1>3, <2>1
      <3>3. j \in Twins(given, h)
        BY <2>4, <3>1, <3>2 DEF Twins, SameParameter
      <3>4. h <= j
        BY <3>3 DEF keys, FirstSet
      <3>5. i \in Nat /\ h \in Nat /\ j \in Nat
        BY <2>2
      <3>6. QED
        BY <2>2, <3>4, <3>5
    <2>5. QED
      BY <2>2, <2>3, <2>4
  <1>9. QED
    BY <1>1, <1>6, <1>7, <1>8 DEF made

\* The published document says what Swagger's did, of schemas and of parameters,
\* whatever Swagger made of the controllers.
THEOREM DocumentCorrect == LifecycleSpec => []DocumentMeansTheSame
  <1>1. PublishedInv => DocumentMeansTheSame
    <2> SUFFICES ASSUME PublishedInv, NEW d \in document
                 PROVE  /\ Accepted32(d.schema) = Accepted30(d.source.schema)
                        /\ LET given == d.source.parameters
                           IN  /\ ToSet(d.parameters) = {given[i] : i \in LastSets(given)}
                               /\ Len(d.parameters) = Cardinality(LastSets(given))
                               /\ \A k, l \in DOMAIN d.parameters : k < l =>
                                     \E i \in Inline(given) :
                                        /\ SameParameter(given[i], d.parameters[k])
                                        /\ \A j \in Inline(given) :
                                              SameParameter(given[j], d.parameters[l]) => i < j
      BY DEF DocumentMeansTheSame, SchemasMeanTheSame, LastSets, Inline
    <2>1. /\ d.source.parameters \in Seq(Parameter)
          /\ d.parameters = DeduplicateParameters(d.source.parameters)
      BY SourcesAssumption DEF PublishedInv, Parameter
    <2>2. Accepted32(d.schema) = Accepted30(d.source.schema)
      BY SourcesAssumption, ConversionKeeps DEF PublishedInv
    <2>3. PICK given : given = d.source.parameters
      OBVIOUS
    <2>4. QED
      BY <2>1, <2>2, <2>3, ParametersKept
  <1>2. QED
    BY <1>1, PublishedCorrect, PTL
=============================================================================
