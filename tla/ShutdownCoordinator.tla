------------------------ MODULE ShutdownCoordinator ------------------------
(***************************************************************************)
(* The life of one process: bootstrap() in main.ts, the signals it gets,   *)
(* and ShutdownCoordinatorService, which turns the first signal into one   *)
(* bounded app.close() and one terminal action.                            *)
(*                                                                         *)
(* A signal for which the process has a listener becomes an event of the   *)
(* loop; any other has its default disposition, the end of the process.    *)
(* The runtime is the injected ShutdownRuntime: exit and kill ask for the  *)
(* end, and what the loop still runs before it comes is left open.         *)
(***************************************************************************)
EXTENDS Naturals, Sequences, SequencesExt

CONSTANTS
    Signals,      \* SHUTDOWN_SIGNALS
    OtherSignals, \* terminating signals the program does not listen to
    NoSignal,     \* no signal
    MaxPending    \* bound: signals delivered and not yet handled

ASSUME SignalAssumption ==
    /\ Signals \cap OtherSignals = {}
    /\ NoSignal \notin Signals \cup OtherSignals
    /\ MaxPending \in Nat

VARIABLES
    phase,         \* bootstrap(): see Phases
    alive,         \* the process exists
    queue,         \* deliveries whose listener has yet to be called, in order
    state,         \* ShutdownState
    winningSignal, \* this.winningSignal, or NoSignal
    watchdog,      \* the timer of the watchdog is armed
    listeners,     \* signals listened to (this.listeners)
    close,         \* the promise of app.close: "none", "pending", "settled"
    closeCalls,    \* history: calls of app.close by the coordinator
    terminals,     \* history: calls of runtime.exit and runtime.kill
    endedBy        \* history: the signal whose default disposition ended it

coordinatorVars == <<state, winningSignal, watchdog, listeners>>
historyVars     == <<closeCalls, terminals, endedBy>>
vars == <<phase, alive, queue, coordinatorVars, close, historyVars>>

\* "created": up to listen(); "listening": up to install(); "running": bootstrap
\* has returned; "cleaning": it failed and awaits app.close(); "failed": thrown.
Phases == {"creating", "created", "listening", "running", "cleaning", "failed"}
States == {"running", "closing", "timed_out", "failed", "completed"}

Init ==
    /\ phase = "creating"
    /\ alive = TRUE
    /\ queue = <<>>
    /\ state = "running"
    /\ winningSignal = NoSignal
    /\ watchdog = FALSE
    /\ listeners = {}
    /\ close = "none"
    /\ closeCalls = 0
    /\ terminals = 0
    /\ endedBy = NoSignal

-----------------------------------------------------------------------------
\* bootstrap().

Create ==
    /\ alive /\ phase = "creating"
    /\ phase' = "created"
    /\ UNCHANGED <<alive, queue, coordinatorVars, close, historyVars>>

Listen ==
    /\ alive /\ phase = "created"
    /\ phase' = "listening"
    /\ UNCHANGED <<alive, queue, coordinatorVars, close, historyVars>>

\* install(app), after `await app.getUrl()` and the startup log.
Install ==
    /\ alive /\ phase = "listening"
    /\ phase' = "running"
    /\ listeners' = Signals
    /\ UNCHANGED <<alive, queue, state, winningSignal, watchdog, close, historyVars>>

\* Without an application the error is thrown; with one, it is closed first,
\* and no watchdog bounds that.
StartupFails ==
    /\ alive
    /\ \/ /\ phase = "creating"
          /\ phase' = "failed"
          /\ UNCHANGED close
       \/ /\ phase \in {"created", "listening"}
          /\ phase' = "cleaning"
          /\ close' = "pending"
    /\ UNCHANGED <<alive, queue, coordinatorVars, historyVars>>

CleanedUp ==
    /\ alive /\ phase = "cleaning"
    /\ close = "pending"
    /\ close' = "settled"
    /\ phase' = "failed"
    /\ UNCHANGED <<alive, queue, coordinatorVars, historyVars>>

-----------------------------------------------------------------------------
\* ShutdownCoordinatorService.

\* Mutant: a second signal starts the shutdown again.
BeginAgain(signal) ==
    /\ queue # <<>> /\ signal = Head(queue)
    /\ queue' = Tail(queue)
    /\ IF state \in {"running", "closing"}
       THEN /\ state' = "closing"
            /\ winningSignal' = signal
            /\ watchdog' = TRUE
            /\ close' = "pending"
            /\ closeCalls' = closeCalls + 1
       ELSE UNCHANGED <<state, winningSignal, watchdog, close, closeCalls>>
    /\ UNCHANGED <<phase, alive, listeners, terminals, endedBy>>

\* Mutant: listeners are removed when the shutdown begins.
BeginDeaf(signal) ==
    /\ queue # <<>> /\ signal = Head(queue)
    /\ queue' = <<>>
    /\ state' = "closing"
    /\ winningSignal' = signal
    /\ watchdog' = TRUE
    /\ close' = "pending"
    /\ closeCalls' = closeCalls + 1
    /\ listeners' = {}
    /\ UNCHANGED <<phase, alive, terminals, endedBy>>

Begin(signal) ==
    /\ queue # <<>> /\ signal = Head(queue)
    /\ queue' = Tail(queue)
    /\ IF state = "running"
       THEN /\ state' = "closing"
            /\ winningSignal' = signal
            /\ watchdog' = TRUE
            /\ close' = "pending"
            /\ closeCalls' = closeCalls + 1
       ELSE UNCHANGED <<state, winningSignal, watchdog, close, closeCalls>>
    /\ UNCHANGED <<phase, alive, listeners, terminals, endedBy>>

\* Mutant: the listeners stay, and swallow the signal sent again.
EndAsOpen(final) ==
    /\ state' = final
    /\ watchdog' = FALSE
    /\ terminals' = terminals + 1
    /\ UNCHANGED <<listeners, queue>>

\* Mutant: the watchdog is not cleared.
EndAsArmed(final) ==
    /\ state' = final
    /\ listeners' = {}
    /\ queue' = <<>>
    /\ terminals' = terminals + 1
    /\ UNCHANGED watchdog

\* Listeners and watchdog are gone before the terminal action is asked for; what
\* was queued for a listener finds none.
EndAs(final) ==
    /\ state' = final
    /\ watchdog' = FALSE
    /\ listeners' = {}
    /\ queue' = <<>>
    /\ terminals' = terminals + 1

\* app.close() resolves: complete().
Complete ==
    /\ alive /\ close = "pending" /\ phase = "running"
    /\ close' = "settled"
    /\ IF state = "closing"
       THEN EndAs("completed")
       ELSE UNCHANGED <<state, watchdog, listeners, queue, terminals>>
    /\ UNCHANGED <<phase, alive, winningSignal, closeCalls, endedBy>>

\* app.close() rejects, or the watchdog fires: fail(reason).
\* Mutant: a failure that comes after the end counts as well.
FailAnyway(reason) ==
    /\ EndAs(reason)
    /\ UNCHANGED <<phase, alive, winningSignal, closeCalls, endedBy>>

Fail(reason) ==
    /\ IF state = "closing"
       THEN EndAs(reason)
       ELSE UNCHANGED <<state, watchdog, listeners, queue, terminals>>
    /\ UNCHANGED <<phase, alive, winningSignal, closeCalls, endedBy>>

CloseRejects ==
    /\ alive /\ close = "pending" /\ phase = "running"
    /\ close' = "settled"
    /\ Fail("failed")

WatchdogFires ==
    /\ alive /\ watchdog
    /\ Fail("timed_out")
    /\ UNCHANGED close

-----------------------------------------------------------------------------
\* The operating system.

Die(signal) ==
    /\ alive' = FALSE
    /\ endedBy' = signal
    /\ UNCHANGED <<phase, queue, coordinatorVars, close, closeCalls, terminals>>

Signal(signal) ==
    /\ alive
    /\ IF signal \in listeners
       THEN /\ Len(queue) < MaxPending
            /\ queue' = Append(queue, signal)
            /\ UNCHANGED <<phase, alive, coordinatorVars, close, historyVars>>
       ELSE Die(signal)

\* What exit and kill ask for: exit(1) always ends the process, the signal sent
\* again only where nothing listens to it any more.
Terminate ==
    /\ alive
    /\ \/ state \in {"timed_out", "failed"} /\ Die(NoSignal)
       \/ state = "completed" /\ winningSignal \notin listeners /\ Die(winningSignal)

\* The error bootstrap has thrown ends it as well.
Uncaught ==
    /\ alive /\ phase = "failed"
    /\ Die(NoSignal)

-----------------------------------------------------------------------------
Next ==
    \/ Create \/ Listen \/ Install \/ StartupFails \/ CleanedUp
    \/ \E signal \in Signals \cup OtherSignals : Signal(signal)
    \/ \E signal \in Signals : alive /\ Begin(signal)
    \/ Complete \/ CloseRejects \/ WatchdogFires
    \/ Terminate \/ Uncaught

\* The event loop calls listeners, timers fire, the system ends what asked for
\* it.  app.close() may never settle.
Fairness ==
    /\ WF_vars(\E signal \in Signals : alive /\ Begin(signal))
    /\ WF_vars(WatchdogFires)
    /\ WF_vars(Terminate)

Spec == Init /\ [][Next]_vars
FairSpec == Spec /\ Fairness

-----------------------------------------------------------------------------
\* Properties.

TypeOK ==
    /\ phase \in Phases
    /\ alive \in BOOLEAN
    /\ queue \in Seq(Signals) /\ Len(queue) <= MaxPending /\ ToSet(queue) \subseteq listeners
    /\ state \in States
    /\ winningSignal \in Signals \cup {NoSignal}
    /\ watchdog \in BOOLEAN
    /\ listeners \in {{}, Signals}
    /\ close \in {"none", "pending", "settled"}
    /\ closeCalls \in 0 .. 1
    /\ terminals \in 0 .. 1
    /\ endedBy \in Signals \cup OtherSignals \cup {NoSignal}

\* Close settling, close failing, the watchdog and more signals race for the
\* end: app.close is called once, one of them takes the terminal action, and the
\* watchdog is armed exactly until then.
OneShutdown ==
    /\ closeCalls = IF state = "running" THEN 0 ELSE 1
    /\ winningSignal = NoSignal <=> state = "running"
    /\ terminals = IF state \in {"timed_out", "failed", "completed"} THEN 1 ELSE 0
    /\ watchdog <=> state = "closing"

\* No further SIGTERM or SIGINT cuts a shutdown short: once the listeners are
\* there, one of them ends the process only after the terminal action.
SignalsDoNotCutShort ==
    phase = "running" /\ ~alive /\ endedBy \in Signals => terminals = 1

\* A shutdown that has begun ends the process, however long app.close() takes.
ShutdownTerminates == state = "closing" ~> ~alive

\* "Después de un listen() exitoso": a signal that ends a process that had
\* started to listen has been answered with app.close().
SignalAfterListenCloses ==
    ~alive /\ endedBy \in Signals /\ phase \in {"listening", "running"} => closeCalls = 1
=============================================================================
