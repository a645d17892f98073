--------------------------- MODULE ShutdownProofs ---------------------------
(***************************************************************************)
(* What the shutdown promises, for any signals and any number of           *)
(* deliveries that wait for their listener.                                *)
(*                                                                         *)
(* The invariant ties the coordinator's state to what it has set up:       *)
(* listeners exist exactly while bootstrap() has returned and no end has   *)
(* been chosen, so that a signal that is not listened to can only end the  *)
(* process before the one or after the other.                              *)
(***************************************************************************)
EXTENDS ShutdownCoordinator, TLAPS

ListenersInv ==
    /\ listeners = IF phase = "running" /\ state \in {"running", "closing"} THEN Signals ELSE {}
    /\ state # "running" => phase = "running"

Inv == TypeOK /\ OneShutdown /\ ListenersInv /\ SignalsDoNotCutShort

-----------------------------------------------------------------------------
\* The empty queue.
LEMMA EmptyQueue ==
  ASSUME NEW queued, queued = <<>>
  PROVE  queued \in Seq(Signals) /\ Len(queued) = 0 /\ ToSet(queued) = {}
  <1>1. queued \in Seq(Signals) /\ Len(queued) = 0 /\ DOMAIN queued = {}
    OBVIOUS
  <1>2. ASSUME NEW x \in ToSet(queued) PROVE FALSE
    <2>1. PICK i \in DOMAIN queued : x = queued[i]
      BY Zenon DEF ToSet
    <2> QED
      BY <1>1, <2>1
  <1> QED
    BY <1>1, <1>2

LEMMA InvInit == Init => Inv
  <1> SUFFICES ASSUME Init PROVE Inv
    OBVIOUS
  <1>1. queue \in Seq(Signals) /\ Len(queue) <= MaxPending /\ ToSet(queue) \subseteq listeners
    <2>1. queue = <<>> /\ MaxPending \in Nat
      BY SignalAssumption DEF Init
    <2> QED
      BY <2>1, EmptyQueue
  <1>2. /\ phase \in Phases /\ alive \in BOOLEAN /\ state \in States
        /\ winningSignal \in {NoSignal} /\ watchdog \in BOOLEAN /\ listeners = {}
        /\ close = "none" /\ closeCalls = 0 /\ terminals = 0 /\ endedBy = NoSignal
    BY DEF Init, Phases, States
  <1>3. TypeOK
    BY <1>1, <1>2 DEF TypeOK
  <1>4. OneShutdown /\ ListenersInv /\ SignalsDoNotCutShort
    BY SignalAssumption DEF Init, OneShutdown, ListenersInv, SignalsDoNotCutShort
  <1> QED
    BY <1>3, <1>4 DEF Inv

-----------------------------------------------------------------------------
\* bootstrap() leaves the coordinator alone but for the listeners it installs.
LEMMA BootstrapInv ==
  ASSUME Inv, Create \/ Listen \/ Install \/ StartupFails \/ CleanedUp
  PROVE  Inv'
  <1> USE DEF Inv, TypeOK, OneShutdown, ListenersInv, SignalsDoNotCutShort, Phases, States,
              coordinatorVars, historyVars
  <1>1. CASE Create
    BY <1>1 DEF Create
  <1>2. CASE Listen
    BY <1>2 DEF Listen
  <1>3. CASE Install
    BY <1>3 DEF Install
  <1>4. CASE StartupFails
    BY <1>4 DEF StartupFails
  <1>5. CASE CleanedUp
    BY <1>5 DEF CleanedUp
  <1> QED
    BY <1>1, <1>2, <1>3, <1>4, <1>5

-----------------------------------------------------------------------------
\* A queue of signals, one of which is taken or comes.
LEMMA TailQueue ==
  ASSUME queue \in Seq(Signals), queue # <<>>
  PROVE  /\ Head(queue) \in Signals
         /\ Tail(queue) \in Seq(Signals)
         /\ Len(Tail(queue)) <= Len(queue)
         /\ ToSet(Tail(queue)) \subseteq ToSet(queue)
  BY DEF ToSet

LEMMA AppendQueue ==
  ASSUME queue \in Seq(Signals), NEW signal \in Signals
  PROVE  /\ Append(queue, signal) \in Seq(Signals)
         /\ Len(Append(queue, signal)) = Len(queue) + 1
         /\ ToSet(Append(queue, signal)) \subseteq ToSet(queue) \cup {signal}
  BY DEF ToSet

\* A listener is only called when bootstrap() has returned.
LEMMA BeginRunning ==
  ASSUME Inv, NEW signal, Begin(signal), state = "running"
  PROVE  phase = "running"
  BY TailQueue DEF Begin, Inv, TypeOK, ListenersInv, ToSet

\* The first signal begins the one shutdown; the next ones find it begun.
LEMMA BeginInv ==
  ASSUME Inv, NEW signal \in Signals, alive, Begin(signal)
  PROVE  Inv'
  <1>1. /\ queue' \in Seq(Signals) /\ Len(queue') <= MaxPending
        /\ ToSet(queue') \subseteq listeners'
    BY TailQueue, SignalAssumption DEF Begin, Inv, TypeOK
  <1>2. CASE state = "running"
    <2>1. phase = "running"
      BY <1>2, BeginRunning
    <2> QED
      BY <1>1, <1>2, <2>1, SignalAssumption
      DEF Begin, Inv, TypeOK, OneShutdown, ListenersInv, SignalsDoNotCutShort, Phases, States
  <1>3. CASE state # "running"
    BY <1>1, <1>3
    DEF Begin, Inv, TypeOK, OneShutdown, ListenersInv, SignalsDoNotCutShort, Phases, States
  <1> QED
    BY <1>2, <1>3

\* Whatever comes first of close settling and the watchdog ends the shutdown.
LEMMA EndAsInv ==
  ASSUME Inv, state = "closing", NEW final \in {"timed_out", "failed", "completed"},
         EndAs(final), close' \in {"none", "pending", "settled"},
         UNCHANGED <<phase, alive, winningSignal, closeCalls, endedBy>>
  PROVE  Inv'
  <1>1. TypeOK'
    <2>1. /\ queue' \in Seq(Signals) /\ Len(queue') <= MaxPending
          /\ ToSet(queue') \subseteq listeners'
      BY EmptyQueue, SignalAssumption DEF EndAs
    <2>2. terminals' \in 0 .. 1
      BY DEF EndAs, Inv, OneShutdown
    <2> QED
      BY <2>1, <2>2 DEF EndAs, Inv, TypeOK, States
  <1>2. OneShutdown'
    BY DEF EndAs, Inv, OneShutdown
  <1>3. ListenersInv'
    BY DEF EndAs, Inv, ListenersInv
  <1>4. SignalsDoNotCutShort'
    BY DEF EndAs, Inv, OneShutdown, SignalsDoNotCutShort
  <1> QED
    BY <1>1, <1>2, <1>3, <1>4 DEF Inv

\* What comes later finds it ended.
LEMMA LateInv ==
  ASSUME Inv, close' \in {"none", "pending", "settled"},
         UNCHANGED <<state, watchdog, listeners, queue, terminals,
                     phase, alive, winningSignal, closeCalls, endedBy>>
  PROVE  Inv'
  BY DEF Inv, TypeOK, OneShutdown, ListenersInv, SignalsDoNotCutShort

LEMMA EndInv ==
  ASSUME Inv, Complete \/ CloseRejects \/ WatchdogFires
  PROVE  Inv'
  <1>1. close' \in {"none", "pending", "settled"}
    BY DEF Inv, TypeOK, Complete, CloseRejects, WatchdogFires
  <1>2. UNCHANGED <<phase, alive, winningSignal, closeCalls, endedBy>>
    BY DEF Complete, CloseRejects, WatchdogFires, Fail
  <1>3. CASE state = "closing"
    BY <1>1, <1>2, <1>3, EndAsInv DEF Complete, CloseRejects, WatchdogFires, Fail
  <1>4. CASE state # "closing"
    <2>1. UNCHANGED <<state, watchdog, listeners, queue, terminals>>
      BY <1>4 DEF Complete, CloseRejects, WatchdogFires, Fail
    <2> QED
      BY <1>1, <1>2, <2>1, LateInv
  <1> QED
    BY <1>3, <1>4

\* A signal ends a process that has installed its listeners only when they are
\* gone again, that is, after the terminal action.
LEMMA DieInv ==
  ASSUME Inv, NEW signal \in Signals \cup OtherSignals \cup {NoSignal}, Die(signal),
         phase = "running" /\ signal \in Signals => signal \notin listeners
  PROVE  Inv'
  <1>1. TypeOK'
    BY DEF Die, Inv, TypeOK, coordinatorVars
  <1>2. OneShutdown' /\ ListenersInv'
    BY DEF Die, Inv, OneShutdown, ListenersInv, coordinatorVars
  <1>3. SignalsDoNotCutShort'
    <2>1. phase = "running" /\ signal \in Signals => terminals = 1
      BY DEF Inv, TypeOK, OneShutdown, ListenersInv, States
    <2> QED
      BY <2>1 DEF Die, SignalsDoNotCutShort
  <1> QED
    BY <1>1, <1>2, <1>3 DEF Inv

LEMMA SystemInv ==
  ASSUME Inv,
         \/ \E signal \in Signals \cup OtherSignals : Signal(signal)
         \/ Terminate
         \/ Uncaught
  PROVE  Inv'
  <1>1. ASSUME NEW signal \in Signals \cup OtherSignals, Signal(signal)
        PROVE  Inv'
    <2>1. CASE signal \in listeners
      <3>1. signal \in Signals
        BY <2>1 DEF Inv, TypeOK
      <3>2. /\ queue' \in Seq(Signals) /\ Len(queue') <= MaxPending
            /\ ToSet(queue') \subseteq listeners
        <4>1. queue' = Append(queue, signal) /\ Len(queue) < MaxPending /\ listeners' = listeners
          BY <1>1, <2>1 DEF Signal, coordinatorVars
        <4> QED
          BY <4>1, <2>1, <3>1, AppendQueue, SignalAssumption DEF Inv, TypeOK
      <3>3. UNCHANGED <<phase, alive, state, winningSignal, watchdog, listeners, close,
                        closeCalls, terminals, endedBy>>
        BY <1>1, <2>1 DEF Signal, Die, coordinatorVars, historyVars
      <3>4. TypeOK'
        BY <3>2, <3>3 DEF Inv, TypeOK
      <3> QED
        BY <3>3, <3>4 DEF Inv, OneShutdown, ListenersInv, SignalsDoNotCutShort
    <2>2. CASE signal \notin listeners
      BY <1>1, <2>2, DieInv DEF Signal
    <2> QED
      BY <2>1, <2>2
  <1>2. CASE Terminate
    BY <1>2, DieInv, SignalAssumption DEF Terminate, Inv, TypeOK, OneShutdown
  <1>3. CASE Uncaught
    BY <1>3, DieInv, SignalAssumption DEF Uncaught
  <1> QED
    BY <1>1, <1>2, <1>3

LEMMA InvStep == Inv /\ [Next]_vars => Inv'
  <1> SUFFICES ASSUME Inv, [Next]_vars PROVE Inv'
    OBVIOUS
  <1>1. CASE UNCHANGED vars
    BY <1>1
    DEF vars, coordinatorVars, historyVars, Inv, TypeOK, OneShutdown, ListenersInv,
        SignalsDoNotCutShort
  <1> QED
    BY <1>1, BootstrapInv, BeginInv, EndInv, SystemInv DEF Next

THEOREM Correct == Spec => []Inv
  BY InvInit, InvStep, PTL DEF Spec

-----------------------------------------------------------------------------
\* ShutdownCoordinator and bootstrap() keep their variables typed, and only what
\* is listened to waits for its listener.
THEOREM TypeCorrect == Spec => []TypeOK
  BY Correct, PTL DEF Inv

\* One app.close(), one terminal action, and a watchdog armed exactly from the
\* one to the other, in whatever order close, watchdog and signals come.
THEOREM OneShutdownCorrect == Spec => []OneShutdown
  BY Correct, PTL DEF Inv

\* After install() no SIGTERM or SIGINT ends the process before its terminal
\* action.
THEOREM NotCutShort == Spec => []SignalsDoNotCutShort
  BY Correct, PTL DEF Inv

=============================================================================
