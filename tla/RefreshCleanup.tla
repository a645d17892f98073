--------------------------- MODULE RefreshCleanup --------------------------
(***************************************************************************)
(* RefreshCleanupService in every instance of the program: the interval    *)
(* timer, the single shared run, the batches it sends to PostgreSQL until  *)
(* one comes back short, and the module's destruction, which must not end  *)
(* while a batch is out because the database client is closed after it.    *)
(*                                                                         *)
(* The rows are counted, not named: eligible rows are the retired digests  *)
(* past their window that no statement has locked.  FOR UPDATE SKIP LOCKED *)
(* gives every statement rows of its own.                                  *)
(***************************************************************************)
EXTENDS Naturals

CONSTANTS
    Instances, \* processes that share the database
    Batch,     \* BATCH_SIZE
    MaxRows,   \* bound: rows that ever become eligible
    MaxFaults  \* bound: failed statements, crashes and shutdowns

ASSUME CleanupAssumption ==
    /\ Batch \in Nat \ {0}
    /\ MaxRows \in Nat
    /\ MaxFaults \in Nat

VARIABLES
    eligible, \* rows a purge statement can take
    toCome,   \* rows that will become eligible
    faults,   \* faults so far
    life,     \* "down", "created" (before onModuleInit) or "up"
    stopped,  \* this.stopped
    timer,    \* this.timer is running
    active,   \* this.active is a promise
    destroy,  \* onModuleDestroy: "no", "waiting" for this.active or "done"
    drain,    \* where the run is: see Phases
    rows,     \* rows its statement has locked, then removed
    left,     \* history: rows eligible when its last statement took its batch
    loops     \* history: runs that have started and not settled

serviceVars == <<stopped, timer, active, destroy>>
runVars     == <<drain, rows, left, loops>>
vars        == <<eligible, toCome, faults, life, serviceVars, runVars>>

\* "sent": purgeRetired called; "executing": PostgreSQL has locked the rows;
\* "replied", "failed": the promise of the statement is settled; "settling": the
\* loop is over but .finally() has not run; "none": no run.
Phases == {"none", "sent", "executing", "replied", "failed", "settling"}

SmallerOf(a, b) == IF a < b THEN a ELSE b

Init ==
    /\ eligible = 0
    /\ toCome = MaxRows
    /\ faults = 0
    /\ life = [i \in Instances |-> "created"]
    /\ stopped = [i \in Instances |-> FALSE]
    /\ timer = [i \in Instances |-> FALSE]
    /\ active = [i \in Instances |-> FALSE]
    /\ destroy = [i \in Instances |-> "no"]
    /\ drain = [i \in Instances |-> "none"]
    /\ rows = [i \in Instances |-> 0]
    /\ left = [i \in Instances |-> 0]
    /\ loops = [i \in Instances |-> 0]

-----------------------------------------------------------------------------
\* The service.

\* drain() runs to its first await: the first statement is on its way.
\* Mutant: a tick does not look at the run under way.
RunAgain(i) ==
    IF stopped[i]
    THEN UNCHANGED <<active, runVars>>
    ELSE /\ active' = [active EXCEPT ![i] = TRUE]
         /\ drain' = [drain EXCEPT ![i] = "sent"]
         /\ loops' = [loops EXCEPT ![i] = @ + 1]
         /\ UNCHANGED <<rows, left>>

RunOnce(i) ==
    IF stopped[i] \/ active[i]
    THEN UNCHANGED <<active, runVars>>
    ELSE /\ active' = [active EXCEPT ![i] = TRUE]
         /\ drain' = [drain EXCEPT ![i] = "sent"]
         /\ loops' = [loops EXCEPT ![i] = @ + 1]
         /\ UNCHANGED <<rows, left>>

OnModuleInit(i) ==
    /\ life[i] = "created"
    /\ life' = [life EXCEPT ![i] = "up"]
    /\ RunOnce(i)
    /\ timer' = [timer EXCEPT ![i] = ~stopped[i]]
    /\ UNCHANGED <<eligible, toCome, faults, stopped, destroy>>

Interval(i) ==
    /\ timer[i]
    /\ RunOnce(i)
    /\ UNCHANGED <<eligible, toCome, faults, life, stopped, timer, destroy>>

\* The continuation of `await purgeRetired`: a full batch calls for another.
\* Mutant: a full batch ends the run.
LastBatch(i) == rows[i] <= Batch

ShortBatch(i) == rows[i] < Batch

Continue(i) ==
    /\ drain[i] = "replied"
    /\ IF ShortBatch(i) \/ stopped[i]
       THEN drain' = [drain EXCEPT ![i] = "settling"]
       ELSE drain' = [drain EXCEPT ![i] = "sent"]
    /\ UNCHANGED <<eligible, toCome, faults, life, serviceVars, rows, left, loops>>

\* .catch() logs; the next tick will retry.
\* Mutant: a failed run does not clear this.active.
CatchForever(i) ==
    /\ drain[i] = "failed"
    /\ drain' = [drain EXCEPT ![i] = "none"]
    /\ loops' = [loops EXCEPT ![i] = @ - 1]
    /\ UNCHANGED <<eligible, toCome, faults, life, serviceVars, rows, left>>

Catch(i) ==
    /\ drain[i] = "failed"
    /\ drain' = [drain EXCEPT ![i] = "settling"]
    /\ UNCHANGED <<eligible, toCome, faults, life, serviceVars, rows, left, loops>>

Finally(i) ==
    /\ drain[i] = "settling"
    /\ active' = [active EXCEPT ![i] = FALSE]
    /\ drain' = [drain EXCEPT ![i] = "none"]
    /\ loops' = [loops EXCEPT ![i] = @ - 1]
    /\ UNCHANGED <<eligible, toCome, faults, life, stopped, timer, destroy, rows, left>>

\* onModuleDestroy up to its await; app.close() may come before onModuleInit
\* when the start of another module has failed.
\* Mutant: it does not wait for the run under way.
DestroyAtOnce(i) ==
    /\ life[i] # "down" /\ destroy[i] = "no"
    /\ stopped' = [stopped EXCEPT ![i] = TRUE]
    /\ timer' = [timer EXCEPT ![i] = FALSE]
    /\ destroy' = [destroy EXCEPT ![i] = "done"]
    /\ UNCHANGED <<eligible, toCome, life, active, runVars>>

OnModuleDestroy(i) ==
    /\ life[i] # "down" /\ destroy[i] = "no"
    /\ stopped' = [stopped EXCEPT ![i] = TRUE]
    /\ timer' = [timer EXCEPT ![i] = FALSE]
    /\ destroy' = [destroy EXCEPT ![i] = IF active[i] THEN "waiting" ELSE "done"]
    /\ UNCHANGED <<eligible, toCome, life, active, runVars>>

\* The promise it awaits has settled.
DestroyDone(i) ==
    /\ destroy[i] = "waiting"
    /\ ~active[i]
    /\ destroy' = [destroy EXCEPT ![i] = "done"]
    /\ UNCHANGED <<eligible, toCome, faults, life, stopped, timer, active, runVars>>

-----------------------------------------------------------------------------
\* PostgreSQL, the passing of time, and the process.

\* app.close() reaches the module.
Close(i) ==
    /\ faults < MaxFaults /\ faults' = faults + 1
    /\ OnModuleDestroy(i)

\* The LIMIT of the statement, which is written out there and must be BATCH_SIZE.
\* Mutant: it is less.
LimitBelow == Batch - 1

Limit == Batch

\* Mutant: the LIMIT is forgotten.
ExecuteUnbounded(i) ==
    /\ drain[i] = "sent"
    /\ drain' = [drain EXCEPT ![i] = "executing"]
    /\ rows' = [rows EXCEPT ![i] = eligible]
    /\ left' = [left EXCEPT ![i] = eligible]
    /\ eligible' = 0
    /\ UNCHANGED <<toCome, faults, life, serviceVars, loops>>

Execute(i) ==
    /\ drain[i] = "sent"
    /\ drain' = [drain EXCEPT ![i] = "executing"]
    /\ rows' = [rows EXCEPT ![i] = SmallerOf(Limit, eligible)]
    /\ left' = [left EXCEPT ![i] = eligible]
    /\ eligible' = eligible - SmallerOf(Limit, eligible)
    /\ UNCHANGED <<toCome, faults, life, serviceVars, loops>>

Reply(i) ==
    /\ drain[i] = "executing"
    /\ drain' = [drain EXCEPT ![i] = "replied"]
    /\ UNCHANGED <<eligible, toCome, faults, life, serviceVars, rows, left, loops>>

\* The statement is lost before, or rolled back after, it locked its rows.
Fail(i) ==
    /\ drain[i] \in {"sent", "executing"}
    /\ faults < MaxFaults /\ faults' = faults + 1
    /\ drain' = [drain EXCEPT ![i] = "failed"]
    /\ eligible' = IF drain[i] = "executing" THEN eligible + rows[i] ELSE eligible
    /\ rows' = [rows EXCEPT ![i] = 0]
    /\ UNCHANGED <<toCome, life, serviceVars, left, loops>>

\* A retired digest leaves its replay window.
Expire ==
    /\ toCome > 0
    /\ toCome' = toCome - 1
    /\ eligible' = eligible + 1
    /\ UNCHANGED <<faults, life, serviceVars, runVars>>

\* The process is gone: after its shutdown, or at any moment (Crash).  A
\* statement PostgreSQL has begun is rolled back or completed.
Exit(i) ==
    /\ life' = [life EXCEPT ![i] = "down"]
    /\ timer' = [timer EXCEPT ![i] = FALSE]
    /\ active' = [active EXCEPT ![i] = FALSE]
    /\ drain' = [drain EXCEPT ![i] = "none"]
    /\ rows' = [rows EXCEPT ![i] = 0]
    /\ loops' = [loops EXCEPT ![i] = 0]
    /\ UNCHANGED <<toCome, stopped, destroy, left>>

Terminate(i) ==
    /\ life[i] # "down" /\ destroy[i] = "done"
    /\ Exit(i)
    /\ UNCHANGED <<eligible, faults>>

Crash(i) ==
    /\ life[i] # "down"
    /\ faults < MaxFaults /\ faults' = faults + 1
    /\ Exit(i)
    /\ \/ UNCHANGED eligible
       \/ drain[i] = "executing" /\ eligible' = eligible + rows[i]

\* A new process takes its place.
Restart(i) ==
    /\ life[i] = "down"
    /\ life' = [life EXCEPT ![i] = "created"]
    /\ stopped' = [stopped EXCEPT ![i] = FALSE]
    /\ destroy' = [destroy EXCEPT ![i] = "no"]
    /\ left' = [left EXCEPT ![i] = 0]
    /\ UNCHANGED <<eligible, toCome, faults, timer, active, drain, rows, loops>>

-----------------------------------------------------------------------------
\* What the event loop does next by itself.
Proceed(i) ==
    \/ OnModuleInit(i)
    \/ Continue(i)
    \/ Catch(i)
    \/ Finally(i)
    \/ DestroyDone(i)

Next ==
    \/ \E i \in Instances :
          \/ Proceed(i) \/ Interval(i) \/ Close(i)
          \/ Execute(i) \/ Reply(i) \/ Fail(i)
          \/ Terminate(i) \/ Crash(i) \/ Restart(i)
    \/ Expire

\* The event loop runs, the interval fires, PostgreSQL answers, a process that
\* has shut down exits and is started again.  Nothing makes a fault happen.
Fairness ==
    \A i \in Instances :
       /\ WF_vars(Proceed(i))
       /\ WF_vars(Interval(i))
       /\ WF_vars(Execute(i) \/ Reply(i))
       /\ WF_vars(Terminate(i))
       /\ WF_vars(Restart(i))

Spec == Init /\ [][Next]_vars
FairSpec == Spec /\ Fairness

-----------------------------------------------------------------------------
\* Properties.

\* Rows are neither lost nor counted twice, and everything has its type.
TypeOK ==
    /\ eligible \in 0 .. MaxRows - toCome
    /\ toCome \in 0 .. MaxRows
    /\ faults \in 0 .. MaxFaults
    /\ life \in [Instances -> {"down", "created", "up"}]
    /\ stopped \in [Instances -> BOOLEAN]
    /\ timer \in [Instances -> BOOLEAN]
    /\ active \in [Instances -> BOOLEAN]
    /\ destroy \in [Instances -> {"no", "waiting", "done"}]
    /\ drain \in [Instances -> Phases]
    /\ rows \in [Instances -> 0 .. Batch]
    /\ left \in [Instances -> 0 .. MaxRows]
    /\ loops \in [Instances -> Nat]

\* "Concurrent ticks share the same run": an instance never has two runs, and
\* this.active is set exactly while there is one.
OneRunAtATime ==
    \A i \in Instances :
       /\ loops[i] <= 1
       /\ active[i] <=> drain[i] # "none"
       /\ active[i] <=> loops[i] = 1

\* When onModuleDestroy has returned, and the database client may be closed, no
\* statement of the instance is out and nothing is left to send another.
QuietAfterDestroy ==
    \A i \in Instances : destroy[i] = "done" => drain[i] = "none" /\ ~timer[i]

\* "One run drains every currently eligible batch": a run that has ended without
\* a fault or a shutdown took, with its last statement, every row there was.
RunDrainsEverything ==
    \A i \in Instances :
       drain[i] = "settling" /\ ~stopped[i] /\ rows[i] > 0 => left[i] = rows[i]

\* Outages, crashes and shutdowns over, what has expired is removed in the end.
BacklogIsDrained == <>[](eligible = 0)
=============================================================================
