---------------------------- MODULE BuildScheduler ----------------------------
(***************************************************************************)
(* BuildScheduler (src/build/scheduler.ts): admits builds of one cf        *)
(* process while the parallelism cap and the resource budgets have room.   *)
(* Capacity[res] is the process's budget here.  The code runs on one       *)
(* thread: while drain loops (draining), nothing else does.                *)
(***************************************************************************)
EXTENDS Demand, SequencesExt

CONSTANT Concurrency   \* --build-concurrency

ASSUME ConcurrencyType == Concurrency \in Nat \ {0}

VARIABLES
  queue,     \* jobs added and not started, in order
  working,   \* jobs whose work is in progress
  settled,   \* jobs whose work has settled but whose finally has not run
  finished,  \* jobs whose finally has run
  running,   \* this.running
  inUse,     \* this.memoryInUseMb and this.coresInUse
  draining   \* drain's loop is running

scheduler == <<queue, working, settled, finished, running, inUse, draining>>

\* The jobs that running and inUse count.
Counted == working \cup settled

Added == ToSet(queue) \cup Counted \cup finished

SchedulerInit ==
  /\ queue = <<>>
  /\ working = {}
  /\ settled = {}
  /\ finished = {}
  /\ running = 0
  /\ inUse = [res \in Resource |-> 0]
  /\ draining = FALSE

-----------------------------------------------------------------------------

\* Mutant: memory or cores, not both.
FitsEither(j) == \E res \in Resource : inUse[res] + Need[res][j] <= Capacity[res]

Fits(j) == \A res \in Resource : inUse[res] + Need[res][j] <= Capacity[res]

\* Mutant: any queued job that fits.
SomeThatFit == {i \in DOMAIN queue : Fits(queue[i])}

\* The position findIndex returns, as a set of at most one.
FirstThatFits ==
  {i \in DOMAIN queue : Fits(queue[i]) /\ \A k \in 1 .. i - 1 : ~Fits(queue[k])}

\* add pushes the job and drains.  validateBuildOptions has refused recipes
\* that no budget could ever take.
Add(j) ==
  /\ ~draining
  /\ j \notin Added
  /\ \A res \in Resource : Need[res][j] <= Capacity[res]
  /\ queue' = Append(queue, j)
  /\ draining' = TRUE
  /\ UNCHANGED <<working, settled, finished, running, inUse>>

\* One turn of drain's loop: take the job out, charge it, call its work.
StartJob(j) ==
  /\ draining
  /\ running < Concurrency
  /\ \E i \in FirstThatFits :
       /\ j = queue[i]
       /\ queue' = RemoveAt(queue, i)
  /\ working' = working \cup {j}
  /\ running' = running + 1
  /\ inUse' = [res \in Resource |-> inUse[res] + Need[res][j]]
  /\ UNCHANGED <<settled, finished, draining>>

DrainEnd ==
  /\ draining
  /\ running >= Concurrency \/ FirstThatFits = {}
  /\ draining' = FALSE
  /\ UNCHANGED <<queue, working, settled, finished, running, inUse>>

\* The work's promise settles, either way.
WorkSettles(j) ==
  /\ ~draining
  /\ j \in working
  /\ working' = working \ {j}
  /\ settled' = settled \cup {j}
  /\ UNCHANGED <<queue, finished, running, inUse, draining>>

\* Mutant: the freed room is not offered to the queue.
FinallyWithoutDrain(j) ==
  /\ ~draining
  /\ j \in settled
  /\ settled' = settled \ {j}
  /\ finished' = finished \cup {j}
  /\ running' = running - 1
  /\ inUse' = [res \in Resource |-> inUse[res] - Need[res][j]]
  /\ UNCHANGED <<queue, working, draining>>

\* The finally callback: give everything back and drain again.
Finally(j) ==
  /\ ~draining
  /\ j \in settled
  /\ settled' = settled \ {j}
  /\ finished' = finished \cup {j}
  /\ running' = running - 1
  /\ inUse' = [res \in Resource |-> inUse[res] - Need[res][j]]
  /\ draining' = TRUE
  /\ UNCHANGED <<queue, working>>

Drain == DrainEnd \/ \E j \in Run : StartJob(j)

SchedulerNext ==
  \/ \E j \in Run : Add(j) \/ WorkSettles(j) \/ Finally(j)
  \/ Drain

SchedulerSpec == SchedulerInit /\ [][SchedulerNext]_scheduler

-----------------------------------------------------------------------------

SchedulerTypeOK ==
  /\ queue \in Seq(Run)
  /\ working \subseteq Run
  /\ settled \subseteq Run
  /\ finished \subseteq Run
  /\ running \in Nat
  /\ inUse \in [Resource -> Nat]
  /\ draining \in BOOLEAN

\* The builds in progress never exceed the parallelism cap, nor together the
\* memory or the cores of the budget: the counters that admission reads are
\* never behind the builds they stand for (fits, drain).
BudgetsRespected ==
  /\ Cardinality(working) <= Concurrency
  /\ \A res \in Resource : Used(res, working) <= Capacity[res]

\* Between turns of the event loop no job waits that could run: whatever frees
\* room drains the queue (add and the finally callback).
WorkConserving ==
  ~draining => running >= Concurrency \/ FirstThatFits = {}

\* A job overtakes an earlier one only when the earlier one did not fit beside
\* the jobs that were charged before (the comment on BuildScheduler).
OvertakesOnlyTooBig ==
  [][\A j, k \in Run :
       /\ j \in working' \ working
       /\ \E i1, i2 \in DOMAIN queue :
            i1 < i2 /\ queue[i1] = k /\ queue[i2] = j
       => \E res \in Resource :
            Need[res][k] + Used(res, Counted) > Capacity[res]]_scheduler

\* The inductive invariant: the counters are exact and no job is counted twice.
CountersExact ==
  /\ working \cap settled = {}
  /\ running = Cardinality(Counted)
  /\ \A res \in Resource : inUse[res] = Used(res, Counted)

QueueFresh ==
  /\ \A i \in DOMAIN queue : queue[i] \notin Counted
  /\ \A i, k \in DOMAIN queue : queue[i] = queue[k] => i = k

CountersBounded ==
  /\ running <= Concurrency
  /\ \A res \in Resource :
       /\ inUse[res] <= Capacity[res]
       /\ \A j \in Counted : Need[res][j] <= Capacity[res]

=============================================================================
