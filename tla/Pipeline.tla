------------------------------- MODULE Pipeline -------------------------------
(***************************************************************************)
(* runPipeline (src/build/pipeline.ts): under the shared maintenance lock, *)
(* after a preflight and the repository sync, every recipe goes through    *)
(* prefetch, build and (if asked) the sync of its artifacts.  Prefetches   *)
(* and syncs wait in p-queues, builds in the BuildScheduler, which this    *)
(* module composes with the stages.                                        *)
(***************************************************************************)
EXTENDS BuildScheduler

CONSTANTS
  PrefetchConcurrency,  \* --prefetch-concurrency
  LocksFail             \* the maintenance connection may break while in use

VARIABLES
  requested,      \* the recipes named on the command line, as runs
  syncBack,       \* artifacts are copied back (no --skip-artifact-sync)
  main,           \* where runPipeline is
  locked,         \* where runPipelineLocked is
  maintenance,    \* the maintenance lock as the process knows it
  stage,          \* where each runRecipe is
  prefetchQueue,  \* prefetchQ: jobs waiting, in order
  syncQueue,      \* syncQ
  passed,         \* recipes pushed on ctx.passed
  failed          \* names in ctx.failed

stages == <<stage, prefetchQueue, syncQueue, passed, failed>>
options == <<requested, syncBack>>
control == <<options, main, locked, maintenance>>
vars == <<scheduler, stages, control>>

Main == {"start", "awaiting", "returned", "threw"}
Locked == {"idle", "preflight", "repoSync", "recipes", "settled", "threw"}
Stage == {"idle", "prefetchQueued", "prefetching", "buildQueued", "building",
          "built", "buildFailed", "syncQueued", "syncing", "passed", "failed"}

\* Something of the pipeline happens on the node.
OnNode ==
  \/ locked \in {"preflight", "repoSync"}
  \/ \E j \in Run : stage[j] \in {"prefetching", "building", "syncing"}

Init ==
  /\ SchedulerInit
  /\ requested \in (SUBSET Run) \ {{}}
  /\ syncBack \in BOOLEAN
  /\ main = "start"
  /\ locked = "idle"
  /\ maintenance = "none"
  /\ stage = [j \in Run |-> "idle"]
  /\ prefetchQueue = <<>>
  /\ syncQueue = <<>>
  /\ passed = {}
  /\ failed = {}

-----------------------------------------------------------------------------

\* Mutant: parallel builds may name a recipe twice.
ValidOptionsAllowTwice ==
  \A j \in requested, res \in Resource : Need[res][j] <= Capacity[res]

\* validateBuildOptions: parallel builds need distinct recipes, and every
\* recipe must fit the budget by itself.
ValidOptions ==
  /\ Concurrency > 1 =>
       \A j, k \in requested : Recipe[j] = Recipe[k] => j = k
  /\ \A j \in requested, res \in Resource : Need[res][j] <= Capacity[res]

Refuse ==
  /\ main = "start" /\ ~ValidOptions
  /\ main' = "threw"
  /\ UNCHANGED <<scheduler, stages, options, locked, maintenance>>

\* acquireMaintenance, which may fail before anything has started.
AcquireMaintenance ==
  /\ main = "start" /\ ValidOptions
  /\ \/ /\ main' = "awaiting" /\ locked' = "preflight"
        /\ maintenance' = "held"
     \/ main' = "threw" /\ UNCHANGED <<locked, maintenance>>
  /\ UNCHANGED <<scheduler, stages, options>>

\* assertShrinkStorageSupported.
ShrinkPreflight ==
  /\ locked = "preflight"
  /\ locked' \in {"repoSync", "threw"}
  /\ UNCHANGED <<scheduler, stages, options, main, maintenance>>

\* An ordering of a set; recipes.map starts the recipes in the order given.
Orders(S) == {q \in [1 .. Cardinality(S) -> S] : IsInjective(q)}

\* runRepoSync, then recipes.map(runRecipe): every recipe asks for a prefetch.
RunRepoSync ==
  /\ locked = "repoSync"
  /\ \/ /\ locked' = "recipes"
        /\ prefetchQueue' \in Orders(requested)
        /\ stage' = [j \in Run |->
                       IF j \in requested THEN "prefetchQueued" ELSE stage[j]]
        /\ UNCHANGED <<syncQueue, passed, failed>>
     \/ /\ locked' = "threw"
        /\ UNCHANGED stages
  /\ UNCHANGED <<scheduler, options, main, maintenance>>

-----------------------------------------------------------------------------
(* runRecipe.  It runs on whether or not anyone still awaits it.            *)

\* Mutant: the failure is shown on the task and never recorded.
RecordFailureOnlyShown(j) ==
  /\ stage' = [stage EXCEPT ![j] = "failed"]
  /\ UNCHANGED <<passed, failed>>

\* recordFailure: a name is listed once.
RecordFailure(j) ==
  /\ stage' = [stage EXCEPT ![j] = "failed"]
  /\ failed' = failed \cup {Recipe[j]}
  /\ UNCHANGED passed

Succeed(j) ==
  /\ stage' = [stage EXCEPT ![j] = "passed"]
  /\ passed' = passed \cup {j}
  /\ UNCHANGED failed

PrefetchStart(j) ==
  /\ ~draining
  /\ prefetchQueue # <<>> /\ j = Head(prefetchQueue)
  /\ Cardinality({k \in Run : stage[k] = "prefetching"}) < PrefetchConcurrency
  /\ prefetchQueue' = Tail(prefetchQueue)
  /\ stage' = [stage EXCEPT ![j] = "prefetching"]
  /\ UNCHANGED <<scheduler, syncQueue, passed, failed, control>>

\* The prefetch settles; a good one goes on to runBuildQueued at once.
PrefetchSettles(j) ==
  /\ ~draining
  /\ stage[j] = "prefetching"
  /\ \/ /\ Add(j)
        /\ stage' = [stage EXCEPT ![j] = "buildQueued"]
        /\ UNCHANGED <<passed, failed>>
     \/ /\ RecordFailure(j)
        /\ UNCHANGED scheduler
  /\ UNCHANGED <<prefetchQueue, syncQueue, control>>

BuildStart(j) ==
  /\ StartJob(j)
  /\ stage' = [stage EXCEPT ![j] = "building"]
  /\ UNCHANGED <<prefetchQueue, syncQueue, passed, failed, control>>

BuildSettles(j) ==
  /\ WorkSettles(j)
  /\ \E result \in {"built", "buildFailed"} :
       stage' = [stage EXCEPT ![j] = result]
  /\ UNCHANGED <<prefetchQueue, syncQueue, passed, failed, control>>

\* runRecipe resumes after its build, before or after the scheduler's finally.
AfterBuild(j) ==
  /\ ~draining
  /\ \/ /\ stage[j] = "buildFailed"
        /\ RecordFailure(j)
        /\ UNCHANGED syncQueue
     \/ /\ stage[j] = "built" /\ ~syncBack
        /\ Succeed(j)
        /\ UNCHANGED syncQueue
     \/ /\ stage[j] = "built" /\ syncBack
        /\ stage' = [stage EXCEPT ![j] = "syncQueued"]
        /\ syncQueue' = Append(syncQueue, j)
        /\ UNCHANGED <<passed, failed>>
  /\ UNCHANGED <<scheduler, prefetchQueue, control>>

SchedulerTurn ==
  /\ DrainEnd \/ \E j \in Run : Finally(j)
  /\ UNCHANGED <<stages, control>>

SyncStart(j) ==
  /\ ~draining
  /\ syncQueue # <<>> /\ j = Head(syncQueue)
  /\ \A k \in Run : stage[k] # "syncing"
  /\ syncQueue' = Tail(syncQueue)
  /\ stage' = [stage EXCEPT ![j] = "syncing"]
  /\ UNCHANGED <<scheduler, prefetchQueue, passed, failed, control>>

SyncSettles(j) ==
  /\ ~draining
  /\ stage[j] = "syncing"
  /\ Succeed(j) \/ RecordFailure(j)
  /\ UNCHANGED <<scheduler, prefetchQueue, syncQueue, control>>

-----------------------------------------------------------------------------

\* Mutant: Promise.all, which rejects with the first failure.
AllSettledFailsFast ==
  /\ ~draining
  /\ locked = "recipes"
  /\ \/ \A j \in requested : stage[j] \in {"passed", "failed"}
     \/ \E j \in requested : stage[j] = "failed"
  /\ locked' = "settled"
  /\ UNCHANGED <<scheduler, stages, options, main, maintenance>>

\* Promise.allSettled over the recipes.
AllSettled ==
  /\ ~draining
  /\ locked = "recipes"
  /\ \A j \in requested : stage[j] \in {"passed", "failed"}
  /\ locked' = "settled"
  /\ UNCHANGED <<scheduler, stages, options, main, maintenance>>

\* The race is won by the locked part, and the finally closes the lock's
\* connection.  A connection found broken then makes release throw.
Release ==
  /\ ~draining
  /\ main = "awaiting" /\ locked \in {"settled", "threw"}
  /\ \/ /\ main' = IF locked = "settled" THEN "returned" ELSE "threw"
        /\ maintenance' = "released"
     \/ /\ LocksFail
        /\ main' = "threw"
        /\ maintenance' = "lost"
  /\ UNCHANGED <<scheduler, stages, options, locked>>

\* maintenance.lost rejects first: runPipeline throws, and runPipelineLocked,
\* which nobody stops, goes on.
MaintenanceLost ==
  /\ LocksFail
  /\ ~draining
  /\ main = "awaiting"
  /\ main' = "threw"
  /\ maintenance' = "lost"
  /\ UNCHANGED <<scheduler, stages, options, locked>>

RunRecipe(j) ==
  \/ PrefetchStart(j) \/ PrefetchSettles(j)
  \/ BuildStart(j) \/ BuildSettles(j) \/ AfterBuild(j)
  \/ SyncStart(j) \/ SyncSettles(j)

RunPipeline ==
  \/ Refuse \/ AcquireMaintenance \/ ShrinkPreflight \/ RunRepoSync
  \/ AllSettled \/ Release

Next ==
  \/ RunPipeline
  \/ \E j \in Run : RunRecipe(j)
  \/ SchedulerTurn
  \/ MaintenanceLost

Spec == Init /\ [][Next]_vars

\* Every promise settles (ssh keepalives, packer's and wget's own timeouts) and
\* the event loop runs what is ready.
Fairness ==
  /\ WF_vars(RunPipeline)
  /\ WF_vars(SchedulerTurn)
  /\ \A j \in Run : WF_vars(RunRecipe(j))

FairSpec == Spec /\ Fairness

-----------------------------------------------------------------------------

TypeOK ==
  /\ SchedulerTypeOK
  /\ requested \subseteq Run
  /\ syncBack \in BOOLEAN
  /\ main \in Main
  /\ locked \in Locked
  /\ maintenance \in {"none", "held", "lost", "released"}
  /\ stage \in [Run -> Stage]
  /\ prefetchQueue \in Seq(Run)
  /\ syncQueue \in Seq(Run)
  /\ passed \subseteq Run
  /\ failed \subseteq {Recipe[j] : j \in Run}

\* What runPipeline reports is the whole truth, and so is the exit status that
\* runBuildCommand derives from failed: when it returns, every requested recipe
\* has gone all its way and failed is empty exactly if all of them passed.
ReportIsComplete ==
  main = "returned" =>
    /\ \A j \in requested : stage[j] \in {"passed", "failed"}
    /\ \A j \in requested : j \in passed \/ Recipe[j] \in failed
    /\ failed = {} <=> passed = requested

\* Two builds that run at once are for different recipes: they share the names
\* of their outputs (validateBuildOptions refuses duplicates, or one builds at
\* a time).
ParallelBuildsDiffer ==
  \A j, k \in Run :
    stage[j] = "building" /\ stage[k] = "building" /\ Recipe[j] = Recipe[k]
      => j = k

\* The lock is let go only when nothing of the pipeline happens on the node,
\* as long as its connection holds (runPipeline's finally).
QuietWhenReleased ==
  maintenance = "released" => ~OnNode

\* The pipeline ends, and every recipe it started ends, also when others fail
\* and also when nobody awaits it any more.
EveryRecipeEnds ==
  /\ main = "start" ~> main \in {"returned", "threw"}
  /\ \A j \in Run : stage[j] = "prefetchQueued" ~> stage[j] \in {"passed", "failed"}

=============================================================================
