---------------------------- MODULE PipelineProofs ----------------------------
(***************************************************************************)
(* For any recipes, budgets and limits: the scheduler's counters are       *)
(* exactly the builds they stand for, so its builds never exceed either;   *)
(* the pipeline uses its scheduler as the scheduler's specification says,  *)
(* builds of one recipe exclude each other, the report is complete, and    *)
(* the maintenance lock is let go only when the node is quiet.  And what   *)
(* one leased build starts on the node stays within bounds: whatever order *)
(* its failures, its finally and its signal cleanups come in, a VM is      *)
(* always in somebody's charge and an abort leaves no Packer behind.       *)
(***************************************************************************)
EXTENDS Pipeline, BuildRun, DemandProofs, SequenceTheorems

-----------------------------------------------------------------------------
(* The scheduler, by its own specification.                                 *)

\* A job that leaves gives back exactly its need.
LEMMA UsedRemove ==
  ASSUME NEW S \in SUBSET Run, NEW j \in S, NEW res \in Resource,
         Need[res][j] <= Capacity[res]
  PROVE  Used(res, S \ {j}) = Used(res, S) - Need[res][j]
<1> DEFINE T == S \ {j}
<1>1. T \in SUBSET Run /\ j \in Run \ T /\ S = T \cup {j}
  OBVIOUS
<1> HIDE DEF T
<1>2. Used(res, T \cup {j}) = Used(res, T) + Need[res][j]
  BY <1>1, UsedAdd
<1>3. Used(res, T) \in Nat /\ Need[res][j] \in Nat
  BY <1>1, UsedType, NeedType
<1>4. Used(res, T) = Used(res, S) - Need[res][j]
  BY <1>1, <1>2, <1>3
<1>5. QED
  BY <1>4 DEF T

\* splice takes one job out and keeps the others in order.
LEMMA RemoveAtType ==
  ASSUME NEW q \in Seq(Run), NEW i \in 1 .. Len(q)
  PROVE  /\ RemoveAt(q, i) \in Seq(Run)
         /\ Len(RemoveAt(q, i)) = Len(q) - 1
         /\ \A k \in 1 .. Len(q) - 1 :
              RemoveAt(q, i)[k] = IF k < i THEN q[k] ELSE q[k + 1]
<1> DEFINE front == SubSeq(q, 1, i - 1)
           back == SubSeq(q, i + 1, Len(q))
<1>1. Len(q) \in Nat /\ i \in Nat /\ i >= 1 /\ i <= Len(q)
  BY LenProperties
<1>2. /\ front \in Seq(Run) /\ Len(front) = i - 1
      /\ \A k \in 1 .. i - 1 : front[k] = q[k]
  BY <1>1, SubSeqProperties
<1>3. /\ back \in Seq(Run) /\ Len(back) = Len(q) - i
      /\ \A k \in 1 .. Len(q) - i : back[k] = q[i + k]
  BY <1>1, SubSeqProperties
<1>4. RemoveAt(q, i) = front \o back
  BY DEF RemoveAt
<1> HIDE DEF front, back
<1>5. /\ front \o back \in Seq(Run)
      /\ Len(front \o back) = Len(front) + Len(back)
      /\ \A k \in 1 .. Len(front) + Len(back) :
           (front \o back)[k] = IF k <= Len(front) THEN front[k]
                                ELSE back[k - Len(front)]
  BY <1>2, <1>3, ConcatProperties
<1>6. QED
  BY <1>1, <1>2, <1>3, <1>4, <1>5

-----------------------------------------------------------------------------

SchedulerInv ==
  SchedulerTypeOK /\ CountersExact /\ QueueFresh /\ CountersBounded

LEMMA InitSchedules == SchedulerInit => SchedulerInv
<1> SUFFICES ASSUME SchedulerInit PROVE SchedulerInv
  OBVIOUS
<1> USE DEF SchedulerInit
<1>1. Counted = {}
  BY DEF Counted
<1>2. SchedulerTypeOK
  BY EmptySeq DEF SchedulerTypeOK
<1>3. CountersExact
  BY <1>1, FS_EmptySet, UsedEmpty DEF CountersExact
<1>4. QueueFresh
  BY DEF QueueFresh
<1>5. CountersBounded
  BY <1>1, ConcurrencyType, CapacityType DEF CountersBounded
<1>6. QED
  BY <1>2, <1>3, <1>4, <1>5 DEF SchedulerInv

LEMMA AddSchedules ==
  ASSUME SchedulerInv, NEW j \in Run, Add(j) PROVE SchedulerInv'
<1> USE DEF SchedulerInv, Add
<1>1. Counted' = Counted
  BY DEF Counted
<1>2. SchedulerTypeOK'
  BY AppendProperties DEF SchedulerTypeOK
<1>3. CountersExact' /\ CountersBounded'
  BY <1>1 DEF CountersExact, CountersBounded
<1>4. j \notin Counted /\ \A i \in DOMAIN queue : queue[i] # j
  BY DEF Added, ToSet
<1>5. QueueFresh'
  <2>1. queue' \in Seq(Run) /\ Len(queue') = Len(queue) + 1
        /\ (\A i \in 1 .. Len(queue) : queue'[i] = queue[i])
        /\ queue'[Len(queue) + 1] = j
    BY AppendProperties DEF SchedulerTypeOK
  <2>2. DOMAIN queue' = 1 .. Len(queue) + 1 /\ DOMAIN queue = 1 .. Len(queue)
        /\ Len(queue) \in Nat
    BY <2>1, LenProperties DEF SchedulerTypeOK
  <2>3. QED
    BY <1>1, <1>4, <2>1, <2>2 DEF QueueFresh
<1>6. QED
  BY <1>2, <1>3, <1>5

LEMMA StartSchedules ==
  ASSUME SchedulerInv, NEW j \in Run, StartJob(j) PROVE SchedulerInv'
<1> USE DEF SchedulerInv
<1>1. PICK i \in FirstThatFits : j = queue[i] /\ queue' = RemoveAt(queue, i)
  BY DEF StartJob
<1>2. queue \in Seq(Run) /\ DOMAIN queue = 1 .. Len(queue) /\ i \in DOMAIN queue
      /\ Len(queue) \in Nat
  BY <1>1, LenProperties DEF SchedulerTypeOK, FirstThatFits
<1>3. \A res \in Resource : inUse[res] + Need[res][j] <= Capacity[res]
  BY <1>1 DEF FirstThatFits, Fits
<1>4. j \notin Counted
  BY <1>1, <1>2 DEF QueueFresh
<1>5. Counted' = Counted \cup {j} /\ Counted \subseteq Run
  BY DEF Counted, StartJob, SchedulerTypeOK
<1>6. \A res \in Resource :
        /\ Need[res][j] \in Nat /\ Capacity[res] \in Nat /\ inUse[res] \in Nat
        /\ inUse'[res] = inUse[res] + Need[res][j]
  BY NeedType, CapacityType DEF StartJob, SchedulerTypeOK
<1>7. /\ queue' \in Seq(Run) /\ Len(queue') = Len(queue) - 1
      /\ \A k \in 1 .. Len(queue) - 1 :
           queue'[k] = IF k < i THEN queue[k] ELSE queue[k + 1]
  BY <1>1, <1>2, RemoveAtType
<1>8. SchedulerTypeOK'
  BY <1>6, <1>7 DEF SchedulerTypeOK, StartJob
<1>9. CountersExact'
  <2>1. working' \cap settled' = {}
    BY <1>4 DEF CountersExact, StartJob, Counted
  <2>2. IsFiniteSet(Counted)
    BY <1>5, RunsFinite, FS_Subset
  <2>3. Cardinality(Counted \cup {j}) = Cardinality(Counted) + 1
    BY <1>4, <2>2, FS_AddElement
  <2>4. running' = Cardinality(Counted')
    BY <1>5, <2>3 DEF CountersExact, StartJob
  <2>5. ASSUME NEW res \in Resource PROVE inUse'[res] = Used(res, Counted')
    <3>1. Need[res][j] <= Capacity[res]
      BY <1>3, <1>6
    <3>2. Used(res, Counted \cup {j}) = Used(res, Counted) + Need[res][j]
      BY <1>4, <1>5, <3>1, UsedAdd
    <3>3. QED
      BY <1>5, <1>6, <3>2 DEF CountersExact
  <2>6. QED
    BY <2>1, <2>4, <2>5 DEF CountersExact
<1>10. QueueFresh'
  <2>1. DOMAIN queue' = 1 .. Len(queue) - 1
    BY <1>7, LenProperties
  <2>2. \A k \in 1 .. Len(queue) - 1 :
          queue'[k] # j /\ queue'[k] \notin Counted
    BY <1>1, <1>2, <1>7 DEF QueueFresh
  <2>3. ASSUME NEW k \in 1 .. Len(queue) - 1, NEW l \in 1 .. Len(queue) - 1,
               queue'[k] = queue'[l]
        PROVE  k = l
    <3> DEFINE old(n) == IF n < i THEN n ELSE n + 1
    <3>1. old(k) \in DOMAIN queue /\ old(l) \in DOMAIN queue
      BY <1>2
    <3>2. queue[old(k)] = queue[old(l)]
      BY <1>7, <2>3
    <3>3. old(k) = old(l)
      BY <3>1, <3>2 DEF QueueFresh
    <3>4. QED
      BY <1>2, <3>3
  <2>4. QED
    BY <1>5, <2>1, <2>2, <2>3 DEF QueueFresh
<1>11. CountersBounded'
  BY <1>3, <1>5, <1>6, ConcurrencyType DEF CountersBounded, StartJob, SchedulerTypeOK
<1>12. QED
  BY <1>8, <1>9, <1>10, <1>11

LEMMA FinallySchedules ==
  ASSUME SchedulerInv, NEW j \in Run, Finally(j) PROVE SchedulerInv'
<1> USE DEF SchedulerInv
<1>1. j \in Counted /\ Counted \subseteq Run /\ Counted' = Counted \ {j}
  BY DEF Finally, Counted, CountersExact, SchedulerTypeOK
<1>2. IsFiniteSet(Counted)
  BY <1>1, RunsFinite, FS_Subset
<1>3. Cardinality(Counted \ {j}) = Cardinality(Counted) - 1
      /\ Cardinality(Counted) \in Nat
  BY <1>1, <1>2, FS_RemoveElement, FS_CardinalityType
<1>4. Cardinality(Counted \ {j}) \in Nat
  BY <1>1, <1>2, FS_Subset, FS_CardinalityType
<1>5. ASSUME NEW res \in Resource
      PROVE  /\ inUse'[res] = Used(res, Counted')
             /\ inUse'[res] \in Nat
             /\ inUse'[res] <= Capacity[res]
  <2>1. /\ inUse[res] = Used(res, Counted) /\ inUse[res] <= Capacity[res]
        /\ inUse'[res] = inUse[res] - Need[res][j]
    BY DEF CountersExact, CountersBounded, Finally
  <2>2. Need[res][j] \in Nat /\ Capacity[res] \in Nat /\ inUse[res] \in Nat
    BY NeedType, CapacityType DEF SchedulerTypeOK
  <2>3. Need[res][j] <= Capacity[res]
    BY <1>1 DEF CountersBounded
  <2>4. Used(res, Counted \ {j}) = Used(res, Counted) - Need[res][j]
    BY <1>1, <2>3, UsedRemove
  <2>5. Used(res, Counted \ {j}) \in Nat
    BY <1>1, UsedType
  <2>6. QED
    BY <1>1, <2>1, <2>2, <2>4, <2>5
<1>6. running' = Cardinality(Counted') /\ running' \in Nat /\ running' <= Concurrency
  BY <1>1, <1>3, <1>4, ConcurrencyType
  DEF Finally, CountersExact, CountersBounded, SchedulerTypeOK
<1>7. SchedulerTypeOK'
  BY <1>5, <1>6 DEF SchedulerTypeOK, Finally
<1>8. CountersExact' /\ CountersBounded'
  BY <1>1, <1>5, <1>6 DEF CountersExact, CountersBounded, Finally
<1>9. QueueFresh'
  BY <1>1 DEF QueueFresh, Finally
<1>10. QED
  BY <1>7, <1>8, <1>9

LEMMA SettleSchedules ==
  ASSUME SchedulerInv, NEW j \in Run, WorkSettles(j) \/ DrainEnd
  PROVE  SchedulerInv'
<1> USE DEF SchedulerInv, WorkSettles, DrainEnd
<1>1. Counted' = Counted
  BY DEF Counted
<1>2. SchedulerTypeOK'
  BY DEF SchedulerTypeOK
<1>3. CountersExact' /\ CountersBounded' /\ QueueFresh'
  BY <1>1 DEF CountersExact, CountersBounded, QueueFresh
<1>4. QED
  BY <1>2, <1>3

LEMMA SchedulerSteps ==
  SchedulerInv /\ [SchedulerNext]_scheduler => SchedulerInv'
<1> SUFFICES ASSUME SchedulerInv, [SchedulerNext]_scheduler PROVE SchedulerInv'
  OBVIOUS
<1>1. CASE UNCHANGED scheduler
  BY <1>1 DEF scheduler, SchedulerInv, SchedulerTypeOK, CountersExact,
       CountersBounded, QueueFresh, Counted
<1>2. ASSUME NEW j \in Run, Add(j) PROVE SchedulerInv'
  BY <1>2, AddSchedules
<1>3. ASSUME NEW j \in Run, StartJob(j) PROVE SchedulerInv'
  BY <1>3, StartSchedules
<1>4. ASSUME NEW j \in Run, WorkSettles(j) PROVE SchedulerInv'
  BY <1>4, SettleSchedules
<1>5. ASSUME NEW j \in Run, Finally(j) PROVE SchedulerInv'
  BY <1>5, FinallySchedules
<1>6. CASE DrainEnd
  BY <1>6 DEF DrainEnd, SchedulerInv, SchedulerTypeOK, CountersExact,
       CountersBounded, QueueFresh, Counted
<1>7. QED
  BY <1>1, <1>2, <1>3, <1>4, <1>5, <1>6 DEF SchedulerNext, Drain

LEMMA CountersImplyBudgets == SchedulerInv => BudgetsRespected
<1> SUFFICES ASSUME SchedulerInv PROVE BudgetsRespected
  OBVIOUS
<1> USE DEF SchedulerInv
<1>1. working \subseteq Counted /\ Counted \subseteq Run
  BY DEF Counted, SchedulerTypeOK
<1>2. IsFiniteSet(Counted)
  BY <1>1, RunsFinite, FS_Subset
<1>3. Cardinality(working) <= Cardinality(Counted)
      /\ Cardinality(working) \in Nat /\ Cardinality(Counted) \in Nat
  BY <1>1, <1>2, FS_Subset, FS_CardinalityType
<1>4. Cardinality(working) <= Concurrency
  BY <1>3, ConcurrencyType DEF CountersExact, CountersBounded
<1>5. ASSUME NEW res \in Resource PROVE Used(res, working) <= Capacity[res]
  <2>1. Used(res, working) <= Used(res, Counted)
    BY <1>1, UsedMonotone
  <2>2. Used(res, working) \in Nat /\ Used(res, Counted) \in Nat
    BY <1>1, UsedType
  <2>3. QED
    BY <2>1, <2>2, CapacityType DEF CountersExact, CountersBounded
<1>6. QED
  BY <1>4, <1>5 DEF BudgetsRespected

\* The builds in progress respect the cap and both budgets (fits, drain).
THEOREM BuildsWithinBudgets == SchedulerSpec => []BudgetsRespected
<1>1. SchedulerSpec => []SchedulerInv
  BY InitSchedules, SchedulerSteps, PTL DEF SchedulerSpec
<1>2. QED
  BY <1>1, CountersImplyBudgets, PTL

\* No job that would fit waits between turns: all that frees room drains (drain).
THEOREM OffersAllRoom == SchedulerSpec => []WorkConserving
<1>1. SchedulerInit => WorkConserving
  BY DEF SchedulerInit, WorkConserving, FirstThatFits
<1>2. WorkConserving /\ [SchedulerNext]_scheduler => WorkConserving'
  <2> SUFFICES ASSUME WorkConserving, [SchedulerNext]_scheduler PROVE WorkConserving'
    OBVIOUS
  <2> USE DEF WorkConserving, FirstThatFits, Fits
  <2>1. CASE UNCHANGED scheduler
    BY <2>1 DEF scheduler
  <2>2. ASSUME NEW j \in Run, Add(j) PROVE WorkConserving'
    BY <2>2 DEF Add
  <2>3. ASSUME NEW j \in Run, StartJob(j) PROVE WorkConserving'
    BY <2>3 DEF StartJob
  <2>4. ASSUME NEW j \in Run, WorkSettles(j) PROVE WorkConserving'
    BY <2>4 DEF WorkSettles
  <2>5. ASSUME NEW j \in Run, Finally(j) PROVE WorkConserving'
    BY <2>5 DEF Finally
  <2>6. CASE DrainEnd
    BY <2>6 DEF DrainEnd
  <2>7. QED
    BY <2>1, <2>2, <2>3, <2>4, <2>5, <2>6 DEF SchedulerNext, Drain
<1>3. QED
  BY <1>1, <1>2, PTL DEF SchedulerSpec

\* What a job is to have done when it overtakes another.
Overtakes(j, k) ==
  /\ j \in working' \ working
  /\ \E i1, i2 \in DOMAIN queue : i1 < i2 /\ queue[i1] = k /\ queue[i2] = j

TooBig(k) == \E res \in Resource : Need[res][k] + Used(res, Counted) > Capacity[res]

\* findIndex passes over k only if k does not fit beside the builds that are counted.
LEMMA StartOvertakes ==
  ASSUME SchedulerInv, NEW n \in Run, StartJob(n),
         NEW j \in Run, NEW k \in Run, Overtakes(j, k)
  PROVE  TooBig(k)
<1>1. j = n
  BY DEF Overtakes, StartJob
<1>2. PICK i \in FirstThatFits : n = queue[i]
  BY DEF StartJob
<1>3. PICK i1, i2 \in DOMAIN queue : i1 < i2 /\ queue[i1] = k /\ queue[i2] = j
  BY DEF Overtakes
<1>4. i2 = i
  BY <1>1, <1>2, <1>3 DEF SchedulerInv, QueueFresh, FirstThatFits
<1>5. DOMAIN queue = 1 .. Len(queue) /\ Len(queue) \in Nat
  BY LenProperties DEF SchedulerInv, SchedulerTypeOK
<1>6. ~Fits(k)
  BY <1>3, <1>4, <1>5 DEF FirstThatFits
<1>7. PICK res \in Resource : ~(inUse[res] + Need[res][k] <= Capacity[res])
  BY <1>6 DEF Fits
<1>8. inUse[res] = Used(res, Counted) /\ inUse[res] \in Nat
  BY <1>7 DEF SchedulerInv, CountersExact, SchedulerTypeOK
<1>9. Need[res][k] \in Nat /\ Capacity[res] \in Nat
  BY <1>7, NeedType, CapacityType
<1>10. QED
  BY <1>7, <1>8, <1>9 DEF TooBig

\* Only what does not fit is overtaken (the comment on BuildScheduler).
THEOREM OvertakingIsFair == SchedulerSpec => OvertakesOnlyTooBig
<1>1. SchedulerInv /\ [SchedulerNext]_scheduler
        => [\A j, k \in Run : Overtakes(j, k) => TooBig(k)]_scheduler
  <2> SUFFICES ASSUME SchedulerInv, SchedulerNext, NEW j \in Run, NEW k \in Run, Overtakes(j, k)
               PROVE  TooBig(k)
    OBVIOUS
  <2>1. j \in working' \ working
    BY DEF Overtakes
  <2>2. PICK n \in Run : StartJob(n)
    BY <2>1 DEF SchedulerNext, Drain, Add, WorkSettles, Finally, DrainEnd
  <2>3. QED
    BY <2>2, StartOvertakes
<1>2. SchedulerSpec => []SchedulerInv
  BY InitSchedules, SchedulerSteps, PTL DEF SchedulerSpec
<1>3. SchedulerSpec => [][\A j, k \in Run : Overtakes(j, k) => TooBig(k)]_scheduler
  BY <1>1, <1>2, PTL DEF SchedulerSpec
<1>4. QED
  BY <1>3 DEF OvertakesOnlyTooBig, Overtakes, TooBig

-----------------------------------------------------------------------------
(* The pipeline around it.                                                  *)

\* Every step of the pipeline is one of the scheduler or leaves it alone.
LEMMA StepSchedules == [Next]_vars => [SchedulerNext]_scheduler
<1> SUFFICES ASSUME [Next]_vars PROVE [SchedulerNext]_scheduler
  OBVIOUS
<1>1. CASE UNCHANGED vars
  BY <1>1 DEF vars
<1>2. CASE RunPipeline \/ MaintenanceLost
  BY <1>2 DEF RunPipeline, Refuse, AcquireMaintenance, ShrinkPreflight, RunRepoSync,
       AllSettled, Release, MaintenanceLost
<1>3. ASSUME NEW j \in Run, RunRecipe(j) PROVE [SchedulerNext]_scheduler
  BY <1>3 DEF RunRecipe, PrefetchStart, PrefetchSettles, BuildStart, BuildSettles,
       AfterBuild, SyncStart, SyncSettles, SchedulerNext, Drain
<1>4. CASE SchedulerTurn
  BY <1>4 DEF SchedulerTurn, SchedulerNext, Drain
<1>5. QED
  BY <1>1, <1>2, <1>3, <1>4 DEF Next

\* The pipeline implements the scheduler's specification: no stage reaches around it.
THEOREM PipelineSchedules == Spec => SchedulerSpec
<1>1. Init => SchedulerInit
  BY DEF Init
<1>2. QED
  BY <1>1, StepSchedules, PTL DEF Spec, SchedulerSpec

\* So the builds of a whole pipeline respect the cap and the budgets (runBuildQueued).
THEOREM PipelineWithinBudgets == Spec => []BudgetsRespected
  BY PipelineSchedules, BuildsWithinBudgets, PTL

-----------------------------------------------------------------------------
(* The inductive invariant: where each recipe is, and who knows of it.       *)

Waiting(q, where) ==
  /\ \A i \in DOMAIN q : stage[q[i]] = where
  /\ \A i, k \in DOMAIN q : q[i] = q[k] => i = k

QueuesTrue ==
  /\ Waiting(prefetchQueue, "prefetchQueued")
  /\ Waiting(syncQueue, "syncQueued")
  /\ \A i \in DOMAIN queue : stage[queue[i]] = "buildQueued"
  /\ \A j \in Run : stage[j] = "building" <=> j \in working

StagesTrue ==
  /\ \A j \in Run \ requested : stage[j] = "idle"
  /\ locked \notin {"recipes", "settled"} => \A j \in Run : stage[j] = "idle"
  /\ locked = "settled" => \A j \in requested : stage[j] \in {"passed", "failed"}

LockTrue ==
  /\ main = "start" => locked = "idle" /\ maintenance = "none"
  /\ locked # "idle" => ValidOptions
  /\ maintenance = "released" => main # "awaiting" /\ locked \in {"settled", "threw"}
  /\ main = "returned" => locked = "settled"

ReportTrue ==
  /\ \A j \in Run : j \in passed <=> stage[j] = "passed"
  /\ \A j \in Run : stage[j] = "failed" => Recipe[j] \in failed
  /\ \A name \in failed : \E j \in Run : stage[j] = "failed" /\ Recipe[j] = name

PipelineInv ==
  TypeOK /\ SchedulerInv /\ QueuesTrue /\ StagesTrue /\ LockTrue /\ ReportTrue

LEMMA InitPipeline == Init => PipelineInv
<1> SUFFICES ASSUME Init PROVE PipelineInv
  OBVIOUS
<1>1. SchedulerInv
  BY InitSchedules DEF Init
<1>2. QED
  BY <1>1 DEF Init, PipelineInv, SchedulerInv, SchedulerInit, TypeOK, QueuesTrue, Waiting,
       StagesTrue, LockTrue, ReportTrue, Main, Locked, Stage

-----------------------------------------------------------------------------
(* Taking the head of a queue and appending to one.                          *)

LEMMA TailWaits ==
  ASSUME NEW q \in Seq(Run), q # <<>>
  PROVE  /\ Tail(q) \in Seq(Run) /\ Head(q) \in Run
         /\ 1 \in DOMAIN q /\ Head(q) = q[1]
         /\ \A i \in DOMAIN Tail(q) : i + 1 \in DOMAIN q /\ Tail(q)[i] = q[i + 1] /\ i \in Nat
  BY HeadTailProperties, LenProperties

LEMMA AppendWaits ==
  ASSUME NEW q \in Seq(Run), NEW j \in Run
  PROVE  /\ Append(q, j) \in Seq(Run)
         /\ \A i \in DOMAIN Append(q, j) :
              \/ i \in DOMAIN q /\ Append(q, j)[i] = q[i]
              \/ i = Len(q) + 1 /\ i \notin DOMAIN q /\ Append(q, j)[i] = j
  BY AppendProperties, LenProperties

-----------------------------------------------------------------------------
(* The steps.                                                               *)

LEMMA InvUnchanged == PipelineInv /\ UNCHANGED vars => PipelineInv'
<1> SUFFICES ASSUME PipelineInv, UNCHANGED vars PROVE PipelineInv'
  OBVIOUS
<1> USE DEF PipelineInv, vars, scheduler, stages, options, control
<1>1. TypeOK'
  BY DEF TypeOK, SchedulerTypeOK
<1>2. SchedulerInv'
  BY SchedulerSteps
<1>3. QueuesTrue' /\ ReportTrue'
  BY DEF QueuesTrue, Waiting, ReportTrue
<1>4. StagesTrue'
  BY DEF StagesTrue
<1>5. LockTrue'
  BY DEF LockTrue, ValidOptions
<1>6. QED
  BY <1>1, <1>2, <1>3, <1>4, <1>5

\* Steps of runPipeline that leave the recipes alone.
LEMMA ControlSteps ==
  ASSUME PipelineInv, SchedulerInv',
         Refuse \/ AcquireMaintenance \/ ShrinkPreflight \/ AllSettled \/ Release \/ MaintenanceLost
  PROVE  PipelineInv'
<1> USE DEF PipelineInv, scheduler, stages, options
<1>1. UNCHANGED <<scheduler, stages, options>>
  BY DEF Refuse, AcquireMaintenance, ShrinkPreflight, AllSettled, Release, MaintenanceLost
<1>2. TypeOK'
  BY <1>1 DEF TypeOK, SchedulerTypeOK, Main, Locked, Refuse, AcquireMaintenance,
     ShrinkPreflight, AllSettled, Release, MaintenanceLost
<1>3. QueuesTrue' /\ ReportTrue'
  BY <1>1 DEF QueuesTrue, Waiting, ReportTrue
<1>4. StagesTrue'
  BY <1>1 DEF StagesTrue, LockTrue, Refuse, AcquireMaintenance,
     ShrinkPreflight, AllSettled, Release, MaintenanceLost
<1>5. LockTrue'
  <2>1. ValidOptions' <=> ValidOptions
    BY <1>1 DEF ValidOptions
  <2> HIDE DEF PipelineInv
  <2>2. LockTrue
    BY DEF PipelineInv
  <2>3. QED
    BY <2>1, <2>2 DEF LockTrue, Refuse, AcquireMaintenance,
       ShrinkPreflight, AllSettled, Release, MaintenanceLost
<1>6. QED
  BY <1>2, <1>3, <1>4, <1>5

\* The recipes enter the prefetch queue, each once.
LEMMA SyncStep == ASSUME PipelineInv, SchedulerInv', RunRepoSync PROVE PipelineInv'
<1> USE DEF PipelineInv, scheduler, stages, options
<1>1. locked = "repoSync" /\ UNCHANGED <<scheduler, options, main, maintenance>>
      /\ \A j \in Run : stage[j] = "idle"
  BY DEF RunRepoSync, StagesTrue
<1>2. LockTrue'
  BY <1>1 DEF LockTrue, RunRepoSync, ValidOptions
<1>3. CASE locked' = "threw" /\ UNCHANGED stages
  BY <1>1, <1>2, <1>3 DEF TypeOK, SchedulerTypeOK, Locked, QueuesTrue, Waiting, StagesTrue, ReportTrue
<1>4. CASE /\ locked' = "recipes"
           /\ prefetchQueue' \in Orders(requested)
           /\ stage' = [j \in Run |-> IF j \in requested THEN "prefetchQueued" ELSE stage[j]]
           /\ UNCHANGED <<syncQueue, passed, failed>>
  <2>1. requested \subseteq Run /\ Cardinality(requested) \in Nat
    BY RunsFinite, FS_Subset, FS_CardinalityType DEF TypeOK
  <2>2. /\ prefetchQueue' \in [1 .. Cardinality(requested) -> requested]
        /\ \A i, k \in DOMAIN prefetchQueue' : prefetchQueue'[i] = prefetchQueue'[k] => i = k
    BY <1>4 DEF Orders, IsInjective
  <2>3. prefetchQueue' \in Seq(Run)
    BY <2>1, <2>2, SeqDef
  <2>4. TypeOK'
    BY <1>1, <1>4, <2>3 DEF TypeOK, SchedulerTypeOK, Locked, Stage
  <2>5. QueuesTrue'
    BY <1>1, <1>4, <2>1, <2>2 DEF QueuesTrue, Waiting, TypeOK, SchedulerTypeOK
  <2>6. StagesTrue' /\ ReportTrue'
    BY <1>1, <1>4, <2>1 DEF StagesTrue, ReportTrue
  <2>7. QED
    BY <1>2, <2>4, <2>5, <2>6
<1>5. QED
  BY <1>3, <1>4 DEF RunRepoSync

-----------------------------------------------------------------------------
(* The steps of runRecipe.                                                   *)

Active == Stage \ {"idle", "passed", "failed"}

\* Any move of a recipe that is under way: runPipeline awaits the recipes then.
LEMMA RecipeMoves ==
  ASSUME PipelineInv, NEW j \in Run, NEW s \in Stage \ {"idle"},
         stage[j] \in Active, stage' = [stage EXCEPT ![j] = s], UNCHANGED control
  PROVE  /\ StagesTrue' /\ LockTrue'
         /\ stage' \in [Run -> Stage]
         /\ stage'[j] = s /\ \A k \in Run \ {j} : stage'[k] = stage[k]
<1> USE DEF PipelineInv, control, options
<1>1. stage \in [Run -> Stage]
  BY DEF TypeOK
<1>2. /\ stage' \in [Run -> Stage]
      /\ stage'[j] = s /\ \A k \in Run \ {j} : stage'[k] = stage[k]
  BY <1>1
<1>3. locked = "recipes" /\ j \in requested
  BY DEF StagesTrue, Active
<1>4. StagesTrue'
  BY <1>2, <1>3 DEF StagesTrue
<1>5. LockTrue'
  BY DEF LockTrue, ValidOptions
<1>6. QED
  BY <1>2, <1>4, <1>5

\* On the way nothing is reported.
LEMMA MovesUnreported ==
  ASSUME PipelineInv, NEW j \in Run, NEW s \in Active,
         stage[j] \in Active, stage' = [stage EXCEPT ![j] = s], UNCHANGED <<passed, failed>>
  PROVE  ReportTrue'
<1>1. stage \in [Run -> Stage]
  BY DEF PipelineInv, TypeOK
<1>2. stage'[j] = s /\ \A k \in Run \ {j} : stage'[k] = stage[k]
  BY <1>1
<1>3. QED
  BY <1>2 DEF PipelineInv, ReportTrue, Active

\* At the end the outcome is.
LEMMA EndsReported ==
  ASSUME PipelineInv, NEW j \in Run, stage[j] \in Active, RecordFailure(j) \/ Succeed(j)
  PROVE  /\ ReportTrue'
         /\ passed' \subseteq Run /\ failed' \subseteq {Recipe[k] : k \in Run}
         /\ \E s \in {"passed", "failed"} : stage' = [stage EXCEPT ![j] = s]
<1>1. stage \in [Run -> Stage] /\ passed \subseteq Run /\ failed \subseteq {Recipe[k] : k \in Run}
  BY DEF PipelineInv, TypeOK
<1>2. CASE RecordFailure(j)
  <2>1. stage'[j] = "failed" /\ \A k \in Run \ {j} : stage'[k] = stage[k]
    BY <1>1, <1>2 DEF RecordFailure
  <2>2. QED
    BY <1>1, <1>2, <2>1 DEF PipelineInv, ReportTrue, Active, RecordFailure
<1>3. CASE Succeed(j)
  <2>1. stage'[j] = "passed" /\ \A k \in Run \ {j} : stage'[k] = stage[k]
    BY <1>1, <1>3 DEF Succeed
  <2>2. QED
    BY <1>1, <1>3, <2>1 DEF PipelineInv, ReportTrue, Active, Succeed
<1>4. QED
  BY <1>2, <1>3

\* prefetchQ takes its next job.
LEMMA PrefetchStartStep ==
  ASSUME PipelineInv, SchedulerInv', NEW j \in Run, PrefetchStart(j) PROVE PipelineInv'
<1> USE DEF PipelineInv
<1>1. prefetchQueue \in Seq(Run) /\ prefetchQueue # <<>> /\ j = Head(prefetchQueue)
  BY DEF PrefetchStart, TypeOK
<1>2. /\ Tail(prefetchQueue) \in Seq(Run) /\ 1 \in DOMAIN prefetchQueue /\ j = prefetchQueue[1]
      /\ \A i \in DOMAIN Tail(prefetchQueue) :
           i + 1 \in DOMAIN prefetchQueue /\ Tail(prefetchQueue)[i] = prefetchQueue[i + 1] /\ i \in Nat
  BY <1>1, TailWaits
<1>3. stage[j] = "prefetchQueued"
  BY <1>2 DEF QueuesTrue, Waiting
<1>4. stage[j] \in Active /\ "prefetching" \in Active
  BY <1>3 DEF Active, Stage
<1>5. /\ prefetchQueue' = Tail(prefetchQueue) /\ stage' = [stage EXCEPT ![j] = "prefetching"]
      /\ UNCHANGED <<scheduler, syncQueue, passed, failed, control>>
  BY DEF PrefetchStart
<1>6. /\ StagesTrue' /\ LockTrue' /\ stage' \in [Run -> Stage]
      /\ stage'[j] = "prefetching" /\ \A k \in Run \ {j} : stage'[k] = stage[k]
  BY <1>4, <1>5, RecipeMoves DEF Active
<1>7. ReportTrue'
  BY <1>4, <1>5, MovesUnreported
<1>8. TypeOK'
  BY <1>2, <1>5, <1>6 DEF TypeOK, SchedulerTypeOK, control, options, scheduler
<1>9. Waiting(prefetchQueue, "prefetchQueued")'
  <2>1. ASSUME NEW i \in DOMAIN prefetchQueue'
        PROVE  prefetchQueue'[i] \in Run \ {j} /\ stage'[prefetchQueue'[i]] = "prefetchQueued"
    BY <1>1, <1>2, <1>5, <1>6 DEF QueuesTrue, Waiting
  <2>2. ASSUME NEW i \in DOMAIN prefetchQueue', NEW k \in DOMAIN prefetchQueue',
               prefetchQueue'[i] = prefetchQueue'[k]
        PROVE  i = k
    BY <1>2, <1>5, <2>2 DEF QueuesTrue, Waiting
  <2>3. QED
    BY <2>1, <2>2 DEF Waiting
<1>10. QueuesTrue'
  BY <1>3, <1>5, <1>6, <1>9 DEF QueuesTrue, Waiting, TypeOK, SchedulerTypeOK, scheduler
<1>11. QED
  BY <1>6, <1>7, <1>8, <1>10

\* A good prefetch goes to the scheduler, a failed one ends the recipe.
LEMMA PrefetchSettlesStep ==
  ASSUME PipelineInv, SchedulerInv', NEW j \in Run, PrefetchSettles(j) PROVE PipelineInv'
<1> USE DEF PipelineInv
<1>1. stage[j] = "prefetching" /\ stage[j] \in Active /\ "buildQueued" \in Active
      /\ UNCHANGED <<prefetchQueue, syncQueue, control>> /\ j \notin working
  BY DEF PrefetchSettles, Active, Stage, QueuesTrue
<1>2. CASE Add(j) /\ stage' = [stage EXCEPT ![j] = "buildQueued"] /\ UNCHANGED <<passed, failed>>
  <2>1. /\ StagesTrue' /\ LockTrue' /\ stage' \in [Run -> Stage]
        /\ stage'[j] = "buildQueued" /\ \A k \in Run \ {j} : stage'[k] = stage[k]
    BY <1>1, <1>2, RecipeMoves DEF Active
  <2>2. ReportTrue'
    BY <1>1, <1>2, MovesUnreported
  <2>3. TypeOK'
    BY <1>1, <1>2, <2>1 DEF TypeOK, SchedulerInv, control, options
  <2>4. /\ queue \in Seq(Run) /\ queue' = Append(queue, j)
        /\ UNCHANGED working
    BY <1>2 DEF Add, TypeOK, SchedulerTypeOK
  <2>5. \A i \in DOMAIN queue' : (i \in DOMAIN queue /\ queue'[i] = queue[i]) \/ queue'[i] = j
    BY <2>4, AppendWaits
  <2>6. \A i \in DOMAIN queue : queue[i] \in Run /\ queue[i] # j
    BY <1>1, <2>4 DEF QueuesTrue
  <2>7. \A i \in DOMAIN queue' : stage'[queue'[i]] = "buildQueued"
    BY <2>1, <2>5, <2>6 DEF QueuesTrue
  <2>8. QueuesTrue'
    BY <1>1, <2>1, <2>4, <2>7 DEF QueuesTrue, Waiting, TypeOK
  <2>9. QED
    BY <2>1, <2>2, <2>3, <2>8
<1>3. CASE RecordFailure(j) /\ UNCHANGED scheduler
  <2>1. PICK s \in {"passed", "failed"} : stage' = [stage EXCEPT ![j] = s]
    BY <1>1, <1>3, EndsReported
  <2>2. /\ StagesTrue' /\ LockTrue' /\ stage' \in [Run -> Stage]
        /\ stage'[j] = s /\ \A k \in Run \ {j} : stage'[k] = stage[k]
    BY <1>1, <2>1, RecipeMoves DEF Stage
  <2>3. ReportTrue' /\ passed' \subseteq Run /\ failed' \subseteq {Recipe[k] : k \in Run}
    BY <1>1, <1>3, EndsReported
  <2>4. TypeOK'
    BY <1>1, <1>3, <2>2, <2>3 DEF TypeOK, SchedulerInv, control, options
  <2>5. QueuesTrue'
    BY <1>1, <1>3, <2>2 DEF QueuesTrue, Waiting, TypeOK, SchedulerTypeOK, scheduler
  <2>6. QED
    BY <2>2, <2>3, <2>4, <2>5
<1>4. QED
  BY <1>2, <1>3 DEF PrefetchSettles

\* drain starts the build of a queued recipe.
LEMMA BuildStartStep ==
  ASSUME PipelineInv, SchedulerInv', NEW j \in Run, BuildStart(j) PROVE PipelineInv'
<1> USE DEF PipelineInv
<1>1. /\ stage' = [stage EXCEPT ![j] = "building"] /\ working' = working \cup {j}
      /\ UNCHANGED <<prefetchQueue, syncQueue, passed, failed, control>>
  BY DEF BuildStart, StartJob
<1>2. PICK i \in FirstThatFits : j = queue[i] /\ queue' = RemoveAt(queue, i)
  BY DEF BuildStart, StartJob
<1>3. queue \in Seq(Run) /\ i \in 1 .. Len(queue) /\ DOMAIN queue = 1 .. Len(queue) /\ Len(queue) \in Nat
  BY <1>2, LenProperties DEF TypeOK, SchedulerTypeOK, FirstThatFits
<1>4. /\ queue' \in Seq(Run) /\ Len(queue') = Len(queue) - 1
      /\ \A k \in 1 .. Len(queue) - 1 :
           queue'[k] = IF k < i THEN queue[k] ELSE queue[k + 1]
  BY <1>2, <1>3, RemoveAtType
<1>5. DOMAIN queue' = 1 .. Len(queue) - 1
  BY <1>3, <1>4, LenProperties
<1>6. \A k \in DOMAIN queue' : \E l \in DOMAIN queue : l # i /\ queue'[k] = queue[l]
  BY <1>3, <1>4, <1>5
<1>7. \A k \in DOMAIN queue' : queue'[k] \in Run \ {j} /\ stage[queue'[k]] = "buildQueued"
  BY <1>2, <1>3, <1>6 DEF SchedulerInv, QueueFresh, QueuesTrue
<1>8. stage[j] = "buildQueued" /\ stage[j] \in Active /\ "building" \in Active
  BY <1>2, <1>3 DEF QueuesTrue, Active, Stage
<1>9. /\ StagesTrue' /\ LockTrue' /\ stage' \in [Run -> Stage]
      /\ stage'[j] = "building" /\ \A k \in Run \ {j} : stage'[k] = stage[k]
  BY <1>1, <1>8, RecipeMoves DEF Active
<1>10. ReportTrue'
  BY <1>1, <1>8, MovesUnreported
<1>11. TypeOK'
  BY <1>1, <1>9 DEF TypeOK, SchedulerInv, control, options
<1>12. QueuesTrue'
  BY <1>1, <1>7, <1>8, <1>9 DEF QueuesTrue, Waiting, TypeOK
<1>13. QED
  BY <1>9, <1>10, <1>11, <1>12

\* A build settles; runRecipe has yet to see it.
LEMMA BuildSettlesStep ==
  ASSUME PipelineInv, SchedulerInv', NEW j \in Run, BuildSettles(j) PROVE PipelineInv'
<1> USE DEF PipelineInv
<1>1. /\ stage[j] = "building" /\ stage[j] \in Active
      /\ working' = working \ {j} /\ queue' = queue
      /\ UNCHANGED <<prefetchQueue, syncQueue, passed, failed, control>>
  BY DEF BuildSettles, WorkSettles, QueuesTrue, Active, Stage
<1>2. PICK s \in {"built", "buildFailed"} : stage' = [stage EXCEPT ![j] = s]
  BY DEF BuildSettles
<1>3. s \in Active /\ s \in Stage \ {"idle"}
  BY DEF Active, Stage
<1>4. /\ StagesTrue' /\ LockTrue' /\ stage' \in [Run -> Stage]
      /\ stage'[j] = s /\ \A k \in Run \ {j} : stage'[k] = stage[k]
  BY <1>1, <1>2, <1>3, RecipeMoves
<1>5. ReportTrue'
  BY <1>1, <1>2, <1>3, MovesUnreported
<1>6. TypeOK'
  BY <1>1, <1>4 DEF TypeOK, SchedulerInv, control, options
<1>7. QueuesTrue'
  BY <1>1, <1>4 DEF QueuesTrue, Waiting, TypeOK, SchedulerTypeOK
<1>8. QED
  BY <1>4, <1>5, <1>6, <1>7

\* A recipe ends: in AfterBuild and when its sync settles.
LEMMA RecipeEnds ==
  ASSUME PipelineInv, SchedulerInv', NEW j \in Run, stage[j] \in {"built", "buildFailed", "syncing"},
         RecordFailure(j) \/ Succeed(j), UNCHANGED <<scheduler, prefetchQueue, syncQueue, control>>
  PROVE  PipelineInv'
<1> USE DEF PipelineInv
<1>1. stage[j] \in Active
  BY DEF Active, Stage
<1>2. PICK s \in {"passed", "failed"} : stage' = [stage EXCEPT ![j] = s]
  BY <1>1, EndsReported
<1>3. s \in Stage \ {"idle"}
  BY DEF Stage
<1>4. /\ StagesTrue' /\ LockTrue' /\ stage' \in [Run -> Stage]
      /\ stage'[j] = s /\ \A k \in Run \ {j} : stage'[k] = stage[k]
  BY <1>1, <1>2, <1>3, RecipeMoves
<1>5. ReportTrue' /\ passed' \subseteq Run /\ failed' \subseteq {Recipe[k] : k \in Run}
  BY <1>1, EndsReported
<1>6. TypeOK'
  BY <1>4, <1>5 DEF TypeOK, SchedulerInv, control, options
<1>7. QueuesTrue'
  BY <1>4 DEF QueuesTrue, Waiting, TypeOK, SchedulerTypeOK, scheduler
<1>8. QED
  BY <1>4, <1>5, <1>6, <1>7

\* runRecipe after its build.
LEMMA AfterBuildStep ==
  ASSUME PipelineInv, SchedulerInv', NEW j \in Run, AfterBuild(j) PROVE PipelineInv'
<1> USE DEF PipelineInv
<1>1. CASE stage[j] \in {"built", "buildFailed"} /\ UNCHANGED syncQueue
           /\ (RecordFailure(j) \/ Succeed(j))
  BY <1>1, RecipeEnds DEF AfterBuild
<1>2. CASE /\ stage[j] = "built" /\ stage' = [stage EXCEPT ![j] = "syncQueued"]
           /\ syncQueue' = Append(syncQueue, j)
           /\ UNCHANGED <<passed, failed>>
  <2>1. stage[j] \in Active /\ "syncQueued" \in Active
        /\ UNCHANGED <<scheduler, prefetchQueue, control>>
    BY <1>2 DEF AfterBuild, Active, Stage
  <2>2. /\ StagesTrue' /\ LockTrue' /\ stage' \in [Run -> Stage]
        /\ stage'[j] = "syncQueued" /\ \A k \in Run \ {j} : stage'[k] = stage[k]
    BY <1>2, <2>1, RecipeMoves DEF Active
  <2>3. ReportTrue'
    BY <1>2, <2>1, MovesUnreported
  <2>4. syncQueue \in Seq(Run)
    BY DEF TypeOK
  <2>5. /\ syncQueue' \in Seq(Run)
        /\ \A i \in DOMAIN syncQueue' :
             \/ i \in DOMAIN syncQueue /\ syncQueue'[i] = syncQueue[i]
             \/ i = Len(syncQueue) + 1 /\ i \notin DOMAIN syncQueue /\ syncQueue'[i] = j
    BY <1>2, <2>4, AppendWaits
  <2>6. TypeOK'
    BY <1>2, <2>1, <2>2, <2>5 DEF TypeOK, SchedulerInv, control, options
  <2>7. \A i \in DOMAIN syncQueue : syncQueue[i] \in Run \ {j}
    BY <1>2, <2>4 DEF QueuesTrue, Waiting
  <2>8. Waiting(syncQueue, "syncQueued")'
    BY <2>2, <2>5, <2>7 DEF QueuesTrue, Waiting
  <2>9. QueuesTrue'
    BY <1>2, <2>1, <2>2, <2>8 DEF QueuesTrue, Waiting, TypeOK, SchedulerTypeOK, scheduler
  <2>10. QED
    BY <2>2, <2>3, <2>6, <2>9
<1>3. QED
  BY <1>1, <1>2 DEF AfterBuild

\* syncQ takes its next job.
LEMMA SyncStartStep ==
  ASSUME PipelineInv, SchedulerInv', NEW j \in Run, SyncStart(j) PROVE PipelineInv'
<1> USE DEF PipelineInv
<1>1. syncQueue \in Seq(Run) /\ syncQueue # <<>> /\ j = Head(syncQueue)
  BY DEF SyncStart, TypeOK
<1>2. /\ Tail(syncQueue) \in Seq(Run) /\ 1 \in DOMAIN syncQueue /\ j = syncQueue[1]
      /\ \A i \in DOMAIN Tail(syncQueue) :
           i + 1 \in DOMAIN syncQueue /\ Tail(syncQueue)[i] = syncQueue[i + 1] /\ i \in Nat
  BY <1>1, TailWaits
<1>3. stage[j] = "syncQueued"
  BY <1>2 DEF QueuesTrue, Waiting
<1>4. stage[j] \in Active /\ "syncing" \in Active
  BY <1>3 DEF Active, Stage
<1>5. /\ syncQueue' = Tail(syncQueue) /\ stage' = [stage EXCEPT ![j] = "syncing"]
      /\ UNCHANGED <<scheduler, prefetchQueue, passed, failed, control>>
  BY DEF SyncStart
<1>6. /\ StagesTrue' /\ LockTrue' /\ stage' \in [Run -> Stage]
      /\ stage'[j] = "syncing" /\ \A k \in Run \ {j} : stage'[k] = stage[k]
  BY <1>4, <1>5, RecipeMoves DEF Active
<1>7. ReportTrue'
  BY <1>4, <1>5, MovesUnreported
<1>8. TypeOK'
  BY <1>2, <1>5, <1>6 DEF TypeOK, SchedulerInv, control, options
<1>9. Waiting(syncQueue, "syncQueued")'
  <2>1. ASSUME NEW i \in DOMAIN syncQueue'
        PROVE  syncQueue'[i] \in Run \ {j} /\ stage'[syncQueue'[i]] = "syncQueued"
    BY <1>1, <1>2, <1>5, <1>6 DEF QueuesTrue, Waiting
  <2>2. ASSUME NEW i \in DOMAIN syncQueue', NEW k \in DOMAIN syncQueue',
               syncQueue'[i] = syncQueue'[k]
        PROVE  i = k
    BY <1>2, <1>5, <2>2 DEF QueuesTrue, Waiting
  <2>3. QED
    BY <2>1, <2>2 DEF Waiting
<1>10. QueuesTrue'
  BY <1>3, <1>5, <1>6, <1>9 DEF QueuesTrue, Waiting, TypeOK, SchedulerTypeOK, scheduler
<1>11. QED
  BY <1>6, <1>7, <1>8, <1>10

\* The scheduler's own turns: the end of a drain, and the finally callback.
LEMMA SchedulerTurnStep ==
  ASSUME PipelineInv, SchedulerInv', SchedulerTurn PROVE PipelineInv'
<1> USE DEF PipelineInv
<1>1. UNCHANGED <<stages, control>> /\ UNCHANGED <<queue, working>>
  BY DEF SchedulerTurn, DrainEnd, Finally
<1>2. TypeOK'
  BY <1>1 DEF TypeOK, SchedulerInv, stages, control, options
<1>3. QueuesTrue' /\ ReportTrue'
  BY <1>1 DEF QueuesTrue, Waiting, ReportTrue, stages
<1>4. StagesTrue' /\ LockTrue'
  BY <1>1 DEF StagesTrue, LockTrue, ValidOptions, stages, control, options
<1>5. QED
  BY <1>2, <1>3, <1>4

LEMMA PipelineSteps == PipelineInv /\ [Next]_vars => PipelineInv'
<1> SUFFICES ASSUME PipelineInv, [Next]_vars PROVE PipelineInv'
  OBVIOUS
<1>1. SchedulerInv'
  BY StepSchedules, SchedulerSteps DEF PipelineInv
<1>2. CASE UNCHANGED vars
  BY <1>2, InvUnchanged
<1>3. CASE RunPipeline \/ MaintenanceLost
  BY <1>1, <1>3, ControlSteps, SyncStep DEF RunPipeline
<1>4. ASSUME NEW j \in Run, RunRecipe(j) PROVE PipelineInv'
  <2>1. CASE SyncSettles(j)
    BY <1>1, <2>1, RecipeEnds DEF SyncSettles
  <2>2. QED
    BY <1>1, <1>4, <2>1, PrefetchStartStep, PrefetchSettlesStep, BuildStartStep, BuildSettlesStep,
       AfterBuildStep, SyncStartStep DEF RunRecipe
<1>5. CASE SchedulerTurn
  BY <1>1, <1>5, SchedulerTurnStep
<1>6. QED
  BY <1>2, <1>3, <1>4, <1>5 DEF Next

LEMMA PipelineAlways == Spec => []PipelineInv
  BY InitPipeline, PipelineSteps, PTL DEF Spec

-----------------------------------------------------------------------------

\* The maintenance lock is let go only when nothing of the pipeline happens on
\* the node (runPipeline's finally).
THEOREM LockOutlastsTheWork == Spec => []QuietWhenReleased
<1>1. PipelineInv => QuietWhenReleased
  BY DEF PipelineInv, TypeOK, LockTrue, StagesTrue, QuietWhenReleased, OnNode
<1>2. QED
  BY <1>1, PipelineAlways, PTL

\* What runPipeline returns is complete and true of every recipe (Promise.allSettled,
\* recordFailure).
THEOREM ReportsEverything == Spec => []ReportIsComplete
<1>1. PipelineInv => ReportIsComplete
  <2> SUFFICES ASSUME PipelineInv, main = "returned" PROVE ReportIsComplete
    BY DEF ReportIsComplete
  <2> USE DEF PipelineInv
  <2>1. requested \subseteq Run /\ passed \subseteq Run
    BY DEF TypeOK
  <2>2. \A j \in requested : stage[j] \in {"passed", "failed"}
    BY DEF LockTrue, StagesTrue
  <2>3. \A j \in requested : j \in passed \/ Recipe[j] \in failed
    BY <2>1, <2>2 DEF ReportTrue
  <2>4. passed \subseteq requested
    BY <2>1 DEF ReportTrue, StagesTrue
  <2>5. failed = {} => passed = requested
    BY <2>3, <2>4
  <2>6. passed = requested => failed = {}
    BY <2>1 DEF ReportTrue, StagesTrue
  <2>7. QED
    BY <2>2, <2>3, <2>5, <2>6 DEF ReportIsComplete
<1>2. QED
  BY <1>1, PipelineAlways, PTL

\* Builds of one recipe never overlap: either one builds at a time, or
\* validateBuildOptions has refused the second mention.
THEOREM OneBuildPerRecipe == Spec => []ParallelBuildsDiffer
<1>1. PipelineInv => ParallelBuildsDiffer
  <2> SUFFICES ASSUME PipelineInv, NEW j \in Run, NEW k \in Run,
                      stage[j] = "building", stage[k] = "building", Recipe[j] = Recipe[k], j # k
               PROVE  FALSE
    BY DEF ParallelBuildsDiffer
  <2> USE DEF PipelineInv
  <2>1. j \in requested /\ k \in requested /\ ValidOptions
    BY DEF StagesTrue, LockTrue
  <2>2. ~(Concurrency > 1)
    BY <2>1 DEF ValidOptions
  <2>3. {j, k} \subseteq Counted /\ Counted \subseteq Run
    BY DEF QueuesTrue, Counted, TypeOK, SchedulerTypeOK
  <2>4. IsFiniteSet(Counted) /\ IsFiniteSet({j})
    BY <2>3, RunsFinite, FS_Subset
  <2>5. Cardinality({j}) = 1 /\ Cardinality({j} \cup {k}) = Cardinality({j}) + 1
    BY <2>4, FS_Singleton, FS_AddElement
  <2>6. Cardinality({j} \cup {k}) <= Cardinality(Counted)
    BY <2>3, <2>4, FS_Subset
  <2>7. Concurrency = 1 /\ running \in Nat /\ running <= Concurrency
    BY <2>2, ConcurrencyType DEF TypeOK, SchedulerTypeOK, SchedulerInv, CountersBounded
  <2>8. Cardinality(Counted) = running
    BY DEF SchedulerInv, CountersExact
  <2> HIDE DEF PipelineInv
  <2>9. QED
    BY <2>5, <2>6, <2>7, <2>8
<1>2. QED
  BY <1>1, PipelineAlways, PTL

-----------------------------------------------------------------------------
(* One build of the pipeline: its invariant.                                *)

\* Every session was paid for, by an attempt or by a transport retry.
SessionsPaid ==
  /\ phase \in {"attempt", "launch", "backoff"} =>
       session = attempt - 1 + transport
  /\ phase = "watch" => session = attempt + transport

\* The lease stays as long as the launcher works, the slot until the cleanup
\* that gives it back.
ClaimsStand ==
  /\ phase \in Working => lease
  /\ phase \notin {"releaseLease", "signalLease", "done"} => slot

\* Once the VM has been destroyed, one that stands is of a session at work.  A
\* signal that finds the lease has left the destruction to it.
Destroyed ==
  \/ phase \in {"releaseSlot", "releaseLease", "done"}
  \/ phase \in {"signalSlot", "signalLease"} /\ ~lease

VmIsPackers ==
  Destroyed /\ ~missed => vm = 0 \/ packer[vm] \in {"building", "exporting"}

BuildInv ==
  /\ BuildTypeOK
  /\ SessionsPaid
  /\ ClaimsStand
  /\ VmIsPackers

-----------------------------------------------------------------------------
(* One lemma per part of the build.                                         *)

LEMMA BuildStarts == BuildInit => BuildInv
<1> SUFFICES ASSUME BuildInit PROVE BuildInv
  OBVIOUS
<1>1. BuildTypeOK
  <2>1. 1 \in 1 .. Attempts /\ 0 \in 0 .. MaxTransport
    BY AttemptsType, MaxTransportType
  <2>2. [n \in Session |-> "none"] \in [Session -> Packer]
    BY DEF Packer
  <2>3. QED
    BY <2>1, <2>2 DEF BuildInit, BuildTypeOK, Phase
<1>2. SessionsPaid /\ ClaimsStand /\ VmIsPackers
  BY DEF BuildInit, SessionsPaid, ClaimsStand, VmIsPackers
<1>3. QED
  BY <1>1, <1>2 DEF BuildInv

\* A kill and a destruction leave the node well typed, whatever they achieve.
LEMMA SweepsKeepTypes ==
  ASSUME BuildTypeOK
  PROVE  /\ KillPackers => packer' \in [Session -> Packer]
         /\ Destroy => vm' \in {0} \cup Session /\ template' \in BOOLEAN /\ missed' \in BOOLEAN
<1>1. ASSUME KillPackers PROVE packer' \in [Session -> Packer]
  BY <1>1 DEF BuildTypeOK, KillPackers, Alive, Packer
<1>2. ASSUME Destroy PROVE vm' \in {0} \cup Session /\ template' \in BOOLEAN /\ missed' \in BOOLEAN
  BY <1>2 DEF BuildTypeOK, Destroy, DropVm
<1>3. QED
  BY <1>1, <1>2

\* A destruction destroys, or fails and says so.
LEMMA DestroysOrMisses == ASSUME Destroy PROVE vm' = 0 \/ missed'
  BY DEF Destroy, DropVm

\* A step of a session leaves the launcher where it is, and a VM it does not
\* destroy has a session at work whenever it had one.
LEMMA PackersKeep ==
  ASSUME BuildInv, NEW n \in Session, PackerActs(n)
  PROVE  BuildInv'
<1> USE DEF PackerActs, launcher, claims
<1>1. UNCHANGED <<launcher, claims, missed>>
  BY DEF PackerStarts, PackerTemplates, PackerExports, PackerFails
<1>2. n \in Alive
  BY DEF PackerStarts, PackerTemplates, PackerExports, PackerFails, Alive
<1>3. BuildTypeOK'
  BY <1>1 DEF BuildInv, BuildTypeOK, PackerStarts, PackerTemplates, PackerExports, PackerFails,
     DropVm, Packer
<1>4. SessionsPaid' /\ ClaimsStand'
  BY <1>1 DEF BuildInv, SessionsPaid, ClaimsStand
<1>5. Destroyed' = Destroyed
  BY <1>1 DEF Destroyed
<1>6. VmIsPackers'
  BY <1>1, <1>3, <1>5 DEF BuildInv, BuildTypeOK, VmIsPackers, PackerStarts, PackerTemplates, PackerExports,
     PackerFails, DropVm, Alive
<1>7. QED
  BY <1>3, <1>4, <1>6 DEF BuildInv

\* A session is launched only as long as one more is paid for.
LEMMA RetriesKeep ==
  ASSUME BuildInv, Relevel \/ Launch \/ SessionEnds \/ TransportFails \/ BackoffEnds
  PROVE  BuildInv'
<1> USE AttemptsType, MaxTransportType DEF launcher, node, claims, Session
<1>1. BuildTypeOK' /\ SessionsPaid'
  <2>1. CASE Relevel
    BY <2>1 DEF BuildInv, BuildTypeOK, SessionsPaid, Relevel, DropVm, Phase
  <2>2. CASE Launch
    BY <2>2 DEF BuildInv, BuildTypeOK, SessionsPaid, Launch, Phase, Packer
  <2>3. CASE SessionEnds
    BY <2>3 DEF BuildInv, BuildTypeOK, SessionsPaid, SessionEnds, SpendAttempt, Phase
  <2>4. CASE TransportFails
    BY <2>4 DEF BuildInv, BuildTypeOK, SessionsPaid, TransportFails, SpendAttempt, Phase
  <2>5. CASE BackoffEnds
    BY <2>5 DEF BuildInv, BuildTypeOK, SessionsPaid, BackoffEnds, Phase
  <2>6. QED
    BY <2>1, <2>2, <2>3, <2>4, <2>5
<1>2. phase \in Working /\ phase' \in Working \cup {"finally"}
  BY DEF Relevel, Launch, SessionEnds, TransportFails, BackoffEnds, SpendAttempt, Working
<1>3. UNCHANGED claims
  BY DEF Relevel, Launch, SessionEnds, TransportFails, BackoffEnds
<1>4. ClaimsStand' /\ VmIsPackers'
  BY <1>2, <1>3 DEF BuildInv, ClaimsStand, VmIsPackers, Destroyed, Working
<1>5. QED
  BY <1>1, <1>4 DEF BuildInv

\* The end of the work, by a lost lease or a signal: nothing is given back yet,
\* and a signal that leaves the VM to a lost lease says so.
LEMMA AbortsKeep ==
  ASSUME BuildInv, LeaseLost \/ TerminateRemote \/ Signal
  PROVE  BuildInv'
<1> USE DEF launcher, node, claims
<1>1. CASE LeaseLost
  <2>1. BuildTypeOK'
    BY <1>1, SweepsKeepTypes DEF BuildInv, BuildTypeOK, LeaseLost, Phase, Session
  <2>2. QED
    BY <1>1, <2>1 DEF BuildInv, LeaseLost, SessionsPaid, ClaimsStand, VmIsPackers, Destroyed, Working
<1>2. CASE TerminateRemote
  <2>1. BuildTypeOK'
    BY <1>2, SweepsKeepTypes DEF BuildInv, BuildTypeOK, TerminateRemote, Phase
  <2>2. QED
    BY <1>2, <2>1 DEF BuildInv, TerminateRemote, SessionsPaid, ClaimsStand, VmIsPackers, Destroyed,
       Working
<1>3. CASE Signal
  <2>1. BuildTypeOK'
    BY <1>3 DEF BuildInv, BuildTypeOK, Signal, Phase, Working
  <2>2. SessionsPaid' /\ ClaimsStand'
    BY <1>3 DEF BuildInv, Signal, SessionsPaid, ClaimsStand, Working
  <2>3. VmIsPackers'
    BY <1>3 DEF BuildInv, BuildTypeOK, Signal, VmIsPackers, Destroyed, Working
  <2>4. QED
    BY <2>1, <2>2, <2>3 DEF BuildInv
<1>4. QED
  BY <1>1, <1>2, <1>3

\* The finally and the signal cleanups: each may fail, and the next still runs.
LEMMA CleanupsKeep ==
  ASSUME BuildInv, DestroyVm \/ ReleaseSlot \/ ReleaseLease \/ SignalVm \/ SignalLease
  PROVE  BuildInv'
<1> USE DEF launcher, node, claims
<1>1. BuildTypeOK'
  BY SweepsKeepTypes DEF BuildInv, BuildTypeOK, DestroyVm, ReleaseSlot, ReleaseLease, SignalVm,
     SignalLease, Phase, Session
<1>2. SessionsPaid' /\ ClaimsStand'
  BY DEF BuildInv, SessionsPaid, ClaimsStand, DestroyVm, ReleaseSlot, ReleaseLease, SignalVm,
     SignalLease, Working
<1>3. VmIsPackers'
  <2>1. CASE DestroyVm \/ SignalVm
    BY <2>1, DestroysOrMisses DEF DestroyVm, SignalVm, VmIsPackers
  <2>2. CASE ReleaseSlot \/ ReleaseLease
    BY <2>2 DEF BuildInv, BuildTypeOK, ReleaseSlot, ReleaseLease, VmIsPackers, Destroyed
  <2>3. CASE SignalLease
    BY <2>3, DestroysOrMisses DEF BuildInv, BuildTypeOK, SignalLease, VmIsPackers, Destroyed
  <2>4. QED
    BY <2>1, <2>2, <2>3
<1>4. QED
  BY <1>1, <1>2, <1>3 DEF BuildInv

LEMMA BuildIsSound == BuildSpec => []BuildInv
<1>1. BuildInv /\ [BuildNext]_buildVars => BuildInv'
  <2> SUFFICES ASSUME BuildInv, [BuildNext]_buildVars PROVE BuildInv'
    OBVIOUS
  <2>1. CASE UNCHANGED buildVars
    BY <2>1 DEF buildVars, launcher, node, claims, BuildInv, BuildTypeOK, SessionsPaid, ClaimsStand,
       VmIsPackers, Destroyed
  <2>2. CASE BuildNext
    BY <2>2, PackersKeep, RetriesKeep, AbortsKeep, CleanupsKeep DEF BuildNext, Launcher
  <2>3. QED
    BY <2>1, <2>2
<1>2. QED
  BY BuildStarts, <1>1, PTL DEF BuildSpec

-----------------------------------------------------------------------------
(* Theorems about the build.                                                *)

\* A build starts at most one Packer session for each attempt and each
\* transport retry, whatever fails (runWithRetries, TRANSPORT_BACKOFF_MS).
THEOREM SessionsAreBounded == BuildSpec => []BuildTypeOK
  BY BuildIsSound, PTL DEF BuildInv

\* No order of failures, finally and signal cleanups leaves a VM that nobody
\* will remove, unless a cleanup failed or a signal after a lost lease skipped it.
THEOREM VmStaysInCharge == BuildSpec => []VmInCharge
<1>1. BuildInv => VmInCharge
  BY DEF BuildInv, BuildTypeOK, ClaimsStand, VmIsPackers, Destroyed, VmInCharge, Phase, Alive
<1>2. QED
  BY <1>1, BuildIsSound, PTL

=============================================================================
