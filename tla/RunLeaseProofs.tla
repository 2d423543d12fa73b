--------------------------- MODULE RunLeaseProofs ---------------------------
(***************************************************************************)
(* What holds of the run leases for any number of runs, any demands, any   *)
(* stale window: types; a healthy run keeps its lease; a VM has a lease;   *)
(* and the leases, but for those a late touch brought back, implement      *)
(* node-wide admission and so never overcommit the node.                   *)
(***************************************************************************)
EXTENDS RunLease, DemandProofs

\* A reap leaves the lease, its age and the VM well typed.
LEMMA ReapTypes ==
  ASSUME TypeOK, NEW r \in Run, ReapLeaseBody(r)
  PROVE  /\ file' \in [Run -> File]
         /\ age' \in [Run -> 0 .. StaleTicks + 1]
         /\ vm' \in [Run -> BOOLEAN]
         /\ packer' \subseteq Run
<1>1. file' \in [Run -> File]
  BY DEF TypeOK, ReapLeaseBody, File
<1>2. 0 \in 0 .. StaleTicks + 1
  BY StaleTicksType
<1>3. age' \in [Run -> 0 .. StaleTicks + 1]
  BY <1>2 DEF TypeOK, ReapLeaseBody
<1>4. vm' \in [Run -> BOOLEAN]
  BY DEF TypeOK, ReapLeaseBody
<1>5. packer' \subseteq Run
  BY DEF TypeOK, ReapLeaseBody
<1>6. QED
  BY <1>1, <1>3, <1>4, <1>5

\* Every variable keeps its type (acquireRunLease and the scripts it sends).
THEOREM Typing == Spec => []TypeOK
<1> USE StaleTicksType, LockNames DEF LostAfter
<1>1. Init => TypeOK
  BY BuildersType DEF Init, TypeOK, Phase, File, Beat
<1>2. TypeOK /\ [Next]_vars => TypeOK'
  <2> SUFFICES ASSUME TypeOK, [Next]_vars PROVE TypeOK'
    OBVIOUS
  <2> USE DEF TypeOK, Phase, File, Beat, Listening, Answer, Unheard, sweeping
  <2>1. ASSUME NEW r \in Run, Launcher(r) PROVE TypeOK'
    <3>1. CASE AdmissionBegin(r)
      BY <3>1 DEF AdmissionBegin, TakeLock
    <3>2. CASE AdmissionReject(r)
      BY <3>2 DEF AdmissionReject, DropLock
    <3>3. CASE AdmissionWait(r)
      BY <3>3 DEF AdmissionWait, DropLock
    <3>4. CASE AdmissionAcquire(r)
      BY <3>4 DEF AdmissionAcquire, DropLock
    <3>5. CASE UpdateLeaseVmid(r)
      BY <3>5 DEF UpdateLeaseVmid
    <3>6. CASE StartPacker(r)
      BY <3>6 DEF StartPacker
    <3>7. CASE WorkSettles(r)
      BY <3>7 DEF WorkSettles
    <3>8. CASE DestroyVm(r)
      BY <3>8 DEF DestroyVm
    <3>9. CASE Release(r)
      BY <3>9 DEF Release
    <3>10. CASE LauncherDies(r)
      BY <3>10 DEF LauncherDies
    <3>11. CASE Signal(r)
      BY <3>11 DEF Signal
    <3>12. CASE SignalCleanup(r)
      <4>1. CASE UNCHANGED <<file, age, vm, packer, excused>>
        BY <3>12, <4>1 DEF SignalCleanup
      <4>2. CASE ReapLeaseBody(r)
        BY <3>12, <4>2, ReapTypes DEF SignalCleanup
      <4>3. QED
        BY <3>12, <4>1, <4>2 DEF SignalCleanup
    <3>13. QED
      BY <2>1, <3>1, <3>2, <3>3, <3>4, <3>5, <3>6, <3>7, <3>8, <3>9, <3>10,
         <3>11, <3>12 DEF Launcher
  <2>2. ASSUME NEW r \in Run, Heartbeat(r) PROVE TypeOK'
    <3>1. CASE HeartbeatTest(r)
      BY <3>1 DEF HeartbeatTest
    <3>2. CASE HeartbeatTouch(r)
      BY <3>2 DEF HeartbeatTouch
    <3>3. CASE HeartbeatDropped(r)
      BY <3>3 DEF HeartbeatDropped
    <3>4. CASE HeartbeatReply(r)
      BY <3>4 DEF HeartbeatReply, EvaluateHeartbeat
    <3>5. QED
      BY <2>2, <3>1, <3>2, <3>3, <3>4 DEF Heartbeat
  <2>3. ASSUME NEW r \in Run, SweepInspect(r) PROVE TypeOK'
    BY <2>3 DEF SweepInspect
  <2>9. ASSUME NEW r \in Run, Session(r) PROVE TypeOK'
    BY <2>9 DEF Session, CreateVm, PackerEnds
  <2>4. CASE SweepReap
    <3>1. doomed \in Run /\ ReapLeaseBody(doomed)
      BY <2>4 DEF SweepReap
    <3>2. QED
      BY <2>4, <3>1, ReapTypes DEF SweepReap
  <2>5. CASE Prune
    BY <2>5, PrefixesType DEF Prune, PruneBegin, PruneEnd, TakeLock, DropLock
  <2>6. CASE Tick
    BY <2>6 DEF Tick, Older
  <2>7. CASE UNCHANGED vars
    BY <2>7 DEF vars
  <2>8. QED
    BY <2>1, <2>2, <2>3, <2>4, <2>5, <2>6, <2>7, <2>9 DEF Next
<1>3. QED
  BY <1>1, <1>2, PTL DEF Spec

-----------------------------------------------------------------------------

\* The strengthening of the next theorem: what a sweep has condemned, and what
\* is old enough to be condemned, is excused.
LEMMA HealthInvariant == Spec => []HealthInv
<1> USE StaleTicksType, LockNames
<1>1. Init => HealthInv
  BY DEF Init, HealthInv, HealthyRunKeepsLease, Listening
<1>2. TypeOK /\ HealthInv /\ [Next]_vars => HealthInv'
  <2> SUFFICES ASSUME TypeOK, HealthInv, [Next]_vars PROVE HealthInv'
    OBVIOUS
  <2> USE DEF TypeOK, HealthInv, HealthyRunKeepsLease, Listening, Held, Named, Answer, Unheard, sweeping
  <2>1. ASSUME NEW r \in Run, Launcher(r) PROVE HealthInv'
    <3>1. CASE AdmissionBegin(r)
      BY <3>1 DEF AdmissionBegin, TakeLock
    <3>2. CASE AdmissionReject(r)
      BY <3>2 DEF AdmissionReject, DropLock
    <3>3. CASE AdmissionWait(r)
      BY <3>3 DEF AdmissionWait, DropLock
    <3>4. CASE AdmissionAcquire(r)
      BY <3>4 DEF AdmissionAcquire, DropLock
    <3>5. CASE UpdateLeaseVmid(r)
      BY <3>5 DEF UpdateLeaseVmid
    <3>6. CASE StartPacker(r)
      BY <3>6 DEF StartPacker
    <3>7. CASE WorkSettles(r)
      BY <3>7 DEF WorkSettles
    <3>8. CASE DestroyVm(r)
      BY <3>8 DEF DestroyVm
    <3>9. CASE Release(r)
      BY <3>9 DEF Release
    <3>10. CASE LauncherDies(r)
      BY <3>10 DEF LauncherDies
    <3>11. CASE Signal(r)
      BY <3>11 DEF Signal
    <3>12. CASE SignalCleanup(r)
      BY <3>12 DEF SignalCleanup, ReapLeaseBody
    <3>13. QED
      BY <2>1, <3>1, <3>2, <3>3, <3>4, <3>5, <3>6,
         <3>7, <3>8, <3>9, <3>10, <3>11, <3>12 DEF Launcher
  <2>2. ASSUME NEW r \in Run, Heartbeat(r) PROVE HealthInv'
    <3>1. CASE HeartbeatTest(r)
      BY <3>1 DEF HeartbeatTest
    <3>2. CASE HeartbeatTouch(r)
      BY <3>2 DEF HeartbeatTouch
    <3>3. CASE HeartbeatDropped(r)
      BY <3>3 DEF HeartbeatDropped
    <3>4. CASE HeartbeatReply(r)
      BY <3>4 DEF HeartbeatReply
    <3>5. QED
      BY <2>2, <3>1, <3>2, <3>3, <3>4 DEF Heartbeat
  <2>3. ASSUME NEW r \in Run, SweepInspect(r) PROVE HealthInv'
    BY <2>3 DEF SweepInspect
  <2>9. ASSUME NEW r \in Run, Session(r) PROVE HealthInv'
    BY <2>9 DEF Session, CreateVm, PackerEnds
  <2>4. CASE SweepReap
    BY <2>4 DEF SweepReap, ReapLeaseBody
  <2>5. CASE Prune
    BY <2>5 DEF Prune, PruneBegin, PruneEnd, TakeLock, DropLock
  <2>6. CASE Tick
    BY <2>6 DEF Tick, Older
  <2>7. CASE UNCHANGED vars
    BY <2>7 DEF vars
  <2>8. QED
    BY <2>1, <2>2, <2>3, <2>4, <2>5, <2>6, <2>7, <2>9 DEF Next
<1>3. QED
  BY <1>1, <1>2, Typing, PTL DEF Spec

\* A run that works and is not excused keeps its lease, for any number of runs
\* and whatever the sweeps, prunes and other runs do (sweepRunLeasesScript,
\* runLeaseHeartbeatCommand).
THEOREM HealthyKeepsLease == Spec => []HealthyRunKeepsLease
BY HealthInvariant, PTL DEF HealthInv

\* A VM that is not kept and whose run is not excused is named by a standing
\* lease (updateLeaseVmidScript before Packer, the VM before the lease at the
\* end).
THEOREM VmKeepsLease == Spec => []VmHasLease
<1> USE StaleTicksType, LockNames
<1>1. Init => VmInv
  BY DEF Init, VmInv, VmHasLease
<1>2. TypeOK /\ HealthInv /\ VmInv /\ [Next]_vars => VmInv'
  <2> SUFFICES ASSUME TypeOK, HealthInv, VmInv, [Next]_vars PROVE VmInv'
    OBVIOUS
  <2> USE DEF TypeOK, HealthInv, VmInv, VmHasLease, Answer, Unheard, sweeping
  <2>1. ASSUME NEW r \in Run, Launcher(r) PROVE VmInv'
    <3>1. CASE AdmissionBegin(r)
      BY <3>1 DEF AdmissionBegin, TakeLock
    <3>2. CASE AdmissionReject(r)
      BY <3>2 DEF AdmissionReject, DropLock
    <3>3. CASE AdmissionWait(r)
      BY <3>3 DEF AdmissionWait, DropLock
    <3>4. CASE AdmissionAcquire(r)
      BY <3>4 DEF AdmissionAcquire, DropLock
    <3>5. CASE UpdateLeaseVmid(r)
      <4>1. r \in excused \/ file[r] \in {"held", "named"}
        BY <3>5 DEF UpdateLeaseVmid, HealthyRunKeepsLease, Listening, Held, Named
      <4>2. QED
        BY <3>5, <4>1 DEF UpdateLeaseVmid
    <3>6. CASE StartPacker(r)
      BY <3>6 DEF StartPacker
    <3>7. CASE WorkSettles(r)
      BY <3>7 DEF WorkSettles
    <3>8. CASE DestroyVm(r)
      BY <3>8 DEF DestroyVm
    <3>9. CASE Release(r)
      BY <3>9 DEF Release
    <3>10. CASE LauncherDies(r)
      BY <3>10 DEF LauncherDies
    <3>11. CASE Signal(r)
      BY <3>11 DEF Signal
    <3>12. CASE SignalCleanup(r)
      <4>1. CASE UNCHANGED <<file, age, vm, packer, excused>>
        BY <3>12, <4>1 DEF SignalCleanup
      <4>2. CASE ReapLeaseBody(r) /\ (vm'[r] \/ r \in packer')
        BY <3>12, <4>2 DEF SignalCleanup, ReapLeaseBody
      <4>3. CASE ReapLeaseBody(r) /\ ~vm'[r] /\ r \notin packer'
        BY <3>12, <4>3 DEF SignalCleanup, ReapLeaseBody
      <4>4. QED
        BY <3>12, <4>1, <4>2, <4>3 DEF SignalCleanup
    <3>13. QED
      BY <2>1, <3>1, <3>2, <3>3, <3>4, <3>5, <3>6,
         <3>7, <3>8, <3>9, <3>10, <3>11, <3>12 DEF Launcher
  <2>2. ASSUME NEW r \in Run, Heartbeat(r) PROVE VmInv'
    <3>1. CASE HeartbeatTest(r)
      BY <3>1 DEF HeartbeatTest
    <3>2. CASE HeartbeatTouch(r)
      BY <3>2 DEF HeartbeatTouch
    <3>3. CASE HeartbeatDropped(r)
      BY <3>3 DEF HeartbeatDropped
    <3>4. CASE HeartbeatReply(r)
      BY <3>4 DEF HeartbeatReply, Listening
    <3>5. QED
      BY <2>2, <3>1, <3>2, <3>3, <3>4 DEF Heartbeat
  <2>3. ASSUME NEW r \in Run, SweepInspect(r) PROVE VmInv'
    BY <2>3 DEF SweepInspect
  <2>9. ASSUME NEW r \in Run, Session(r) PROVE VmInv'
    BY <2>9 DEF Session, CreateVm, PackerEnds
  <2>4. CASE SweepReap
    BY <2>4 DEF SweepReap, ReapLeaseBody
  <2>5. CASE Prune
    BY <2>5 DEF Prune, PruneBegin, PruneEnd, TakeLock, DropLock
  <2>6. CASE Tick
    BY <2>6 DEF Tick, Older
  <2>7. CASE UNCHANGED vars
    BY <2>7 DEF vars
  <2>8. QED
    BY <2>1, <2>2, <2>3, <2>4, <2>5, <2>6, <2>7, <2>9 DEF Next
<1>3. QED
  BY <1>1, <1>2, Typing, HealthInvariant, PTL DEF Spec, VmInv

\* The VM of a --keep-vm run is destroyed by no lease operation, whoever does it
\* and whatever becomes of the lease (reapLeaseBody, the finally of buildPhase).
THEOREM PreservedStands == Spec => PreservedVmSurvives
<1> DEFINE Spared == \A r \in Preserve : vm[r] => vm'[r]
<1>1. ASSUME TypeOK, NEW u \in Run, ReapLeaseBody(u) PROVE Spared
  BY <1>1, PreserveType DEF ReapLeaseBody, TypeOK
<1>2. TypeOK /\ [Next]_vars => [\A r \in Preserve : vm[r] => vm'[r]]_vars
  <2> SUFFICES ASSUME TypeOK, Next PROVE Spared
    OBVIOUS
  <2>1. ASSUME NEW u \in Run, Session(u) \/ DestroyVm(u) PROVE Spared
    BY <2>1, PreserveType DEF Session, CreateVm, PackerEnds, DestroyVm, TypeOK
  <2>2. ASSUME NEW u \in Run, SignalCleanup(u) PROVE Spared
    BY <1>1, <2>2, PreserveType DEF SignalCleanup
  <2>3. CASE SweepReap
    BY <1>1, <2>3 DEF SweepReap, TypeOK
  <2>4. ASSUME vm' = vm PROVE Spared
    BY <2>4
  <2>5. ASSUME NEW u \in Run, Launcher(u) PROVE Spared
    BY <2>1, <2>2, <2>4, <2>5 DEF Launcher, AdmissionBegin, AdmissionReject, AdmissionWait,
       AdmissionAcquire, UpdateLeaseVmid, StartPacker, WorkSettles, Release, LauncherDies, Signal
  <2>6. ASSUME NEW u \in Run, Heartbeat(u) \/ SweepInspect(u) PROVE Spared
    BY <2>4, <2>6 DEF Heartbeat, HeartbeatTest, HeartbeatTouch, HeartbeatDropped, HeartbeatReply,
       SweepInspect
  <2>7. CASE Prune \/ Tick
    BY <2>4, <2>7 DEF Prune, PruneBegin, PruneEnd, Tick
  <2>8. QED
    BY <2>1, <2>3, <2>5, <2>6, <2>7 DEF Next
<1>3. Spec => [][\A r \in Preserve : vm[r] => vm'[r]]_vars
  BY <1>2, Typing, PTL DEF Spec
<1>4. QED
  BY <1>3 DEF PreservedVmSurvives

-----------------------------------------------------------------------------

\* What the ACQUIRED branch of buildLeaseAdmissionScript has checked.
LEMMA AcquireFits ==
  ASSUME TypeOK, NEW r \in Run, AdmissionAcquire(r)
  PROVE  /\ \A s \in Admitted : Recipe[s] # Recipe[r]
         /\ r \notin Admitted
         /\ Admitted' = Admitted \cup {r}
         /\ \A res \in Resource : Used(res, Admitted) + Need[res][r] <= Capacity[res]
<1>0. Admitted \subseteq Held /\ Held \subseteq Run
  BY DEF Admitted, Held, Named
<1>1. \A s \in Held : Recipe[s] # Recipe[r]
  BY DEF AdmissionAcquire, MustWait
<1>2. r \notin Held
  BY <1>1
<1>3. Admitted' = Admitted \cup {r}
  BY DEF AdmissionAcquire, Admitted, Held, Named, TypeOK
<1>4. ASSUME NEW res \in Resource
      PROVE  Used(res, Admitted) + Need[res][r] <= Capacity[res]
  <2>1. /\ Used(res, Held) \in Nat /\ Used(res, Admitted) \in Nat
        /\ Used(res, Admitted) <= Used(res, Held)
    BY <1>0, UsedType, UsedMonotone
  <2>2. Need[res][r] \in Nat /\ Capacity[res] \in Nat /\ Budget[res][r] \in Nat
    BY NeedType, CapacityType, BudgetType
  <2>3. ~(Used(res, Held) + Need[res][r] > EffectiveBudget(res, r))
    BY DEF AdmissionAcquire, MustWait
  <2>4. QED
    BY <2>1, <2>2, <2>3 DEF EffectiveBudget
<1>5. QED
  BY <1>0, <1>1, <1>2, <1>3, <1>4

\* Every step acquires one lease, removes one lease or leaves the admitted ones:
\* what a touch or setVmid writes after a reap is not among them.
LEMMA LeaseSteps ==
  ASSUME TypeOK, [Next]_vars
  PROVE  \/ Admitted' = Admitted
         \/ \E r \in Run : AdmissionAcquire(r)
         \/ \E r \in Run : r \in Admitted /\ Admitted' = Admitted \ {r}
<1> USE DEF TypeOK, Admitted, Held, Named, sweeping
<1>1. ASSUME NEW r \in Run, file' = [file EXCEPT ![r] = "absent"]
      PROVE  Admitted' = Admitted \/ (r \in Admitted /\ Admitted' = Admitted \ {r})
  <2>1. Admitted' = Admitted \ {r}
    BY <1>1
  <2>2. QED
    BY <2>1
<1>2. ASSUME NEW r \in Run, UpdateLeaseVmid(r)
      PROVE  Admitted' = Admitted \/ (r \in Admitted /\ Admitted' = Admitted \ {r})
  <2>1. CASE file[r] = "absent"
    BY <1>2, <2>1 DEF UpdateLeaseVmid
  <2>2. CASE file[r] \in {"held", "named"}
    BY <1>2, <2>2 DEF UpdateLeaseVmid
  <2>3. CASE file[r] \notin {"absent", "held", "named"}
    <3>1. file' = [file EXCEPT ![r] = "revived"]
      BY <1>2, <2>3 DEF UpdateLeaseVmid
    <3>2. Admitted' = Admitted \ {r}
      BY <3>1
    <3>3. QED
      BY <3>2
  <2>4. QED
    BY <2>1, <2>2, <2>3
<1>3. ASSUME NEW r \in Run, Launcher(r)
      PROVE  \/ Admitted' = Admitted
             \/ AdmissionAcquire(r)
             \/ r \in Admitted /\ Admitted' = Admitted \ {r}
  <2>1. CASE Release(r) \/ SignalCleanup(r)
    BY <1>1, <2>1 DEF Release, SignalCleanup, ReapLeaseBody
  <2>2. QED
    BY <1>2, <1>3, <2>1 DEF Launcher, AdmissionBegin, AdmissionReject,
       AdmissionWait, StartPacker, WorkSettles, DestroyVm, LauncherDies, Signal
<1>4. CASE SweepReap
  <2>1. doomed \in Run /\ file' = [file EXCEPT ![doomed] = "absent"]
    BY <1>4 DEF SweepReap, ReapLeaseBody
  <2>2. QED
    BY <1>1, <2>1
<1>5. CASE \E r \in Run : Heartbeat(r) \/ SweepInspect(r) \/ Session(r)
  BY <1>5 DEF Heartbeat, HeartbeatTest, HeartbeatTouch, HeartbeatDropped,
     HeartbeatReply, SweepInspect, Session, CreateVm, PackerEnds
<1>6. CASE Prune \/ Tick \/ UNCHANGED vars
  BY <1>6 DEF Prune, PruneBegin, PruneEnd, Tick, vars
<1>7. QED
  BY <1>3, <1>4, <1>5, <1>6 DEF Next

\* The instance counts as the leases do.
LEMMA SameUse ==
  ASSUME NEW res \in Resource, NEW S
  PROVE  Admission!Used(res, S) = Used(res, S)
<1>1. Admission!Units(res, S) = Units(res, S)
  BY DEF Admission!Units, Units
<1>2. QED
  BY <1>1 DEF Admission!Used, Used, Admission!Cardinality, Cardinality

\* Every step of the leases is a step of node-wide admission, or none.
LEMMA LeaseStepRefines ==
  ASSUME TypeOK, [Next]_vars
  PROVE  [Admission!Next]_Admitted
<1>1. ASSUME NEW r \in Run, AdmissionAcquire(r)
      PROVE  Admission!Admit(r)
  BY <1>1, SameUse, AcquireFits DEF Admission!Admit, Admission!Fits
<1>2. QED
  BY <1>1, LeaseSteps DEF Admission!Next, Admission!Free

\* The leases, but for those a touch after the reap brought back, implement
\* node-wide admission (buildLeaseAdmissionScript with all that interleaves
\* with it, runLeaseHeartbeatCommand in two steps).
THEOREM LeasesImplementAdmission == Spec => AdmissionSpec
<1>1. Init => Admission!Init
  BY DEF Init, Admission!Init, Admitted, Held, Named
<1>2. TypeOK /\ [Next]_vars => [Admission!Next]_Admitted
  BY LeaseStepRefines
<1>3. QED
  BY <1>1, <1>2, Typing, PTL DEF Spec, AdmissionSpec, Admission!Spec

-----------------------------------------------------------------------------
(* What node-wide admission promises, and so the leases.                    *)

\* A run that fits beside the others may join them.
LEMMA AdmitPreserves ==
  ASSUME CapacityRespected, OneLeasePerRecipe, NEW r \in Run, Admission!Admit(r)
  PROVE  CapacityRespected' /\ OneLeasePerRecipe'
<1>1. r \notin Admitted /\ Admitted' = Admitted \cup {r} /\ Admitted \subseteq Run
  BY DEF Admission!Admit, Admitted, Held, Named
<1>2. ASSUME NEW res \in Resource
      PROVE  Used(res, Admitted') <= Capacity[res]
  <2>1. Used(res, Admitted) \in Nat /\ Need[res][r] \in Nat /\ Capacity[res] \in Nat
    BY <1>1, UsedType, NeedType, CapacityType
  <2>2. Used(res, Admitted) + Need[res][r] <= Capacity[res]
    BY SameUse DEF Admission!Admit, Admission!Fits
  <2>3. Need[res][r] <= Capacity[res]
    BY <2>1, <2>2
  <2>4. Used(res, Admitted') = Used(res, Admitted) + Need[res][r]
    BY <1>1, <2>3, UsedAdd
  <2>5. QED
    BY <2>2, <2>4
<1>3. OneLeasePerRecipe'
  BY <1>1 DEF OneLeasePerRecipe, Admission!Admit, Admission!Fits
<1>4. QED
  BY <1>2, <1>3 DEF CapacityRespected

\* A run that leaves gives back room.
LEMMA FreePreserves ==
  ASSUME CapacityRespected, OneLeasePerRecipe, NEW r \in Run, Admission!Free(r)
  PROVE  CapacityRespected' /\ OneLeasePerRecipe'
<1>1. Admitted' \subseteq Admitted /\ Admitted \subseteq Run
  BY DEF Admission!Free, Admitted, Held, Named
<1>2. ASSUME NEW res \in Resource
      PROVE  Used(res, Admitted') <= Capacity[res]
  <2>1. Used(res, Admitted') <= Used(res, Admitted)
    BY <1>1, UsedMonotone
  <2>2. Used(res, Admitted) \in Nat /\ Used(res, Admitted') \in Nat /\ Capacity[res] \in Nat
    BY <1>1, UsedType, CapacityType
  <2>3. QED
    BY <2>1, <2>2 DEF CapacityRespected
<1>3. QED
  BY <1>1, <1>2 DEF CapacityRespected, OneLeasePerRecipe

\* What the leases promise is what node-wide admission promises of held.
LEMMA SamePromise ==
  CapacityRespected /\ OneLeasePerRecipe
    <=> Admission!CapacityRespected /\ Admission!OneRunPerRecipe
  BY SameUse DEF CapacityRespected, OneLeasePerRecipe, Admission!CapacityRespected,
     Admission!OneRunPerRecipe

\* Node-wide admission never overcommits the node and never admits two runs of
\* one recipe, for whatever set of runs takes the place of held.
THEOREM AdmissionSafe ==
  Admission!Spec => [](Admission!CapacityRespected /\ Admission!OneRunPerRecipe)
<1> DEFINE Safe == CapacityRespected /\ OneLeasePerRecipe
<1>1. Admission!Init => Safe
  <2> SUFFICES ASSUME Admission!Init PROVE Safe
    OBVIOUS
  <2>1. Admitted = {}
    BY DEF Admission!Init
  <2>2. \A res \in Resource : Used(res, {}) <= Capacity[res]
    BY UsedEmpty, CapacityType
  <2>3. QED
    BY <2>1, <2>2 DEF CapacityRespected, OneLeasePerRecipe
<1>2. Safe /\ [Admission!Next]_Admitted => Safe'
  <2> SUFFICES ASSUME Safe, [Admission!Next]_Admitted PROVE Safe'
    OBVIOUS
  <2>1. CASE UNCHANGED Admitted
    BY <2>1 DEF CapacityRespected, OneLeasePerRecipe
  <2>2. CASE Admission!Next
    BY <2>2, AdmitPreserves, FreePreserves DEF Admission!Next
  <2>3. QED
    BY <2>1, <2>2
<1>3. Safe <=> Admission!CapacityRespected /\ Admission!OneRunPerRecipe
  BY SamePromise
<1>4. QED
  BY <1>1, <1>2, <1>3, PTL DEF Admission!Spec

\* The leases never overcommit the node and never name one recipe twice, those
\* aside that a touch after the reap brought back.
THEOREM LeasesSafe == Spec => [](CapacityRespected /\ OneLeasePerRecipe)
<1>1. CapacityRespected /\ OneLeasePerRecipe
        <=> Admission!CapacityRespected /\ Admission!OneRunPerRecipe
  BY SamePromise
<1>2. QED
  BY <1>1, LeasesImplementAdmission, AdmissionSafe, PTL DEF AdmissionSpec

=============================================================================
