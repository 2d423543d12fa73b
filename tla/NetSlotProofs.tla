---------------------------- MODULE NetSlotProofs ----------------------------
(***************************************************************************)
(* For any number of nodes, runs, slots and foreign VMs: a run at work     *)
(* that nothing disturbs keeps its slot file.                              *)
(***************************************************************************)
EXTENDS NetSlot, WellFoundedInduction, TLAPS

-----------------------------------------------------------------------------
(* The invariant.                                                           *)

\* Where a run is says what it can have.
RunsTrue ==
  \A r \in Run :
    /\ run[r] \in {"allocated", "building", "vmGone"} => slot[r] \in Slot
    /\ run[r] \in {"new", "allocated"} => vm[r] = "none" /\ r \notin session
    /\ r \in session => slot[r] \in Slot

\* An undisturbed run at work has its slot file, nobody else has a VM with its
\* MAC, and its own VM is named by a fresh lease.
SlotIsSafe ==
  \A r \in Run \ disturbed : AtWork(r) =>
    /\ snippet[NodeOf[r]][slot[r]] = r
    /\ ~Disturbance(r)
    /\ run[r] = "building" => lease[r] = "named"

SlotInv == TypeOK /\ RunsTrue /\ SlotIsSafe

-----------------------------------------------------------------------------
(* The allocation script.                                                   *)

\* A non-empty set of slots has a least one.
LEMMA MinIsASlot ==
  ASSUME NEW S \in SUBSET Slot, S # {}
  PROVE  Min(S) \in S
<1> DEFINE Less == OpToRel(<, Nat)
<1>1. \A x, y \in Nat : x < y => <<x, y>> \in Less
  BY DEF OpToRel
<1>2. IsWellFoundedOn(Less, Nat)
  BY NatLessThanWellFounded
<1>3. S \in SUBSET Nat
  BY SlotCountType DEF Slot
<1> HIDE DEF Less
<1>4. PICK x \in S : \A y \in S : ~ (<<y, x>> \in Less)
  BY <1>2, <1>3, WFMin
<1>5. ASSUME NEW y \in S PROVE x <= y
  <2>1. x \in Nat /\ y \in Nat
    BY <1>3
  <2>2. ~ (y < x)
    BY <1>1, <1>4, <2>1, Zenon
  <2>3. QED
    BY <2>1, <2>2
<1>6. QED
  BY <1>5 DEF Min

\* The slot of an undisturbed run at work is not free, whatever its VM's power
\* state and whichever peers answer.
LEMMA WorkersKeepSlots ==
  ASSUME SlotInv, NEW r \in Run \ disturbed, AtWork(r), NEW deaf
  PROVE  slot[r] \in Slot /\ slot[r] \notin Free(NodeOf[r], deaf)
<1> DEFINE n == NodeOf[r]
<1> DEFINE s == slot[r]
<1>1. s \in Slot /\ snippet[n][s] = r /\ r # none
  BY NoneIsNew DEF SlotInv, RunsTrue, SlotIsSafe, AtWork
<1>2. CASE vm[r] = "none"
  <2>1. BuildVms(s) \cup ForeignVms(s) = {}
    BY <1>2 DEF SlotInv, SlotIsSafe, BuildVms, Disturbance
  <2>2. QED
    BY <1>1, <2>1 DEF Free, Reclaimed, SlotMacRunning
<1>3. CASE vm[r] # "none"
  <2>1. r \in BuildVms(s) /\ Leased(n, r)
    BY <1>3 DEF SlotInv, RunsTrue, SlotIsSafe, AtWork, BuildVms, Leased, Disturbance
  <2>2. QED
    BY <1>1, <2>1 DEF Free, Reclaimed, SlotMacLeased
<1>4. QED
  BY <1>2, <1>3

\* What Note writes down makes the new state's disturbances exceptions.
LEMMA NoteIsTrue ==
  ASSUME Note, NEW r \in Run \ disturbed', AtWork(r)'
  PROVE  ~Disturbance(r)' /\ r \notin disturbed
BY DEF Note

\* Note keeps its type.
LEMMA NoteTypes ==
  ASSUME Note PROVE disturbed' \subseteq Run
BY DEF Note

\* An allocation takes the slot of no undisturbed run at work.
LEMMA AllocateKeeps ==
  ASSUME SlotInv, NEW r \in Run, Allocate(r), Note
  PROVE  SlotInv'
<1> DEFINE n == NodeOf[r]
<1>1. PICK deaf \in SUBSET (Node \ {n}) :
        /\ Free(n, deaf) # {}
        /\ snippet' = [snippet EXCEPT ![n] = [s \in Slot |->
                         IF s = Min(Free(n, deaf)) THEN r
                         ELSE IF s \in Reclaimed(n, deaf) THEN none ELSE snippet[n][s]]]
        /\ old' = old \ ({n} \X (Reclaimed(n, deaf) \cup {Min(Free(n, deaf))}))
        /\ dhcp' = dhcp \ {<<n, Min(Free(n, deaf))>>}
        /\ \E gone \in SUBSET Evicted(n, Min(Free(n, deaf))) :
             vm' = [q \in Run |-> IF q \in gone THEN "none" ELSE vm[q]]
        /\ slot' = [slot EXCEPT ![r] = Min(Free(n, deaf))]
  BY DEF Allocate
<1>2. PICK pick \in Slot : pick = Min(Free(n, deaf)) /\ pick \in Free(n, deaf) /\ n \in Node
  BY <1>1, MinIsASlot, NodeOfType DEF Free, Reclaimed
<1>3. /\ run[r] = "new"
      /\ run' = [run EXCEPT ![r] = "allocated"] /\ slot' = [slot EXCEPT ![r] = pick]
      /\ lease' = lease /\ stale' = stale /\ foreign' = foreign /\ session' = session
  BY <1>1, <1>2 DEF Allocate, leases
<1>4. snippet' = [snippet EXCEPT ![n] = [s \in Slot |->
                    IF s = pick THEN r
                    ELSE IF s \in Reclaimed(n, deaf) THEN none ELSE snippet[n][s]]]
  BY <1>1, <1>2
<1>5. /\ vm' \in [Run -> {"none", "running", "stopped"}]
      /\ \A q \in Run : vm'[q] # "none" => vm[q] # "none"
  BY <1>1 DEF SlotInv, TypeOK
<1>6. TypeOK'
  <2>1. snippet' \in [Node -> [Slot -> Run \cup {none}]]
    BY <1>2, <1>4 DEF SlotInv, TypeOK
  <2>2. old' \subseteq Node \X Slot /\ dhcp' \subseteq Node \X Slot
    BY <1>1 DEF SlotInv, TypeOK
  <2>3. QED
    BY <1>2, <1>3, <1>5, <2>1, <2>2, NoteTypes DEF SlotInv, TypeOK, RunState
<1>7. RunsTrue'
  BY <1>2, <1>3, <1>5 DEF SlotInv, TypeOK, RunsTrue
<1>8. ASSUME NEW q \in Run \ disturbed', AtWork(q)'
      PROVE  /\ snippet'[NodeOf[q]][slot'[q]] = q
             /\ run'[q] = "building" => lease'[q] = "named"
  <2>1. CASE q = r
    BY <1>2, <1>3, <1>4, <2>1 DEF SlotInv, TypeOK
  <2>2. CASE q # r
    <3>1. q \in Run \ disturbed /\ AtWork(q) /\ slot'[q] = slot[q] /\ run'[q] = run[q]
      BY <1>3, <1>8, <2>2, NoteIsTrue DEF SlotInv, TypeOK, AtWork
    <3>2. snippet[NodeOf[q]][slot[q]] = q /\ (run[q] = "building" => lease[q] = "named")
      BY <3>1 DEF SlotInv, SlotIsSafe
    <3>3. slot[q] \in Slot /\ slot[q] \notin Free(NodeOf[q], deaf)
      BY <3>1, WorkersKeepSlots
    <3>4. CASE NodeOf[q] = n
      BY <1>2, <1>4, <3>1, <3>2, <3>3, <3>4, <1>3 DEF SlotInv, TypeOK, Free
    <3>5. CASE NodeOf[q] # n
      BY <1>2, <1>3, <1>4, <3>1, <3>2, <3>5, NodeOfType DEF SlotInv, TypeOK
    <3>6. QED
      BY <3>4, <3>5
  <2>3. QED
    BY <2>1, <2>2
<1>9. SlotIsSafe'
  BY <1>8, NoteIsTrue DEF SlotIsSafe
<1>10. QED
  BY <1>6, <1>7, <1>9 DEF SlotInv

-----------------------------------------------------------------------------
(* The other steps.                                                         *)

\* A step of one run, of its lease or of its VM leaves the slot files alone.
LEMMA WorkKeeps ==
  ASSUME SlotInv, Note, NEW r \in Run,
         \/ SetVmid(r) \/ StartPacker(r) \/ CreateVm(r) \/ Export(r) \/ AttemptFails(r)
         \/ DestroyVm(r) \/ ReleaseLease(r) \/ Die(r) \/ LeaseStale(r) \/ Heartbeat(r)
         \/ Reap(r) \/ AllocateFails(r)
  PROVE  SlotInv'
<1> USE DEF SlotInv, files, vms, leases
<1>1. TypeOK'
  <2>1. CASE CreateVm(r)
    <3>1. slot[r] \in Slot /\ NodeOf[r] \in Node
      BY <2>1, NodeOfType DEF RunsTrue, CreateVm
    <3>2. QED
      BY <2>1, <3>1, NoteTypes DEF TypeOK, CreateVm
  <2>2. CASE ~CreateVm(r)
    <3>1. /\ files' = files /\ slot' = slot /\ foreign' = foreign
          /\ run' \in [Run -> RunState]
      BY <2>2 DEF TypeOK, RunState, SetVmid, StartPacker, Export, AttemptFails, DestroyVm,
         ReleaseLease, Die, LeaseStale, Heartbeat, Reap, AllocateFails
    <3>2. lease' \in [Run -> {"noVmid", "named", "none"}] /\ stale' \subseteq Run
      BY <2>2 DEF TypeOK, SetVmid, StartPacker, Export, AttemptFails, DestroyVm,
         ReleaseLease, Die, LeaseStale, Heartbeat, Reap, AllocateFails
    <3>3. vm' \in [Run -> {"none", "running", "stopped"}] /\ session' \subseteq Run
      BY <2>2 DEF TypeOK, SetVmid, StartPacker, Export, AttemptFails, DestroyVm,
         ReleaseLease, Die, LeaseStale, Heartbeat, Reap, AllocateFails
    <3>4. QED
      BY <3>1, <3>2, <3>3, NoteTypes DEF TypeOK
  <2>3. QED
    BY <2>1, <2>2
<1>2. RunsTrue'
  BY DEF TypeOK, RunsTrue, SetVmid, StartPacker, CreateVm, Export, AttemptFails, DestroyVm,
     ReleaseLease, Die, LeaseStale, Heartbeat, Reap, AllocateFails
<1>3. /\ snippet' = snippet /\ slot' = slot
      /\ \A q \in Run : AtWork(q)' => AtWork(q)
  BY DEF TypeOK, AtWork, SetVmid, StartPacker, CreateVm, Export, AttemptFails, DestroyVm,
     ReleaseLease, Die, LeaseStale, Heartbeat, Reap, AllocateFails
<1>4. ASSUME NEW q \in Run, AtWork(q)', q \notin stale, run[q] = "building" => lease[q] = "named"
      PROVE  run'[q] = "building" => lease'[q] = "named"
  BY <1>4 DEF TypeOK, AtWork, SetVmid, StartPacker, CreateVm, Export, AttemptFails, DestroyVm,
     ReleaseLease, Die, LeaseStale, Heartbeat, Reap, AllocateFails
<1>5. ASSUME NEW q \in Run \ disturbed', AtWork(q)'
      PROVE  /\ snippet'[NodeOf[q]][slot'[q]] = q
             /\ run'[q] = "building" => lease'[q] = "named"
  <2>1. q \in Run \ disturbed /\ AtWork(q)
    BY <1>3, <1>5, NoteIsTrue
  <2>2. /\ snippet[NodeOf[q]][slot[q]] = q
        /\ q \notin stale
        /\ run[q] = "building" => lease[q] = "named"
    BY <2>1 DEF SlotIsSafe, Disturbance
  <2>3. QED
    BY <1>3, <1>4, <1>5, <2>2
<1>6. SlotIsSafe'
  BY <1>5, NoteIsTrue DEF SlotIsSafe
<1>7. QED
  BY <1>1, <1>2, <1>6

\* A slot file is given back by its owner only.
LEMMA GivingBackKeeps ==
  ASSUME SlotInv, Note, NEW r \in Run, GiveUp(r) \/ ReleaseSlot(r)
  PROVE  SlotInv'
<1> USE DEF SlotInv
<1> DEFINE n == NodeOf[r]
<1> DEFINE s == slot[r]
<1>1. s \in Slot /\ n \in Node
  BY NodeOfType DEF RunsTrue, GiveUp, ReleaseSlot
<1>2. /\ slot' = slot /\ lease' = lease /\ stale' = stale
      /\ vm' = vm /\ foreign' = foreign /\ session' = session
      /\ run' = [run EXCEPT ![r] = "slotGone"]
      /\ dhcp' = dhcp /\ old' \subseteq old
      /\ \/ snippet' = snippet
         \/ snippet[n][s] = r /\ snippet' = [snippet EXCEPT ![n][s] = none]
  BY DEF GiveUp, ReleaseSlot, GiveBack, files, leases, vms
<1> HIDE DEF n, s
<1>3. TypeOK'
  BY <1>1, <1>2, NoteTypes DEF TypeOK, RunState
<1>4. RunsTrue'
  BY <1>2 DEF TypeOK, RunsTrue
<1>5. ASSUME NEW q \in Run \ disturbed', AtWork(q)'
      PROVE  /\ snippet'[NodeOf[q]][slot'[q]] = q
             /\ run'[q] = "building" => lease'[q] = "named"
  <2>1. q # r /\ q \in Run \ disturbed /\ AtWork(q) /\ run'[q] = run[q]
    BY <1>2, <1>5, NoteIsTrue DEF TypeOK, AtWork
  <2>2. /\ snippet[NodeOf[q]][slot[q]] = q
        /\ run[q] = "building" => lease[q] = "named"
    BY <2>1 DEF SlotIsSafe
  <2>3. slot[q] \in Slot /\ NodeOf[q] \in Node
    BY <2>1, NodeOfType DEF RunsTrue, AtWork
  <2>4. snippet'[NodeOf[q]][slot[q]] = q
    BY <1>1, <1>2, <2>1, <2>2, <2>3 DEF TypeOK
  <2>5. QED
    BY <1>2, <2>1, <2>2, <2>4
<1>6. SlotIsSafe'
  BY <1>5, NoteIsTrue DEF SlotIsSafe
<1>7. QED
  BY <1>3, <1>4, <1>6

\* The invariant of the slots.
LEMMA SlotsAreSound == Spec => []SlotInv
<1>1. Init => SlotInv
  BY DEF Init, SlotInv, TypeOK, RunState, RunsTrue, SlotIsSafe, AtWork
<1>2. SlotInv /\ [Next]_vars => SlotInv'
  <2> SUFFICES ASSUME SlotInv, [Next]_vars PROVE SlotInv'
    OBVIOUS
  <2>1. CASE UNCHANGED vars
    BY <2>1 DEF vars, files, vms, leases, SlotInv, TypeOK, RunsTrue, SlotIsSafe, AtWork,
       Disturbance, BuildVms, ForeignVms
  <2>2. ASSUME NEW n \in Node, NEW s \in Slot, SnippetAges(n, s) \/ DhcpExpires(n, s), Note
        PROVE  SlotInv'
    <3>1. /\ snippet' = snippet /\ slot' = slot /\ run' = run /\ lease' = lease
          /\ TypeOK' /\ RunsTrue'
      BY <2>2, NoteTypes DEF SnippetAges, DhcpExpires, vms, leases, SlotInv, TypeOK, RunsTrue
    <3>2. SlotIsSafe'
      BY <2>2, <3>1, NoteIsTrue DEF SlotInv, SlotIsSafe, AtWork
    <3>3. QED
      BY <3>1, <3>2 DEF SlotInv
  <2>3. ASSUME NEW r \in Run, GiveUp(r) \/ ReleaseSlot(r) \/ Allocate(r), Note PROVE SlotInv'
    BY <2>3, AllocateKeeps, GivingBackKeeps
  <2>4. QED
    BY <2>1, <2>2, <2>3, WorkKeeps DEF Next, Step
<1>3. QED
  BY <1>1, <1>2, PTL DEF Spec

-----------------------------------------------------------------------------
(* Theorem.                                                                 *)

\* An undisturbed run at work keeps its slot file through its boot, its stopped
\* export, its retries, the ends of other holders, and whatever its own node
\* and its peers take for abandoned (buildSlotAllocationScript).
THEOREM SlotsAreHeld == Spec => []SlotIsHeld
<1>1. SlotInv => SlotIsHeld
  BY DEF SlotInv, SlotIsSafe, SlotIsHeld
<1>2. QED
  BY <1>1, SlotsAreSound, PTL

=============================================================================
