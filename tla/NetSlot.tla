------------------------------- MODULE NetSlot -------------------------------
(***************************************************************************)
(* Network slots of build VMs (src/build/netslot.ts).  A slot is a file on *)
(* the node, an address and a MAC; the same slot has the same MAC on every *)
(* node of a cluster.  Allocation runs under a lock: it reclaims abandoned *)
(* slots, takes the first free one and evicts VMs that carry its MAC.      *)
(***************************************************************************)
EXTENDS Naturals, FiniteSets, FiniteSetsExt

CONSTANTS
  Node, Run,
  NodeOf,    \* the node a run builds on
  SlotCount, \* BUILD_SLOT_COUNT
  Lapsing,   \* runs whose launcher may die or fall silent
  Foreign,   \* VMs that are not build VMs and may carry a slot's MAC
  SlotOf,    \* that slot
  none

ASSUME SlotCountType == SlotCount \in Nat
ASSUME NodeOfType == NodeOf \in [Run -> Node]
ASSUME LapsingType == Lapsing \subseteq Run
ASSUME ForeignType == SlotOf \in [Foreign -> 0 .. SlotCount - 1]
ASSUME NoneIsNew == none \notin Run \cup 0 .. SlotCount - 1
ASSUME RunsAreNotForeign == Run \cap Foreign = {}

Slot == 0 .. SlotCount - 1

VARIABLES
  snippet,   \* the run whose reservation a node's slot file is
  old,       \* slot files older than STALE_RECLAIM_SECS
  dhcp,      \* slots whose address has an unexpired DHCP lease
  slot,      \* the slot a run was given
  run,       \* what the launcher does
  lease,     \* the run's lease on its node: none, without a VMID, naming its VM
  stale,     \* leases whose last heartbeat is too old
  session,   \* runs with a session on their node that has still to make its VM
  vm,        \* build VMs
  foreign,   \* foreign VMs
  disturbed  \* history: runs at work whose lease was stale meanwhile, or whose
             \* MAC another VM of the cluster had

files == <<snippet, old, dhcp>>
leases == <<lease, stale>>
vms == <<vm, foreign, session>>
vars == <<files, slot, run, leases, vms, disturbed>>

RunState == {"new", "allocated", "building", "vmGone", "slotGone", "ended"}

TypeOK ==
  /\ snippet \in [Node -> [Slot -> Run \cup {none}]]
  /\ old \subseteq Node \X Slot
  /\ dhcp \subseteq Node \X Slot
  /\ slot \in [Run -> Slot \cup {none}]
  /\ run \in [Run -> RunState]
  /\ lease \in [Run -> {"noVmid", "named", "none"}]
  /\ stale \subseteq Run
  /\ session \subseteq Run
  /\ vm \in [Run -> {"none", "running", "stopped"}]
  /\ foreign \subseteq Foreign
  /\ disturbed \subseteq Run

Init ==
  /\ snippet = [n \in Node |-> [s \in Slot |-> none]]
  /\ old = {}
  /\ dhcp = {}
  /\ slot = [r \in Run |-> none]
  /\ run = [r \in Run |-> "new"]
  /\ lease = [r \in Run |-> "noVmid"]
  /\ stale = {}
  /\ session = {}
  /\ vm = [r \in Run |-> "none"]
  /\ foreign \in SUBSET Foreign
  /\ disturbed = {}

-----------------------------------------------------------------------------
(* The allocation script.                                                   *)

\* slot_vms_for_mac: the configurations of the whole cluster.
BuildVms(s) == {r \in Run : vm[r] # "none" /\ slot[r] = s}
ForeignVms(s) == {f \in foreign : SlotOf[f] = s}

\* Succeeds also when no VM has the MAC: the loop's status is then 0.  A peer
\* that does not answer has no running VM.
SlotMacRunning(s, deaf) ==
  \/ BuildVms(s) \cup ForeignVms(s) = {}
  \/ \E r \in BuildVms(s) : vm[r] = "running" /\ NodeOf[r] \notin deaf

\* vmid_leased reads the lease directory of its own node.
Leased(n, r) == NodeOf[r] = n /\ lease[r] = "named" /\ r \notin stale

\* Succeeds without any VM too.
SlotMacLeased(n, s) ==
  \/ BuildVms(s) \cup ForeignVms(s) = {}
  \/ \E r \in BuildVms(s) : Leased(n, r)

\* Mutant: power state is taken for liveness.
ReclaimedWhenStopped(n, deaf) ==
  {s \in Slot : /\ snippet[n][s] # none
                /\ <<n, s>> \notin dhcp /\ <<n, s>> \in old
                /\ ~SlotMacRunning(s, deaf)}

Reclaimed(n, deaf) ==
  {s \in Slot : /\ snippet[n][s] # none
                /\ <<n, s>> \notin dhcp /\ <<n, s>> \in old
                /\ ~SlotMacRunning(s, deaf) /\ ~SlotMacLeased(n, s)}

Free(n, deaf) == Reclaimed(n, deaf) \cup {s \in Slot : snippet[n][s] = none}

\* Foreign VMs are reported, as those are that a lease of this node names; the
\* leases of a peer are not looked at.
Evicted(n, s) == {r \in BuildVms(s) : ~Leased(n, r)}

\* No slot is free: the script fails, and has reclaimed none.
AllocateFails(r) ==
  /\ run[r] = "new"
  /\ \E deaf \in SUBSET (Node \ {NodeOf[r]}) : Free(NodeOf[r], deaf) = {}
  /\ run' = [run EXCEPT ![r] = "slotGone"]
  /\ UNCHANGED <<files, slot, leases, vms>>

\* Each qm destroy of an eviction may fail (|| true): the slot is given all the
\* same.
Allocate(r) ==
  LET n == NodeOf[r] IN
  /\ run[r] = "new"
  /\ \E deaf \in SUBSET (Node \ {n}) :
       LET pick == Min(Free(n, deaf)) IN
       /\ Free(n, deaf) # {}
       /\ snippet' = [snippet EXCEPT ![n] = [s \in Slot |->
                        IF s = pick THEN r
                        ELSE IF s \in Reclaimed(n, deaf) THEN none ELSE snippet[n][s]]]
       /\ old' = old \ ({n} \X (Reclaimed(n, deaf) \cup {pick}))
       /\ dhcp' = dhcp \ {<<n, pick>>}
       /\ \E gone \in SUBSET Evicted(n, pick) :
            vm' = [q \in Run |-> IF q \in gone THEN "none" ELSE vm[q]]
       /\ slot' = [slot EXCEPT ![r] = pick]
  /\ run' = [run EXCEPT ![r] = "allocated"]
  /\ UNCHANGED <<leases, foreign, session>>

\* releaseSlotOwnerScript, when it gets through: the file goes if it is still
\* the run's own.
GiveBack(r) ==
  LET mine == snippet[NodeOf[r]][slot[r]] = r IN
  /\ snippet' = IF mine THEN [snippet EXCEPT ![NodeOf[r]][slot[r]] = none] ELSE snippet
  /\ old' = IF mine THEN old \ {<<NodeOf[r], slot[r]>>} ELSE old
  /\ UNCHANGED dhcp

\* The answer or a step before Packer is lost: the launcher releases by owner.
GiveUp(r) ==
  /\ run[r] = "allocated"
  /\ run' = [run EXCEPT ![r] = "slotGone"]
  /\ GiveBack(r) \/ UNCHANGED files
  /\ UNCHANGED <<slot, leases, vms>>

-----------------------------------------------------------------------------
(* The build (module BuildRun), as far as slots see it.                     *)

SetVmid(r) ==
  /\ run[r] = "allocated" /\ lease[r] = "noVmid"
  /\ lease' = [lease EXCEPT ![r] = "named"]
  /\ stale' = stale \ {r}
  /\ run' = [run EXCEPT ![r] = "building"]
  /\ UNCHANGED <<files, slot, vms>>

\* Each attempt is a session on the node, which goes on without its launcher.
StartPacker(r) ==
  /\ run[r] = "building" /\ vm[r] = "none"
  /\ session' = session \cup {r}
  /\ UNCHANGED <<files, slot, run, leases, vm, foreign>>

\* Packer makes the VM, which may take its address by DHCP or have it fixed.
CreateVm(r) ==
  /\ r \in session
  /\ session' = session \ {r}
  /\ vm' = [vm EXCEPT ![r] = "running"]
  /\ \/ dhcp' = dhcp \cup {<<NodeOf[r], slot[r]>>}
     \/ UNCHANGED dhcp
  /\ UNCHANGED <<snippet, old, slot, run, leases, foreign>>

\* Packer stops the VM and exports it, with or without its launcher.
Export(r) ==
  /\ vm[r] = "running"
  /\ vm' = [vm EXCEPT ![r] = "stopped"]
  /\ UNCHANGED <<files, slot, run, leases, foreign, session>>

\* A failed attempt takes its VM away; the next one makes another.
AttemptFails(r) ==
  /\ run[r] = "building" /\ vm[r] # "none"
  /\ vm' = [vm EXCEPT ![r] = "none"]
  /\ UNCHANGED <<files, slot, run, leases, foreign, session>>

\* The finally, step by step; each step may fail to reach the node.
DestroyVm(r) ==
  /\ run[r] = "building"
  /\ run' = [run EXCEPT ![r] = "vmGone"]
  /\ \/ vm' = [vm EXCEPT ![r] = "none"]
     \/ UNCHANGED vm
  /\ UNCHANGED <<files, slot, leases, foreign, session>>

ReleaseSlot(r) ==
  /\ run[r] = "vmGone"
  /\ run' = [run EXCEPT ![r] = "slotGone"]
  /\ GiveBack(r) \/ UNCHANGED files
  /\ UNCHANGED <<slot, leases, vms>>

ReleaseLease(r) ==
  /\ run[r] = "slotGone"
  /\ run' = [run EXCEPT ![r] = "ended"]
  /\ \/ /\ lease' = [lease EXCEPT ![r] = "none"]
        /\ stale' = stale \ {r}
     \/ UNCHANGED leases
  /\ UNCHANGED <<files, slot, vms>>

\* The launcher is killed where no signal handler runs.
Die(r) ==
  /\ r \in Lapsing
  /\ run[r] \notin {"new", "ended"}
  /\ run' = [run EXCEPT ![r] = "ended"]
  /\ UNCHANGED <<files, slot, leases, vms>>

-----------------------------------------------------------------------------
(* Time, and the admission of other runs (module RunLease).                 *)

\* Half an hour without a heartbeat.
LeaseStale(r) ==
  /\ r \in Lapsing
  /\ lease[r] # "none" /\ run[r] # "new" /\ r \notin stale
  /\ stale' = stale \cup {r}
  /\ UNCHANGED <<files, slot, run, lease, vms>>

\* A heartbeat that comes late after all.  Its touch refreshes a stale lease,
\* and makes an empty file of one that was reaped after its test.
Heartbeat(r) ==
  /\ run[r] \in {"allocated", "building", "vmGone", "slotGone"}
  /\ r \in stale \/ lease[r] = "none"
  /\ stale' = stale \ {r}
  /\ lease' = [lease EXCEPT ![r] = IF @ = "none" THEN "noVmid" ELSE @]
  /\ UNCHANGED <<files, slot, run, vms>>

\* An admission reaps the run.  What it does to the VM and the session may fail
\* or miss; the lease is removed all the same.
Reap(r) ==
  /\ r \in stale
  /\ lease' = [lease EXCEPT ![r] = "none"]
  /\ stale' = stale \ {r}
  /\ \/ lease[r] = "named" /\ vm' = [vm EXCEPT ![r] = "none"]
     \/ UNCHANGED vm
  /\ \/ session' = session \ {r}
     \/ UNCHANGED session
  /\ UNCHANGED <<files, slot, run, foreign>>

SnippetAges(n, s) ==
  /\ snippet[n][s] # none
  /\ old' = old \cup {<<n, s>>}
  /\ UNCHANGED <<snippet, dhcp, slot, run, leases, vms>>

\* The guest shuts down, or the 12 hours are over.
DhcpExpires(n, s) ==
  /\ <<n, s>> \in dhcp
  /\ dhcp' = dhcp \ {<<n, s>>}
  /\ UNCHANGED <<snippet, old, slot, run, leases, vms>>

-----------------------------------------------------------------------------

\* The run has its slot and may yet make a VM of its MAC.
AtWork(r) == run[r] \in {"allocated", "building"}

\* The lease is out of date, or some other VM has the MAC.
Disturbance(r) ==
  \/ r \in stale
  \/ BuildVms(slot[r]) \ {r} # {}
  \/ ForeignVms(slot[r]) # {}

Note == disturbed' = {r \in Run : AtWork(r)' /\ (r \in disturbed \/ Disturbance(r)')}

Step ==
  \/ \E r \in Run :
       \/ Allocate(r) \/ AllocateFails(r) \/ GiveUp(r)
       \/ SetVmid(r) \/ StartPacker(r) \/ CreateVm(r) \/ Export(r) \/ AttemptFails(r)
       \/ DestroyVm(r) \/ ReleaseSlot(r) \/ ReleaseLease(r)
       \/ Die(r) \/ LeaseStale(r) \/ Heartbeat(r) \/ Reap(r)
  \/ \E n \in Node, s \in Slot : SnippetAges(n, s) \/ DhcpExpires(n, s)

Next == Step /\ Note

Spec == Init /\ [][Next]_vars

-----------------------------------------------------------------------------

\* A run at work keeps its slot file until it gives it back, through its boot,
\* its stopped export, its retries, the ends of other holders and whatever the
\* allocations of its own node and its peers take for abandoned, unless its
\* lease was stale meanwhile, or another VM of the cluster had its MAC: a
\* template, a VM of a peer's run, one that an eviction or a reap failed to
\* destroy, or one of a session that outlived its launcher.
SlotIsHeld ==
  \A r \in Run \ disturbed : AtWork(r) => snippet[NodeOf[r]][slot[r]] = r

=============================================================================
