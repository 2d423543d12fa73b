-------------------------------- MODULE Verify --------------------------------
(***************************************************************************)
(* Verifications of built templates (src/verify.ts) that share a node.     *)
(* Each reads the sidecar of its artifact, takes a lease, reserves a       *)
(* scratch VMID, creates a VM there, judges it and destroys it.  The       *)
(* lease of a launcher that falls silent is reaped by any admission, and   *)
(* a reservation of a certain age is swept by the next verification that   *)
(* reserves; a verification is told of neither.  What it runs on the node  *)
(* outlives its connection, and whoever destroys a VM goes on if that      *)
(* fails.                                                                  *)
(*                                                                         *)
(* Every verification is of a recipe of its own, beside builds of it.      *)
(***************************************************************************)
EXTENDS Naturals, FiniteSets, FiniteSetsExt

CONSTANTS
  Verification,
  Vmids,       \* SCRATCH_VMID_COUNT
  LeaseStale,  \* RUN_LEASE_STALE_SECS, in steps of the clock
  ResStale,    \* VERIFY_RESERVATION_STALE_SECS, in steps of the clock
  MaxVersion,  \* bound: how many artifacts of a recipe there may be
  Rebuilt,     \* bound: the verifications whose recipes are built again
  Stranger,    \* the owner of a VM nobody here made
  None

ASSUME VmidsType == Vmids \in Nat \ {0}
ASSUME StaleType == LeaseStale \in Nat /\ ResStale \in Nat
ASSUME MaxVersionType == MaxVersion \in Nat \ {0}

Vmid == 1 .. Vmids

ASSUME OwnersDiffer ==
  None \notin Verification \cup Vmid /\ Stranger \notin Verification \cup {None}

VARIABLES
  st,        \* where a verification is
  side,      \* the version whose sidecar it read
  images,    \* the version of the images it uploaded or imported
  id,        \* its VMID
  uploads,   \* those whose artifact is the local one
  lease,     \* its lease on the node, which may name the VMID
  silent,    \* how long since the lease was touched
  res,       \* its reservation on the node
  resAge,
  vm,        \* whose VM is at a VMID; one may be taken from the start
  creating,  \* those whose qm create is at work on the node
  artifact,  \* the version of its recipe on the node, 0 for none
  disk,      \* the version in CF_OUT_DIR, where a build's artifact is synced to
  made,      \* versions made so far
  building,  \* those whose recipe is being built
  evicted,   \* history: those that lost a reservation or a lease to a sweep
             \* with the other still there, or their launcher, and those whose
             \* lease names a VMID they have given up
  leaked,    \* history: those whose VM withstood a destroy, was forgotten by a
             \* clean, or came of a qm create that outlived its cleanup
  behind     \* history: those whose artifact was replaced after they read its
             \* sidecar, before their lease or before they uploaded it

local == <<st, side, images, id, uploads>>
leases == <<lease, silent>>
reservations == <<res, resAge>>
vms == <<vm, creating>>
recipes == <<artifact, disk, made, building>>
history == <<evicted, leaked, behind>>
vars == <<local, leases, reservations, vms, recipes, history>>

State == {"new", "asked", "leased", "reserved", "named", "creating", "created",
          "ending", "destroyed", "unreserved", "done", "dead"}
Version == 1 .. MaxVersion

TypeOK ==
  /\ st \in [Verification -> State]
  /\ side \in [Verification -> Version \cup {None}]
  /\ images \in [Verification -> Version \cup {None}]
  /\ id \in [Verification -> Vmid \cup {None}]
  /\ lease \in [Verification -> {"none", "unnamed", "named"}]
  /\ silent \in [Verification -> 0 .. LeaseStale]
  /\ res \in [Verification -> Vmid \cup {None}]
  /\ resAge \in [Verification -> 0 .. ResStale]
  /\ vm \in [Vmid -> Verification \cup {Stranger, None}]
  /\ artifact \in [Verification -> 0 .. MaxVersion]
  /\ disk \in [Verification -> Version]
  /\ made \in [Verification -> Version]
  /\ building \subseteq Verification
  /\ uploads \cup creating \cup evicted \cup leaked \cup behind \subseteq Verification
  /\ \A v \in Verification :
       /\ res[v] # None => res[v] = id[v]
       /\ lease[v] = "named" => id[v] # None
       /\ artifact[v] <= made[v]

Init ==
  /\ st = [v \in Verification |-> "new"]
  /\ side = [v \in Verification |-> None]
  /\ images = [v \in Verification |-> None]
  /\ id = [v \in Verification |-> None]
  /\ lease = [v \in Verification |-> "none"]
  /\ silent = [v \in Verification |-> 0]
  /\ res = [v \in Verification |-> None]
  /\ resAge = [v \in Verification |-> 0]
  /\ vm \in {[i \in Vmid |-> IF i = taken THEN Stranger ELSE None] : taken \in {0, 1}}
  /\ artifact = [v \in Verification |-> 1]
  /\ disk = [v \in Verification |-> 1]
  /\ made = [v \in Verification |-> 1]
  /\ uploads = {} /\ creating = {} /\ building = {}
  /\ evicted = {} /\ leaked = {} /\ behind = {}

Alive(v) == st[v] \notin {"new", "done", "dead"}
Goto(v, state) == st' = [st EXCEPT ![v] = state]

\* Destroys the VMs at the VMIDs of these, whosever they are; some may withstand it, which
\* is ignored.
DestroyVms(owners) ==
  \E standing \in SUBSET {v \in owners : vm[id[v]] # None} :
    /\ vm' = [i \in Vmid |-> IF \E v \in owners \ standing : id[v] = i THEN None ELSE vm[i]]
    /\ leaked' = {v \in leaked \cup standing : \E i \in Vmid : vm'[i] = v}

-----------------------------------------------------------------------------
(* The lease.                                                               *)

StaleLeases == {v \in Verification : lease[v] # "none" /\ silent[v] >= LeaseStale}

\* Mutant: a reap frees what the lease holds but leaves the VM.
SweepSparingVms(admitted) ==
  LET stale == StaleLeases IN
  /\ lease' = [v \in Verification |->
                 IF v \in admitted THEN "unnamed"
                 ELSE IF v \in stale THEN "none" ELSE lease[v]]
  /\ res' = [v \in Verification |-> IF v \in stale THEN None ELSE res[v]]
  /\ evicted' = evicted \cup {v \in stale : Alive(v)}
  /\ UNCHANGED <<vm, leaked>>

\* Reaps stale leases: the VM at the VMID a lease names and the reservation.  An admission
\* writes its own lease after that.
Sweep(admitted) ==
  LET stale == StaleLeases IN
  /\ lease' = [v \in Verification |->
                 IF v \in admitted THEN "unnamed"
                 ELSE IF v \in stale THEN "none" ELSE lease[v]]
  /\ res' = [v \in Verification |-> IF v \in stale THEN None ELSE res[v]]
  /\ DestroyVms({v \in stale : lease[v] = "named"})
  /\ evicted' = evicted \cup {v \in stale : Alive(v)}

\* Any other admission, and prune.
SweepLeases ==
  /\ StaleLeases # {}
  /\ Sweep({})
  /\ UNCHANGED <<local, silent, resAge, creating, recipes, behind>>

\* The sidecar is read before there is a lease, on the node or else in CF_OUT_DIR.
ReadSidecar(v) ==
  /\ st[v] = "new"
  /\ side' = [side EXCEPT ![v] = IF artifact[v] = 0 THEN disk[v] ELSE artifact[v]]
  /\ uploads' = IF artifact[v] = 0 THEN uploads \cup {v} ELSE uploads
  /\ Goto(v, "asked")
  /\ UNCHANGED <<images, id, leases, reservations, vms, recipes, history>>

\* The admission waits for a build of the recipe.
AcquireLease(v) ==
  /\ st[v] = "asked"
  /\ v \notin building
  /\ Sweep({v})
  /\ silent' = [silent EXCEPT ![v] = 0]
  /\ behind' = IF v \in uploads \/ side[v] = artifact[v] THEN behind ELSE behind \cup {v}
  /\ Goto(v, "leased")
  /\ UNCHANGED <<side, images, id, uploads, resAge, creating, recipes>>

-----------------------------------------------------------------------------
(* The scratch VMID and its VM.                                             *)

\* Mutant: a VMID is taken as free as long as it has no VM.
UsedByVms(at, stale) == {i \in Vmid : at[i] # None}

Used(at, stale) ==
  {i \in Vmid : at[i] # None \/ \E w \in Verification \ stale : res[w] = i}

Free(at, stale) == Vmid \ Used(at, stale)

\* Uploads a local artifact's images, then sweeps stale reservations with their VMs and
\* takes the first unused VMID.
Reserve(v) ==
  LET stale == {w \in Verification : res[w] # None /\ resAge[w] >= ResStale}
      swept == [w \in Verification |-> IF w \in stale THEN None ELSE res[w]]
      free  == Free(vm', stale)
  IN
  /\ st[v] = "leased"
  /\ DestroyVms(stale)
  /\ evicted' = evicted \cup {w \in stale : Alive(w) \/ lease[w] # "none"}
  /\ images' = [images EXCEPT ![v] = IF v \in uploads THEN disk[v] ELSE None]
  /\ IF free = {}
     THEN Goto(v, "ending") /\ res' = swept /\ UNCHANGED <<id, resAge>>
     ELSE /\ id' = [id EXCEPT ![v] = Min(free)]
          /\ res' = [swept EXCEPT ![v] = Min(free)]
          /\ resAge' = [resAge EXCEPT ![v] = 0]
          /\ Goto(v, "reserved")
  /\ UNCHANGED <<side, uploads, leases, creating, recipes, behind>>

\* Fails if the lease is gone.
SetVmid(v) ==
  /\ st[v] = "reserved"
  /\ lease[v] # "none"
  /\ lease' = [lease EXCEPT ![v] = "named"]
  /\ Goto(v, "named")
  /\ UNCHANGED <<side, images, id, uploads, silent, reservations, vms, recipes, history>>

\* qm create starts to import the uploaded images or those on the node.
CreateBegin(v) ==
  /\ st[v] = "named"
  /\ v \notin uploads => artifact[v] # 0
  /\ images' = [images EXCEPT ![v] = IF v \in uploads THEN @ ELSE artifact[v]]
  /\ creating' = creating \cup {v}
  /\ Goto(v, "creating")
  /\ UNCHANGED <<side, id, uploads, leases, reservations, vm, recipes, history>>

\* Whether something will still destroy v's VM.
Remembered(v) ==
  /\ st[v] \notin {"destroyed", "unreserved"}
  /\ res[v] = id[v] \/ lease[v] = "named"

\* The VM is there; v may have ended, or be dead.
CreateLands(v) ==
  /\ v \in creating
  /\ vm[id[v]] = None
  /\ vm' = [vm EXCEPT ![id[v]] = v]
  /\ creating' = creating \ {v}
  /\ IF st[v] = "creating" THEN Goto(v, "created") ELSE UNCHANGED st
  /\ leaked' = IF Remembered(v) THEN leaked ELSE leaked \cup {v}
  /\ UNCHANGED <<side, images, id, uploads, leases, reservations, recipes, evicted, behind>>

\* As when there is a VM, or a sweep kills it.
CreateFails(v) ==
  /\ v \in creating
  /\ creating' = creating \ {v}
  /\ IF st[v] = "creating" THEN Goto(v, "ending") ELSE UNCHANGED st
  /\ UNCHANGED <<side, images, id, uploads, leases, reservations, vm, recipes, history>>

\* Booting, checking and rebooting the VM comes to a verdict, or a step or its connection
\* fails.
Ends(v) ==
  /\ st[v] \in {"leased", "reserved", "named", "creating", "created"}
  /\ Goto(v, "ending")
  /\ UNCHANGED <<side, images, id, uploads, leases, reservations, vms, recipes, history>>

Destroy(v) ==
  /\ st[v] = "ending"
  /\ DestroyVms(IF id[v] = None THEN {} ELSE {v})
  /\ Goto(v, "destroyed")
  /\ UNCHANGED <<side, images, id, uploads, leases, reservations, creating, recipes,
                 evicted, behind>>

\* May fail unnoticed, and then a sweep gets it.
Unreserve(v) ==
  /\ st[v] = "destroyed"
  /\ res' \in {res, [res EXCEPT ![v] = None]}
  /\ Goto(v, "unreserved")
  /\ UNCHANGED <<side, images, id, uploads, leases, resAge, vms, recipes, history>>

\* What is over is forgotten.
Over(v, state) ==
  /\ side' = [side EXCEPT ![v] = None]
  /\ images' = [images EXCEPT ![v] = None]
  /\ uploads' = uploads \ {v}
  /\ behind' = behind \ {v}
  /\ Goto(v, state)

\* A lease that names a VMID without a reservation for it.
Unbacked(v) == lease'[v] = "named" /\ res'[v] = None

\* May fail unnoticed too: then the lease stays.
Release(v) ==
  /\ st[v] = "unreserved"
  /\ lease' \in {lease, [lease EXCEPT ![v] = "none"]}
  /\ UNCHANGED <<id, silent, reservations, vms, recipes, leaked>>
  /\ evicted' = IF Unbacked(v) THEN evicted \cup {v} ELSE evicted
  /\ Over(v, "done")

\* The handlers of a signal.  That of the verification, unless it is cleaning up already,
\* destroys and unreserves; that of the lease, until it is released, destroys what is at the
\* VMID it names and removes it.  Either may not reach the node.
Signal(v) ==
  LET own == st[v] \notin {"ending", "destroyed", "unreserved"} IN
  /\ Alive(v)
  /\ \E unreserves, releases \in BOOLEAN :
       /\ unreserves => own
       /\ res' = IF unreserves THEN [res EXCEPT ![v] = None] ELSE res
       /\ lease' = IF releases THEN [lease EXCEPT ![v] = "none"] ELSE lease
       /\ DestroyVms({w \in {v} : \/ unreserves /\ id[v] # None
                                  \/ releases /\ lease[v] = "named"})
  /\ evicted' = IF Unbacked(v) \/ (lease[v] = "named" /\ res[v] = None)
                THEN evicted \cup {v} ELSE evicted
  /\ Over(v, "done")
  /\ UNCHANGED <<id, silent, resAge, creating, recipes>>

Dies(v) ==
  /\ Alive(v)
  /\ Over(v, "dead")
  /\ evicted' = IF lease[v] = "named" /\ res[v] = None THEN evicted \cup {v} ELSE evicted
  /\ UNCHANGED <<id, leases, reservations, vms, recipes, leaked>>

-----------------------------------------------------------------------------
(* The world.                                                               *)

\* cf clean waits for builds and verifications to be over and wipes what they
\* left, artifacts, leases and reservations; the VMs it destroys are builds'.
Clean ==
  /\ building = {}
  /\ \A v \in Verification : ~Alive(v)
  /\ lease' = [v \in Verification |-> "none"]
  /\ res' = [v \in Verification |-> None]
  /\ artifact' = [v \in Verification |-> 0]
  /\ leaked' = leaked \cup {v \in Verification : \E i \in Vmid : vm[i] = v}
  /\ UNCHANGED <<local, silent, resAge, vms, disk, made, building, evicted, behind>>

\* Mutant: builds do not wait for verifications of their recipe.
BuildBeginBeside(v) ==
  /\ v \in Rebuilt \ building
  /\ made[v] < MaxVersion
  /\ building' = building \cup {v}
  /\ artifact' = [artifact EXCEPT ![v] = 0]
  /\ UNCHANGED <<local, leases, reservations, vms, disk, made, history>>

\* A build gets its lease and removes the last artifact.
BuildBegin(v) ==
  /\ v \in Rebuilt \ building
  /\ lease[v] = "none"
  /\ made[v] < MaxVersion
  /\ building' = building \cup {v}
  /\ artifact' = [artifact EXCEPT ![v] = 0]
  /\ UNCHANGED <<local, leases, reservations, vms, disk, made, history>>

BuildEnds(v) ==
  /\ v \in building
  /\ building' = building \ {v}
  /\ \/ /\ made' = [made EXCEPT ![v] = @ + 1]
        /\ artifact' = [artifact EXCEPT ![v] = made[v] + 1]
     \/ UNCHANGED <<made, artifact>>
  /\ UNCHANGED <<local, leases, reservations, vms, disk, history>>

\* What a build made arrives in CF_OUT_DIR some time after its lease is gone.
SyncBack(v) ==
  /\ disk[v] # made[v]
  /\ disk' = [disk EXCEPT ![v] = made[v]]
  /\ behind' = IF v \in uploads /\ st[v] \in {"asked", "leased"}
               THEN behind \cup {v} ELSE behind
  /\ UNCHANGED <<local, leases, reservations, vms, artifact, made, building,
                 evicted, leaked>>

\* Living launchers may touch their leases; nothing touches a reservation.
Tick ==
  /\ \E beats \in SUBSET {v \in Verification : Alive(v)} :
       silent' = [v \in Verification |->
                    IF v \in beats \/ lease[v] = "none" THEN 0
                    ELSE Min({silent[v] + 1, LeaseStale})]
  /\ resAge' = [v \in Verification |->
                  IF res[v] = None THEN 0 ELSE Min({resAge[v] + 1, ResStale})]
  /\ UNCHANGED <<local, lease, res, vms, recipes, history>>

Next ==
  \/ SweepLeases \/ Clean \/ Tick
  \/ \E v \in Verification :
       \/ ReadSidecar(v) \/ AcquireLease(v) \/ Reserve(v) \/ SetVmid(v)
       \/ CreateBegin(v) \/ CreateLands(v) \/ CreateFails(v)
       \/ Ends(v) \/ Destroy(v) \/ Unreserve(v) \/ Release(v)
       \/ Signal(v) \/ Dies(v)
       \/ BuildBegin(v) \/ BuildEnds(v) \/ SyncBack(v)

Spec == Init /\ [][Next]_vars

-----------------------------------------------------------------------------
(* Properties.                                                              *)

\* While a verification judges its VM, the VM is there and its own, as long as
\* nobody with its VMID is among the evicted.
HealthyVmStands ==
  \A v \in Verification :
    st[v] = "created" /\ (\A w \in evicted : id[w] # id[v]) => vm[id[v]] = v

\* A verification's VM can be found through its reservation or its lease, unless its
\* launcher outlived both or gave up the reservation alone, a destroy of it failed, clean
\* forgot it, or its qm create outlived the cleanup.
VmIsFindable ==
  \A i \in Vmid : \A v \in Verification :
    vm[i] = v => \/ res[v] = i
                 \/ lease[v] = "named" /\ id[v] = i
                 \/ v \in evicted \cup leaked

\* The images a verification judges are those its sidecar describes, unless a build replaced
\* the sidecar before the verification had its lease or after it lost it, or a sync replaced
\* a local artifact before it was uploaded.
OneArtifact ==
  \A v \in Verification :
    st[v] = "created" /\ v \notin behind \cup evicted => images[v] = side[v]
=============================================================================
