------------------------------ MODULE NodePrune ------------------------------
(***************************************************************************)
(* Age-based pruning of a node (src/prune/node.ts) beside the builds whose *)
(* files it sees: both hold the maintenance lock in its shared mode.  A    *)
(* build pins a snapshot of the repository (src/build/snapshot.ts), makes  *)
(* sure of its installer media (src/build/prefetch.ts), leases its VMID,   *)
(* copies the snapshot and creates its VM.  Prune lists what is old, one   *)
(* command, and then removes it, one command for each.                     *)
(*                                                                         *)
(* All builds are of one recipe: they share a medium, a VMID and a lease.  *)
(* A file is old once it is older than --days.                             *)
(***************************************************************************)
EXTENDS FiniteSets

CONSTANTS
  Build,     \* pipelines that may run at the same time
  Snapshot,  \* contents of the repository
  None

\* Who stands for nobody, for prune or for a dead run is no build.
ASSUME NamesDiffer ==
  /\ None \notin Build \cup Snapshot \cup {"prune", "dead", "orphan"}
  /\ Build \cap {"prune", "dead", "orphan"} = {}

VARIABLES
  snap,      \* what is at a snapshot's path
  snapOld,   \* snapshots that are old
  work,      \* the target of the work link
  removing,  \* the snapshots an rm -rf is at work on
  iso,       \* the medium: absent, valid, or of an earlier release
  isoOld,
  fetching,  \* who holds the medium's lock: a build or prune
  leased,    \* whose lease names the VMID; "dead": nobody's any more
  vm,        \* the VM at the VMID, a build's or an orphan.  A template counts as
             \* none: prune leaves it and Packer's -force replaces it
  vmOld,
  phase,     \* where a build is
  pin,       \* the snapshot it is to copy
  prune,     \* where prune is
  snapList,  \* the old snapshots it found and has not begun to remove
  awaited,   \* the one whose rm -rf it waits for
  fair,      \* history: builds that pinned a whole snapshot prune had not found
  workFair,  \* history: the same of the work link
  hit,       \* history: builds that found the medium that is there, touched it
             \* and have not created their VM
  late       \* history: builds without a VM that pinned more than --days ago

snaps == <<snap, snapOld, work, removing, workFair>>
media == <<iso, isoOld, fetching>>
vms == <<leased, vm, vmOld>>
builds == <<phase, pin, fair, hit, late>>
pruning == <<prune, snapList, awaited>>
vars == <<snaps, media, vms, builds, pruning>>

Phase == {"idle", "present", "uploaded", "installing", "pinned", "fetching",
          "fetched", "leased", "copied", "building"}
Step == {"off", "media", "isoListed", "isoChecked", "vms", "destroy",
         "snapshots", "remove", "link", "dangling"}

TypeOK ==
  /\ snap \in [Snapshot -> {"absent", "whole", "partial", "file"}]
  /\ snapOld \subseteq Snapshot
  /\ work \in Snapshot \cup {None}
  /\ removing \subseteq Snapshot
  /\ iso \in {"absent", "valid", "outdated"}
  /\ isoOld \in BOOLEAN
  /\ fetching \in Build \cup {None, "prune"}
  /\ leased \in Build \cup {None, "dead"}
  /\ vm \in Build \cup {None, "orphan"}
  /\ vmOld \in BOOLEAN
  /\ phase \in [Build -> Phase]
  /\ pin \in [Build -> Snapshot \cup {None}]
  /\ prune \in Step
  /\ snapList \subseteq Snapshot
  /\ awaited \in Snapshot \cup {None}
  /\ fair \cup hit \cup late \subseteq Build
  /\ workFair \in BOOLEAN
  \* The locks are held by those at work under them, one at a time; a VM is its lessee's.
  /\ \A b \in Build :
       /\ fetching = b <=> phase[b] = "fetching"
       /\ vm = b => phase[b] = "building"
       /\ phase[b] \in {"leased", "copied", "building"} => leased = b
  /\ fetching = "prune" <=> prune = "isoChecked"
  /\ \A b, c \in Build : phase[b] = "installing" /\ phase[c] = "installing" => b = c

Init ==
  /\ snap = [s \in Snapshot |-> "absent"] /\ snapOld = {}
  /\ work = None /\ removing = {} /\ workFair = FALSE
  /\ iso = "absent" /\ isoOld = FALSE /\ fetching = None
  /\ leased = None /\ vm = None /\ vmOld = FALSE
  /\ phase = [b \in Build |-> "idle"]
  /\ pin = [b \in Build |-> None]
  /\ prune = "off" /\ snapList = {} /\ awaited = None
  /\ fair = {} /\ hit = {} /\ late = {}

-----------------------------------------------------------------------------
(* A build.                                                                 *)

Goto(b, place) == phase' = [phase EXCEPT ![b] = place]

Forget(b) ==
  /\ Goto(b, "idle")
  /\ pin' = [pin EXCEPT ![b] = None]
  /\ fair' = fair \ {b} /\ hit' = hit \ {b} /\ late' = late \ {b}

Directory(s) == snap[s] \in {"whole", "partial"}

\* Looks for the snapshot's directory, and uploads an archive if there is none.
SyncCheck(b, s) ==
  /\ phase[b] = "idle"
  /\ pin' = [pin EXCEPT ![b] = s]
  /\ Goto(b, IF Directory(s) THEN "present" ELSE "uploaded")
  /\ UNCHANGED <<snaps, media, vms, fair, hit, late, pruning>>

Installing == \E b \in Build : phase[b] = "installing"

\* The install script, under its lock: a directory is taken for the snapshot.
InstallTree(b) ==
  LET s == pin[b] IN
  /\ phase[b] \in {"present", "uploaded"}
  /\ ~Installing
  /\ \/ Directory(s) /\ UNCHANGED <<snap, snapOld>>
     \/ /\ snap[s] = "absent" /\ phase[b] = "uploaded"
        /\ snap' = [snap EXCEPT ![s] = "whole"]
        /\ snapOld' = snapOld \ {s}
  /\ Goto(b, "installing")
  /\ UNCHANGED <<work, removing, workFair, media, vms, pin, fair, hit, late, pruning>>

\* No archive to extract, or a file where the tree is moved to.
InstallFails(b) ==
  /\ \/ phase[b] = "present" /\ ~Directory(pin[b])
     \/ phase[b] = "uploaded" /\ snap[pin[b]] = "file"
  /\ ~Installing
  /\ Forget(b)
  /\ UNCHANGED <<snaps, media, leased, vm, vmOld, pruning>>

\* Mutant: the time of last use is not refreshed.
InstallLinkUntouched(b) ==
  LET s == pin[b]
      sound == snap[s] = "whole" /\ s \notin snapList
  IN
  /\ phase[b] = "installing"
  /\ work' = s /\ workFair' = sound
  /\ fair' = IF sound THEN fair \cup {b} ELSE fair
  /\ Goto(b, "pinned")
  /\ UNCHANGED <<snap, snapOld, removing, media, vms, pin, hit, late, pruning>>

\* touch makes a file of a snapshot that has just gone.
InstallLink(b) ==
  LET s == pin[b]
      sound == snap[s] = "whole" /\ s \notin snapList
  IN
  /\ phase[b] = "installing"
  /\ snap' = [snap EXCEPT ![s] = IF @ = "absent" THEN "file" ELSE @]
  /\ snapOld' = snapOld \ {s}
  /\ work' = s /\ workFair' = sound
  /\ fair' = IF sound THEN fair \cup {b} ELSE fair
  /\ Goto(b, "pinned")
  /\ UNCHANGED <<removing, media, vms, pin, hit, late, pruning>>

\* The medium matches its checksum, or the checksums cannot be had.
FetchHit(b) ==
  /\ phase[b] = "pinned"
  /\ fetching = None
  /\ iso # "absent"
  /\ isoOld' = FALSE
  /\ hit' = hit \cup {b}
  /\ Goto(b, "fetched")
  /\ UNCHANGED <<snaps, iso, fetching, vms, pin, fair, late, pruning>>

FetchMiss(b) ==
  /\ phase[b] = "pinned"
  /\ fetching = None
  /\ iso # "valid"
  /\ iso' = "absent" /\ isoOld' = FALSE /\ hit' = {}
  /\ fetching' = b
  /\ Goto(b, "fetching")
  /\ UNCHANGED <<snaps, vms, pin, fair, late, pruning>>

\* wget gives the file the date the server gives it, and nothing touches it.
FetchEnds(b) ==
  /\ phase[b] = "fetching"
  /\ iso' = "valid"
  /\ isoOld' \in BOOLEAN
  /\ fetching' = None
  /\ Goto(b, "fetched")
  /\ UNCHANGED <<snaps, vms, pin, fair, hit, late, pruning>>

\* An attempt fails; the next takes the lock again.  Retries are not counted.
FetchAgain(b) ==
  /\ phase[b] = "fetching"
  /\ fetching' = None
  /\ Goto(b, "pinned")
  /\ UNCHANGED <<snaps, iso, isoOld, vms, pin, fair, hit, late, pruning>>

\* The allocation of a network slot evicts a VM nobody leases.
AcquireLease(b) ==
  /\ phase[b] = "fetched"
  /\ leased = None
  /\ leased' = b
  /\ vm' \in {vm, None}
  /\ vmOld' = (vmOld /\ vm' # None)
  /\ Goto(b, "leased")
  /\ UNCHANGED <<snaps, media, pin, fair, hit, late, pruning>>

\* A tree that is being removed may be copied without an error.
Copy(b) ==
  /\ phase[b] = "leased"
  /\ Directory(pin[b])
  /\ pin' = [pin EXCEPT ![b] = None]
  /\ fair' = fair \ {b}
  /\ Goto(b, "copied")
  /\ UNCHANGED <<snaps, media, vms, hit, late, pruning>>

\* Packer refuses where a VM is that is no template.
CreateVm(b) ==
  /\ phase[b] = "copied"
  /\ iso # "absent"
  /\ vm = None
  /\ vm' = b /\ vmOld' = FALSE
  /\ hit' = hit \ {b} /\ late' = late \ {b}
  /\ Goto(b, "building")
  /\ UNCHANGED <<snaps, media, leased, pin, fair, pruning>>

\* The VM is destroyed or made a template, or it stays; unless prune took it.
BuildEnds(b) ==
  /\ phase[b] = "building"
  /\ vm' \in IF vm = b THEN {None, "orphan"} ELSE {vm}
  /\ vmOld' = (vmOld /\ vm' # None)
  /\ leased' = None
  /\ Forget(b)
  /\ UNCHANGED <<snaps, media, pruning>>

Unlock(b) == fetching' = IF fetching = b THEN None ELSE fetching

\* A stage fails and the build cleans up.  The install script runs to its end.
BuildFails(b) ==
  /\ phase[b] \notin {"idle", "installing", "building"}
  /\ Unlock(b)
  /\ leased' = IF leased = b THEN None ELSE leased
  /\ Forget(b)
  /\ UNCHANGED <<snaps, iso, isoOld, vm, vmOld, pruning>>

\* Killed: wget has a terminal and goes with its connection, the lease stays.
Dies(b) ==
  /\ phase[b] \notin {"idle", "installing"}
  /\ Unlock(b)
  /\ leased' = IF leased = b THEN "dead" ELSE leased
  /\ vm' = IF vm = b THEN "orphan" ELSE vm
  /\ Forget(b)
  /\ UNCHANGED <<snaps, iso, isoOld, vmOld, pruning>>

-----------------------------------------------------------------------------
(* The world.                                                               *)

\* The sweep of an admission or of prune; a preserved VM stays.
ReapLease ==
  /\ leased = "dead"
  /\ leased' = None
  /\ vm' \in IF vm = "orphan" THEN {None, "orphan"} ELSE {vm}
  /\ vmOld' = (vmOld /\ vm' # None)
  /\ UNCHANGED <<snaps, media, builds, pruning>>

\* The published checksums change.
NewRelease ==
  /\ iso = "valid"
  /\ iso' = "outdated"
  /\ UNCHANGED <<snaps, isoOld, fetching, vms, builds, pruning>>

Pinned(b) == phase[b] \in {"pinned", "fetching", "fetched", "leased", "copied"}

\* More than --days pass: what is there is old, who has pinned and has no VM is late.
DaysPass ==
  /\ snapOld' = {s \in Snapshot : snap[s] # "absent"}
  /\ isoOld' = (iso # "absent")
  /\ vmOld' = (vm # None)
  /\ late' = {b \in Build : Pinned(b)}
  /\ UNCHANGED <<snap, work, removing, workFair, iso, fetching, leased, vm,
                 phase, pin, fair, hit, pruning>>

-----------------------------------------------------------------------------
(* Prune.                                                                   *)

PruneBegin ==
  /\ prune = "off"
  /\ prune' = "media"
  /\ UNCHANGED <<snaps, media, vms, builds, snapList, awaited>>

Referenced == vm # None

Removable == iso # "absent" /\ isoOld /\ ~Referenced

PruneListMedia ==
  /\ prune = "media"
  /\ prune' = IF Removable THEN "isoListed" ELSE "vms"
  /\ UNCHANGED <<snaps, media, vms, builds, snapList, awaited>>

\* Mutant: what the listing found is not looked at again.
PruneIsoCheckOnce ==
  /\ prune = "isoListed"
  /\ fetching = None
  /\ prune' = "isoChecked" /\ fetching' = "prune"
  /\ UNCHANGED <<snaps, iso, isoOld, vms, builds, snapList, awaited>>

\* Under the medium's lock, looks again.
PruneIsoCheck ==
  /\ prune = "isoListed"
  /\ fetching = None
  /\ IF Removable
     THEN prune' = "isoChecked" /\ fetching' = "prune"
     ELSE prune' = "vms" /\ UNCHANGED fetching
  /\ UNCHANGED <<snaps, iso, isoOld, vms, builds, snapList, awaited>>

PruneIsoRemove ==
  /\ prune = "isoChecked"
  /\ iso' = "absent" /\ isoOld' = FALSE
  /\ fetching' = None
  /\ prune' = "vms"
  /\ UNCHANGED <<snaps, vms, builds, snapList, awaited>>

\* Old VMs that are no templates and that no lease names.
PruneListVms ==
  /\ prune = "vms"
  /\ prune' = IF vm # None /\ vmOld /\ leased = None
              THEN "destroy" ELSE "snapshots"
  /\ UNCHANGED <<snaps, media, vms, builds, snapList, awaited>>

\* By number, without another look: a build may have leased it and made its own VM there.
PruneDestroyVm ==
  /\ prune = "destroy"
  /\ vm' = None /\ vmOld' = FALSE
  /\ prune' = "snapshots"
  /\ UNCHANGED <<snaps, media, leased, builds, snapList, awaited>>

\* Mutant: the work link's target is listed too.
PruneListAllSnapshots ==
  /\ prune = "snapshots"
  /\ snapList' = {s \in snapOld : Directory(s)}
  /\ prune' = "remove"
  /\ UNCHANGED <<snaps, media, vms, builds, awaited>>

PruneListSnapshots ==
  /\ prune = "snapshots"
  /\ snapList' = {s \in snapOld : Directory(s) /\ s # work}
  /\ prune' = "remove"
  /\ UNCHANGED <<snaps, media, vms, builds, awaited>>

\* rm -rf, one after the other; what goes from a directory renews its date.  Prune waits for
\* its own rm, not for one that a prune which died left at work.
PruneRemove(s) ==
  /\ prune = "remove"
  /\ s \in snapList
  /\ awaited = None
  /\ snapList' = snapList \ {s}
  /\ IF snap[s] = "absent"
     THEN UNCHANGED <<snap, snapOld, removing, awaited>>
     ELSE /\ removing' = removing \cup {s}
          /\ awaited' = s
          /\ snap' = [snap EXCEPT ![s] = IF @ = "whole" THEN "partial" ELSE @]
          /\ snapOld' = snapOld \ {s}
  /\ UNCHANGED <<work, workFair, media, vms, builds, prune>>

PruneRemoveEnds(s) ==
  /\ s \in removing
  /\ snap' = [snap EXCEPT ![s] = "absent"]
  /\ snapOld' = snapOld \ {s}
  /\ removing' = removing \ {s}
  /\ awaited' = IF awaited = s THEN None ELSE awaited
  /\ UNCHANGED <<work, workFair, media, vms, builds, prune, snapList>>

PruneEndRemoves ==
  /\ prune = "remove"
  /\ snapList = {} /\ awaited = None
  /\ prune' = "link"
  /\ UNCHANGED <<snaps, media, vms, builds, snapList, awaited>>

PruneTestLink ==
  /\ prune = "link"
  /\ prune' = IF work # None /\ snap[work] = "absent" THEN "dangling" ELSE "off"
  /\ UNCHANGED <<snaps, media, vms, builds, snapList, awaited>>

\* The link may have been switched since.
PruneRemoveLink ==
  /\ prune = "dangling"
  /\ work' = None /\ workFair' = FALSE
  /\ prune' = "off"
  /\ UNCHANGED <<snap, snapOld, removing, media, vms, builds, snapList, awaited>>

\* Killed, or a command failed.  What it runs on the node runs to its end.
PruneDies ==
  /\ prune \notin {"off", "isoChecked"}
  /\ prune' = "off" /\ snapList' = {} /\ awaited' = None
  /\ UNCHANGED <<snaps, media, vms, builds>>

-----------------------------------------------------------------------------
BuildNext(b) ==
  \/ \E s \in Snapshot : SyncCheck(b, s)
  \/ InstallTree(b) \/ InstallFails(b) \/ InstallLink(b)
  \/ FetchHit(b) \/ FetchMiss(b) \/ FetchEnds(b) \/ FetchAgain(b)
  \/ AcquireLease(b) \/ Copy(b) \/ CreateVm(b)
  \/ BuildEnds(b) \/ BuildFails(b) \/ Dies(b)

PruneNext ==
  \/ PruneBegin \/ PruneListMedia \/ PruneIsoCheck \/ PruneIsoRemove
  \/ PruneListVms \/ PruneDestroyVm \/ PruneListSnapshots
  \/ \E s \in Snapshot : PruneRemove(s) \/ PruneRemoveEnds(s)
  \/ PruneEndRemoves
  \/ PruneTestLink \/ PruneRemoveLink \/ PruneDies

Next ==
  \/ \E b \in Build : BuildNext(b)
  \/ ReapLease \/ NewRelease \/ DaysPass
  \/ PruneNext

Spec == Init /\ [][Next]_vars

-----------------------------------------------------------------------------
(* Properties.                                                              *)

\* What a build pinned whole, before prune found it old, is there until the
\* build has copied it, if that is within --days.
EarlyPinStands ==
  \A b \in fair \ late : snap[pin[b]] = "whole"

\* However old, the snapshot the work link names stays whole if it was linked
\* whole and before prune found it.
CurrentStands == work # None /\ workFair => snap[work] = "whole"

\* Prune takes no medium that a build has found and touched and has yet to
\* attach, if the build gets there within --days.
PruneSparesMedia == [][PruneIsoRemove => hit \subseteq late]_vars
=============================================================================
