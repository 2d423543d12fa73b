--------------------------- MODULE NodePruneProofs ---------------------------
(***************************************************************************)
(* For any number of builds and of revisions of the repository: what a     *)
(* build pinned, linked or found in time, a prune beside it does not take  *)
(* from it.  For any set of commands: the maintenance lock they share is   *)
(* held by who succeeds, and a clean has it alone.                         *)
(***************************************************************************)
EXTENDS NodePrune, MaintenanceLock, TLAPS

-----------------------------------------------------------------------------
(* The invariant.                                                           *)

\* A build has a snapshot from the check until it has copied it.
PinsTrue ==
  \A b \in Build :
    phase[b] \notin {"idle", "copied", "building"} => pin[b] \in Snapshot

\* What an rm -rf is at work on is no whole tree, and none comes in its place.
RemovalTrue ==
  \A s \in removing : snap[s] \in {"partial", "file"}

\* What a build pinned in time is whole, is not old and is not to be removed.
PinsFresh ==
  \A b \in fair :
    /\ phase[b] \in {"pinned", "fetching", "fetched", "leased"}
    /\ b \notin late =>
         /\ snap[pin[b]] = "whole"
         /\ pin[b] \notin snapOld \cup snapList

\* What the work link names is whole and is not to be removed.
LinkFresh ==
  work # None /\ workFair => snap[work] = "whole" /\ work \notin snapList

\* A build that found the medium touched it under its lock: only who was late
\* finds it old again or prune about to remove it.
HitsTrue ==
  /\ \A b \in hit : phase[b] \in {"fetched", "leased", "copied"}
  /\ fetching \in Build => hit = {}
  /\ isoOld \/ prune = "isoChecked" => hit \subseteq late

PruneInv ==
  /\ TypeOK
  /\ PinsTrue
  /\ RemovalTrue
  /\ PinsFresh
  /\ LinkFresh
  /\ HitsTrue

-----------------------------------------------------------------------------
(* One lemma for each part of the program.                                  *)

LEMMA PruneStarts == Init => PruneInv
  BY NamesDiffer
  DEF Init, PruneInv, TypeOK, Phase, Step, PinsTrue, RemovalTrue, PinsFresh, LinkFresh, HitsTrue

\* Installing a tree takes no other pin; a new pin is fresh only if it is sound.
LEMMA InstallsKeep ==
  ASSUME PruneInv, NEW b \in Build,
         \/ \E s \in Snapshot : SyncCheck(b, s)
         \/ InstallTree(b) \/ InstallFails(b) \/ InstallLink(b)
  PROVE  PruneInv'
<1> USE NamesDiffer DEF PruneInv, snaps, media, vms, builds, pruning, Goto, Forget
<1>1. TypeOK'
  <2>1. CASE \E s \in Snapshot : SyncCheck(b, s)
    BY <2>1 DEF TypeOK, PinsTrue, Phase, Step, SyncCheck, Directory, Installing
  <2>2. CASE InstallTree(b)
    BY <2>2 DEF TypeOK, PinsTrue, Phase, Step, InstallTree, Directory, Installing
  <2>3. CASE InstallFails(b)
    BY <2>3 DEF TypeOK, PinsTrue, Phase, Step, InstallFails, Directory, Installing
  <2>4. CASE InstallLink(b)
    BY <2>4 DEF TypeOK, PinsTrue, Phase, Step, InstallLink, Directory, Installing
  <2>5. QED
    BY <2>1, <2>2, <2>3, <2>4
<1>2. PinsTrue' /\ RemovalTrue'
  BY DEF TypeOK, PinsTrue, RemovalTrue, SyncCheck, InstallTree, InstallFails, InstallLink,
     Directory, Installing
<1>3. PinsFresh' /\ LinkFresh'
  <2>1. CASE \E s \in Snapshot : SyncCheck(b, s)
    BY <2>1 DEF TypeOK, PinsTrue, RemovalTrue, PinsFresh, LinkFresh, SyncCheck, Directory,
       Installing
  <2>2. CASE InstallTree(b)
    BY <2>2 DEF TypeOK, PinsTrue, RemovalTrue, PinsFresh, LinkFresh, InstallTree, Directory,
       Installing
  <2>3. CASE InstallFails(b)
    BY <2>3 DEF TypeOK, PinsTrue, RemovalTrue, PinsFresh, LinkFresh, InstallFails, Directory,
       Installing
  <2>4. CASE InstallLink(b)
    <3>1. pin[b] \in Snapshot /\ pin' = pin /\ snapList' = snapList /\ late' = late
      BY <2>4 DEF TypeOK, PinsTrue, InstallLink
    <3>2. \A s \in Snapshot : snap[s] = "whole" => snap'[s] = "whole"
      BY <2>4, <3>1 DEF TypeOK, InstallLink
    <3>3. PinsFresh'
      BY <2>4, <3>1, <3>2 DEF TypeOK, PinsTrue, PinsFresh, InstallLink
    <3>4. LinkFresh'
      BY <2>4, <3>1, <3>2 DEF LinkFresh, InstallLink
    <3>5. QED
      BY <3>3, <3>4
  <2>5. QED
    BY <2>1, <2>2, <2>3, <2>4
<1>4. HitsTrue'
  BY DEF TypeOK, HitsTrue, SyncCheck, InstallTree, InstallFails, InstallLink, Directory,
     Installing
<1>5. QED
  BY <1>1, <1>2, <1>3, <1>4

\* Who finds the medium touches it, and who downloads it leaves no earlier hit.
LEMMA FetchesKeep ==
  ASSUME PruneInv, NEW b \in Build, FetchHit(b) \/ FetchMiss(b) \/ FetchEnds(b) \/ FetchAgain(b)
  PROVE  PruneInv'
<1> USE NamesDiffer DEF PruneInv, snaps, media, vms, builds, pruning, Goto, Forget
<1>1. TypeOK'
  <2>1. CASE FetchHit(b)
    <3>1. phase' \in [Build -> Phase] /\ fair' \cup hit' \cup late' \subseteq Build
      BY <2>1 DEF TypeOK, Phase, FetchHit
    <3>2. ASSUME NEW c \in Build
          PROVE  /\ fetching' = c <=> phase'[c] = "fetching"
                 /\ vm' = c => phase'[c] = "building"
                 /\ phase'[c] \in {"leased", "copied", "building"} => leased' = c
      BY <2>1 DEF TypeOK, FetchHit
    <3>3. QED
      BY <2>1, <3>1, <3>2 DEF TypeOK, FetchHit
  <2>2. CASE FetchMiss(b)
    <3>1. phase' \in [Build -> Phase] /\ fair' \cup hit' \cup late' \subseteq Build
      BY <2>2 DEF TypeOK, Phase, FetchMiss
    <3>2. ASSUME NEW c \in Build
          PROVE  /\ fetching' = c <=> phase'[c] = "fetching"
                 /\ vm' = c => phase'[c] = "building"
                 /\ phase'[c] \in {"leased", "copied", "building"} => leased' = c
      BY <2>2 DEF TypeOK, FetchMiss
    <3>3. QED
      BY <2>2, <3>1, <3>2 DEF TypeOK, FetchMiss
  <2>3. CASE FetchEnds(b)
    BY <2>3 DEF TypeOK, PinsTrue, Phase, Step, FetchEnds
  <2>4. CASE FetchAgain(b)
    BY <2>4 DEF TypeOK, PinsTrue, Phase, Step, FetchAgain
  <2>5. QED
    BY <2>1, <2>2, <2>3, <2>4
<1>2. PinsTrue' /\ RemovalTrue'
  BY DEF TypeOK, PinsTrue, RemovalTrue, FetchHit, FetchMiss, FetchEnds, FetchAgain
<1>3. PinsFresh' /\ LinkFresh'
  BY DEF TypeOK, PinsTrue, RemovalTrue, PinsFresh, LinkFresh, FetchHit, FetchMiss, FetchEnds,
     FetchAgain
<1>4. HitsTrue'
  BY DEF TypeOK, HitsTrue, FetchHit, FetchMiss, FetchEnds, FetchAgain
<1>5. QED
  BY <1>1, <1>2, <1>3, <1>4

\* The VMID is one lessee's from the lease to the end of the build.
LEMMA LeasedWorkKeeps ==
  ASSUME PruneInv, NEW b \in Build, AcquireLease(b) \/ Copy(b) \/ CreateVm(b) \/ BuildEnds(b)
  PROVE  PruneInv'
<1> USE NamesDiffer DEF PruneInv, snaps, media, vms, builds, pruning, Goto, Forget
<1>1. TypeOK'
  <2>1. CASE AcquireLease(b)
    BY <2>1 DEF TypeOK, PinsTrue, Phase, Step, AcquireLease
  <2>2. CASE Copy(b)
    BY <2>2 DEF TypeOK, PinsTrue, Phase, Step, Copy
  <2>3. CASE CreateVm(b)
    <3>1. phase' \in [Build -> Phase] /\ fair' \cup hit' \cup late' \subseteq Build
      BY <2>3 DEF TypeOK, Phase, CreateVm
    <3>2. ASSUME NEW c \in Build
          PROVE  /\ fetching' = c <=> phase'[c] = "fetching"
                 /\ vm' = c => phase'[c] = "building"
                 /\ phase'[c] \in {"leased", "copied", "building"} => leased' = c
      BY <2>3 DEF TypeOK, CreateVm
    <3>3. QED
      BY <2>3, <3>1, <3>2 DEF TypeOK, CreateVm
  <2>4. CASE BuildEnds(b)
    BY <2>4 DEF TypeOK, PinsTrue, Phase, Step, BuildEnds
  <2>5. QED
    BY <2>1, <2>2, <2>3, <2>4
<1>2. PinsTrue' /\ RemovalTrue'
  BY DEF TypeOK, PinsTrue, RemovalTrue, AcquireLease, Copy, CreateVm, BuildEnds
<1>3. PinsFresh' /\ LinkFresh'
  BY DEF TypeOK, PinsTrue, RemovalTrue, PinsFresh, LinkFresh, AcquireLease, Copy, CreateVm,
     BuildEnds
<1>4. HitsTrue'
  BY DEF TypeOK, HitsTrue, AcquireLease, Copy, CreateVm, BuildEnds
<1>5. QED
  BY <1>1, <1>2, <1>3, <1>4

\* However a build fails, what was its own is forgotten.
LEMMA FailuresKeep ==
  ASSUME PruneInv, NEW b \in Build, BuildFails(b) \/ Dies(b)
  PROVE  PruneInv'
<1> USE NamesDiffer DEF PruneInv, snaps, media, vms, builds, pruning, Goto, Forget
<1>1. TypeOK'
  BY DEF TypeOK, PinsTrue, Phase, Step, BuildFails, Dies, Unlock
<1>2. PinsTrue' /\ RemovalTrue'
  BY DEF TypeOK, PinsTrue, RemovalTrue, BuildFails, Dies, Unlock
<1>3. PinsFresh' /\ LinkFresh'
  BY DEF TypeOK, PinsTrue, RemovalTrue, PinsFresh, LinkFresh, BuildFails, Dies, Unlock
<1>4. HitsTrue'
  BY DEF TypeOK, HitsTrue, BuildFails, Dies, Unlock
<1>5. QED
  BY <1>1, <1>2, <1>3, <1>4

\* When things become old, the builds that count on them become late.
LEMMA WorldKeeps ==
  ASSUME PruneInv, ReapLease \/ NewRelease \/ DaysPass
  PROVE  PruneInv'
<1> USE NamesDiffer DEF PruneInv, snaps, media, vms, builds, pruning, Goto, Forget
<1>1. TypeOK'
  <2>1. CASE ReapLease
    BY <2>1 DEF TypeOK, PinsTrue, Phase, Step, ReapLease, Pinned
  <2>2. CASE NewRelease
    BY <2>2 DEF TypeOK, PinsTrue, Phase, Step, NewRelease, Pinned
  <2>3. CASE DaysPass
    BY <2>3 DEF TypeOK, PinsTrue, Phase, Step, DaysPass, Pinned
  <2>4. QED
    BY <2>1, <2>2, <2>3
<1>2. PinsTrue' /\ RemovalTrue'
  BY DEF TypeOK, PinsTrue, RemovalTrue, ReapLease, NewRelease, DaysPass, Pinned
<1>3. PinsFresh' /\ LinkFresh'
  BY DEF TypeOK, PinsTrue, RemovalTrue, PinsFresh, LinkFresh, ReapLease, NewRelease, DaysPass,
     Pinned
<1>4. HitsTrue'
  BY DEF TypeOK, HitsTrue, ReapLease, NewRelease, DaysPass, Pinned
<1>5. QED
  BY <1>1, <1>2, <1>3, <1>4

\* What prune lists before the medium's lock, it looks at again under it.
LEMMA PruneMediaKeeps ==
  ASSUME PruneInv, PruneBegin \/ PruneListMedia \/ PruneIsoCheck \/ PruneIsoRemove
           \/ PruneListVms \/ PruneDestroyVm \/ PruneDies
  PROVE  PruneInv'
<1> USE NamesDiffer DEF PruneInv, snaps, media, vms, builds, pruning, Goto, Forget
<1>1. TypeOK'
  <2>1. CASE PruneBegin
    BY <2>1 DEF TypeOK, PinsTrue, Phase, Step, PruneBegin, Removable
  <2>2. CASE PruneListMedia
    BY <2>2 DEF TypeOK, PinsTrue, Phase, Step, PruneListMedia, Removable
  <2>3. CASE PruneIsoCheck
    BY <2>3 DEF TypeOK, PinsTrue, Phase, Step, PruneIsoCheck, Removable
  <2>4. CASE PruneIsoRemove
    <3>1. \A b \in Build : fetching' = b <=> phase[b] = "fetching"
      BY <2>4 DEF TypeOK, PruneIsoRemove
    <3>2. QED
      BY <2>4, <3>1 DEF TypeOK, Step, PruneIsoRemove
  <2>5. CASE PruneListVms
    BY <2>5 DEF TypeOK, PinsTrue, Phase, Step, PruneListVms, Removable
  <2>6. CASE PruneDestroyVm
    BY <2>6 DEF TypeOK, PinsTrue, Phase, Step, PruneDestroyVm, Removable
  <2>7. CASE PruneDies
    BY <2>7 DEF TypeOK, PinsTrue, Phase, Step, PruneDies, Removable
  <2>8. QED
    BY <2>1, <2>2, <2>3, <2>4, <2>5, <2>6, <2>7
<1>2. PinsTrue' /\ RemovalTrue'
  BY DEF TypeOK, PinsTrue, RemovalTrue, PruneBegin, PruneListMedia, PruneIsoCheck,
     PruneIsoRemove, PruneListVms, PruneDestroyVm, PruneDies, Removable
<1>3. PinsFresh' /\ LinkFresh'
  BY DEF TypeOK, PinsTrue, RemovalTrue, PinsFresh, LinkFresh, PruneBegin, PruneListMedia,
     PruneIsoCheck, PruneIsoRemove, PruneListVms, PruneDestroyVm, PruneDies, Removable
<1>4. HitsTrue'
  BY DEF TypeOK, HitsTrue, PruneBegin, PruneListMedia, PruneIsoCheck, PruneIsoRemove,
     PruneListVms, PruneDestroyVm, PruneDies, Removable
<1>5. QED
  BY <1>1, <1>2, <1>3, <1>4

\* Prune lists no fresh snapshot, and removes only what it listed.
LEMMA PruneSnapshotsKeeps ==
  ASSUME PruneInv,
         \/ \E s \in Snapshot : PruneRemove(s) \/ PruneRemoveEnds(s)
         \/ PruneListSnapshots \/ PruneEndRemoves
         \/ PruneTestLink \/ PruneRemoveLink
  PROVE  PruneInv'
<1> USE NamesDiffer DEF PruneInv, snaps, media, vms, builds, pruning, Goto, Forget
<1>1. TypeOK'
  <2>1. CASE PruneListSnapshots
    BY <2>1 DEF TypeOK, PinsTrue, Phase, Step, PruneListSnapshots
  <2>2. CASE \E s \in Snapshot : PruneRemove(s)
    BY <2>2 DEF TypeOK, PinsTrue, Phase, Step, PruneRemove
  <2>3. CASE \E s \in Snapshot : PruneRemoveEnds(s)
    BY <2>3 DEF TypeOK, PinsTrue, Phase, Step, PruneRemoveEnds
  <2>4. CASE PruneEndRemoves
    BY <2>4 DEF TypeOK, PinsTrue, Phase, Step, PruneEndRemoves
  <2>5. CASE PruneTestLink
    BY <2>5 DEF TypeOK, PinsTrue, Phase, Step, PruneTestLink
  <2>6. CASE PruneRemoveLink
    BY <2>6 DEF TypeOK, PinsTrue, Phase, Step, PruneRemoveLink
  <2>7. QED
    BY <2>1, <2>2, <2>3, <2>4, <2>5, <2>6
<1>2. PinsTrue' /\ RemovalTrue'
  BY DEF TypeOK, PinsTrue, RemovalTrue, PruneListSnapshots, PruneRemove, PruneRemoveEnds,
     PruneEndRemoves, PruneTestLink, PruneRemoveLink
<1>3. PinsFresh' /\ LinkFresh'
  BY DEF TypeOK, PinsTrue, RemovalTrue, PinsFresh, LinkFresh, PruneListSnapshots, PruneRemove,
     PruneRemoveEnds, PruneEndRemoves, PruneTestLink, PruneRemoveLink
<1>4. HitsTrue'
  BY DEF TypeOK, HitsTrue, PruneListSnapshots, PruneRemove, PruneRemoveEnds, PruneEndRemoves,
     PruneTestLink, PruneRemoveLink
<1>5. QED
  BY <1>1, <1>2, <1>3, <1>4

LEMMA PruneIsSound == Spec => []PruneInv
<1>1. PruneInv /\ [Next]_vars => PruneInv'
  <2> SUFFICES ASSUME PruneInv, [Next]_vars PROVE PruneInv'
    OBVIOUS
  <2>1. CASE UNCHANGED vars
    BY <2>1 DEF vars, snaps, media, vms, builds, pruning, PruneInv, TypeOK, PinsTrue, RemovalTrue,
       PinsFresh, LinkFresh, HitsTrue
  <2>2. ASSUME NEW b \in Build, BuildNext(b) PROVE PruneInv'
    BY <2>2, InstallsKeep, FetchesKeep, LeasedWorkKeeps, FailuresKeep DEF BuildNext
  <2>3. CASE ReapLease \/ NewRelease \/ DaysPass
    BY <2>3, WorldKeeps
  <2>4. CASE PruneNext
    BY <2>4, PruneMediaKeeps, PruneSnapshotsKeeps DEF PruneNext
  <2>5. QED
    BY <2>1, <2>2, <2>3, <2>4 DEF Next
<1>2. QED
  BY PruneStarts, <1>1, PTL DEF Spec

-----------------------------------------------------------------------------
(* Theorems.                                                                *)

\* The lock of a medium is held by exactly the build that fetches it or by prune, the install
\* script's by one build, and a build has its lease as long as it works under it, through
\* every failure and death (prefetch.ts, snapshot.ts and prune take them with flock).
THEOREM LocksAreExclusive == Spec => []TypeOK
  BY PruneIsSound, PTL DEF PruneInv

\* What a build pinned whole, before prune found it old, is there until the
\* build has copied it, if that is within --days (snapshot.ts's touch).
THEOREM EarlyPinsStand == Spec => []EarlyPinStands
<1>1. PruneInv => EarlyPinStands
  BY DEF PruneInv, PinsFresh, EarlyPinStands
<1>2. QED
  BY <1>1, PruneIsSound, PTL

\* However old, the snapshot the work link names is not removed by age.
THEOREM LinkedSnapshotStands == Spec => []CurrentStands
<1>1. PruneInv => CurrentStands
  BY DEF PruneInv, LinkFresh, CurrentStands
<1>2. QED
  BY <1>1, PruneIsSound, PTL

\* Prune takes no medium that a build found and touched in time: it looks again
\* under the medium's lock.
THEOREM MediaAreSpared == Spec => PruneSparesMedia
<1>1. PruneInv /\ [Next]_vars => [PruneIsoRemove => hit \subseteq late]_vars
  BY DEF PruneInv, HitsTrue, PruneIsoRemove
<1>2. Spec => [][PruneIsoRemove => hit \subseteq late]_vars
  BY <1>1, PruneIsSound, PTL DEF Spec
<1>3. QED
  BY <1>2 DEF PruneSparesMedia

-----------------------------------------------------------------------------
(* The lock that prunes, builds and verifications share and a clean takes    *)
(* for itself.                                                              *)

\* Nothing runs before the marker or after a release, and while a command at
\* work is connected it holds the flock and has held it all along.
HeldAtWork ==
  \A c \in Command :
    /\ local[c] \in {"idle", "acquiring", "releasing", "ok"} => stage[c] = "none"
    /\ local[c] \in {"idle", "acquiring", "ok"} => c \notin unheld
    /\ link[c] = "up" => c \notin unheld
    /\ local[c] = "working" /\ link[c] = "up" => holder[c] = "holding"
    /\ link[c] = "up" => local[c] \in {"acquiring", "working", "releasing", "ok"}
    /\ link[c] = "up" /\ child[c] = "exited" => local[c] = "ok"
    /\ link[c] = "closed" => local[c] = "dead"

HoldersCompatible ==
  \A c, d \in Command :
    c # d /\ holder[c] = "holding" /\ holder[d] = "holding" => Compatible(c, d)

LockInv == LockTypeOK /\ HeldAtWork /\ HoldersCompatible /\ CleanRunsAlone

-----------------------------------------------------------------------------

LEMMA LockStarts == LockInit => LockInv
BY DEF LockInit, LockInv, LockTypeOK, Local, Child, Link, Holder, Stage, HeldAtWork,
       HoldersCompatible, CleanRunsAlone

\* The type invariant is preserved by every step.
LEMMA LockTypeStep == LockTypeOK /\ [LockNext]_lockVars => LockTypeOK'
<1> SUFFICES ASSUME LockTypeOK, [LockNext]_lockVars PROVE LockTypeOK'
  OBVIOUS
<1> USE DEF LockTypeOK, Local, Child, Link, Holder, Stage
<1>1. CASE UNCHANGED lockVars
  BY <1>1 DEF lockVars
<1>2. ASSUME NEW c \in Command, Spawn(c) PROVE LockTypeOK'
  BY <1>2 DEF Spawn
<1>3. ASSUME NEW c \in Command, Grant(c) PROVE LockTypeOK'
  BY <1>3 DEF Grant
<1>4. ASSUME NEW c \in Command, Marker(c) PROVE LockTypeOK'
  BY <1>4 DEF Marker
<1>5. ASSUME NEW c \in Command, StartStage(c) PROVE LockTypeOK'
  BY <1>5 DEF StartStage
<1>6. ASSUME NEW c \in Command, StartClean(c) PROVE LockTypeOK'
  BY <1>6 DEF StartClean
<1>7. ASSUME NEW c \in Command, EndStage(c) PROVE LockTypeOK'
  BY <1>7 DEF EndStage
<1>8. ASSUME NEW c \in Command, Release(c) PROVE LockTypeOK'
  BY <1>8 DEF Release
<1>9. ASSUME NEW c \in Command, HolderEnds(c) PROVE LockTypeOK'
  BY <1>9 DEF HolderEnds, Exposed
<1>10. ASSUME NEW c \in Command, Released(c) PROVE LockTypeOK'
  BY <1>10 DEF Released
<1>11. ASSUME NEW c \in Command, Cut(c) PROVE LockTypeOK'
  BY <1>11 DEF Cut
<1>12. ASSUME NEW c \in Command, ClientExits(c) PROVE LockTypeOK'
  BY <1>12 DEF ClientExits
<1>13. ASSUME NEW c \in Command, Lost(c) PROVE LockTypeOK'
  BY <1>13 DEF Lost
<1>14. ASSUME NEW c \in Command, Die(c) PROVE LockTypeOK'
  BY <1>14 DEF Die
<1> QED
  BY <1>1, <1>2, <1>3, <1>4, <1>5, <1>6, <1>7, <1>8, <1>9, <1>10, <1>11,
     <1>12, <1>13, <1>14 DEF LockNext

\* HeldAtWork is preserved by every step.
LEMMA HeldStep == LockTypeOK /\ HeldAtWork /\ [LockNext]_lockVars => HeldAtWork'
<1> SUFFICES ASSUME LockTypeOK, HeldAtWork, [LockNext]_lockVars PROVE HeldAtWork'
  OBVIOUS
<1> USE DEF LockTypeOK, HeldAtWork
<1>1. CASE UNCHANGED lockVars
  BY <1>1 DEF lockVars
<1>2. ASSUME NEW c \in Command, Spawn(c) PROVE HeldAtWork'
  BY <1>2 DEF Spawn
<1>3. ASSUME NEW c \in Command, Grant(c) PROVE HeldAtWork'
  BY <1>3 DEF Grant
<1>4. ASSUME NEW c \in Command, Marker(c) PROVE HeldAtWork'
  BY <1>4 DEF Marker
<1>5. ASSUME NEW c \in Command, StartStage(c) PROVE HeldAtWork'
  BY <1>5 DEF StartStage
<1>6. ASSUME NEW c \in Command, StartClean(c) PROVE HeldAtWork'
  BY <1>6 DEF StartClean
<1>7. ASSUME NEW c \in Command, EndStage(c) PROVE HeldAtWork'
  BY <1>7 DEF EndStage
<1>8. ASSUME NEW c \in Command, Release(c) PROVE HeldAtWork'
  BY <1>8 DEF Release
<1>9. ASSUME NEW c \in Command, HolderEnds(c) PROVE HeldAtWork'
  BY <1>9 DEF HolderEnds, Exposed
<1>10. ASSUME NEW c \in Command, Released(c) PROVE HeldAtWork'
  BY <1>10 DEF Released
<1>11. ASSUME NEW c \in Command, Cut(c) PROVE HeldAtWork'
  BY <1>11 DEF Cut
<1>12. ASSUME NEW c \in Command, ClientExits(c) PROVE HeldAtWork'
  BY <1>12 DEF ClientExits
<1>13. ASSUME NEW c \in Command, Lost(c) PROVE HeldAtWork'
  BY <1>13 DEF Lost
<1>14. ASSUME NEW c \in Command, Die(c) PROVE HeldAtWork'
  BY <1>14 DEF Die
<1> QED
  BY <1>1, <1>2, <1>3, <1>4, <1>5, <1>6, <1>7, <1>8, <1>9, <1>10, <1>11,
     <1>12, <1>13, <1>14 DEF LockNext

\* Only Grant makes a holder, and it asks the others.
LEMMA CompatibleStep == LockTypeOK /\ HoldersCompatible /\ [LockNext]_lockVars => HoldersCompatible'
<1> SUFFICES ASSUME LockTypeOK, HoldersCompatible, [LockNext]_lockVars PROVE HoldersCompatible'
  OBVIOUS
<1> USE DEF LockTypeOK, HoldersCompatible, Compatible
<1>1. ASSUME NEW c \in Command, Grant(c) PROVE HoldersCompatible'
  BY <1>1 DEF Grant
<1>2. ASSUME NEW c \in Command, Spawn(c) PROVE HoldersCompatible'
  BY <1>2 DEF Spawn
<1>3. ASSUME NEW c \in Command, HolderEnds(c) PROVE HoldersCompatible'
  BY <1>3 DEF HolderEnds
<1>4. CASE UNCHANGED holder
  BY <1>4
<1> QED
  BY <1>1, <1>2, <1>3, <1>4
     DEF LockNext, lockVars, Marker, StartStage, StartClean, EndStage, Release, Released,
         Cut, ClientExits, Lost, Die

\* Work starts under the flock or behind a cut connection, a clean stops what
\* leases name, and the dead start nothing.
LEMMA AloneStep == LockInv /\ [LockNext]_lockVars => CleanRunsAlone'
<1> SUFFICES ASSUME LockInv, [LockNext]_lockVars PROVE CleanRunsAlone'
  OBVIOUS
<1> USE DisjointCommands DEF LockInv, LockTypeOK, HeldAtWork, CleanRunsAlone, Command
<1>1. ASSUME NEW c \in Command, StartStage(c) PROVE CleanRunsAlone'
  BY <1>1 DEF StartStage, HoldersCompatible, Compatible, Link, Stage
<1>2. ASSUME NEW c \in Command, StartClean(c) PROVE CleanRunsAlone'
  BY <1>2 DEF StartClean, HoldersCompatible, Compatible, Link, Stage
<1>3. ASSUME NEW c \in Command, Die(c) PROVE CleanRunsAlone'
  BY <1>3 DEF Die
<1>4. ASSUME NEW c \in Command, Spawn(c) PROVE CleanRunsAlone'
  BY <1>4 DEF Spawn
<1>5. ASSUME NEW c \in Command, Cut(c) PROVE CleanRunsAlone'
  BY <1>5 DEF Cut
<1>6. ASSUME NEW c \in Command, EndStage(c) PROVE CleanRunsAlone'
  BY <1>6 DEF EndStage
<1>7. CASE UNCHANGED <<stage, link>>
  BY <1>7
<1> QED
  BY <1>1, <1>2, <1>3, <1>4, <1>5, <1>6, <1>7
     DEF LockNext, lockVars, Grant, Marker, Release, HolderEnds, Released, ClientExits, Lost

LEMMA LockIsSound == LockSpec => []LockInv
<1>1. LockInv /\ [LockNext]_lockVars => LockInv'
  BY LockTypeStep, HeldStep, CompatibleStep, AloneStep DEF LockInv
<1> QED
  BY LockStarts, <1>1, PTL DEF LockSpec

-----------------------------------------------------------------------------

\* A command that succeeds held the lock from its first to its last step,
\* through every order in which the ends of its connection notice a break.
THEOREM SuccessWasHeld == LockSpec => []OkWasHeld
<1>1. LockInv => OkWasHeld
  BY DEF LockInv, HeldAtWork, OkWasHeld
<1> QED
  BY LockIsSound, <1>1, PTL

\* A connected clean runs beside other work only if the network cut the other
\* command off, or it died and its work had no lease.
THEOREM CleanIsAlone == LockSpec => []CleanRunsAlone
<1>1. LockInv => CleanRunsAlone
  BY DEF LockInv
<1> QED
  BY LockIsSound, <1>1, PTL

=============================================================================
