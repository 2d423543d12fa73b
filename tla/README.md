# Cofoundry, specified

Cofoundry (`cf`) builds Proxmox VE virtual-machine templates: it copies the repository to a
Proxmox node over SSH, prefetches installer media, runs Packer there, verifies the result on
a scratch VM, uploads images to object storage and publishes a registry.  Coport is the other
end: it runs on a node, reads the registry and installs the templates a user picks.  Several
`cf` processes (developers, CI jobs, cron) share one node, and none of them is told when
another dies.  What keeps them apart is a handful of files, flocks and timestamps on the node.

This directory holds TLA+ models of those protocols, TLC configurations that check them on
small instances, and TLAPS proofs of what holds for every instance.  Paths below are relative
to the repository, `build/`, `prune/` and so on to its `src/`; `PROJECT.json` maps every
definition to its lines.

## 1. The system

Modelled parts first.

| Part | Code | State it keeps | Operations | What makes it hard, and correct |
| --- | --- | --- | --- | --- |
| Run leases and admission | `build/lease.ts`, `prune/node.ts` | a file per run on the node (recipe, VMID, memory, cores), its mtime, a flock; the launcher's count of failed heartbeats | admit, set VMID, heartbeat, sweep stale leases, reap by prefix, release, signal cleanup | launchers die silently, answers get lost, heartbeats take no lock. The node is never overbooked; a live run keeps its lease; every VM is named by a lease |
| Build scheduler | `build/scheduler.ts` | queue, counters of running builds, memory, cores | add, drain, settle, finally | re-entrance through promises. Budgets hold, no room is left idle, every job gets its turn |
| Build pipeline | `build/pipeline.ts`, `commands/build.ts` | p-queues, passed and failed lists | validate, lock, preflight, repository sync, per recipe prefetch, build, sync | partial failure, a lock that breaks in the middle. The report is the whole truth |
| Leased build | `build/executor.ts`, `build/retry.ts`, `build/vm.ts`, `build/remote.ts` | attempt and transport counters, registered cleanups; on the node Packer sessions and a VM | attempt, retry, abort, finally, signal | sessions outlive their connection; cleanups run in an order that matters. No VM is left unowned |
| Network slots | `build/netslot.ts` | a snippet file per slot, DHCP leases, MACs of VMs | allocate with reclaim and eviction, release by owner | liveness judged from outside. A held slot stays held, only orphans are destroyed |
| Maintenance lock | `build/maintenance.ts` | a flock held by a remote `cat` for as long as an SSH connection lives | acquire shared or exclusive, lose, release | the two ends notice a break at different times. Success means the lock was held; a clean runs alone |
| Sync, media, age-based prune | `build/repository.ts`, `build/snapshot.ts`, `build/prefetch.ts`, `prune/node.ts` | content-addressed snapshots and a work link; media with a lock each; VMs; all judged by their dates | install, touch, copy; fetch; list what is old, then remove it | prune and builds share the lock, and prune removes later than it looks. What was in use when it looked stays |
| Verification | `verify.ts` | a reservation per scratch VMID, a lease, a scratch VM | read the sidecar, admit, reserve, create, judge, destroy, sweep | leases and reservations age apart and are swept by others. A VM is never destroyed under its verification, nor lost |
| Judging a guest | `verify/guest.ts`, `verify/checks/`, `verify/clone.ts` | what the judge remembers: phase, polls, a boot id; a guest that boots, initialises itself and reboots behind an agent | seed, start, ping, wait for initialisation, check, reboot and confirm, check again, log on, look | an agent that answers into the shutdown and goes silent under load. A flawed image fails, a sound one passes, a verdict comes |
| Bucket and registry | `upload/`, `manifest.ts`, `prune/r2.ts`, `.github/workflows/` | images and sidecars in object storage, the registry mirrored beside them; no locks | export, sync, upload images then sidecar; list, fetch, publish, mirror; list, read, plan, delete | every command of everyone interleaves, and the bucket ties nothing together. What the registry advertises can be fetched; it never goes back |
| Coport installs | `coport/src` | `cache.json`, a temp directory, two semaphores; guests of the cluster | plan, review, download, verify, destroy, create, template, record | VMIDs read once and used much later, destroy before create, interrupts. The cache tells the truth; no guest is removed unasked |
| Coport preflight | `coport/src/preflight.ts` | none: a function of the plan and of what six probes say of the node | check tooling, storages, VMIDs, temp space, bridge, artifacts | probes that do not answer, sizes nobody publishes. It refuses what cannot work and nothing else |

Parts without a module of their own:

| Part | Code | State and operations | What would make it correct |
| --- | --- | --- | --- |
| SFTP, diagnostics, watchdog | `build/sftp/`, `build/diagnostics/`, `build/watchdog.ts` | connections, reports, restarts of a VM that stops during its installation | |
| Configuration, CLI, bootstrap, doctor, upstream, CI, recipes, UI | `config*.ts`, `cli.ts`, `commands/`, `bootstrap/`, `doctor.ts`, `upstream.ts`, `recipes/`, `packages/ui` | read once, interactive, or display | |

How they interact: `cf build` runs a **pipeline** under the shared **maintenance lock**; the
**scheduler** starts each build, which first asks for a **lease** (waiting until the node has
room), then allocates a **slot**, writes its VMID into the lease and enters the retry loop of
the **leased build**.  The admission script of any run sweeps the stale leases of all, and
destroys the VMs they name.  The allocation script reads leases to tell an orphan from a live
build.  `cf verify` takes a lease for its recipe and the shared lock, and a reservation
that the next verification may sweep; `cf prune` shares the lock, sweeps leases and removes what
is old of everything else; `cf clean` takes the lock exclusively.  `cf upload`, the publish job and
`cf prune --r2` meet in the **bucket** only, where nobody holds a lock.  Coport shares nothing
with these but the published registry.

## 2. Modules

| Module | Models | Rests on |
| --- | --- | --- |
| `Demand` | what runs ask of a node, and the sum of it | |
| `NodeAdmission` | abstract: a set of admitted runs that fit | `Demand` |
| `RunLease` | the lease protocol, both ends of the heartbeat, sweep, prune, signals, deaths | `Demand`; implements `NodeAdmission` |
| `BuildScheduler` | `BuildScheduler` turn by turn | `Demand` |
| `Pipeline` | `runPipeline` with its queues, composed with the scheduler | `BuildScheduler` |
| `BuildRun` | one build from the retry loop to the last cleanup | |
| `NetSlot` | slots with the leases, VMs, DHCP and clocks they are judged by | |
| `MaintenanceLock` | the lock with both ends of every connection | |
| `NodePrune` | one prune beside builds, with snapshots, a medium, VMs and their dates | |
| `Verify` | verifications with their reservations, leases and VMs, beside builds and cleans | |
| `GuestBoot` | the verdict of one verification: the guest, its agent, the suites of checks | |
| `R2Retention` | the bucket with every writer: exports, syncs, uploads, the publish job, prunes | |
| `Semaphore` | coport's counting semaphore, as operators | |
| `CoportPreflight` | the checks of a plan, as functions of the node and of the probes heard | |
| `Coport` | coport runs one after another on a shared node, each through its preflight | `Semaphore`, `CoportPreflight` |
| `*Proofs` | theorems; those on `MaintenanceLock` are in `NodePruneProofs`, those on `BuildScheduler` and `BuildRun` in `PipelineProofs`, those on `GuestBoot` in `VerifyProofs` | the module named, `TLAPS` |
| `MC*` | the instances TLC checks | the module named |

How state and actions correspond to the code:

**RunLease.** `file[r]` is the lease file: `held` after admission, `named` once `setVmid` has
written the VMID, `blank` when a bare `touch` made it, `revived` when `setVmid` then wrote a record
into that.  `packer` are the runs with a session on the node that has still to make its VM, which it
does whatever became of its launcher, its connection and its lease.  `age` is its mtime in
heartbeats, stopping one above `StaleTicks` (`RUN_LEASE_STALE_SECS`).  The flock is `lock`; a sweep
is `todo` (files not yet looked at) and `doomed` (condemned, its `qm destroy` running), so that
everything that takes no lock, heartbeats and releases, interleaves with it.  `beat` is the request
in flight: sent, tested but not touched, answered, lost.  The admission script's three answers are
`AdmissionAcquire`, `AdmissionWait`, `AdmissionReject`; the lost answer is `LauncherDies` before it.
`excused` is history: runs the promise no longer covers (silent past the window, reaped by name, a
`qm destroy` that failed, a `finally` that ran beside a session at work).  The prefix reap and the
sweep that follows it under the same lock are one loop.  `Builders` and `Mortal` bound which runs
get as far as a session and which may be killed.

**BuildScheduler, Pipeline.** One turn of `drain`'s loop is `StartJob`; while it loops nothing
else of the process acts (`draining`).  The promise of a build settles (`WorkSettles`) before
the `finally` that returns its resources (`Finally`), and what awaited it may resume in
between (`AfterBuild`).  `MaintenanceLost` is `maintenance.lost` winning the race: the
pipeline throws and its stages go on.

**BuildRun.** `packer[n]` is session `n` on the node; the launcher watches the last one only.
`phase` walks through `runWithRetries`, `raceLeasedWork`, the `finally`, and the cleanups of
`onFatalSignal` in their order.  Every cleanup may fail to reach the node, each `qm destroy` may
fail there and `pkill` may miss a session that just starts, which `missed` remembers.  `--keep-vm`
and the preparation of the workspace are left out.

**NetSlot.** A slot stands for its address and MAC, which are those of the same slot on every node;
each node has its own slot files and leases, and eviction reaches the VMs of the cluster
(`Evicted`).  `Allocate` is the whole script under its lock; peers may not answer (`deaf`), and any
of its evictions may fail.  `SlotMacRunning` and `SlotMacLeased` succeed for a slot without VMs,
as the shell pipelines do.  A VM is named by its run; `Foreign` VMs are a user's, or a restored
template's.  A `session` outlives its launcher.  A stale lease may be refreshed by a late heartbeat
or reaped, and the reap may miss VM and session.  `disturbed` is history, written by `Note` beside
every step: the runs at work whose lease was stale, or with whose MAC another VM stood.
`Lapsing` bounds whose launcher may die or fall silent.

**MaintenanceLock.** `child` is the ssh client, `holder` the `flock … cat` on the node, `link`
what joins them.  Work on the node is `leased` (Packer, which a clean finds through its lease)
or `unleased`.  Each command runs once.

**NodePrune.** `snapOld`, `isoOld`, `vmOld` say what is older than `--days`; `DaysPass` ages
everything at once.  A listing and each removal are separate steps, as they are separate ssh
commands; `rm -rf` takes time (`removing`, `partial`) and outlives a prune that dies, beside which
the next prune starts its own (`awaited` is the one it waits for).  `leased` and `vm` are one VMID,
seen by all builds of the recipe.  History: `fair` and `workFair` are pins and links made before
prune listed their snapshot, `hit` the builds that touched the medium that is there, `late` those
that dawdle for more than `--days`.

**Verify.** `res` and `resAge` are the file under `verify-reservations` and its mtime, which
nothing refreshes; `lease` and `silent` abstract RunLease to what a verification sees.  A sweep
of leases destroys the VM at the VMID the lease names, a sweep of reservations the one at the
VMID reserved: neither knows whose it is, and each goes on when its `qm destroy` fails
(`DestroyVms`).  A `qm create` is at work on the node (`creating`) until it lands or fails, whatever
its launcher does by then.  `Signal` runs both registered handlers, that of the reservation (until
the `finally`) and that of the lease, which destroys what stands at the VMID the lease names.
`artifact` is what the node has of a recipe and `disk` what `CF_OUT_DIR` has, which a sync replaces
(`SyncBack`); `uploads` are the verifications that judge the local one.  History: `evicted` are the
verifications for which reservation and lease parted, `leaked` those whose VM withstood a
destroy, was forgotten by a clean or came of a `qm create` that outlived its cleanup, `behind` those
whose artifact was replaced between the reading of its sidecar and of its images.

**GuestBoot.** `flaw` is the one thing wrong with the image, named as the check that asserts its
absence, or nothing; the suites are those of `checks/`, in their order, with the overrides of a
recipe.  `guest` is what really happens: power, boots, initialisation (Cloudbase-Init's marker
comes before the reboot for the name), logon, desktop.  A call to the agent is one step whose
`reply` is an answer, one that took too long, a refusal or silence; on Windows an answered script
may have thrown, which a boot id hides and a check reports as exit 1.  `silence` bounds how long a
sound guest is silent.  `mishaps` is history: what other than the image stood in the way.

**R2Retention.** An image is its template and its hash, a sidecar the build its key was made of
(`key`) and the build its body describes (`is`); the two differ when a sync comes in between.  `at`
stands for LastModified.  `ci` says how artifacts get to the bucket, once and for all: a CI syncs
nothing and uploads from the node (`build-one.yml:88-97`), others sync and upload what is local.
`PublishFetch` may skip a sidecar that does not parse or has no name.  `PruneRead`, the plan and
every deletion are separate steps, as are the commands of the job.  History: `swept` are images a
prune deleted without having read the sidecar that names them, `hasty` the templates whose newest
sidecar a prune deleted unread.

**CoportPreflight.** A finding is its check, its subject and its severity.  A probe that could
not run is missing from `heard`.  `Installs` is not code: it says what the downloads and `qm`
would make of the plan for an `outcome` (what the images expand to, how many are on disk at once,
which URLs serve), and the preflight is judged by it.  `Unseen` names what no check looks at,
`Expected` what no probe can know (section 5).  `Coport` takes them over constant sets of plans,
which TLC enumerates once.

**Coport.** `run` is what the process holds in memory; `file` is `cache.json`; a guest knows
what was imported into it and whether it was made a template.  A version stands for `sha256`
and `built_at`.  `Stop` is Ctrl-C or a kill at any point: each `qm` under way may still take
effect.  `removedBy` is history: what last removed the guest at a VMID.

## 3. What TLC checks

All passing runs finish within four minutes on two workers; each property has a plausible bug
(a `Mutant` definition beside the code's) that breaks it in the same run.

| Run | Instance | Shows |
| --- | --- | --- |
| `lease_twins` | two runs of one recipe, one of which may be killed or signalled; stale after 1 heartbeat; fairness | `AdmissionSpec`: RunLease implements NodeAdmission, so never two runs of a recipe, never more than the node has, late touches aside; `AdmissionAnswers` |
| `lease_races` | two recipes of which memory takes one, a budget above the node's capacity, and a third run that fits no budget; sessions that outlive launchers; one run kept, which prune may reap by name | `HealthyRunKeepsLease`, `VmHasLease`, `PreservedVmSurvives` |
| `pipeline` | any subset of three recipes, one of them possibly twice, two builds at once, one job too large to run beside another | the report, exclusion of duplicates, budgets, overtaking, ends |
| `build` | 2 attempts, 2 transport failures, so 4 sessions | `VmInCharge`, `RunEnds`, `VmGoesAway` |
| `maintenance` | two sharers, one clean | `OkWasHeld`, `CleanRunsAlone`, `EveryoneEnds` |
| `slots` | two runs of one node and one of its peer on one slot, one of which may die or fall silent; a foreign VM that may have its MAC | `SlotIsHeld` |
| `coport` | two templates that suggest one of two VMIDs, 2 versions, one act by hand, 1 download and 2 imports at once; the preflight on a sound node and 54 that differ from it in one respect | `CacheIsTrue`, `UpgradeRetries`, `UnaskedSurvive`, `RunEnds`; `PreflightJudges`, `FailsOpen` |
| `prune` | two pipelines of one recipe, two revisions, one prune | `EarlyPinStands`, `CurrentStands`, `PruneSparesMedia` |
| `verify` | two verifications, two scratch VMIDs of which one may be taken, two artifacts of the recipe of one, synced or not, cleans; leases and reservations stale after 1 tick | `HealthyVmStands`, `VmIsFindable`, `OneArtifact` |
| `guest` | a Linux and two Windows recipes, both levels, every flaw their suites know, calls to the agent unanswered up to a bound | `FlawsFail`, `SoundImagePasses`, `VerdictComes` |
| `guest_misread` | violated: checks of the second boot run on the first | finding |
| `storage` | one template built twice, whose second build is without a URL, one left under the legacy prefix; an upload, from the node or after a sync, the job, its prune and an operator's; sidecars of the first template may not parse | `SidecarsWhole`, `RegistryStands`, `RegistryNeverBack` |

Each module defines `TypeOK` as well, which the proofs rest on; no run has it among its
properties, for the others would not evaluate on a state of the wrong shape.

Why these bounds are enough to be interesting:

- *Leases*: every hazard is between at most two runs and the sweep of a third actor (an admission or
  prune), which the instances have; the third run of `lease_races` is one whose sweep reaps for
  others.  `StaleTicks` 1 is enough for a lease to be fresh, at the limit and stale; the code's
  value is 60 heartbeats, and the proofs take any.  In `lease_twins` one run dies or is stopped and
  the other competes with what it left; its refinement does not look at sessions (`Builders` is
  empty).
- *Pipeline*: three distinct recipes and `Concurrency` 2 give a job that waits, one that
  overtakes and one that is overtaken; the budget takes two small jobs or the large one.
- *Build*: the hazard is a session that outlives its watcher, twice in one attempt and once
  across attempts.
- *Slots*: one slot forces every run to succeed another.  Two runs of a node and one of a peer
  are the cases of an allocation: a file of its own node, a VM of another.  One run lapses
  (`Lapsing`); the others meet what it left.  The theorem takes any number of nodes, runs and slots.
- *Coport*: two templates competing for one VMID give conflicts, edits, records that name the
  same VMID, and imports that finish in either order; the second version makes records stale
  once before and once after a run.  Nothing orders more than two items but the semaphore
  queue, whose reasoning does not depend on its length.

- *Prune*: a pipeline that pins before prune looks and one that pins after, with a revision
  each or one together, are all the cases of its promise; the second pipeline also has the
  media and the VMID in turn with the first.  Symmetric in pipelines and in revisions.
- *Verify*: every loss needs one verification that holds a VMID and one that believes so. The VMID
  taken from the start leaves one, so the pool runs out.  The code's windows are 30 minutes and an
  hour.  Here both are 1 tick: since nothing refreshes a reservation, and a sweep comes at any time
  after, either of the two still goes first.  Builds and syncs replace the artifact of one
  verification (`Rebuilt`); the two have nothing but VMIDs in common.
- *Guest*: the flaws are one per check because a suite stops at nothing and its results do not
  depend on one another; two flaws fail for either.  Polls and outages are bounded one above the
  other, so that an outage can end within a timeout and outlast one.
- *Bucket*: two builds make one generation old, and the second shares its varstore with the first,
  the case in which an image belongs to two generations.  `Keep` is 1 (`publish.yml:70` has 5): the
  proofs take any, and what that hid is in section 4.  Either prune, the job's or an operator's,
  runs at any time and as often as it likes, one at a time; what makes its plan stale is the
  uploads, syncs and publications around it.  `Unfit`, whose sidecars may not parse, is the template
  that has more than one.
- *Preflight*: one respect at a time, because the checks are independent of each other; the room
  of a storage runs from 1 to 7 units, across every limit of one or two templates (2 to 7).

Deadlock is not checked where the system stops by design: every run over, every command done.

**Fairness.** Only what the code's own scheduling gives.  Promises settle because the ssh of builds
has keepalives (`remote.ts:25`, `maintenance.ts:39`) and wget, Packer and the communicators have
timeouts; the ssh of a verification has none (`verify.ts:65-80`), so that `VerdictComes` also takes
it that the connection answers or breaks (an agent that does not answer is bounded on the node); the
event loop runs what is ready (`WF` on steps of a process); kernels grant free flocks (`WF(Grant)`);
an admission asks again every `RETRY_MS` and the flock queue lets it in (`SF(AdmissionBegin)`: the
lock is free again and again).  `SF(Release)` in MaintenanceLock says that a command takes finitely
many steps on the node before it releases.  Nothing is assumed of networks, launchers or people:
messages may be lost for ever, processes may die at any time and may also never die.  `EveryoneEnds`
is about a finite set of commands: `flock` lets new sharers pass a waiting clean, so an endless
supply of builds can starve it.

## 4. What is proved

Theorems hold for every value of the constants that satisfies the modules' assumptions.

| Theorem | Says | Argument |
| --- | --- | --- |
| `RunLeaseProofs!Typing` | `TypeOK` | by action |
| `RunLeaseProofs!HealthyKeepsLease` | a working run that is not excused has its lease | `HealthInv`: whatever is doomed is excused, and whatever is older than the window is excused. Alone the property is not inductive: a sweep removes what it condemned earlier |
| `RunLeaseProofs!VmKeepsLease` | `VmHasLease`: a VM is named by a standing lease, but for the excused runs | `VmInv`: the lease names the VMID as long as the launcher is in `named` or a session is at work, whatever became of its launcher; no VM and no session before that, nor when the lease is about to be released; a revived lease is excused |
| `RunLeaseProofs!PreservedStands` | `PreservedVmSurvives` | by action, from `TypeOK` |
| `RunLeaseProofs!LeasesImplementAdmission` | `Spec => AdmissionSpec` | `LeaseStepRefines`: every step admits one run that fits, frees one, or stutters, with `held <- Admitted`: the leases with a record that no late touch brought back (`file[r]` is `held` or `named`). Test and touch of a heartbeat are two steps |
| `RunLeaseProofs!AdmissionSafe` | the abstract specification keeps capacity and one run per recipe | `AdmitPreserves`, `FreePreserves`, by the lemmas of `DemandProofs` |
| `RunLeaseProofs!LeasesSafe` | so do the leases in `Admitted` | from the two theorems before it: the promise of the abstract specification, read through the refinement |
| `DemandProofs!UsedAdd` | admitting a run adds its need | counts units, a finite set, so that sums need no recursion |
| `PipelineProofs!BuildsWithinBudgets` | cap and budgets | `CountersExact` (the counters are the builds), `QueueFresh` (nobody is charged twice), `CountersBounded` |
| `PipelineProofs!OffersAllRoom` | no job that fits waits between turns | the same invariant: only the end of a drain stops draining |
| `PipelineProofs!OvertakingIsFair` | a job overtakes only what did not fit | `CountersExact` turns the counters that `fits` reads into the builds in progress |
| `PipelineProofs!PipelineSchedules` | `Spec => SchedulerSpec`, hence the budgets in the composed system | every step of a stage is a step of the scheduler or leaves it alone |
| `PipelineProofs!LockOutlastsTheWork`, `ReportsEverything`, `OneBuildPerRecipe` | `QuietWhenReleased`, `ReportIsComplete`, `ParallelBuildsDiffer` | `PipelineInv`: `QueuesTrue` (a waiting recipe waits in one queue, once; building is being in `working`), `StagesTrue` (nobody moves before the recipes start or after they settled), `LockTrue`, `ReportTrue` (the lists are the stages). One lemma per action |
| `PipelineProofs!VmStaysInCharge` | `VmInCharge` | `BuildInv`: `ClaimsStand` (the lease stays while the launcher works, the slot until its own cleanup) and `VmIsPackers` (once the VM has been destroyed, `Destroyed`, one that stands is that of a session at work, unless something was missed). `VmInCharge` alone forgets whose the VM is |
| `PipelineProofs!SessionsAreBounded` | at most `Attempts + MaxTransport` sessions (`BuildTypeOK`) | `SessionsPaid`: a session was paid for by an attempt or by a transport retry |
| `NetSlotProofs!SlotsAreHeld` | `SlotIsHeld`, for any nodes | `SlotIsSafe`: an undisturbed run at work has its slot file, no `Disturbance`, and while it builds a lease that names its VMID. `WorkersKeepSlots`: such a run passes every test of an allocation on its own node, and one of a peer looks at other files. `RunsTrue` says what a run can have where it is |
| `NodePruneProofs!SuccessWasHeld` | `OkWasHeld` | `HeldAtWork`: work without the flock is remembered, and a client that exits well has a holder that ended last |
| `NodePruneProofs!CleanIsAlone` | `CleanRunsAlone` | with `HoldersCompatible`: two holders are sharers |
| `NodePruneProofs!EarlyPinsStand`, `LinkedSnapshotStands` | `EarlyPinStands`, `CurrentStands` | `PruneInv`: `PinsFresh` (what was pinned in time is whole, not old and on no list), `LinkFresh` (nor is what the link names), `RemovalTrue` (what an `rm` is at work on is no whole tree, and none comes in its place) |
| `NodePruneProofs!MediaAreSpared` | `PruneSparesMedia` | `HitsTrue`: whoever finds the medium touched it under its lock, so prune looks again before or after, not in between |
| `NodePruneProofs!LocksAreExclusive` | `TypeOK`, whose last part says what the locks do: the lock of a medium is held by exactly the build that fetches it or by prune, one install script runs at a time, and a build has the lease while it works under it | |
| `VerifyProofs!VmsStand` | `HealthyVmStands`, but for the `evicted` | `VerifyInv`: `ReservationsDiffer`, `ClaimsStand` (who was not evicted has lease and reservation for its VMID, and the lease never names a VMID that is not reserved), `VmsTrue` (a VM is at the VMID of its owner, in the states that can have one). Every sweep and signal destroys at the VMIDs of its owners alone (`DestroyVmsTakes`) |
| `VerifyProofs!VmsAreFound` | `VmIsFindable`, but for the `evicted` and the `leaked` | the same: a VM that outlives a destroy is `leaked` |
| `VerifyProofs!JudgesOneArtifact` | `OneArtifact`, but for the `evicted` and those `behind` | `ArtifactsTrue`: under the lease no build of the recipe works, so what the node has is as it was; what was uploaded from `CF_OUT_DIR` differs from the sidecar only for those `behind` |
| `VerifyProofs!Typing` | `TypeOK` | |
| `VerifyProofs!FlawedImagesFail` | `FlawsFail` | `GuestInv`, below |
| `VerifyProofs!SoundImagesPass` | `SoundImagePasses`, if the agent of a sound guest answers in time and but for the mishaps it names | the same |
| `R2RetentionProofs!SidecarsAreWhole` | `SidecarsWhole` | `BucketInv`: `PlanTrue` (a prune's images are named by no generation it keeps, and what it read is kept or stale), `UploadsTrue` (an upload has stored what its phase says), `PastsTrue` (the bucket has, of everything ever listed, read, published or mirrored, the same sidecar or a newer one). What a prune deletes it read as stale, or never read: then it is `swept` |
| `R2RetentionProofs!RegistryIsTrue` | `RegistryStands` | `EntriesTrue`: an entry also has its sidecar, or `Keep` newer ones. A prune that takes that sidecar read `Keep` newer ones (`StaleIsOld`), which counts generations by an injection into the numbers between the two |
| `R2RetentionProofs!RegistryOnlyGrowsNewer` | `RegistryNeverBack`, but for templates `hasty` or skipped by the publish | `AsNew`, by phase of the job: what was listed, then what was assembled, is as new as the mirror; that a fetched sidecar is missing fails the publish |
| `CoportProofs!CacheStandsTrue` | `CacheIsTrue` | `CoportInv`: `CacheTrue` (every record is true, of the cache in memory as of the file), `WritesTrue` (what is installed is in the cache, and in the file once written), `GuestsTrue` and `ItemsTrue` (what stands at an item's VMID is what its plan imported). `VmChanges` says who can change one VMID and how: what lies between a read and a destroy is met there, VMID by VMID |
| `CoportProofs!BrokenUpgradeIsRetried` | `UpgradeRetries` | needs `CacheOlder`: until it has settled, an upgrade's item is newer than its record, so what it destroys is recorded as older than the registry |
| `CoportProofs!NoGuestGoesUnasked` | `UnaskedSurvive` | `ItemsTrue`: only an item that may overwrite is ever destroying |
| `CoportProofs!SlotsAreSound` | `TypeOK`, whose part on the semaphores says that permits and holders add up to the limit | `SlotsTrue`: who is at a semaphore has the stage that says so, and comes once. `BatchIsWhole` and `EnterIsSound`: a batch of any size enters as its first items at work and the rest in line |
| `CoportProofs!SilenceRefusesNothing` | `FailsOpen` | check by check: a silent probe takes errors away (`SilenceIsNoError`). `PlanIsWhole` and the types make what a run decides one of the plans |
| `CoportProofs!PreflightIsRight` | `PreflightJudges`, but for what `Unseen` and `Expected` name | `ErrorsAre`: without errors means `Passes`, which names what each check lets through. What the disks take lies between the least and the most (`TakenOn`, `LeastIsASize`), below |

The proofs rest on the named assumptions of the modules.  Most give constants their types
(`NodesAssumption` those of the nodes the preflight may meet); the others say that a value that
means "none" is no run, build or snapshot (`NoneIsNew`, `NamesDiffer`, `OwnersDiffer`), that kept
runs are runs (`PreserveType`) and that foreign VMs are not runs.

`GuestInv` says what the judge may rely on as long as nothing failed and no boot id was misread:
`GuestTrue` (a guest that was not asked to restart, and need not on its own, is up),
`InitTrue` (past the waits it is initialised; on Linux, past the first check), `RebootsTrue` (a boot
id other than the one before is that of a later boot, so what runs after a reboot runs on a boot
after the one of the initialisation), `ChecksTrue` (no hard check that ran names the flaw, unless
the desktop was late), `SilenceTrue` (an agent that left the attempts so far unanswered was silent
for as long), and `SoundTrue` for the other direction.  With `failed` or a misread id the rest
says nothing: a guest that goes down under the judge's eyes can then be anything, and
the verdict needs no more.  What the suites contribute is one lemma, `SuiteIsSound`: every check,
overridden or not, is in the phase that suits what it asks (`Fits`).  `FlawsFail` then follows at
the end: each hard check of the suite has run.

`PreflightIsRight` needs to compare totals over any number of templates.  `Total` adds up a set one
chosen element after another; no induction theorem of the library can be applied to it, but a
statement about sums that failed would fail for a smallest set (`SmallestSet`, by well-foundedness
of strict inclusion), and leaving out the chosen element of that set contradicts it (`TotalAdds`,
`TotalGrows`).  That the chosen sums exist at all is shown by the same means, by size (`SumsExist`).

One hypothesis stands in a theorem itself.  `SoundImagesPass` assumes `AgentAnswers`: a sound guest
leaves fewer calls in a row unanswered than `guestExecRetry` and the baseline's loop make attempts
(`MaxOutage < TransportAttempts`; the run has 3 and 4).  An agent away for longer than that, but no
longer than `MaxOutage` allows, fails a sound image with nothing to blame.  `FlawedImagesFail` does
without.

Other theorems state properties that leave out, by name, the cases in which the code does not keep
the promise.  Each such case is a step of the model, remembered by a history variable or read off
the state, and section 5 tells its trace:

| Left out | By | Where the code falls short |
| --- | --- | --- |
| a lease that a late touch brought back | `file[r] = "revived"`, not in `Admitted` | `lease.ts:277` |
| a VM whose lease was silent too long or reaped by name, whose `qm destroy` failed, or whose `finally` ran beside a session | `excused` | `lease.ts:126-152`, `executor.ts:473` |
| a VM that a cleanup did not reach or a signal skipped | `missed` | `executor.ts`, `lease.ts:294-297` |
| a slot whose run was silent, or with whose MAC another VM stood | `disturbed` | `netslot.ts:209`, `242` |
| a verification swept alive, or between its reservation and its lease | `evicted` | `verify.ts:545-546`, `lease.ts:380-393` |
| a VM that outlived its cleanup | `leaked` | `lease.ts:126-152`, `verify.ts:113-118`, `prune/node.ts:140` |
| an artifact replaced between its sidecar and its images | `behind` | `verify.ts:237-299` |
| what a prune deleted unread, or a publish skipped | `swept`, `hasty`, `job.skipped` | `prune/r2.ts:151`, `184`, `manifest.ts:321-330` |
| what no check of the preflight looks at | `Unseen`, `Expected` | `preflight.ts:177`, `609-629` |
| a desktop not seen or not in time, a check that threw | `mishaps` | `windows.ts:424`, `guest.ts:39-48` |

What the attempt to prove `RegistryStands` found: in an older form it is not true with `Keep` 2 or
more, and the run has `Keep` 1.  A published generation can be uploaded again with a sync in
between, so that its key has the body of another build (`upload/runner.ts:105`); no sidecar names
its images then, and a prune sweeps them as orphans while the registry advertises them and its
generation is among the newest.  With `Keep` 1 that second upload alone makes the entry old.
`OtherBody` excuses such entries.  TLC found the old form violated in 31 steps with `Keep` 2; the
theorem covers any `Keep`, and the run keeps 1, which its mutants need.

Every safety property of the passing runs has a theorem.  Only model-checked is everything temporal
under fairness: liveness and ENABLED are beyond the prover.

## 5. Findings and observations

Finding (`guest_misread`): `guest.ts:444`.  `readBootId` takes what the agent printed for the
boot id and ignores the exit code.  On Windows the wrapper of every command turns an exception
into text on stdout, so a query that fails while the guest shuts down reads as a new boot, and
the checks of the second boot run on the first, contrary to the comment at `guest.ts:328-330`.

Observations met while modelling, where the code and its comments part and no property stands:

- `lease.ts:277`: a heartbeat whose `test -f` ran before a sweep removed the lease and whose
  `touch` runs after it re-creates the file empty and reports success: a masked reap.  `setVmid`
  then writes a record into it, and the run is back although its memory may have been given away.
- `netslot.ts:186`: `slot_mac_running` of a slot that no VM carries ends with the status of a
  loop that never ran, success, so the slot counts as used and is never swept.
- `lease.ts:41-43` rules out that a launcher aborts with its lease fresh; lost answers of
  heartbeats that did arrive make it (`EvaluateHeartbeat` after `HeartbeatDropped`).  It is safe.
- `pipeline.ts:158`: after the lock is lost the stages go on, though `docs/architecture.md:51`
  has it held for the full lifetime.
- `remote.ts:50-54` wants the slot given back after the VM is gone; if the VM's cleanup does
  not reach the node, the slot is released all the same.
- A signal that comes in the `finally` after the lease was lost finds no lease to destroy a VM by,
  and may leave the one the `finally` had still to destroy (`missed` in BuildRun).
- `executor.ts:473`: a Packer session whose connection broke may work on after the lease was
  released at the end of a later attempt.
- `netslot.ts:242`: a live build between two VMs loses its slot if a foreign VM has its MAC:
  the guard that protects builds without a VM is the accident of `netslot.ts:186`.  It works on,
  and the VM it makes next can cost the run that has the slot by then its slot in turn.
- `netslot.ts:209`: `vmid_leased` reads its own node's leases, eviction sees the cluster's VMs: the
  allocation of a run on one node may destroy the VM of a live build on another that has the same
  slot there (`Evicted`).  An eviction that fails is ignored (`netslot.ts:311-312`), and two VMs
  have the MAC.
- `executor.ts:384` drops the VM an attempt left only when `attempt > 1`, but a transport failure
  repeats the same attempt (`retry.ts:85`): after one in attempt 1, Packer meets the running VM
  and refuses, and that spends the attempt, contrary to `executor.ts:375-383` and `retry.ts:70-73`.
- `maintenance.ts:22-28` says a clean cannot race other work, crashes included.  What a killed
  command ran with a terminal (prefetch, `remote.ts:291`) dies with its connection; what it ran
  without one (the snapshot install, a copy) goes on, and a clean kills only leased processes.
- Verify: a verification whose lease or reservation is swept is not told (`verify.ts` does not
  listen to `lease.lost`); it destroys at the end whatever VM stands at its VMID.  A healthy one
  that outlives its reservation, an hour old (`verify.ts:44`), loses its VM to the next
  verification.  Between the release of its reservation (`verify.ts:545`) and that of its lease, the
  lease names a VMID others may take.  If the verification dies there, the sweep of that lease
  destroys their VM (`lease.ts:122-130` does not ask whose it is); if a signal comes, the lease's
  own handler does, which is registered until the release (`lease.ts:380-393`, 453).
  `docs/debugging.md:222-223` warns of the symptom.
- Verify: a `qm destroy` that fails is ignored and the lease or reservation removed all the same
  (`lease.ts:126-152`, `verify.ts:113-118`): the VM stays with neither.  So does one whose `qm
  create` (`verify.ts:319-334`) was still at work when its launcher cleaned up.
- `verify.ts:237`: the sidecar is read before the lease; a build in between replaces the images.  A
  local sidecar is read at 244 and its images are uploaded at 290-299; a sync may come in between.
- `prune/node.ts:140`: a clean destroys the VMs named `packer-*`, but those of verifications are
  named `cofoundry-verify-*` (`verify.ts:328`).  One whose launcher died stays, and the clean
  removes the lease and the reservation through which a sweep would find it (line 480), though
  `docs/usage.md:152` calls a clean a full teardown; its check for leftovers (505) passes it over.
  In Verify such VMIDs are among the `leaked`.
- `bootstrap/flow.ts:123` puts `cf-cluster-templates.sh` behind `CF_UPLOAD_CMD`; the script's
  own header wants `CF_SIDECAR_UPLOAD_CMD`, and not the other: it would read an image as a
  sidecar and fail the export.  The header also promises a failure when any online node ends
  without a verified template, but a node where the VMID is a real VM is skipped and counted ok.
- Prune: a snapshot pinned between listing and removal goes all the same, contrary to
  `snapshot.ts:125-126` (`SyncCheck`, `InstallTree`, `PruneListSnapshots`, `InstallLink`,
  `PruneRemove`); `touch` (`snapshot.ts:127`) may create a plain file where the snapshot was,
  which fails every later install of that revision; an `rm` cut short by a crash of the node
  leaves a partial tree that later syncs trust.
- Prune: a medium just downloaded has the server's date (`wget -O` keeps Last-Modified), so it
  may be old at once and go before a VM references it, contrary to `prune/node.ts:618-620`; only
  hits are touched.  A new release makes one build remove a medium another has prefetched.
- `prune/node.ts:754`: a link that dangled may be valid again when it is removed.
- `prune/node.ts:601-603`: leases taken after the VMs were listed do not protect them.  A build that
  takes its lease then and makes its VM at a VMID on the list loses it (`PruneListVms`,
  `AcquireLease`, `CreateVm`, `PruneDestroyVm`).
- Coport: `--no-verify` sets `opts.verify`, the code reads `opts.noVerify` (`runner.ts:191`), so
  images are always verified; two overlapping runs lose each other's cache records; a record stays
  when another template is installed over it, so `--list` can be wrong and `--upgrade` can install
  two templates at one VMID, both reporting success; `--upgrade` destroys whatever guest stands at a
  cached VMID; an `--overwrite` of the current version that fails after the destroy leaves a record
  that `--upgrade` takes for up to date; images wait on disk for the import semaphore, so peak use
  grows with the number of templates.  `qm template` (`install.ts:105`) works on whatever stopped
  guest stands at the VMID by then, so that somebody else's may become a template.
- Bucket: images of an unreadable sidecar count as orphans and are swept (`prune/r2.ts:151`,
  contrary to 149-150); so are those of an upload in flight, whose sidecar comes last
  (`upload/runner.ts:82`), for an orphan needs no age.  An older generation uploaded again while a
  prune works is the newest one when the prune deletes it (`r2.ts:184`).
- Bucket: a sync into the export directory during an upload puts the body of one build's sidecar
  under the key of another (`upload/runner.ts:105`); if the registry advertises that other, its
  images are orphans from then on and a prune may sweep them (section 4); a sync cut short leaves a
  sidecar beside disks it does not describe.  An upload does not compare bytes with the hash it
  stores them under (the model takes an image for its name, so a file replaced in the middle of its
  upload is not in it); coport does, and refuses the image.
- Bucket: a publish skips a sidecar that does not parse or has no name with a warning
  (`manifest.ts:276`, 321-330), and then takes its template out of the registry, or back to an older
  generation.
- Judging a guest: the reboot is triggered once, and a lost trigger fails the verification; whether
  autologon could be armed is not asked; `shell-no-crashes` comes before `shell-session-present`
  (`windows.ts:424`), so a desktop that crashes between the two passes; a frame that was not
  captured counts as nothing; a check the agent itself gave up on, an answer without an exit code,
  fails without a retry; so does a check of Windows whose query throws, since the wrapper turns that
  into exit code 1 (`guest.ts:39-48`, 221-222, 285), though 232-239 sets a check that did not run
  apart from one that failed.
- Preflight: when `pvesm status --content images` alone fails, every storage is refused, though
  `preflight.ts:22-23` has a probe that fails refuse nothing; without a list of the node's
  guests, that check is left out in silence; space that overwritten guests free is not counted, so
  what fits may be refused.  A node without `pvesm`, or on which it lists no storage, passes
  (`preflight.ts:177`: an empty list counts as one that could not be read), and every `qm create`
  fails.  Nothing looks for two items at one VMID, for a VMID taken without `--overwrite`, which is
  left to `qm create`, or for a guest with `protection`; a blank URL is a warning.  `peakTempBytes`
  (`preflight.ts:609-629`) counts as many images as downloads and installs at once, but images that
  wait for an import are on disk too.

Assumptions worth knowing: lease ids are unique per run (a `CF_RUN_ID` shared by two runs of one
recipe would break that); in MaintenanceLock a clean kills every leased process at once; an image
has at most one flaw, no guest reboots unasked, and Cloudbase-Init works as the comments of
`guest.ts` say; a disk image is no larger than its virtual size.

## 6. Plan

Done: the core protocol of the node (leases, admission, slots, lock, prune, verification), a
build and its pipeline, the verdict on a guest, the bucket and the registry, coport's runs and
their preflight; proofs of the safety properties of all of them.  Left, in this order:

1. `NodeClean`: what `cf clean` removes (`prune/node.ts:302-568`), for a clean that fails half-way
   (`Verify` has its part with verifications, as one step).
2. The watchdog inside `BuildRun`, whose restarts share a VM with Packer and the cleanups.
3. `ClusterTemplates`, for the script that distributes templates.
4. Bootstrap and doctor, as functions of what they find on a node; two coport runs at once.

## 7. Not modelled

`PROJECT.json` gives the reason for each part.  In short: the recipes and provisioning scripts
are data and shell run inside guests; the terminal renderer, menus and command-line parsing keep
no state that outlives a screen; SSH, Packer, `qm`, `pvesm` and object storage are modelled by
their effects where a protocol depends on them; doctor and upstream checks read and report.
