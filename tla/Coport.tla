------------------------------- MODULE Coport -------------------------------
(***************************************************************************)
(* Coport installs published templates on a Proxmox node (coport/src).      *)
(*                                                                         *)
(* A run reads the install cache and the registry, assigns a VMID to each   *)
(* template, and works on all of them at once: download, verify, perhaps    *)
(* destroy the guest that stands at the VMID, create the VM, make it a      *)
(* template, record it in the cache.  One semaphore bounds the downloads    *)
(* and another the imports.  One run follows the other; a run may be        *)
(* interrupted or killed at any moment, and shares the node with somebody   *)
(* who creates and removes guests by hand.                                  *)
(*                                                                         *)
(* A registry entry is its version, which stands for sha256 and built_at;   *)
(* an image on disk is the version it holds, or Corrupt.  The retries of a  *)
(* download are their outcome.                                              *)
(***************************************************************************)
EXTENDS Semaphore, CoportPreflight

CONSTANTS
    Order,          \* the templates in the order of the registry, a sequence
    Suggested,      \* [Templates -> Vmids \cup {0}], suggested_vmid, 0 when there is none
    VmidStart,      \* --vmid-start
    LastVersion,    \* bound: how often the registry is republished
    MaxHands        \* bound: how often somebody acts on a guest by hand

ASSUME CoportAssumption ==
    /\ Order \in Seq(Templates) /\ Templates = {Order[i] : i \in DOMAIN Order}
    /\ \A i, j \in DOMAIN Order : Order[i] = Order[j] => i = j
    /\ Templates \cap {"nobody", "others"} = {}
    /\ Vmids \subseteq Nat \ {0}
    /\ Suggested \in [Templates -> Vmids \cup {0}]
    /\ VmidStart \in Nat
    /\ LastVersion \in Nat \ {0} /\ MaxHands \in Nat

VARIABLES
    vm,         \* Vmids -> the guest that stands there
    file,       \* ~/.coport/cache.json: template -> [vmid, version]
    registry,   \* the version every template is published at
    run,        \* what the process holds in memory, and its temp directory
    removedBy,  \* history: Vmids -> what last removed the guest there
    hands       \* how often somebody acted by hand

vars == <<vm, file, registry, run, removedBy, hands>>

Corrupt == 0

NoVm    == [kind |-> "none"]
Foreign == [kind |-> "foreign"]

Versions == 1..LastVersion
Record   == [vmid : Vmids, version : Versions]
Images   == Versions \cup {Corrupt}
Guest(t, image, ready) == [kind |-> "coport", template |-> t, image |-> image, ready |-> ready]
Guests   == [kind : {"coport"}, template : Templates, image : Images, ready : BOOLEAN]
NoImages == [t \in Templates |-> {}]
Caches   == UNION {[T -> Record] : T \in SUBSET Templates}

Modes  == {"install", "overwrite", "upgrade"}
Phases == {"over", "planned", "installing"}
Stages == {"none", "downloading", "downloaded", "destroying", "creating", "templating",
           "flushing", "ok", "failed"}

Active  == run.phase \in {"planned", "installing"}
Items   == DOMAIN run.plan
VmidOf(t) == run.plan[t].vmid
InDownload(t) == run.stage[t] = "downloading" /\ t \in run.downloads.running
InInstall(t)  == run.stage[t] = "downloaded" /\ t \in run.installs.running

-----------------------------------------------------------------------------
(* The plan.                                                                *)

\* One is before the other in the registry; the batch in that order.
Before(t, u) == \E i, j \in DOMAIN Order : i < j /\ Order[i] = t /\ Order[j] = u
InOrder(T) ==
    {batch \in [1..Cardinality(T) -> T] :
        \A i, j \in DOMAIN batch : i < j => Before(batch[i], batch[j])}

\* The first VMID from the start of the range that is neither given away nor taken.
FreeVmids(used) == (VmidStart..(VmidStart + Cardinality(used))) \ used
FindFreeVmid(used) == CHOOSE v \in FreeVmids(used) : \A w \in FreeVmids(used) : v <= w

\* The VMID of the cache wins over the suggested one; 0 when there is neither.
Desired(t, cache) == IF t \in DOMAIN cache THEN cache[t].vmid ELSE Suggested[t]

Taken == {v \in Vmids : vm[v] # NoVm}

\* One template of the batch after the other has its turn; taken is a snapshot of the
\* whole cluster, reserved what the templates before it were given.
ResolveVmids(plan, cache, taken, overwriteTaken) ==
    \A t \in DOMAIN plan :
        LET reserved == {plan[u].vmid : u \in {u \in DOMAIN plan : Before(u, t)}}
            desired  == Desired(t, cache)
            fits     == /\ desired # 0 /\ desired \notin reserved
                        /\ desired \notin taken \/ overwriteTaken
        IN  /\ plan[t].vmid = IF fits THEN desired ELSE FindFreeVmid(reserved \cup taken)
            /\ plan[t].overwrite = (fits /\ desired \in taken)

\* The plan for T, if its VMIDs are in Vmids (bound).
PlanInstall(T, cache, overwriteTaken) ==
    {plan \in [T -> [vmid : Vmids, version : {registry}, overwrite : BOOLEAN]] :
        ResolveVmids(plan, cache, Taken, overwriteTaken)}

\* The plan as it is, or with one VMID edited to a free one that the batch does not use.
Reviewed(plan) ==
    LET free(t) == {v \in Vmids : vm[v] = NoVm /\ \A u \in DOMAIN plan \ {t} : plan[u].vmid # v}
    IN  {plan} \cup UNION {{[plan EXCEPT ![t].vmid = v, ![t].overwrite = FALSE] : v \in free(t)} :
                          t \in DOMAIN plan}

IsStale(t, cache) == cache[t].version # registry

\* --upgrade: into the cached VMID, whatever stands there.
StaleItems(T, cache) ==
    [t \in {u \in T \cap DOMAIN cache : IsStale(u, cache)} |->
        [vmid |-> cache[t].vmid, overwrite |-> TRUE, version |-> registry]]

\* What a run may decide for the templates that were picked.
PlansFor(T, mode) ==
    IF mode = "upgrade" THEN {StaleItems(T, file)}
    ELSE UNION {Reviewed(p) : p \in PlanInstall(T, file, mode = "overwrite")}

-----------------------------------------------------------------------------
\* No process, or one that is over.
Over == [phase |-> "over", mode |-> "install", plan |-> <<>>, cache |-> <<>>,
         stage |-> [t \in Templates |-> "none"], temp |-> NoImages,
         downloads |-> Permits(DownloadLimit), installs |-> Permits(InstallLimit),
         writing |-> <<>>, writeFailed |-> FALSE]

\* The node as earlier runs left it: the cache is true, and nobody else has a guest yet.
Init ==
    /\ file \in {f \in Caches : \A t, u \in DOMAIN f : f[t].vmid = f[u].vmid => t = u}
    /\ registry = 1
    /\ \A t \in DOMAIN file : file[t].version = 1
    /\ vm = [v \in Vmids |-> LET here == {t \in DOMAIN file : file[t].vmid = v}
                            IN  IF here = {} THEN NoVm ELSE Guest(CHOOSE t \in here : TRUE, 1, TRUE)]
    /\ run = Over
    /\ removedBy = [v \in Vmids |-> "nobody"]
    /\ hands = 0

\* A run reads the cache and decides what goes where.  Without anything to do it ends.
Begin ==
    /\ ~Active
    /\ \E mode \in Modes : \E T \in SUBSET Templates : \E plan \in PlansFor(T, mode) :
         /\ DOMAIN plan # {}
         /\ run' = [Over EXCEPT !.phase = "planned", !.mode = mode,
                                !.plan = plan, !.cache = file]
    /\ UNCHANGED <<vm, file, registry, removedBy, hands>>

\* The storages of the plan: one for all, or with --upgrade the one of each record.
Placements ==
    {place \in [Items -> Storages] :
        run.mode # "upgrade" => \A t, u \in Items : place[t] = place[u]}
Placed(place) ==
    [t \in Items |-> [vmid |-> VmidOf(t), storage |-> place[t], overwrite |-> run.plan[t].overwrite]]

\* The preflight refuses: nothing was downloaded.
PreflightRefuses ==
    /\ run.phase = "planned"
    /\ {place \in Placements : <<Placed(place), Taken>> \in Refusable} # {}
    /\ run' = Over
    /\ UNCHANGED <<vm, file, registry, removedBy, hands>>

\* A batch comes to a semaphore: as many go in as it has permits for, the others wait.
EnterAll(sem, batch) ==
    LET n == IF sem.available < Len(batch) THEN sem.available ELSE Len(batch)
    IN  [available |-> sem.available - n,
         waiters   |-> sem.waiters \o SubSeq(batch, n + 1, Len(batch)),
         running   |-> sem.running \cup {batch[i] : i \in 1..n}]

\* runInstalls starts: the preflight found no error, or --no-preflight was given.
StartInstalls ==
    /\ run.phase = "planned"
    /\ \E batch \in InOrder(Items) :
         run' = [run EXCEPT !.phase = "installing",
                            !.stage = [t \in Templates |->
                                            IF t \in Items THEN "downloading" ELSE "none"],
                            !.downloads = EnterAll(@, batch)]
    /\ UNCHANGED <<vm, file, registry, removedBy, hands>>

-----------------------------------------------------------------------------
(* One item.                                                                *)

\* An item fails in the import: its slot is free, its images are removed.
FailInstall(t) ==
    run' = [run EXCEPT !.stage[t] = "failed", !.temp[t] = {},
                       !.installs = Done(@, t)]

\* The images have landed, whole or not; the item goes on to the import semaphore.
DownloadEnds(t) ==
    /\ InDownload(t)
    /\ \E image \in {run.plan[t].version, Corrupt} :
         run' = [run EXCEPT !.stage[t] = "downloaded", !.temp[t] = {image},
                            !.downloads = Done(@, t), !.installs = Run(@, t)]
    /\ UNCHANGED <<vm, file, registry, removedBy, hands>>

\* All attempts failed, or the entry has no URL.
DownloadFails(t) ==
    /\ InDownload(t)
    /\ run' = [run EXCEPT !.stage[t] = "failed", !.temp[t] = {},
                          !.downloads = Done(@, t)]
    /\ UNCHANGED <<vm, file, registry, removedBy, hands>>

\* verifySha256: the image is what the registry says, or the item fails.
Verified(t) == run.temp[t] = {run.plan[t].version}

\* Mutant: whatever stands at the VMID is destroyed first.
VerifyAndDestroy(t) ==
    /\ InInstall(t)
    /\ Verified(t)
    /\ run' = [run EXCEPT !.stage[t] = "destroying"]
    /\ UNCHANGED <<vm, file, registry, removedBy, hands>>

Verify(t) ==
    /\ InInstall(t)
    /\ Verified(t)
    /\ run' = [run EXCEPT !.stage[t] =
                 IF run.plan[t].overwrite THEN "destroying" ELSE "creating"]
    /\ UNCHANGED <<vm, file, registry, removedBy, hands>>

VerifyFails(t) ==
    /\ InInstall(t)
    /\ ~Verified(t)
    /\ FailInstall(t)
    /\ UNCHANGED <<vm, file, registry, removedBy, hands>>

Remover(t) == IF run.mode = "upgrade" THEN t ELSE "others"

\* qm destroy, whose failure is ignored.
Destroy(t) ==
    /\ run.stage[t] = "destroying"
    /\ run' = [run EXCEPT !.stage[t] = "creating"]
    /\ \/ /\ vm[VmidOf(t)] # NoVm
          /\ vm' = [vm EXCEPT ![VmidOf(t)] = NoVm]
          /\ removedBy' = [removedBy EXCEPT ![VmidOf(t)] = Remover(t)]
       \/ UNCHANGED <<vm, removedBy>>
    /\ UNCHANGED <<file, registry, hands>>

\* What qm create makes of the images in the temp directory.
Imported(t) == Guest(t, CHOOSE image \in run.temp[t] : TRUE, FALSE)

\* qm create makes a VM of the images, where none stands.
Create(t) ==
    /\ run.stage[t] = "creating"
    /\ vm[VmidOf(t)] = NoVm
    /\ vm' = [vm EXCEPT ![VmidOf(t)] = Imported(t)]
    /\ run' = [run EXCEPT !.stage[t] = "templating"]
    /\ UNCHANGED <<file, registry, removedBy, hands>>

\* It fails: always where a guest stands, otherwise perhaps with part of the VM left.
CreateFails(t) ==
    /\ run.stage[t] = "creating"
    /\ FailInstall(t)
    /\ \/ UNCHANGED vm
       \/ /\ vm[VmidOf(t)] = NoVm
          /\ vm' = [vm EXCEPT ![VmidOf(t)] = Imported(t)]
    /\ UNCHANGED <<file, registry, removedBy, hands>>

\* qm template takes any VM that is no template yet, somebody else's as well.
Unfinished(v)  == vm[v] \in Guests /\ ~vm[v].ready
CanTemplate(v) == vm[v] = Foreign \/ Unfinished(v)
Templated(v)   == [vm EXCEPT ![v] = IF Unfinished(v) THEN [@ EXCEPT !.ready = TRUE] ELSE @]

\* Mutant: qm template fails and the install counts as done.
TemplateUnchecked(t) ==
    LET record == [vmid |-> VmidOf(t), version |-> run.plan[t].version]
    IN  /\ run.stage[t] = "templating"
        /\ run' = [run EXCEPT !.stage[t] = "flushing", !.temp[t] = {},
                              !.installs = Done(@, t),
                              !.cache = [u \in DOMAIN @ \cup {t} |->
                                              IF u = t THEN record ELSE @[u]],
                              !.writing = Append(@, t)]
        /\ removedBy' = [removedBy EXCEPT ![VmidOf(t)] = "nobody"]
        /\ UNCHANGED <<vm, file, registry, hands>>

\* qm template, and the install is done: the record goes into the cache in memory and a
\* write of the cache is chained behind the others.
Template(t) ==
    LET record == [vmid |-> VmidOf(t), version |-> run.plan[t].version]
    IN  /\ run.stage[t] = "templating"
        /\ CanTemplate(VmidOf(t))
        /\ vm' = Templated(VmidOf(t))
        /\ run' = [run EXCEPT !.stage[t] = "flushing", !.temp[t] = {},
                              !.installs = Done(@, t),
                              !.cache = [u \in DOMAIN @ \cup {t} |->
                                              IF u = t THEN record ELSE @[u]],
                              !.writing = Append(@, t)]
        /\ removedBy' = [removedBy EXCEPT ![VmidOf(t)] =
                                IF Unfinished(VmidOf(t)) THEN "nobody" ELSE @]
        /\ UNCHANGED <<file, registry, hands>>

TemplateFails(t) ==
    /\ run.stage[t] = "templating"
    /\ FailInstall(t)
    /\ UNCHANGED <<vm, file, registry, removedBy, hands>>

-----------------------------------------------------------------------------
(* The cache file, and the end of a run.                                    *)

\* The next write of the chain takes the cache as it is by then.
Flush ==
    /\ run.phase = "installing"
    /\ run.writing # <<>>
    /\ \E failed \in BOOLEAN :
         /\ file' = IF failed THEN file ELSE run.cache
         /\ run' = [run EXCEPT !.stage[Head(run.writing)] = "ok",
                               !.writing = Tail(@), !.writeFailed = failed]
    /\ UNCHANGED <<vm, registry, removedBy, hands>>

\* Mutant: the cache is written once at the end, with every item of the plan.
EndRecordsAll ==
    /\ run.phase = "installing"
    /\ \A t \in Items : run.stage[t] \in {"ok", "failed"}
    /\ file' = [t \in DOMAIN file \cup Items |->
                  IF t \in Items THEN [vmid |-> VmidOf(t), version |-> run.plan[t].version]
                  ELSE file[t]]
    /\ run' = Over
    /\ UNCHANGED <<vm, registry, removedBy, hands>>

\* All items have settled: the temp directory goes, the cache is written once more.
End ==
    /\ run.phase = "installing"
    /\ \A t \in Items : run.stage[t] \in {"ok", "failed"}
    /\ file' \in {run.cache, file}
    /\ run' = Over
    /\ UNCHANGED <<vm, registry, removedBy, hands>>

\* The commands under way when the process goes, and what each leaves if it takes effect.
Commands ==
    {t \in Items :
        \/ run.stage[t] = "destroying" /\ vm[VmidOf(t)] # NoVm
        \/ run.stage[t] = "creating" /\ vm[VmidOf(t)] = NoVm
        \/ run.stage[t] = "templating" /\ CanTemplate(VmidOf(t))}
Effect(t) == CASE run.stage[t] = "destroying" -> NoVm
               [] run.stage[t] = "creating"   -> Imported(t)
               [] run.stage[t] = "templating" -> Templated(VmidOf(t))[VmidOf(t)]

\* Ctrl-C tells the commands to stop and the process exits, or it is killed and they go on:
\* each may still take effect; at one VMID one of them is the last.
Stop ==
    /\ Active
    /\ \E D \in SUBSET Commands :
         LET at(v) == {t \in D : VmidOf(t) = v}
         IN  /\ \A t, u \in D : VmidOf(t) = VmidOf(u) => t = u
             /\ vm' = [v \in Vmids |-> IF at(v) = {} THEN vm[v] ELSE Effect(CHOOSE t \in at(v) : TRUE)]
             /\ removedBy' = [v \in Vmids |->
                                 IF \E t \in at(v) : run.stage[t] = "destroying"
                                 THEN Remover(CHOOSE t \in at(v) : TRUE) ELSE removedBy[v]]
    /\ run' = Over
    /\ UNCHANGED <<file, registry, hands>>

-----------------------------------------------------------------------------
(* Everybody else.                                                          *)

\* The templates are built anew and the registry is published.
Publish ==
    /\ registry < LastVersion
    /\ registry' = registry + 1
    /\ UNCHANGED <<vm, file, run, removedBy, hands>>

\* Somebody removes a guest, creates one, or puts another in its place.
ByHand(v) ==
    /\ hands < MaxHands
    /\ hands' = hands + 1
    /\ \E guest \in {NoVm, Foreign} \ {vm[v]} : vm' = [vm EXCEPT ![v] = guest]
    /\ removedBy' = [removedBy EXCEPT ![v] = "others"]
    /\ UNCHANGED <<file, registry, run>>

Step ==
    \/ PreflightRefuses \/ StartInstalls \/ Flush \/ End
    \/ \E t \in Items :
         \/ DownloadEnds(t) \/ DownloadFails(t) \/ Verify(t) \/ VerifyFails(t)
         \/ Destroy(t) \/ Create(t) \/ CreateFails(t)
         \/ Template(t) \/ TemplateFails(t)

Next ==
    \/ Begin \/ Stop
    \/ Active /\ Step
    \/ Publish
    \/ \E v \in Vmids : ByHand(v)

\* Promises settle, and transfers and qm commands end: a run goes on.
Fairness == WF_vars(Active /\ Step)

Spec == Init /\ [][Next]_vars /\ Fairness

-----------------------------------------------------------------------------
Semaphores == [available : Nat, waiters : Seq(Templates), running : SUBSET Templates]
PlanType   == [vmid : Vmids, version : Versions, overwrite : BOOLEAN]
InstallPlans == UNION {[T -> PlanType] : T \in SUBSET Templates}

RunType ==
    [phase : Phases, mode : Modes, plan : InstallPlans, cache : Caches,
     stage : [Templates -> Stages], temp : [Templates -> SUBSET Images],
     downloads : Semaphores, installs : Semaphores,
     writing : Seq(Templates), writeFailed : BOOLEAN]

\* Every variable has its type; the semaphores hand out each slot once (semaphore.ts).
TypeOK ==
    /\ vm \in [Vmids -> {NoVm, Foreign} \cup Guests]
    /\ file \in Caches
    /\ registry \in Versions
    /\ run \in RunType
    /\ Sound(run.downloads, DownloadLimit) /\ Sound(run.installs, InstallLimit)
    /\ removedBy \in [Vmids -> Templates \cup {"nobody", "others"}]
    /\ hands \in 0..MaxHands

\* What the cache says is installed is installed, at that VMID and at least at that version,
\* unless that guest was removed since or another template was put in its place; and what a
\* run has finished is in the file, unless the last write failed (cache.ts: an interrupted
\* run keeps the installs it already finished, and no others).
CacheIsTrue ==
    /\ \A t \in DOMAIN file :
         LET guest == vm[file[t].vmid]
         IN  \/ removedBy[file[t].vmid] # "nobody"
             \/ /\ guest \in Guests
                /\ guest.ready
                /\ guest.template = t => guest.image >= file[t].version
    /\ \A t \in Items :
         run.stage[t] = "ok" /\ ~run.writeFailed =>
             /\ t \in DOMAIN file
             /\ file[t] = [vmid |-> VmidOf(t), version |-> run.plan[t].version]

\* An upgrade destroys the old template before it creates the new one.  However it fails, is
\* interrupted or killed in between, the record stays stale, so that the next --upgrade
\* installs the template again (runner.ts records only what was installed).
UpgradeRetries ==
    \A t \in DOMAIN file :
        LET v == file[t].vmid
        IN  removedBy[v] = t /\ ~(vm[v] \in Guests /\ vm[v].ready) => IsStale(t, file)

\* Without --overwrite and outside --upgrade a run removes no guest, not even one that took
\* the VMID after the plan was made: only hands and runs of the other modes do, and those
\* only at a VMID that was taken, or cached, when they made their plan.
UnaskedSurvive ==
    [][\A v \in Vmids :
         vm[v] # NoVm /\ vm'[v] = NoVm =>
            \/ hands' # hands
            \/ /\ run.mode # "install"
               /\ \E t \in Items : VmidOf(t) = v /\ run.plan[t].overwrite]_vars

\* The plan with its storages and the VMIDs that are taken, as the preflight meets them.
Checked(plans) == run.phase = "planned" =>
                    \A place \in Placements : <<Placed(place), Taken>> \in plans

\* When every probe is heard, and nothing that no check looks at (Unseen) is in the way: a
\* plan on which the preflight has nothing to say can be installed whatever the images expand
\* to, as long as the limits also bound the images on disk and servers without HEAD serve
\* (Expected); one it lets through with warnings can be installed if all goes well.  And one
\* it refuses could not have been installed at all, unless it replaces a guest, whose space is
\* not counted (preflight.ts: a check whose input says the install cannot work fails closed).
\* Sizes and HEAD answers are taken at their word, and the node stays as it was probed.
PreflightJudges == Checked(JudgedRight)

\* A probe that could not run is no evidence of a problem: the preflight refuses nothing it
\* would not refuse if the probe were heard.  It does not hold of the second call of pvesm,
\* whose silence makes every storage one that cannot hold images (preflight.ts: fails open).
FailsOpen == Checked(OpenToSilence)

\* Every run comes to its end, whatever fails.
RunEnds == Active ~> ~Active
=============================================================================
