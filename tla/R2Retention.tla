----------------------------- MODULE R2Retention -----------------------------
(***************************************************************************)
(* The bucket the templates are published from, and everyone who writes to *)
(* it: the export of a build on the node, `cf upload' from the node or     *)
(* from the directory the artifacts are synced to, the publish job (cf     *)
(* publish --r2, push, mirror, cf prune --r2) and an operator's `cf prune  *)
(* --r2'.  A generation of a template is a sidecar and the images it names *)
(* by hash; nothing in the bucket ties them together, and nobody holds a   *)
(* lock.                                                                   *)
(*                                                                         *)
(* An object's LastModified is abstracted to a template's count of stored  *)
(* sidecars, so no two are equal.  Generation 0 lies under a legacy prefix.*)
(***************************************************************************)
EXTENDS Naturals, FiniteSets

CONSTANTS
  Template,
  Legacy,     \* templates with a generation under a legacy prefix
  Builds,     \* bound: how many builds of each template there are
  EfiOf,      \* the varstore a build exports: often that of an earlier one
  Direct,     \* builds on a node that has an upload command
  Bare,       \* builds that ran without a public URL template
  Unfit,      \* bound: templates with sidecars that may not parse or have no name
  MaxStored,  \* bound: how often a sidecar of a template is stored
  Keep,       \* generations of a template a prune keeps
  MaxPrunes,  \* bound: prunes at work at the same time
  Pruner      \* who prunes: "job", and perhaps "operator"

Disk == {"system", "efivars"}
Artifact == Disk \cup {"sidecar"}
Build == UNION {0 .. Builds[t] : t \in Template}

ASSUME RetentionAssumption ==
  /\ IsFiniteSet(Template) /\ Legacy \subseteq Template
  /\ Builds \in [Template -> Nat]
  /\ EfiOf \in [Build -> Build] /\ \A n \in Build : EfiOf[n] = 0 <=> n = 0
  /\ Bare \cup Direct \subseteq Build \ {0}
  /\ MaxStored \in Nat /\ MaxPrunes \in Nat
  /\ Keep \in Nat \ {0}
  /\ "job" \in Pruner

VARIABLES
  ci,        \* whether this is a CI: it syncs no artifacts and uploads --remote
  built,     \* builds of a template begun so far
  export,    \* where the export of a template is
  node,      \* the build whose sidecar is in the node's output directory
  shelved,   \* templates whose images are in it
  local,     \* the build each local artifact is of, 0 if it is absent
  coming,    \* local artifacts a sync has yet to rename into place
  images,    \* images in the bucket
  sidecars,  \* sidecars in the bucket: the key's build, the body's, LastModified
  stored,    \* sidecars of a template stored so far
  up,        \* cf upload
  job,       \* the publish job
  prune,     \* each cf prune --r2
  mirror,    \* registry.json in the bucket, what consumers read
  swept,     \* history: images deleted by a prune that had not read the sidecar
             \* that names them
  hasty      \* history: templates a prune deleted a sidecar of it had not read

source == <<ci, built, export, node, shelved, local, coming>>
bucket == <<images, sidecars, stored>>
history == <<swept, hasty>>
vars == <<source, bucket, up, job, prune, mirror, history>>

Hash(d, n) == IF d = "system" THEN n ELSE EfiOf[n]
Image(t, d, n) == [of |-> t, disk |-> d, hash |-> Hash(d, n)]
Images(t, n) == {Image(t, d, n) : d \in Disk}
AllImages == [of : Template, disk : Disk, hash : Build]
Sidecar == [of : Template, key : Build, is : Build, at : Nat]
Entry == [of : Template, key : Build, is : Build, at : Nat, url : BOOLEAN]

Named(side) == UNION {Images(s.of, s.is) : s \in side}
Newer(side, s) == {o \in side : o.of = s.of /\ o.at > s.at}

Nothing == [phase |-> "off", images |-> {}, read |-> {}, stale |-> {}]
NoUpload == [phase |-> "idle", items |-> {}, of |-> "", gen |-> 0]
NoJob == [phase |-> "idle", listed |-> {}, registry |-> {}, skipped |-> {}]

SourceType ==
  /\ ci \in BOOLEAN
  /\ built \in [Template -> Nat] /\ node \in [Template -> Nat]
  /\ \A t \in Template :
       /\ node[t] <= built[t] /\ built[t] <= Builds[t]
       /\ export[t] = "build" => built[t] < Builds[t]
  /\ shelved \subseteq Template
  /\ export \in [Template -> {"idle", "build", "system", "efivars", "write", "sidecar"}]
  /\ local \in [Template -> [Artifact -> Build]]
  /\ coming \in [Template -> [gen : Build, files : SUBSET Artifact]]
  /\ \A t \in Template : coming[t].files # {} => coming[t].gen # 0

BucketType ==
  /\ images \subseteq AllImages /\ swept \subseteq AllImages \ images
  /\ sidecars \subseteq Sidecar /\ stored \in [Template -> Nat]
  /\ mirror \subseteq Entry /\ hasty \subseteq Template

UploadType ==
  /\ up \in [phase : {"idle", "next"} \cup Artifact, of : Template \cup {""},
            items : SUBSET (Template \X Build), gen : Build \cup {0}]
  /\ up.phase \in Artifact => up.of \in Template /\ up.gen \in Build

JobType ==
  job \in [phase : {"idle", "fetch", "push", "prune"},
          listed : SUBSET Sidecar, registry : SUBSET Entry, skipped : SUBSET Template]

PlanType ==
  [phase : {"off", "read", "delete"}, images : SUBSET AllImages,
   read : SUBSET Sidecar, stale : SUBSET Sidecar]

TypeOK ==
  /\ SourceType /\ BucketType /\ UploadType /\ JobType
  /\ prune \in [Pruner -> PlanType]

LegacySidecar(t) == [of |-> t, key |-> 0, is |-> 0, at |-> 0]

Init ==
  /\ ci \in BOOLEAN
  /\ built = [t \in Template |-> 0] /\ node = built /\ shelved = {}
  /\ export = [t \in Template |-> "idle"]
  /\ local = [t \in Template |-> [a \in Artifact |-> 0]]
  /\ coming = [t \in Template |-> [gen |-> 0, files |-> {}]]
  /\ sidecars = {LegacySidecar(t) : t \in Legacy}
  /\ images = Named(sidecars)
  /\ stored = built
  /\ up = NoUpload /\ job = NoJob /\ prune = [p \in Pruner |-> Nothing]
  /\ mirror = {} /\ swept = {} /\ hasty = {}

-----------------------------------------------------------------------------
(* Objects.                                                                 *)

PutImage(t, d, n) ==
  /\ images' = images \cup {Image(t, d, n)}
  /\ swept' = swept \ {Image(t, d, n)}
  /\ UNCHANGED <<sidecars, stored, hasty>>

\* The key is content-addressed by the system disk; a second put replaces it.
PutSidecar(t, key, is) ==
  /\ stored[t] < MaxStored
  /\ stored' = [stored EXCEPT ![t] = @ + 1]
  /\ sidecars' = {s \in sidecars : ~(s.of = t /\ s.key = key)}
       \cup {[of |-> t, key |-> key, is |-> is, at |-> stored[t] + 1]}
  /\ UNCHANGED <<images, history>>

-----------------------------------------------------------------------------
(* The export of a build (export-and-cleanup.sh), and the artifact sync.    *)

Exporting(t, phase) == export' = [export EXCEPT ![t] = phase]

\* A build removes the results of the one before.
BuildBegin(t) ==
  /\ export[t] = "idle" /\ built[t] < Builds[t]
  /\ Exporting(t, "build")
  /\ node' = [node EXCEPT ![t] = 0]
  /\ shelved' = shelved \ {t}
  /\ UNCHANGED <<ci, built, local, coming, bucket, up, job, prune, mirror, history>>

\* Its disks are uploaded from here only if the node has an upload command.
ExportDisks(t) ==
  /\ export[t] = "build"
  /\ built' = [built EXCEPT ![t] = @ + 1]
  /\ shelved' = shelved \cup {t}
  /\ Exporting(t, IF built[t] + 1 \in Direct THEN "system" ELSE "write")
  /\ UNCHANGED <<ci, node, local, coming, bucket, up, job, prune, mirror, history>>

ExportUpload(t) ==
  /\ export[t] \in Disk
  /\ PutImage(t, export[t], built[t])
  /\ Exporting(t, IF export[t] = "system" THEN "efivars" ELSE "write")
  /\ UNCHANGED <<ci, built, node, shelved, local, coming, up, job, prune, mirror>>

ExportWrites(t) ==
  /\ export[t] = "write"
  /\ node' = [node EXCEPT ![t] = built[t]]
  /\ Exporting(t, IF built[t] \in Direct THEN "sidecar" ELSE "idle")
  /\ UNCHANGED <<ci, built, shelved, local, coming, bucket, up, job, prune, mirror, history>>

ExportSidecar(t) ==
  /\ export[t] = "sidecar"
  /\ PutSidecar(t, built[t], built[t])
  /\ Exporting(t, "idle")
  /\ UNCHANGED <<ci, built, node, shelved, local, coming, up, job, prune, mirror>>

\* Every command runs under set -e.
ExportFails(t) ==
  /\ export[t] # "idle"
  /\ Exporting(t, "idle")
  /\ UNCHANGED <<ci, built, node, shelved, local, coming, bucket, up, job, prune, mirror, history>>

Kept(a, n) == IF a = "sidecar" THEN n ELSE 1

\* Hard links pin the files of the build that is on the node now.
SyncLink(t) ==
  /\ ~ci /\ coming[t].files = {} /\ node[t] # 0
  /\ coming' = [coming EXCEPT ![t] =
       [gen |-> node[t], files |-> {a \in Artifact : local[t][a] # Kept(a, node[t])}]]
  /\ UNCHANGED <<ci, built, export, node, shelved, local, bucket, up, job, prune, mirror, history>>

\* The pool finishes the downloads in any order.
SyncRename(t) ==
  /\ \E a \in coming[t].files :
       /\ local' = [local EXCEPT ![t][a] = Kept(a, coming[t].gen)]
       /\ coming' = [coming EXCEPT ![t].files = @ \ {a}]
  /\ UNCHANGED <<ci, built, export, node, shelved, bucket, up, job, prune, mirror, history>>

SyncFails(t) ==
  /\ coming[t].files # {}
  /\ coming' = [coming EXCEPT ![t].files = {}]
  /\ UNCHANGED <<ci, built, export, node, shelved, local, bucket, up, job, prune, mirror, history>>

-----------------------------------------------------------------------------
(* cf upload, from the node's output directory (--remote) or the local one. *)

SidecarAt(t) == IF ci THEN node[t] ELSE local[t]["sidecar"]
ImageAt(t, d) == IF ci THEN t \in shelved ELSE local[t][d] # 0

\* Every sidecar wanted, and fit to be parsed, is read before any file is looked for.
LoadSidecars ==
  /\ up.phase = "idle"
  /\ \E found \in SUBSET {t \in Template : SidecarAt(t) # 0} :
       /\ found # {}
       /\ up' = [phase |-> "next", of |-> "", gen |-> 0,
                 items |-> {<<t, SidecarAt(t)>> : t \in found}]
  /\ UNCHANGED <<source, bucket, job, prune, mirror, history>>

After(items) == IF items = {} THEN NoUpload
                ELSE [up EXCEPT !.phase = "next", !.items = items, !.of = "", !.gen = 0]

\* All of an item's images must be there before any of them is uploaded.
CheckArtifacts ==
  /\ up.phase = "next"
  /\ \E i \in up.items :
       up' = IF \A d \in Disk : ImageAt(i[1], d)
             THEN [up EXCEPT !.phase = "system", !.items = @ \ {i},
                             !.of = i[1], !.gen = i[2]]
             ELSE After(up.items \ {i})
  /\ UNCHANGED <<source, bucket, job, prune, mirror, history>>

\* --skip-sidecar ends an item with its last image.
UploadDisk ==
  /\ up.phase \in Disk
  /\ ImageAt(up.of, up.phase)
  /\ PutImage(up.of, up.phase, up.gen)
  /\ IF up.phase = "system" THEN up' = [up EXCEPT !.phase = "efivars"]
     ELSE up' \in {[up EXCEPT !.phase = "sidecar"], After(up.items)}
  /\ UNCHANGED <<source, job, prune, mirror>>

\* The key is of the sidecar that was read, the body is the file of now.
UploadSidecar ==
  /\ up.phase = "sidecar"
  /\ SidecarAt(up.of) # 0
  /\ PutSidecar(up.of, up.gen, SidecarAt(up.of))
  /\ up' = After(up.items)
  /\ UNCHANGED <<source, job, prune, mirror>>

\* The third try fails too, as it does if the file is gone: the item is failed and the
\* others go on.
UploadFails ==
  /\ up.phase \in Artifact
  /\ up' = After(up.items)
  /\ UNCHANGED <<source, bucket, job, prune, mirror, history>>

-----------------------------------------------------------------------------
(* The publish job: one at a time, by its concurrency group.                *)

\* Lists the configured prefix and the legacy ones.
PublishList ==
  /\ job.phase = "idle"
  /\ job' = [job EXCEPT !.phase = "fetch", !.listed = sidecars]
  /\ UNCHANGED <<source, bucket, up, prune, mirror, history>>

\* The listed sidecars with the bodies their keys have now.
Fetched(listed) ==
  {[l EXCEPT !.is = (CHOOSE s \in sidecars : s.of = l.of /\ s.key = l.key).is] :
     l \in {x \in listed : \E s \in sidecars : s.of = x.of /\ s.key = x.key}}

SelectNewest(side) == {s \in side : Newer(side, s) = {}}

\* A URL is the sidecar's own or rendered from the template, if there is one.
WithUrl(s, template) == s.is \notin Bare \/ template

Assembled(side, template) ==
  {[of |-> s.of, key |-> s.key, is |-> s.is, at |-> s.at,
    url |-> WithUrl(s, template)] : s \in SelectNewest(side)}

Missing(listed) == Cardinality(Fetched(listed)) # Cardinality(listed)
DisksMissingUrls(registry) == {e \in registry : ~e.url}

\* Mutant: a sidecar that cannot be fetched is skipped.
PublishFetchLenient ==
  /\ job.phase = "fetch"
  /\ \E template \in BOOLEAN, gone \in SUBSET job.listed :
       LET registry == Assembled(Fetched(job.listed \ gone), template) IN
       /\ DisksMissingUrls(registry) = {}
       /\ job' = [job EXCEPT !.phase = "push", !.listed = {}, !.registry = registry]
  /\ UNCHANGED <<source, bucket, up, prune, mirror, history>>

\* Fails when one sidecar cannot be fetched, or one image has no URL, but skips those that
\* do not parse or have no name.
PublishFetch ==
  /\ job.phase = "fetch"
  /\ \E template \in BOOLEAN, unfit \in SUBSET {s \in Fetched(job.listed) : s.of \in Unfit} :
       LET registry == Assembled(Fetched(job.listed) \ unfit, template) IN
       /\ ~Missing(job.listed) /\ DisksMissingUrls(registry) = {}
       /\ job' = [job EXCEPT !.phase = "push", !.listed = {}, !.registry = registry,
                             !.skipped = {s.of : s \in unfit}]
  /\ UNCHANGED <<source, bucket, up, prune, mirror, history>>

\* The registry is pushed, if it says anything new, and then put in the bucket.
Mirror ==
  /\ job.phase = "push"
  /\ mirror' = job.registry
  /\ job' = [job EXCEPT !.phase = "prune", !.registry = {}, !.skipped = {}]
  /\ UNCHANGED <<source, bucket, up, prune, history>>

\* A command fails and no later one runs; or the push was rejected, and the
\* job starts over.
JobFails ==
  /\ job.phase \in {"fetch", "push"}
  /\ job' = NoJob
  /\ UNCHANGED <<source, bucket, up, prune, mirror, history>>

-----------------------------------------------------------------------------
(* cf prune --r2.                                                           *)

Listable(k) == k.hash # 0
Step(p, next) == prune' = [prune EXCEPT ![p] = next]

PruneList(p) ==
  /\ prune[p].phase = "off"
  /\ Cardinality({q \in Pruner : prune[q].phase # "off"}) < MaxPrunes
  /\ p = "job" => job.phase = "prune"
  /\ Step(p, [phase |-> "read", images |-> {k \in images : Listable(k)},
              read |-> {s \in sidecars : s.key # 0}, stale |-> {}])
  /\ UNCHANGED <<source, bucket, up, job, mirror, history>>

\* Mutant: the oldest are kept.
LiveOldest(read) ==
  {s \in read : Cardinality({o \in read : o.of = s.of /\ o.at < s.at}) < Keep}

\* The newest generations of each template.
Live(read) == {s \in read : Cardinality(Newer(read, s)) < Keep}

\* Mutant: the images of the stale generations go, whoever shares them.
OrphansOfStale(listed, read) == listed \cap Named(read \ Live(read))

Orphans(listed, read) == listed \ Named(Live(read))

\* Reads the listed sidecars; those that cannot be read are skipped.
PruneRead(p) ==
  /\ prune[p].phase = "read"
  /\ \E unreadable \in SUBSET prune[p].read :
       LET read == Fetched(prune[p].read \ unreadable) IN
       Step(p, [phase |-> "delete", read |-> read, stale |-> read \ Live(read),
                images |-> Orphans(prune[p].images, read)])
  /\ UNCHANGED <<source, bucket, up, job, mirror, history>>

\* The stale sidecars go first, then the images.
PruneSidecar(p) ==
  /\ prune[p].phase = "delete"
  /\ \E s \in prune[p].stale :
       LET there == {o \in sidecars : o.of = s.of /\ o.key = s.key} IN
       /\ sidecars' = sidecars \ there
       /\ hasty' = IF there \subseteq prune[p].read THEN hasty ELSE hasty \cup {s.of}
       /\ Step(p, [prune[p] EXCEPT !.stale = @ \ {s}])
  /\ UNCHANGED <<source, images, stored, up, job, mirror, swept>>

\* Uploads at work that have stored the image and not yet its sidecar.
InFlight(k) ==
  \/ \E t \in Template : export[t] \in {"efivars", "write", "sidecar"}
                         /\ built[t] \in Direct /\ k \in Images(t, built[t])
  \/ up.phase \in {"efivars", "sidecar"} /\ k \in Images(up.of, up.gen)

PruneImage(p) ==
  /\ prune[p].phase = "delete" /\ prune[p].stale = {}
  /\ \E k \in prune[p].images :
       /\ images' = images \ {k}
       /\ swept' = IF k \in images /\ (InFlight(k) \/ k \in Named(sidecars \ prune[p].read))
                   THEN swept \cup {k} ELSE swept
       /\ Step(p, [prune[p] EXCEPT !.images = @ \ {k}])
  /\ UNCHANGED <<source, sidecars, stored, up, job, mirror, hasty>>

\* Done, or a command failed.
PruneEnds(p) ==
  /\ prune[p].phase # "off"
  /\ Step(p, Nothing)
  /\ job' = IF p = "job" THEN NoJob ELSE job
  /\ UNCHANGED <<source, bucket, up, mirror, history>>

-----------------------------------------------------------------------------

Next ==
  \/ \E t \in Template :
       \/ BuildBegin(t) \/ ExportDisks(t) \/ ExportUpload(t) \/ ExportWrites(t)
       \/ ExportSidecar(t) \/ ExportFails(t) \/ SyncLink(t) \/ SyncRename(t) \/ SyncFails(t)
  \/ LoadSidecars \/ CheckArtifacts \/ UploadDisk \/ UploadSidecar \/ UploadFails
  \/ PublishList \/ PublishFetch \/ Mirror \/ JobFails
  \/ \E p \in Pruner :
       \/ PruneList(p) \/ PruneRead(p) \/ PruneSidecar(p) \/ PruneImage(p)
       \/ PruneEnds(p)

Spec == Init /\ [][Next]_vars

-----------------------------------------------------------------------------
(* Properties.                                                              *)

\* A sidecar in the bucket names only images that are in the bucket too, unless
\* a prune that could not know the sidecar swept one of them: each uploader
\* stores the images first, and prune deletes the sidecar first.  A sidecar
\* whose file was replaced while its item was uploaded makes no such promise.
SidecarsWhole ==
  \A s \in sidecars : s.is = s.key => Images(s.of, s.is) \subseteq images \cup swept

\* The sidecar of a published generation was stored again with the body of
\* another build, and names the images of that one.
OtherBody(e) ==
  \E s \in sidecars : s.of = e.of /\ s.key = e.key /\ s.is # s.key

\* What the mirrored registry advertises can be downloaded: it has a URL and its
\* images are stored, for as long as fewer than Keep generations were published
\* after it, however publishing and prunes interleave: unless a prune sweeps what an
\* upload that it could not see stored, or its sidecar no longer names them.
RegistryStands ==
  \A e \in mirror :
    /\ e.url
    /\ \/ e.is # e.key \/ e.of \in hasty \/ OtherBody(e)
       \/ Images(e.of, e.is) \subseteq images \cup swept
       \/ stored[e.of] - e.at >= Keep

\* A publish never takes a template out of the registry or back to an older
\* generation, unless a prune deleted a sidecar that was stored after it looked, or the
\* publish itself skipped a sidecar of the template that did not parse or had no name.
RegistryNeverBack ==
  [][\A e \in mirror :
       \/ e.of \in hasty \cup job.skipped
       \/ \E f \in mirror' : f.of = e.of /\ f.at >= e.at]_vars
=============================================================================
