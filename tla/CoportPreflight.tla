-------------------------- MODULE CoportPreflight --------------------------
(***************************************************************************)
(* The checks coport makes of a finished plan before the first byte is      *)
(* downloaded (coport/src/preflight.ts).                                    *)
(*                                                                         *)
(* They are functions of the plan and of what the probes of the node say.   *)
(* A finding is what it is about and how severe it is, its wording is left  *)
(* out; sizes are in units in which the cases differ.  A probe that could   *)
(* not run is one that is not heard.  The plan is a function of the         *)
(* templates: [vmid, storage, overwrite].                                   *)
(***************************************************************************)
EXTENDS Integers, FiniteSets, FiniteSetsExt

CONSTANTS
    Templates,      \* the templates of the registry
    Vmids,          \* the VMIDs that matter, naturals
    Storages,       \* the names of storages a user may give
    Accepted,       \* the VMIDs qm create accepts
    ImageSize,      \* [Templates -> Nat], the compressed images as they are downloaded
    VirtualSize,    \* [Templates -> Nat], the disks when they are full
    Extras,         \* [Templates -> Nat], the cloud-init drive, and the TPM state
    DownloadLimit,  \* --download-concurrency
    InstallLimit,   \* --restore-concurrency
    Nodes           \* bound: the nodes coport may run on

ASSUME PreflightAssumption ==
    /\ ImageSize \in [Templates -> Nat] /\ Extras \in [Templates -> Nat]
    /\ VirtualSize \in [Templates -> Nat]
    /\ \A t \in Templates : ImageSize[t] <= VirtualSize[t]
    /\ DownloadLimit \in Nat \ {0} /\ InstallLimit \in Nat \ {0}

Total(size, T) == MapThenSumSet(LAMBDA t : size[t], T)

\* A node.  A storage has a row or not; guest is how a guest stands at a VMID, if one does;
\* a protected one is stopped and qm destroy refuses it all the same (its protection flag, or
\* clones of a base).  An artifact is what a HEAD of its URL says, or has no URL.
NoRow      == [type |-> "none"]
Rows       == [type : {"lvm", "lvmthin", "zfspool"}, images : BOOLEAN, active : BOOLEAN, free : Nat]
Thick      == {"lvm"}
Compress   == {"zfspool"}
Conditions == {"stopped", "protected", "running", "locked", "container", "elsewhere"}
Artifacts  == {"published", "otherLength", "noHead", "unreachable", "gone", "blank"}

NodeTypes  == [qm : BOOLEAN, pvesm : BOOLEAN, root : BOOLEAN, bridge : BOOLEAN,
               row      : [Storages -> Rows \cup {NoRow}],
               temp     : [free : Nat, writable : BOOLEAN],
               guest    : [Vmids -> Conditions],
               artifact : [Templates -> Artifacts]]

ASSUME NodesAssumption == Nodes \subseteq NodeTypes

\* The probes that may fail: pvesm status, the same for the images, the link that names the
\* local node, the directories of the guests, statfs, and the HEAD requests.
Probes == {"storages", "images", "localNode", "guests", "free", "artifacts"}

Error(check, about)   == [severity |-> "error", check |-> check, about |-> about]
Warning(check, about) == [severity |-> "warning", check |-> check, about |-> about]
FindingIf(condition, finding) == IF condition THEN {finding} ELSE {}

-----------------------------------------------------------------------------
(* Storages.                                                                *)

Used(items)       == {items[t].storage : t \in DOMAIN items}
On(items, s)      == {t \in DOMAIN items : items[t].storage = s}

\* The storage table: unknown when there is no pvesm, it failed or it listed nothing.  When only the
\* second call failed, no storage counts as capable of images.
Unknown == [all |-> {}, imageCapable |-> {}]
ProbeStorages(node, heard) ==
    LET all == {s \in Storages : node.row[s] # NoRow}
    IN  IF ~node.pvesm \/ "storages" \notin heard \/ all = {} THEN Unknown
        ELSE [all |-> all,
              imageCapable |-> IF "images" \in heard THEN {s \in all : node.row[s].images} ELSE {}]

StorageProblem(s, node, table) ==
    \/ s \notin table.all
    \/ s \notin table.imageCapable
    \/ ~node.row[s].active

\* From what is downloaded to what the disks may grow to.
StorageDemand(T) ==
    [download |-> Total(ImageSize, T) + Total(Extras, T),
     virtual  |-> Total(VirtualSize, T) + Total(Extras, T)]

\* Mutant: a thick storage is judged by what is downloaded.
CapacityThin(row, demand) ==
    IF row.free < demand.download
    THEN {IF row.type \in Compress THEN Warning("capacity", row) ELSE Error("capacity", row)}
    ELSE FindingIf(row.free < demand.virtual, Warning("capacity", row))

\* A thick storage reserves the disks in full, the others take what the images expand to.
Capacity(row, demand) ==
    IF row.type \in Thick
    THEN FindingIf(row.free < demand.virtual, Error("capacity", row))
    ELSE IF row.free < demand.download
    THEN {IF row.type \in Compress THEN Warning("capacity", row) ELSE Error("capacity", row)}
    ELSE FindingIf(row.free < demand.virtual, Warning("capacity", row))

CheckStorages(items, node, table) ==
    UNION {IF StorageProblem(s, node, table) THEN {Error("storage", s)}
           ELSE Capacity(node.row[s], StorageDemand(On(items, s))) : s \in Used(items)}

-----------------------------------------------------------------------------
(* Tooling, VMIDs, temp space, bridge, artifacts.                           *)

\* What is on the PATH, not what it answers.
CheckTooling(node) ==
    FindingIf(~node.qm, Error("tooling", "qm"))
        \cup FindingIf(~node.root, Error("tooling", "root"))
        \cup FindingIf(node.qm /\ ~node.pvesm, Warning("tooling", "pvesm"))

\* What is found of the guest at v; the node directories show one wherever in the cluster.
ProbeGuest(v, taken, node, heard) ==
    IF v \in taken /\ "guests" \in heard THEN node.guest[v] ELSE "none"

\* Mutant: without the name of the local node every guest counts as remote.
UnreplaceableAnywhere(guest, heard) ==
    \/ guest = "container"
    \/ guest = "elsewhere"
    \/ guest # "none" /\ "localNode" \notin heard
    \/ guest \in {"running", "locked"}

\* Why qm destroy would refuse the guest that --overwrite is to replace.
Unreplaceable(guest, heard) ==
    \/ guest = "container"
    \/ guest = "elsewhere" /\ "localNode" \in heard
    \/ guest \in {"running", "locked"}

CheckVmids(items, taken, node, heard) ==
    {Error("vmid", t) : t \in {u \in DOMAIN items :
        \/ items[u].vmid \notin Accepted
        \/ /\ items[u].overwrite
           /\ Unreplaceable(ProbeGuest(items[u].vmid, taken, node, heard), heard)}}

\* The largest images, as many as are downloading or importing at once.
PeakTemp(T) ==
    LET most == DownloadLimit + InstallLimit
        few  == {U \in SUBSET T : Cardinality(U) <= most}
    IN  Max({Total(ImageSize, U) : U \in few})

CheckTemp(T, node, heard) ==
    LET free == node.temp.free
    IN  FindingIf(~node.temp.writable, Error("temp", "writable"))
        \cup IF "free" \notin heard THEN {}
             ELSE IF \E t \in T : free < ImageSize[t] THEN {Error("temp", "free")}
             ELSE FindingIf(free < PeakTemp(T), Warning("temp", "free"))

CheckBridge(node) == FindingIf(~node.bridge, Warning("bridge", "missing"))

\* Without a URL the request fails as one that reaches nobody.
ProbeArtifact(t, node, heard) ==
    IF "artifacts" \in heard /\ node.artifact[t] # "blank" THEN node.artifact[t] ELSE "unreachable"

\* Only a definite answer that the artifact is not there is an error.
CheckArtifacts(T, node, heard) ==
    LET answers(a) == {t \in T : ProbeArtifact(t, node, heard) = a}
    IN  {Error("artifact", t) : t \in answers("gone")}
        \cup {Warning("artifact", t) : t \in answers("unreachable") \cup answers("otherLength")}

Preflight(items, taken, node, heard) ==
    LET table == ProbeStorages(node, heard)
    IN  CheckTooling(node)
        \cup (IF table = Unknown THEN {} ELSE CheckStorages(items, node, table))
        \cup CheckVmids(items, taken, node, heard)
        \cup CheckTemp(DOMAIN items, node, heard)
        \cup CheckBridge(node)
        \cup CheckArtifacts(DOMAIN items, node, heard)

\* The findings that abort the run.
Errors(findings) == {f \in findings : f.severity = "error"}

-----------------------------------------------------------------------------
(* What it judges: every plan, with every set of VMIDs that are taken.      *)

Plan  == [vmid : Vmids, storage : Storages, overwrite : BOOLEAN]
Plans == (UNION {[T -> Plan] : T \in (SUBSET Templates) \ {{}}}) \X SUBSET Vmids

\* The plans that meet a condition, enumerated (once, the condition being constant).
PlansWhere(P(_, _)) == UNION {IF P(p[1], p[2]) THEN {p} ELSE {} : p \in Plans}

\* The plans that are refused on some node.
Refusable ==
    PlansWhere(LAMBDA items, taken :
        \E node \in Nodes : Errors(Preflight(items, taken, node, Probes)) # {})

\* What a template may take on a storage: all of its disks, what its images expand to, or
\* less than that where the storage compresses.
Full(t) == VirtualSize[t] + Extras[t]
Takes(t, row) == IF row.type \in Thick THEN {Full(t)}
                 ELSE IF row.type \in Compress THEN 0..Full(t)
                 ELSE ImageSize[t] + Extras[t]..Full(t)
Sizes(items, node) ==
    {size \in [DOMAIN items -> 0..Max({Full(t) : t \in DOMAIN items})] :
        \A t \in DOMAIN items : size[t] \in Takes(t, node.row[items[t].storage])}

\* The guests that are to be replaced.
Replaced(items, taken) == {items[t].vmid : t \in {u \in DOMAIN items : items[u].overwrite}} \cap taken

\* What the preflight cannot know: the sizes, which images their servers serve (a HEAD that
\* says they do or do not is true), and which are on disk when most are.
Outcomes(items, node) ==
    [size     : Sizes(items, node),
     served   : {T \in SUBSET DOMAIN items : \A t \in DOMAIN items :
                    /\ node.artifact[t] = "published" => t \in T
                    /\ node.artifact[t] \in {"gone", "blank"} => t \notin T},
     resident : SUBSET DOMAIN items]

\* No more images are on disk than downloads and imports have permits (those that wait for
\* an import are more), and a server that does not answer HEAD serves what is asked of it.
Expected(outcome, items, node) ==
    /\ Cardinality(outcome.resident) <= DownloadLimit + InstallLimit
    /\ \A t \in DOMAIN items : node.artifact[t] = "noHead" => t \in outcome.served

\* Whether the node, as it stands, brings the plan to its end.
Installs(items, taken, node, outcome) ==
    /\ node.qm /\ node.root /\ node.temp.writable
    /\ Total(ImageSize, outcome.resident) <= node.temp.free
    /\ \A t \in DOMAIN items :
         /\ items[t].vmid \in Accepted
         /\ items[t].vmid \in taken => items[t].overwrite
         /\ \A u \in DOMAIN items \ {t} : items[u].vmid # items[t].vmid
         /\ ImageSize[t] <= node.temp.free
         /\ t \in outcome.served
    /\ \A v \in Replaced(items, taken) : node.guest[v] = "stopped"
    /\ \A s \in Used(items) :
         /\ node.row[s] # NoRow /\ node.row[s].images /\ node.row[s].active
         /\ Total(outcome.size, On(items, s)) <= node.row[s].free

\* What no check looks at: storages without a pvesm that lists some, a VMID that two items
\* share, one that is taken and not to be overwritten, a guest that is protected; and for a
\* URL that is blank it only warns.
Unseen(items, taken, node) ==
    \/ ~node.pvesm \/ \A s \in Storages : node.row[s] = NoRow
    \/ \E t, u \in DOMAIN items : t # u /\ items[t].vmid = items[u].vmid
    \/ \E t \in DOMAIN items :
         \/ /\ items[t].vmid \in taken
            /\ items[t].overwrite => node.guest[items[t].vmid] = "protected"
         \/ node.artifact[t] = "blank"

Judges(items, taken, node) ==
    LET found == Preflight(items, taken, node, Probes)
        can   == \E outcome \in Outcomes(items, node) : Installs(items, taken, node, outcome)
    IN  /\ found = {} /\ ~Unseen(items, taken, node) =>
              \A outcome \in Outcomes(items, node) :
                 Expected(outcome, items, node) => Installs(items, taken, node, outcome)
        /\ Errors(found) = {} /\ ~Unseen(items, taken, node) => can
        /\ can /\ Replaced(items, taken) = {} => Errors(found) = {}

JudgedRight == PlansWhere(LAMBDA items, taken : \A node \in Nodes : Judges(items, taken, node))

OpenToSilence ==
    PlansWhere(LAMBDA items, taken :
        \A node \in Nodes, silent \in Probes \ {"images"} :
            Errors(Preflight(items, taken, node, Probes \ {silent}))
                \subseteq Errors(Preflight(items, taken, node, Probes)))
=============================================================================
