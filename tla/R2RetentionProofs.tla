-------------------------- MODULE R2RetentionProofs --------------------------
(***************************************************************************)
(* For any templates, builds and number of prunes, and any Keep: what the  *)
(* bucket's sidecars and the registry name is stored until a prune may     *)
(* take it, and a publish never takes a template back.                     *)
(***************************************************************************)
EXTENDS R2Retention, Integers, FiniteSetTheorems, TLAPS

-----------------------------------------------------------------------------
(* The invariant.                                                           *)

\* The sidecars of a template differ in key and in age.
Distinct(X) ==
  \A s, o \in X : s.of = o.of /\ (s.key = o.key \/ s.at = o.at) => s = o

SidecarsTrue ==
  /\ IsFiniteSet(sidecars) /\ Distinct(sidecars)
  /\ \A s \in sidecars : s.at <= stored[s.of]

\* X was read from the bucket: the sidecars that are there now are no older than
\* those of X, and only a hasty prune leaves no sidecar as new.
Past(X) ==
  /\ IsFiniteSet(X) /\ Distinct(X)
  /\ \A x \in X :
       /\ x.at <= stored[x.of]
       /\ \A s \in sidecars : s.of = x.of /\ s.key = x.key => s.at >= x.at
       /\ x.of \in hasty \/ \E s \in sidecars : s.of = x.of /\ s.at >= x.at

PastsTrue ==
  /\ Past(job.listed) /\ Past(job.registry) /\ Past(mirror)
  /\ \A p \in Pruner : Past(prune[p].read)

There == images \cup swept

\* An upload at work has stored the images it has put.
UploadsTrue ==
  /\ \A t \in Template :
       /\ export[t] \in Artifact => built[t] \in Direct
       /\ export[t] = "efivars" => Image(t, "system", built[t]) \in There
       /\ export[t] \in {"write", "sidecar"} /\ built[t] \in Direct
            => Images(t, built[t]) \subseteq There
  /\ up.phase = "efivars" => Image(up.of, "system", up.gen) \in There
  /\ up.phase = "sidecar" => Images(up.of, up.gen) \subseteq There

\* The images of an entry are there and its sidecar names them, unless it is
\* excused.
Stands(e) ==
  \/ e.is # e.key \/ e.of \in hasty \/ OtherBody(e)
  \/ stored[e.of] - e.at >= Keep
  \/ /\ Images(e.of, e.is) \subseteq There
     /\ \E s \in sidecars : s.of = e.of /\ s.key = e.key

EntriesTrue == \A e \in job.registry \cup mirror : e.url /\ Stands(e)

\* A plan spares what the generations it keeps name, and all others are stale.
PlanTrue(plan) ==
  plan.phase = "delete" =>
    /\ plan.images \cap Named(Live(plan.read)) = {}
    /\ plan.stale \subseteq plan.read \ Live(plan.read)
    /\ sidecars \cap plan.read \subseteq Live(plan.read) \cup plan.stale

\* What is to be published is as new as what is, but for the excused templates.
AsNew(X, excused) ==
  \A e \in mirror : e.of \in excused \/ \E x \in X : x.of = e.of /\ x.at >= e.at

BucketInv ==
  /\ TypeOK /\ SidecarsTrue /\ PastsTrue /\ UploadsTrue
  /\ SidecarsWhole /\ EntriesTrue
  /\ \A p \in Pruner : PlanTrue(prune[p])
  /\ job.phase = "fetch" => AsNew(job.listed, hasty)
  /\ job.phase = "push" => AsNew(job.registry, hasty \cup job.skipped)

-----------------------------------------------------------------------------
(* What listing, fetching and planning do.                                  *)

\* What is listed now is past.
LEMMA ListedIsPast ==
  ASSUME BucketType, SidecarsTrue, NEW X, X \subseteq sidecars
  PROVE  Past(X)
<1>1. IsFiniteSet(X)
  BY FS_Subset DEF SidecarsTrue
<1>2. ASSUME NEW x \in X PROVE
        /\ x.at <= stored[x.of]
        /\ \A s \in sidecars : s.of = x.of /\ s.key = x.key => s.at >= x.at
        /\ \E s \in sidecars : s.of = x.of /\ s.at >= x.at
  <2>1. x \in sidecars
    OBVIOUS
  <2> x \in Sidecar
    BY <2>1 DEF BucketType
  <2>2. x.at \in Nat /\ x.at >= x.at
    BY DEF Sidecar
  <2>3. QED
    BY <2>1, <2>2 DEF SidecarsTrue, Distinct
<1>3. QED
  BY <1>1, <1>2 DEF Past, SidecarsTrue, Distinct

\* A sidecar that was replaced or deleted is past, and so are fewer of them.
LEMMA FewerArePast ==
  ASSUME NEW X, Past(X), NEW Y, Y \subseteq X
  PROVE  Past(Y)
  BY FS_Subset DEF Past, Distinct

Fetchable(L) == {x \in L : \E s \in sidecars : s.of = x.of /\ s.key = x.key}

Body(x) == (CHOOSE s \in sidecars : s.of = x.of /\ s.key = x.key).is

\* What is fetched keeps its key and its age, and has the body of now.
LEMMA FetchedBodies ==
  ASSUME BucketType, NEW L, L \subseteq Sidecar, NEW f \in Fetched(L)
  PROVE  /\ f \in Sidecar
         /\ \E x \in L : f = [x EXCEPT !.is = f.is]
         /\ \E s \in sidecars : s.of = f.of /\ s.key = f.key /\ s.is = f.is
<1>1. PICK x \in Fetchable(L) : f = [x EXCEPT !.is = Body(x)]
  BY DEF Fetched, Fetchable, Body
<1>2. /\ (CHOOSE s \in sidecars : s.of = x.of /\ s.key = x.key) \in sidecars
      /\ \E s \in sidecars : s.of = x.of /\ s.key = x.key /\ s.is = Body(x)
  BY <1>1 DEF Fetchable, Body
<1>3. x \in Sidecar /\ Body(x) \in Build
  BY <1>1, <1>2 DEF Fetchable, Body, BucketType, Sidecar
<1>4. QED
  BY <1>1, <1>2, <1>3 DEF Fetchable, Sidecar

\* A sidecar that is there is fetched as it is.
LEMMA FetchedAsTheyAre ==
  ASSUME BucketType, NEW L, L \subseteq Sidecar, NEW x \in L,
         \E s \in sidecars : s.of = x.of /\ s.key = x.key
  PROVE  [x EXCEPT !.is = Body(x)] \in Fetched(L)
  BY DEF Fetched, Body

\* Of what was fetched, what does not parse is skipped.
LEMMA PublishFetches ==
  ASSUME JobType, PublishFetch
  PROVE  \E template \in BOOLEAN, unfit \in SUBSET Fetched(job.listed) :
           /\ job.phase = "fetch" /\ ~ Missing(job.listed)
           /\ DisksMissingUrls(Assembled(Fetched(job.listed) \ unfit, template)) = {}
           /\ job' = [job EXCEPT !.phase = "push", !.listed = {},
                                 !.registry = Assembled(Fetched(job.listed) \ unfit, template),
                                 !.skipped = {f.of : f \in unfit}]
<1>1. PICK template \in BOOLEAN, unfit \in SUBSET {f \in Fetched(job.listed) : f.of \in Unfit} :
        LET registry == Assembled(Fetched(job.listed) \ unfit, template) IN
        /\ ~Missing(job.listed) /\ DisksMissingUrls(registry) = {}
        /\ job' = [job EXCEPT !.phase = "push", !.listed = {}, !.registry = registry,
                              !.skipped = {f.of : f \in unfit}]
  BY DEF PublishFetch
<1>2. unfit \in SUBSET Fetched(job.listed) /\ job.phase = "fetch"
  BY DEF PublishFetch
<1>3. QED
  BY <1>1, <1>2

LEMMA FetchedIsFinite ==
  ASSUME NEW L, IsFiniteSet(L)
  PROVE  IsFiniteSet(Fetched(L)) /\ Cardinality(Fetched(L)) <= Cardinality(Fetchable(L))
<1> DEFINE fetch == [x \in Fetchable(L) |-> [x EXCEPT !.is = Body(x)]]
<1>1. IsFiniteSet(Fetchable(L))
  BY FS_Subset DEF Fetchable
<1>2. Fetched(L) = {fetch[x] : x \in Fetchable(L)}
  BY DEF Fetched, Fetchable, Body
<1>3. fetch \in Surjection(Fetchable(L), Fetched(L))
  BY <1>2 DEF Surjection
<1>4. QED
  BY <1>1, <1>3, FS_Surjection

LEMMA FetchedIsPast ==
  ASSUME BucketType, NEW L, L \subseteq Sidecar, Past(L)
  PROVE  Past(Fetched(L))
<1>1. IsFiniteSet(Fetched(L))
  BY FetchedIsFinite DEF Past
<1>2. ASSUME NEW f \in Fetched(L)
      PROVE  \E x \in L : f = [x EXCEPT !.is = f.is] /\ f.of = x.of /\ f.key = x.key
                          /\ f.at = x.at
  BY FetchedBodies DEF Sidecar
<1>3. ASSUME NEW f \in Fetched(L), NEW g \in Fetched(L),
             f.of = g.of, f.key = g.key \/ f.at = g.at
      PROVE  f = g
  <2>1. PICK x \in Fetchable(L) : f = [x EXCEPT !.is = Body(x)]
    BY DEF Fetched, Fetchable, Body
  <2>2. PICK y \in Fetchable(L) : g = [y EXCEPT !.is = Body(y)]
    BY DEF Fetched, Fetchable, Body
  <2>3. x \in L /\ y \in L /\ x \in Sidecar /\ y \in Sidecar
    BY DEF Fetchable
  <2>4. x = y
    BY <1>3, <2>1, <2>2, <2>3 DEF Past, Distinct, Sidecar
  <2>5. QED
    BY <2>1, <2>2, <2>4
<1>4. QED
  BY <1>1, <1>2, <1>3 DEF Past, Distinct

\* Nothing is missing: whatever was listed is fetched.
LEMMA NothingMissing ==
  ASSUME NEW L, IsFiniteSet(L), ~ Missing(L)
  PROVE  Fetchable(L) = L
<1>1. IsFiniteSet(Fetchable(L)) /\ Cardinality(Fetchable(L)) <= Cardinality(L)
      /\ (Cardinality(L) = Cardinality(Fetchable(L)) => L = Fetchable(L))
  BY FS_Subset DEF Fetchable
<1>2. /\ Cardinality(L) \in Nat /\ Cardinality(Fetchable(L)) \in Nat
      /\ Cardinality(Fetched(L)) \in Nat
  BY <1>1, FetchedIsFinite, FS_CardinalityType
<1>3. Cardinality(Fetched(L)) = Cardinality(L)
  BY DEF Missing
<1>4. QED
  BY <1>1, <1>2, <1>3, FetchedIsFinite

\* Those that are newer in a list differ in age, so that there are no more of
\* them than were stored since.
LEMMA NewerAreCounted ==
  ASSUME BucketType, NEW R, R \subseteq Sidecar, Past(R), NEW s \in R
  PROVE  /\ IsFiniteSet(Newer(R, s)) /\ Cardinality(Newer(R, s)) \in Nat
         /\ Cardinality(Newer(R, s)) <= stored[s.of] - s.at
<1> DEFINE N == Newer(R, s)
           ages == s.at + 1 .. stored[s.of]
           age == [o \in N |-> o.at]
<1>1. s.at \in Nat /\ stored[s.of] \in Nat /\ s.at <= stored[s.of]
  BY DEF BucketType, Sidecar, Past
<1>2. IsFiniteSet(ages) /\ Cardinality(ages) = stored[s.of] - s.at
  <2>1. s.at + 1 \in Int /\ stored[s.of] \in Int
    BY <1>1
  <2>2. /\ IsFiniteSet(s.at + 1 .. stored[s.of])
        /\ Cardinality(s.at + 1 .. stored[s.of]) =
             IF s.at + 1 > stored[s.of] THEN 0 ELSE stored[s.of] - (s.at + 1) + 1
    BY <2>1, FS_Interval
  <2>3. QED
    BY <1>1, <2>2
<1>3. \A o \in N : o \in R /\ o.of = s.of /\ o.at \in ages
  BY <1>1 DEF Newer, Past, Sidecar
<1>4. age \in Injection(N, ages)
  BY <1>3 DEF Injection, IsInjective, Past, Distinct
<1>5. QED
  BY <1>2, <1>4, FS_Injection, FS_CardinalityType

\* A generation that is not kept has a newer one beside it, and Keep were
\* stored since.
LEMMA StaleIsOld ==
  ASSUME BucketType, NEW R, R \subseteq Sidecar, Past(R), NEW s \in R, s \notin Live(R)
  PROVE  /\ stored[s.of] - s.at >= Keep
         /\ \E o \in R : o.of = s.of /\ o.at > s.at
<1>1. ~ (Cardinality(Newer(R, s)) < Keep)
  BY DEF Live
<1>2. Keep \in Nat \ {0}
  BY RetentionAssumption
<1>3. stored[s.of] \in Nat /\ s.at \in Nat
  BY DEF BucketType, Sidecar
<1>4. Newer(R, s) # {}
  BY <1>1, <1>2, FS_EmptySet
<1>5. Cardinality(Newer(R, s)) \in Nat /\ Cardinality(Newer(R, s)) <= stored[s.of] - s.at
  BY NewerAreCounted
<1>6. stored[s.of] - s.at >= Keep
  BY <1>1, <1>2, <1>3, <1>5
<1>7. QED
  BY <1>4, <1>6 DEF Newer

\* Of each template the newest is selected.
LEMMA NewestIsThere ==
  ASSUME NEW R, R \subseteq Sidecar, BucketType, Past(R), NEW x \in R
  PROVE  \E n \in SelectNewest(R) : n.of = x.of /\ n.at >= x.at
<1> DEFINE older == {n \in Nat : \E s \in R : s.of = x.of /\ s.at >= x.at
                                             /\ n = stored[s.of] - s.at}
           Less == OpToRel(<, Nat)
<1>1. \A a, b \in Nat : a < b => <<a, b>> \in Less
  BY DEF OpToRel
<1>2. IsWellFoundedOn(Less, Nat)
  BY NatLessThanWellFounded
<1>3. \A s \in R : s.of \in Template /\ s.at \in Nat /\ stored[s.of] \in Nat
                   /\ s.at <= stored[s.of]
  BY DEF BucketType, Sidecar, Past
<1>4. older \subseteq Nat /\ stored[x.of] - x.at \in older
  BY <1>3
<1> HIDE DEF Less
<1>5. PICK n \in older : \A m \in older : ~ (<<m, n>> \in Less)
  <2> HIDE DEF older
  <2> QED
    BY <1>2, <1>4, WFMin
<1>6. PICK s \in R : s.of = x.of /\ s.at >= x.at /\ n = stored[s.of] - s.at
  BY <1>5
<1>7. ASSUME NEW o \in Newer(R, s) PROVE FALSE
  <2>1. o \in R /\ o.of = s.of /\ o.at > s.at
    BY DEF Newer
  <2>2. stored[o.of] - o.at \in older /\ stored[o.of] - o.at < n
    BY <1>3, <1>6, <2>1
  <2>3. n \in Nat /\ stored[o.of] - o.at \in Nat
    BY <1>5, <2>2
  <2>4. QED
    BY <1>1, <1>5, <2>2, <2>3, Zenon
<1>8. QED
  BY <1>6, <1>7 DEF SelectNewest

-----------------------------------------------------------------------------
(* Types.                                                                   *)

LEMMA BuildsAreBuilds ==
  ASSUME SourceType, NEW t \in Template
  PROVE  built[t] \in Build /\ node[t] \in Build /\ (node[t] # 0 => 1 \in Build)
<1>1. Builds[t] \in Nat
  BY RetentionAssumption
<1>2. /\ built[t] \in 0 .. Builds[t] /\ node[t] \in 0 .. Builds[t]
      /\ node[t] # 0 => 1 \in 0 .. Builds[t]
  BY <1>1 DEF SourceType
<1>3. QED
  BY <1>2 DEF Build

LEMMA OneIsABuild ==
  ASSUME SourceType, NEW t \in Template, coming[t].files # {}
  PROVE  1 \in Build
<1>1. coming[t].gen \in Build \ {0}
  BY DEF SourceType
<1>2. PICK u \in Template : coming[t].gen \in 1 .. Builds[u]
  BY <1>1, RetentionAssumption DEF Build
<1>3. QED
  BY <1>2, RetentionAssumption DEF Build

LEMMA ImageType ==
  ASSUME NEW t \in Template, NEW d \in Disk, NEW n \in Build
  PROVE  Image(t, d, n) \in AllImages
  BY RetentionAssumption DEF Image, Hash, AllImages

LEMMA SourceTypes ==
  ASSUME TypeOK, [Next]_vars
  PROVE  SourceType'
<1> SourceType
  BY DEF TypeOK
<1>1. ASSUME NEW t \in Template, BuildBegin(t) PROVE SourceType'
  <2>1. 0 <= built[t] /\ built[t] <= Builds[t]
    BY DEF SourceType
  <2>2. QED
    BY <1>1, <2>1 DEF SourceType, BuildBegin, Exporting
<1>2. ASSUME NEW t \in Template, ExportDisks(t) PROVE SourceType'
  <2> built[t] \in Nat /\ node[t] \in Nat /\ Builds[t] \in Nat /\ node[t] <= built[t]
    BY RetentionAssumption DEF SourceType
  <2>1. built[t] + 1 <= Builds[t] /\ node[t] <= built[t] + 1
    BY <1>2 DEF ExportDisks, SourceType
  <2>2. built' = [built EXCEPT ![t] = built[t] + 1]
    BY <1>2 DEF ExportDisks
  <2>3. export' \in [Template -> {"idle", "build", "system", "efivars", "write", "sidecar"}]
    BY <1>2 DEF SourceType, ExportDisks, Exporting
  <2>4. built' \in [Template -> Nat]
        /\ \A u \in Template : node[u] <= built'[u] /\ built'[u] <= Builds[u]
    BY <2>1, <2>2 DEF SourceType
  <2>5. \A u \in Template : export'[u] = "build" => built'[u] < Builds[u]
    BY <1>2, <2>2 DEF SourceType, ExportDisks, Exporting
  <2>6. QED
    BY <1>2, <2>3, <2>4, <2>5 DEF SourceType, ExportDisks
<1>3. ASSUME NEW t \in Template, ExportUpload(t) \/ ExportSidecar(t) \/ ExportFails(t)
      PROVE  SourceType'
  BY <1>3 DEF SourceType, ExportUpload, ExportSidecar, ExportFails, Exporting
<1>4. ASSUME NEW t \in Template, ExportWrites(t) PROVE SourceType'
  BY <1>4 DEF SourceType, ExportWrites, Exporting
<1>5. ASSUME NEW t \in Template, SyncLink(t) PROVE SourceType'
  BY <1>5, BuildsAreBuilds DEF SourceType, SyncLink
<1>6. ASSUME NEW t \in Template, SyncRename(t) PROVE SourceType'
  <2>1. PICK a \in coming[t].files :
          /\ local' = [local EXCEPT ![t][a] = Kept(a, coming[t].gen)]
          /\ coming' = [coming EXCEPT ![t].files = @ \ {a}]
    BY <1>6 DEF SyncRename
  <2>2. coming[t] \in [gen : Build, files : SUBSET Artifact]
    BY DEF SourceType
  <2>3. a \in Artifact /\ Kept(a, coming[t].gen) \in Build
    BY <2>2, OneIsABuild DEF SourceType, Kept
  <2>4. local' \in [Template -> [Artifact -> Build]]
    BY <2>1, <2>3 DEF SourceType
  <2>5. coming' \in [Template -> [gen : Build, files : SUBSET Artifact]]
    BY <2>1, <2>2 DEF SourceType
  <2>6. \A u \in Template : coming'[u].files # {} => coming'[u].gen # 0
    BY <2>1, <2>2 DEF SourceType
  <2>7. QED
    BY <1>6, <2>4, <2>5, <2>6 DEF SourceType, SyncRename
<1>7. ASSUME NEW t \in Template, SyncFails(t) PROVE SourceType'
  BY <1>7 DEF SourceType, SyncFails
<1>8. CASE UNCHANGED source
  BY <1>8 DEF source, SourceType
<1>9. QED
  BY <1>1, <1>2, <1>3, <1>4, <1>5, <1>6, <1>7, <1>8 DEF Next, vars, source, bucket, history, PutImage, PutSidecar,
     BuildBegin, ExportDisks, ExportUpload, ExportWrites, ExportSidecar, ExportFails,
     SyncLink, SyncRename, SyncFails, LoadSidecars, CheckArtifacts, UploadDisk,
     UploadSidecar, UploadFails, PublishList, PublishFetch, Mirror, JobFails,
     PruneList, PruneRead, PruneSidecar, PruneImage, PruneEnds

LEMMA PutTypes ==
  ASSUME BucketType, NEW t \in Template, NEW key \in Build, NEW is \in Build,
         PutSidecar(t, key, is), UNCHANGED mirror
  PROVE  BucketType'
<1>1. stored[t] \in Nat
  BY DEF BucketType
<1>2. stored' \in [Template -> Nat]
  BY <1>1 DEF PutSidecar, BucketType
<1>3. [of |-> t, key |-> key, is |-> is, at |-> stored[t] + 1] \in Sidecar
  BY <1>1 DEF Sidecar
<1>4. QED
  BY <1>2, <1>3 DEF PutSidecar, BucketType, history

\* An upload that has come to the sidecar finds a file there.
LEMMA SidecarInHand ==
  ASSUME SourceType, UploadType, UploadSidecar
  PROVE  up.of \in Template /\ up.gen \in Build /\ SidecarAt(up.of) \in Build
<1>1. up.of \in Template /\ up.gen \in Build
  BY DEF UploadSidecar, UploadType, Artifact
<1>2. \A t \in Template : SidecarAt(t) \in Build
  BY BuildsAreBuilds DEF SidecarAt, SourceType, Artifact
<1>3. QED
  BY <1>1, <1>2

LEMMA BucketTypes ==
  ASSUME TypeOK, [Next]_vars
  PROVE  BucketType'
<1> SourceType /\ BucketType /\ UploadType /\ JobType /\ prune \in [Pruner -> PlanType]
  BY DEF TypeOK
<1>1. ASSUME NEW t \in Template, ExportUpload(t) PROVE BucketType'
  <2>1. Image(t, export[t], built[t]) \in AllImages
    BY <1>1, BuildsAreBuilds, ImageType DEF ExportUpload
  <2>2. QED
    BY <1>1, <2>1 DEF BucketType, ExportUpload, PutImage
<1>2. CASE UploadDisk
  <2>1. Image(up.of, up.phase, up.gen) \in AllImages
    BY <1>2, ImageType DEF UploadDisk, UploadType, Artifact
  <2>2. QED
    BY <1>2, <2>1 DEF BucketType, UploadDisk, PutImage
<1>3. ASSUME NEW t \in Template, ExportSidecar(t) PROVE BucketType'
  BY <1>3, PutTypes, BuildsAreBuilds DEF ExportSidecar
<1>4. CASE UploadSidecar
  <2>1. up.of \in Template /\ up.gen \in Build /\ SidecarAt(up.of) \in Build
    BY <1>4, SidecarInHand
  <2>2. QED
    BY <1>4, <2>1, PutTypes DEF UploadSidecar
<1>5. CASE Mirror
  BY <1>5 DEF BucketType, Mirror, JobType, bucket, history
<1>6. ASSUME NEW p \in Pruner, PruneSidecar(p) PROVE BucketType'
  <2>1. PICK s \in prune[p].stale : hasty' \subseteq hasty \cup {s.of}
    BY <1>6 DEF PruneSidecar
  <2>2. s.of \in Template
    BY <2>1 DEF PlanType, Sidecar
  <2>3. sidecars' \subseteq sidecars
    BY <1>6 DEF PruneSidecar
  <2>4. QED
    BY <1>6, <2>1, <2>2, <2>3 DEF BucketType, PruneSidecar
<1>7. ASSUME NEW p \in Pruner, PruneImage(p) PROVE BucketType'
  BY <1>7 DEF BucketType, PruneImage
<1>8. CASE UNCHANGED <<bucket, mirror, history>>
  BY <1>8 DEF bucket, history, BucketType
<1>9. QED
  BY <1>1, <1>2, <1>3, <1>4, <1>5, <1>6, <1>7, <1>8 DEF Next, vars, source, bucket, history, PutImage, PutSidecar,
     BuildBegin, ExportDisks, ExportUpload, ExportWrites, ExportSidecar, ExportFails,
     SyncLink, SyncRename, SyncFails, LoadSidecars, CheckArtifacts, UploadDisk,
     UploadSidecar, UploadFails, PublishList, PublishFetch, Mirror, JobFails,
     PruneList, PruneRead, PruneSidecar, PruneImage, PruneEnds

\* After an item comes the next, if there is one, and no template is at hand.
LEMMA AfterType ==
  ASSUME UploadType, NEW items, items \subseteq Template \X Build
  PROVE  /\ After(items).phase \in {"idle", "next"}
         /\ After(items) \in [phase : {"idle", "next"} \cup Artifact, of : Template \cup {""},
                              items : SUBSET (Template \X Build), gen : Build \cup {0}]
  BY DEF After, NoUpload, UploadType

LEMMA UploadTypes ==
  ASSUME TypeOK, [Next]_vars
  PROVE  UploadType'
<1> SourceType /\ UploadType
  BY DEF TypeOK
<1>1. CASE LoadSidecars
  <2>1. \A t \in Template : <<t, SidecarAt(t)>> \in Template \X Build
    BY BuildsAreBuilds DEF SidecarAt, SourceType, Artifact
  <2>2. PICK found \in SUBSET Template :
          up' = [phase |-> "next", of |-> "", gen |-> 0,
                 items |-> {<<t, SidecarAt(t)>> : t \in found}]
    BY <1>1 DEF LoadSidecars
  <2> DEFINE items == {<<t, SidecarAt(t)>> : t \in found}
  <2>3. items \subseteq Template \X Build
    BY <2>1
  <2> HIDE DEF items
  <2>4. QED
    BY <2>2, <2>3 DEF UploadType, Artifact, Disk, items
<1>2. CASE CheckArtifacts
  <2>1. PICK i \in up.items :
          up' = IF \A d \in Disk : ImageAt(i[1], d)
                THEN [up EXCEPT !.phase = "system", !.items = @ \ {i},
                                !.of = i[1], !.gen = i[2]]
                ELSE After(up.items \ {i})
    BY <1>2 DEF CheckArtifacts
  <2>2. i[1] \in Template /\ i[2] \in Build
    BY <2>1 DEF UploadType
  <2>3. QED
    BY <2>1, <2>2, AfterType DEF UploadType, Artifact, Disk
<1>3. CASE UploadDisk
  <2>1. up.items \subseteq Template \X Build /\ up.of \in Template /\ up.gen \in Build
    BY <1>3 DEF UploadDisk, UploadType, Artifact
  <2>2. CASE up' \in {[up EXCEPT !.phase = "efivars"], [up EXCEPT !.phase = "sidecar"]}
    BY <2>1, <2>2 DEF UploadType, Artifact, Disk
  <2>3. CASE up' = After(up.items)
    BY <2>1, <2>3, AfterType DEF UploadType, Artifact, Disk
  <2>4. QED
    BY <1>3, <2>2, <2>3 DEF UploadDisk
<1>4. CASE UploadSidecar \/ UploadFails
  <2>1. up.items \subseteq Template \X Build /\ up' = After(up.items)
    BY <1>4 DEF UploadSidecar, UploadFails, UploadType
  <2>2. QED
    BY <2>1, AfterType DEF UploadType, Artifact, Disk
<1>5. CASE UNCHANGED up
  BY <1>5 DEF UploadType
<1>6. QED
  BY <1>1, <1>2, <1>3, <1>4, <1>5 DEF Next, vars, source, bucket, history, PutImage, PutSidecar,
     BuildBegin, ExportDisks, ExportUpload, ExportWrites, ExportSidecar, ExportFails,
     SyncLink, SyncRename, SyncFails, LoadSidecars, CheckArtifacts, UploadDisk,
     UploadSidecar, UploadFails, PublishList, PublishFetch, Mirror, JobFails,
     PruneList, PruneRead, PruneSidecar, PruneImage, PruneEnds

LEMMA JobTypes ==
  ASSUME TypeOK, [Next]_vars
  PROVE  JobType'
<1> BucketType /\ JobType
  BY DEF TypeOK
<1>1. CASE PublishList
  BY <1>1 DEF PublishList, BucketType, JobType
<1>2. CASE PublishFetch
  <2>1. PICK template \in BOOLEAN, unfit \in SUBSET Fetched(job.listed) :
          job' = [job EXCEPT !.phase = "push", !.listed = {},
                             !.registry = Assembled(Fetched(job.listed) \ unfit, template),
                             !.skipped = {f.of : f \in unfit}]
    BY <1>2, PublishFetches
  <2>2. Fetched(job.listed) \subseteq Sidecar
    BY FetchedBodies DEF JobType
  <2>3. Assembled(Fetched(job.listed) \ unfit, template) \subseteq Entry
    <3>1. \A x : WithUrl(x, template) \in BOOLEAN
      BY DEF WithUrl
    <3>2. QED
      BY <2>2, <3>1 DEF Assembled, SelectNewest, Sidecar, Entry
  <2>4. {f.of : f \in unfit} \subseteq Template
    BY <2>2 DEF Sidecar
  <2>5. QED
    BY <2>1, <2>3, <2>4 DEF JobType
<1>3. CASE Mirror
  BY <1>3 DEF Mirror, JobType
<1>4. CASE JobFails
  BY <1>4 DEF JobFails, NoJob, JobType
<1>5. ASSUME NEW p \in Pruner, PruneEnds(p) PROVE JobType'
  BY <1>5 DEF PruneEnds, NoJob, JobType
<1>6. CASE UNCHANGED job
  BY <1>6 DEF JobType
<1>7. QED
  BY <1>1, <1>2, <1>3, <1>4, <1>5, <1>6 DEF Next, vars, source, bucket, history, PutImage, PutSidecar,
     BuildBegin, ExportDisks, ExportUpload, ExportWrites, ExportSidecar, ExportFails,
     SyncLink, SyncRename, SyncFails, LoadSidecars, CheckArtifacts, UploadDisk,
     UploadSidecar, UploadFails, PublishList, PublishFetch, Mirror, JobFails,
     PruneList, PruneRead, PruneSidecar, PruneImage, PruneEnds

LEMMA PlanTypes ==
  ASSUME TypeOK, [Next]_vars
  PROVE  (prune \in [Pruner -> PlanType])'
<1> BucketType /\ prune \in [Pruner -> PlanType]
  BY DEF TypeOK
<1>1. ASSUME NEW p \in Pruner, PruneList(p) PROVE (prune \in [Pruner -> PlanType])'
  BY <1>1 DEF PruneList, Step, BucketType, PlanType
<1>2. ASSUME NEW p \in Pruner, PruneRead(p) PROVE (prune \in [Pruner -> PlanType])'
  <2>1. PICK unreadable \in SUBSET prune[p].read :
          LET read == Fetched(prune[p].read \ unreadable) IN
          Step(p, [phase |-> "delete", read |-> read, stale |-> read \ Live(read),
                   images |-> Orphans(prune[p].images, read)])
    BY <1>2 DEF PruneRead
  <2>2. Fetched(prune[p].read \ unreadable) \subseteq Sidecar
    BY FetchedBodies DEF PlanType
  <2>3. QED
    BY <2>1, <2>2 DEF Step, Orphans, PlanType
<1>3. ASSUME NEW p \in Pruner, PruneSidecar(p) PROVE (prune \in [Pruner -> PlanType])'
  BY <1>3 DEF PruneSidecar, Step, PlanType
<1>4. ASSUME NEW p \in Pruner, PruneImage(p) PROVE (prune \in [Pruner -> PlanType])'
  BY <1>4 DEF PruneImage, Step, PlanType
<1>5. ASSUME NEW p \in Pruner, PruneEnds(p) PROVE (prune \in [Pruner -> PlanType])'
  BY <1>5 DEF PruneEnds, Step, Nothing, PlanType
<1>6. CASE UNCHANGED prune
  BY <1>6
<1>7. QED
  BY <1>1, <1>2, <1>3, <1>4, <1>5, <1>6 DEF Next, vars, source, bucket, history, PutImage, PutSidecar,
     BuildBegin, ExportDisks, ExportUpload, ExportWrites, ExportSidecar, ExportFails,
     SyncLink, SyncRename, SyncFails, LoadSidecars, CheckArtifacts, UploadDisk,
     UploadSidecar, UploadFails, PublishList, PublishFetch, Mirror, JobFails,
     PruneList, PruneRead, PruneSidecar, PruneImage, PruneEnds

LEMMA TypeStep == TypeOK /\ [Next]_vars => TypeOK'
  BY SourceTypes, BucketTypes, UploadTypes, JobTypes, PlanTypes DEF TypeOK

-----------------------------------------------------------------------------
(* The sidecars and what was read of them.                                  *)

ASidecar(t, key, is) == [of |-> t, key |-> key, is |-> is, at |-> stored[t] + 1]

LEMMA PutSidecars ==
  ASSUME BucketType, SidecarsTrue,
         NEW t \in Template, NEW key \in Build, NEW is \in Build, PutSidecar(t, key, is)
  PROVE  /\ SidecarsTrue'
         /\ ASidecar(t, key, is) \in sidecars'
         /\ \A s \in sidecars' : s = ASidecar(t, key, is)
                                 \/ (s \in sidecars /\ ~ (s.of = t /\ s.key = key))
         /\ \A s \in sidecars : s \in sidecars' \/ (s.of = t /\ s.key = key)
         /\ \A u \in Template : stored[u] \in Nat /\ stored'[u] \in Nat
                                /\ stored'[u] >= stored[u]
<1> DEFINE new == ASidecar(t, key, is)
           rest == {s \in sidecars : ~ (s.of = t /\ s.key = key)}
<1>1. sidecars' = rest \cup {new}
  BY DEF PutSidecar, ASidecar
<1>2. IsFiniteSet(rest \cup {new})
  BY FS_Subset, FS_AddElement DEF SidecarsTrue
<1>3. /\ stored[t] \in Nat /\ stored' = [stored EXCEPT ![t] = stored[t] + 1]
      /\ stored \in [Template -> Nat]
  BY DEF PutSidecar, BucketType
<1>4. new.of = t /\ new.key = key /\ new.at = stored[t] + 1
  BY DEF ASidecar
<1>5. \A s \in rest : /\ s.of \in Template /\ s.at \in Nat /\ s.at <= stored[s.of]
                      /\ s.of = t => s.key # key /\ s.at # stored[t] + 1
  BY <1>3 DEF BucketType, Sidecar, SidecarsTrue
<1>6. \A u \in Template : stored[u] \in Nat /\ stored'[u] \in Nat /\ stored'[u] >= stored[u]
  BY <1>3
<1>7. \A a, b \in rest \cup {new} :
        a.of = b.of /\ (a.key = b.key \/ a.at = b.at) => a = b
  <2> HIDE DEF new
  <2>1. \A a, b \in rest : a.of = b.of /\ (a.key = b.key \/ a.at = b.at) => a = b
    BY DEF SidecarsTrue, Distinct
  <2>2. \A a \in rest : ~ (a.of = new.of /\ (a.key = new.key \/ a.at = new.at))
    BY <1>4, <1>5
  <2> HIDE DEF rest
  <2>3. QED
    BY <2>1, <2>2
<1>8. \A a \in rest \cup {new} : a.at <= stored'[a.of]
  <2>1. \A a \in rest : a.at <= stored'[a.of]
    BY <1>5, <1>6
  <2>2. new.at <= stored'[new.of]
    BY <1>3, <1>4
  <2> HIDE DEF new, rest
  <2>3. QED
    BY <2>1, <2>2
<1>9. SidecarsTrue'
  BY <1>1, <1>2, <1>7, <1>8 DEF SidecarsTrue, Distinct
<1> HIDE DEF new
<1>10. new \in sidecars'
  BY <1>1
<1>11. \A s \in sidecars' : s = new \/ (s \in sidecars /\ ~ (s.of = t /\ s.key = key))
  BY <1>1
<1>12. \A s \in sidecars : s \in sidecars' \/ (s.of = t /\ s.key = key)
  BY <1>1
<1>13. QED
  BY <1>6, <1>9, <1>10, <1>11, <1>12 DEF new

\* What is past stays past: when a sidecar is stored,
LEMMA PastAfterPut ==
  ASSUME BucketType, SidecarsTrue,
         NEW t \in Template, NEW key \in Build, NEW is \in Build, PutSidecar(t, key, is),
         NEW X, Past(X), \A x \in X : x.of \in Template /\ x.at \in Nat
  PROVE  Past(X)'
<1> DEFINE new == ASidecar(t, key, is)
<1>1. new.of = t /\ new.key = key /\ new.at = stored[t] + 1 /\ hasty' = hasty
  BY DEF ASidecar, PutSidecar, history
<1>2. \A s \in sidecars : s.of \in Template /\ s.at \in Nat /\ s.at <= stored[s.of]
  BY DEF BucketType, Sidecar, SidecarsTrue
<1> HIDE DEF new
<1>3. /\ new \in sidecars' /\ \A s \in sidecars' : s = new \/ s \in sidecars
      /\ \A s \in sidecars : s \in sidecars' \/ (s.of = t /\ s.key = key)
      /\ \A u \in Template : stored[u] \in Nat /\ stored'[u] \in Nat /\ stored'[u] >= stored[u]
  BY PutSidecars DEF new
<1>4. ASSUME NEW x \in X PROVE
        /\ x.at <= stored'[x.of]
        /\ \A s \in sidecars' : s.of = x.of /\ s.key = x.key => s.at >= x.at
        /\ x.of \in hasty' \/ \E s \in sidecars' : s.of = x.of /\ s.at >= x.at
  <2>1. x.of \in Template /\ x.at \in Nat /\ x.at <= stored[x.of]
    BY <1>4 DEF Past
  <2>2. x.at <= stored'[x.of]
    BY <1>3, <2>1
  <2>3. \A s \in sidecars' : s.of = x.of /\ s.key = x.key => s.at >= x.at
    BY <1>1, <1>3, <2>1 DEF Past
  <2>4. ASSUME x.of \notin hasty
        PROVE  \E s \in sidecars' : s.of = x.of /\ s.at >= x.at
    <3>1. PICK s \in sidecars : s.of = x.of /\ s.at >= x.at
      BY <2>4 DEF Past
    <3>2. CASE s \in sidecars'
      BY <3>1, <3>2
    <3>3. CASE s.of = t
      BY <1>1, <1>2, <1>3, <2>1, <3>1, <3>3
    <3>4. QED
      BY <1>3, <3>2, <3>3
  <2>5. QED
    BY <1>1, <2>2, <2>3, <2>4
<1>5. QED
  BY <1>4 DEF Past, Distinct

\* What a prune deletes is a stale sidecar it read, or its template is hasty.
LEMMA DeletedAreStale ==
  ASSUME TypeOK, SidecarsTrue, NEW p \in Pruner, Past(prune[p].read), PlanTrue(prune[p]),
         PruneSidecar(p), NEW c \in sidecars, c \notin sidecars'
  PROVE  \/ c.of \in hasty'
         \/ /\ stored[c.of] - c.at >= Keep
            /\ \E o \in prune[p].read : o.of = c.of /\ o.at > c.at
<1>1. PICK s \in prune[p].stale :
        LET there == {o \in sidecars : o.of = s.of /\ o.key = s.key} IN
        /\ sidecars' = sidecars \ there
        /\ hasty' = IF there \subseteq prune[p].read THEN hasty ELSE hasty \cup {s.of}
  BY DEF PruneSidecar
<1>2. c.of = s.of /\ c.key = s.key
  BY <1>1
<1>3. CASE c \notin prune[p].read
  BY <1>1, <1>2, <1>3
<1>4. CASE c \in prune[p].read
  <2>1. s \in prune[p].read \ Live(prune[p].read)
    BY <1>1 DEF PruneSidecar, PlanTrue
  <2>2. c = s
    BY <1>2, <1>4, <2>1 DEF Past, Distinct
  <2>3. prune[p].read \subseteq Sidecar /\ BucketType
    BY DEF TypeOK, PlanType
  <2>4. QED
    BY <2>1, <2>2, <2>3, StaleIsOld
<1>5. QED
  BY <1>3, <1>4

LEMMA DeletingShrinks ==
  ASSUME SidecarsTrue, NEW p \in Pruner, PruneSidecar(p)
  PROVE  /\ sidecars' \subseteq sidecars /\ hasty \subseteq hasty' /\ stored' = stored
         /\ images' = images /\ swept' = swept /\ SidecarsTrue'
<1>1. sidecars' \subseteq sidecars /\ hasty \subseteq hasty' /\ stored' = stored
      /\ images' = images /\ swept' = swept
  BY DEF PruneSidecar
<1>2. QED
  BY <1>1, FS_Subset DEF SidecarsTrue, Distinct

\* when one is deleted, because a newer one was read beside it,
LEMMA PastAfterDelete ==
  ASSUME TypeOK, SidecarsTrue, NEW p \in Pruner, Past(prune[p].read), PlanTrue(prune[p]),
         PruneSidecar(p), NEW X, Past(X), \A x \in X : x.of \in Template /\ x.at \in Nat
  PROVE  Past(X)'
<1>1. /\ sidecars' \subseteq sidecars /\ hasty \subseteq hasty' /\ stored' = stored
  BY DeletingShrinks
<1>2. \A s \in sidecars : s.at \in Nat
  BY DEF TypeOK, BucketType, Sidecar
<1>3. \A o \in prune[p].read : o.at \in Nat
  BY DEF TypeOK, PlanType, Sidecar
<1>4. ASSUME NEW x \in X, x.of \notin hasty'
      PROVE  \E s \in sidecars' : s.of = x.of /\ s.at >= x.at
  <2>1. PICK c \in sidecars : c.of = x.of /\ c.at >= x.at
    BY <1>1, <1>4 DEF Past
  <2>2. CASE c \in sidecars'
    BY <2>1, <2>2
  <2>3. CASE c \notin sidecars'
    <3>1. PICK o \in prune[p].read : o.of = c.of /\ o.at > c.at
      BY <1>4, <2>1, <2>3, DeletedAreStale
    <3>2. PICK d \in sidecars : d.of = o.of /\ d.at >= o.at
      BY <1>1, <1>4, <2>1, <3>1 DEF Past
    <3>3. d.of = c.of /\ d.at > c.at
      BY <1>2, <1>3, <3>1, <3>2
    <3>4. d \in sidecars'
      <4>1. PICK s \in prune[p].stale :
              sidecars' = sidecars \ {q \in sidecars : q.of = s.of /\ q.key = s.key}
        BY DEF PruneSidecar
      <4>2. c.of = s.of /\ c.key = s.key
        BY <2>3, <4>1
      <4>3. d.key # c.key
        BY <1>2, <3>3 DEF SidecarsTrue, Distinct
      <4>4. QED
        BY <4>1, <4>2, <4>3
    <3>5. x.at \in Nat /\ d.at >= x.at
      BY <1>2, <1>3, <1>4, <2>1, <3>3
    <3>6. QED
      BY <2>1, <3>3, <3>4, <3>5
  <2>4. QED
    BY <2>2, <2>3
<1>5. QED
  BY <1>1, <1>4 DEF Past, Distinct

-----------------------------------------------------------------------------
(* What a step can do to the bucket.                                        *)

\* Both uploaders store a sidecar with the key of the images they have stored.
Puts(t, key, is) ==
  /\ PutSidecar(t, key, is)
  /\ Images(t, key) \subseteq There

LEMMA SidecarsChange ==
  ASSUME TypeOK, UploadsTrue, [Next]_vars
  PROVE  \/ UNCHANGED <<sidecars, stored, hasty>>
         \/ \E t \in Template, key, is \in Build : Puts(t, key, is)
         \/ \E p \in Pruner : PruneSidecar(p)
<1>1. ASSUME NEW t \in Template, ExportSidecar(t)
      PROVE  \E key, is \in Build : Puts(t, key, is)
  <2>1. built[t] \in Build
    BY BuildsAreBuilds DEF TypeOK
  <2>2. Puts(t, built[t], built[t])
    BY <1>1 DEF ExportSidecar, Puts, UploadsTrue, Artifact
  <2>3. QED
    BY <2>1, <2>2
<1>2. CASE UploadSidecar
  <2>1. up.of \in Template /\ up.gen \in Build /\ SidecarAt(up.of) \in Build
    BY <1>2, SidecarInHand DEF TypeOK
  <2>2. Puts(up.of, up.gen, SidecarAt(up.of))
    BY <1>2 DEF UploadSidecar, Puts, UploadsTrue
  <2>3. QED
    BY <2>1, <2>2
<1>3. QED
  BY <1>1, <1>2 DEF Next, vars, source, bucket, history, PutImage,
     BuildBegin, ExportDisks, ExportUpload, ExportWrites, ExportSidecar, ExportFails,
     SyncLink, SyncRename, SyncFails, LoadSidecars, CheckArtifacts, UploadDisk,
     UploadSidecar, UploadFails, PublishList, PublishFetch, Mirror, JobFails,
     PruneList, PruneRead, PruneSidecar, PruneImage, PruneEnds

\* An image that an upload at work or a sidecar claims does not go unseen: prune
\* spares what it has read, and the history has the rest.
Claimed(k) == InFlight(k) \/ \E s \in sidecars : k \in Images(s.of, s.is)

LEMMA ClaimedStay ==
  ASSUME TypeOK, \A p \in Pruner : PlanTrue(prune[p]), [Next]_vars,
         NEW k \in There, Claimed(k)
  PROVE  k \in There'
<1>1. ASSUME NEW p \in Pruner, PruneImage(p) PROVE k \in There'
  <2>1. PICK i \in prune[p].images :
          /\ images' = images \ {i}
          /\ swept' = IF i \in images /\ (InFlight(i) \/ i \in Named(sidecars \ prune[p].read))
                      THEN swept \cup {i} ELSE swept
    BY <1>1 DEF PruneImage
  <2>2. CASE k # i \/ k \notin images
    BY <2>1, <2>2 DEF There
  <2>3. CASE k = i /\ k \in images
    <3>1. CASE InFlight(k)
      BY <2>1, <2>3, <3>1 DEF There
    <3>2. ASSUME NEW s \in sidecars, k \in Images(s.of, s.is) PROVE k \in There'
      <4>1. CASE s \in prune[p].read
        <5>1. s \in Live(prune[p].read)
          BY <1>1, <4>1 DEF PruneImage, PlanTrue
        <5>2. k \in Named(Live(prune[p].read))
          BY <3>2, <5>1 DEF Named
        <5>3. QED
          BY <1>1, <2>1, <2>3, <5>2 DEF PruneImage, PlanTrue
      <4>2. CASE s \notin prune[p].read
        <5>1. k \in Named(sidecars \ prune[p].read)
          BY <3>2, <4>2 DEF Named
        <5>2. QED
          BY <2>1, <2>3, <5>1 DEF There
      <4>3. QED
        BY <4>1, <4>2
    <3>3. QED
      BY <3>1, <3>2 DEF Claimed
  <2>4. QED
    BY <2>2, <2>3
<1>2. ASSUME NEW t \in Template, ExportUpload(t) PROVE k \in There'
  BY <1>2 DEF ExportUpload, PutImage, There
<1>3. CASE UploadDisk
  BY <1>3 DEF UploadDisk, PutImage, There
<1>4. CASE UNCHANGED <<images, swept>>
  BY <1>4 DEF There
<1>5. QED
  BY <1>1, <1>2, <1>3, <1>4 DEF Next, vars, source, bucket, history, PutSidecar,
     BuildBegin, ExportDisks, ExportUpload, ExportWrites, ExportSidecar, ExportFails,
     SyncLink, SyncRename, SyncFails, LoadSidecars, CheckArtifacts, UploadDisk,
     UploadSidecar, UploadFails, PublishList, PublishFetch, Mirror, JobFails,
     PruneList, PruneRead, PruneSidecar, PruneImage, PruneEnds

\* The images of an upload at work.
LEMMA UploadsStep ==
  ASSUME TypeOK, \A p \in Pruner : PlanTrue(prune[p]), UploadsTrue, [Next]_vars
  PROVE  UploadsTrue'
<1> DEFINE Exports(t) ==
      /\ export[t] \in Artifact => built[t] \in Direct
      /\ export[t] = "efivars" => Image(t, "system", built[t]) \in There
      /\ export[t] \in {"write", "sidecar"} /\ built[t] \in Direct
           => Images(t, built[t]) \subseteq There
    Uploads ==
      /\ up.phase = "efivars" => Image(up.of, "system", up.gen) \in There
      /\ up.phase = "sidecar" => Images(up.of, up.gen) \subseteq There
<1>1. ASSUME NEW t \in Template, export'[t] = export[t], built'[t] = built[t]
      PROVE  Exports(t)'
  <2>1. Exports(t)
    BY DEF UploadsTrue
  <2>2. ASSUME export[t] = "efivars" PROVE Image(t, "system", built[t]) \in There'
    <3>1. Claimed(Image(t, "system", built[t]))
      BY <2>1, <2>2 DEF Claimed, InFlight, Images, Disk, Artifact
    <3>2. QED
      BY <2>1, <2>2, <3>1, ClaimedStay
  <2>3. ASSUME export[t] \in {"write", "sidecar"}, built[t] \in Direct,
               NEW k \in Images(t, built[t])
        PROVE  k \in There'
    <3>1. Claimed(k)
      BY <2>3 DEF Claimed, InFlight
    <3>2. QED
      BY <2>1, <2>3, <3>1, ClaimedStay
  <2>4. Images(t, built[t])' = Images(t, built[t])
        /\ Image(t, "system", built[t])' = Image(t, "system", built[t])
    BY <1>1 DEF Images, Image
  <2>5. QED
    BY <1>1, <2>1, <2>2, <2>3, <2>4
<1>2. ASSUME NEW t \in Template, export[t] \in Disk, ExportUpload(t) PROVE Exports(t)'
  <2>1. built' = built /\ Image(t, export[t], built[t]) \in There'
        /\ export[t] \in {"system", "efivars"}
        /\ export'[t] = IF export[t] = "system" THEN "efivars" ELSE "write"
    BY <1>2 DEF ExportUpload, Exporting, PutImage, There, Disk, TypeOK, SourceType
  <2>2. built[t] \in Direct
    BY <2>1 DEF UploadsTrue, Artifact, Disk
  <2>3. CASE export[t] = "system"
    BY <2>1, <2>2, <2>3
  <2>4. CASE export[t] = "efivars"
    <3>1. Image(t, "system", built[t]) \in There
          /\ Claimed(Image(t, "system", built[t]))
      BY <2>2, <2>4 DEF UploadsTrue, Claimed, InFlight, Images, Disk
    <3>2. Images(t, built[t]) \subseteq There'
      BY <2>1, <2>4, <3>1, ClaimedStay DEF Images, Disk
    <3>3. Images(t, built[t])' = Images(t, built[t])
      BY <2>1 DEF Images, Image
    <3>4. export'[t] = "write"
      BY <2>1, <2>4
    <3>5. QED
      BY <2>1, <2>2, <3>2, <3>3, <3>4 DEF Artifact, Disk
  <2>5. QED
    BY <2>1, <2>3, <2>4
<1>3. ASSUME NEW t \in Template, BuildBegin(t) \/ ExportFails(t) \/ ExportSidecar(t)
      PROVE  Exports(t)'
  BY <1>3 DEF BuildBegin, ExportFails, ExportSidecar, Exporting, TypeOK, SourceType,
     Artifact, Disk
<1>4. ASSUME NEW t \in Template, ExportDisks(t) PROVE Exports(t)'
  <2>1. /\ built[t] \in Nat /\ built'[t] = built[t] + 1
        /\ export'[t] = IF built[t] + 1 \in Direct THEN "system" ELSE "write"
    BY <1>4 DEF ExportDisks, Exporting, TypeOK, SourceType
  <2>2. QED
    BY <2>1 DEF Artifact, Disk
<1>5. ASSUME NEW t \in Template, ExportWrites(t) PROVE Exports(t)'
  <2>1. /\ built' = built /\ images' = images /\ swept' = swept /\ export[t] = "write"
        /\ export'[t] = IF built[t] \in Direct THEN "sidecar" ELSE "idle"
    BY <1>5 DEF ExportWrites, Exporting, TypeOK, SourceType, bucket, history
  <2>2. Images(t, built[t])' = Images(t, built[t]) /\ There' = There
    BY <2>1 DEF Images, Image, There
  <2>3. QED
    BY <2>1, <2>2 DEF UploadsTrue, Artifact, Disk
<1>6. ASSUME NEW t \in Template PROVE Exports(t)'
  <2>1. ASSUME NEW u \in Template, u # t,
               \/ BuildBegin(u) \/ ExportDisks(u) \/ ExportUpload(u)
               \/ ExportWrites(u) \/ ExportSidecar(u) \/ ExportFails(u)
        PROVE  UNCHANGED <<export[t], built[t]>>
    BY <2>1 DEF BuildBegin, ExportDisks, ExportUpload, ExportWrites, ExportSidecar,
       ExportFails, Exporting, TypeOK, SourceType
  <2>2. CASE \/ BuildBegin(t) \/ ExportDisks(t) \/ ExportUpload(t)
             \/ ExportWrites(t) \/ ExportSidecar(t) \/ ExportFails(t)
    BY <1>2, <1>3, <1>4, <1>5, <2>2 DEF ExportUpload
  <2>3. CASE UNCHANGED <<export[t], built[t]>>
    BY <1>1, <2>3
  <2> HIDE DEF Exports
  <2>4. ASSUME NEW u \in Template,
               \/ BuildBegin(u) \/ ExportDisks(u) \/ ExportUpload(u)
               \/ ExportWrites(u) \/ ExportSidecar(u) \/ ExportFails(u)
        PROVE  Exports(t)'
    BY <2>1, <2>2, <2>3, <2>4
  <2>5. CASE UNCHANGED <<export, built>>
    BY <2>3, <2>5
  <2>6. QED
    BY <2>4, <2>5 DEF Next, vars, source, bucket, history,
       BuildBegin, ExportDisks, ExportUpload, ExportWrites, ExportSidecar, ExportFails,
     SyncLink, SyncRename, SyncFails, LoadSidecars, CheckArtifacts, UploadDisk,
     UploadSidecar, UploadFails, PublishList, PublishFetch, Mirror, JobFails,
     PruneList, PruneRead, PruneSidecar, PruneImage, PruneEnds
<1>7. Uploads'
  <2>1. CASE UNCHANGED up
    <3>1. ASSUME up.phase = "efivars" PROVE Image(up.of, "system", up.gen) \in There'
      <4>1. Claimed(Image(up.of, "system", up.gen))
        BY <3>1 DEF Claimed, InFlight, Images, Disk
      <4>2. QED
        BY <3>1, <4>1, ClaimedStay DEF UploadsTrue
    <3>2. ASSUME up.phase = "sidecar", NEW k \in Images(up.of, up.gen) PROVE k \in There'
      BY <3>2, ClaimedStay DEF Claimed, InFlight, UploadsTrue
    <3>3. Images(up.of, up.gen)' = Images(up.of, up.gen)
          /\ Image(up.of, "system", up.gen)' = Image(up.of, "system", up.gen)
      BY <2>1 DEF Images, Image
    <3>4. QED
      BY <2>1, <3>1, <3>2, <3>3
  <2>2. CASE UploadDisk
    <3>1. Image(up.of, up.phase, up.gen) \in There' /\ up.phase \in {"system", "efivars"}
      BY <2>2 DEF UploadDisk, PutImage, There, Disk
    <3>2. CASE up.phase = "system"
      <4>1. up'.phase = "efivars" /\ up'.of = up.of /\ up'.gen = up.gen
        BY <2>2, <3>2 DEF UploadDisk, TypeOK, UploadType
      <4>2. Image(up.of, "system", up.gen)' = Image(up.of, "system", up.gen)
        BY <4>1 DEF Image
      <4>3. QED
        BY <3>1, <3>2, <4>1, <4>2
    <3>3. CASE up.phase = "efivars"
      <4>1. \/ up'.phase \in {"idle", "next"}
            \/ up'.phase = "sidecar" /\ up'.of = up.of /\ up'.gen = up.gen
        <5>1. up' \in {[up EXCEPT !.phase = "sidecar"], After(up.items)}
          BY <2>2, <3>3 DEF UploadDisk
        <5>2. After(up.items).phase \in {"idle", "next"}
          BY AfterType DEF TypeOK, UploadType
        <5>3. QED
          BY <5>1, <5>2 DEF TypeOK, UploadType
      <4>2. CASE up'.phase \in {"idle", "next"}
        BY <4>2
      <4>3. CASE up'.phase = "sidecar" /\ up'.of = up.of /\ up'.gen = up.gen
        <5>1. Images(up.of, up.gen) \subseteq There'
          <6>1. Image(up.of, "system", up.gen) \in There
                /\ Claimed(Image(up.of, "system", up.gen))
            BY <3>3 DEF UploadsTrue, Claimed, InFlight, Images, Disk
          <6>2. QED
            BY <3>1, <3>3, <6>1, ClaimedStay DEF Images, Disk
        <5>2. Images(up.of, up.gen)' = Images(up.of, up.gen)
          BY <4>3 DEF Images, Image
        <5>3. QED
          BY <4>3, <5>1, <5>2
      <4>4. QED
        BY <4>1, <4>2, <4>3
    <3>4. QED
      BY <3>1, <3>2, <3>3
  <2>3. CASE LoadSidecars \/ CheckArtifacts \/ UploadSidecar \/ UploadFails
    <3>1. up'.phase \in {"idle", "next", "system"}
      <4>1. ASSUME NEW items, items \subseteq up.items, up' = After(items) PROVE up'.phase \in {"idle", "next"}
        BY <4>1, AfterType DEF TypeOK, UploadType
      <4>2. CASE UploadSidecar \/ UploadFails
        BY <4>1, <4>2 DEF UploadSidecar, UploadFails
      <4>3. CASE LoadSidecars
        <5>1. PICK items : up' = [phase |-> "next", of |-> "", gen |-> 0, items |-> items]
          BY <4>3 DEF LoadSidecars
        <5>2. QED
          BY <5>1
      <4>4. CASE CheckArtifacts
        <5>1. PICK i \in up.items :
                \/ up' = [up EXCEPT !.phase = "system", !.items = @ \ {i},
                                    !.of = i[1], !.gen = i[2]]
                \/ up' = After(up.items \ {i})
          BY <4>4 DEF CheckArtifacts
        <5>2. QED
          BY <4>1, <5>1 DEF TypeOK, UploadType
      <4>5. QED
        BY <2>3, <4>2, <4>3, <4>4
    <3>2. QED
      BY <3>1
  <2> HIDE DEF Uploads
  <2>4. QED
    BY <2>1, <2>2, <2>3 DEF Next, vars, source, bucket, history,
       BuildBegin, ExportDisks, ExportUpload, ExportWrites, ExportSidecar, ExportFails,
     SyncLink, SyncRename, SyncFails, LoadSidecars, CheckArtifacts, UploadDisk,
     UploadSidecar, UploadFails, PublishList, PublishFetch, Mirror, JobFails,
     PruneList, PruneRead, PruneSidecar, PruneImage, PruneEnds
<1>8. QED
  BY <1>6, <1>7 DEF UploadsTrue

-----------------------------------------------------------------------------
(* What every step keeps.                                                   *)

LEMMA SidecarsStep ==
  ASSUME TypeOK, SidecarsTrue, UploadsTrue, [Next]_vars
  PROVE  SidecarsTrue'
<1>1. CASE UNCHANGED <<sidecars, stored, hasty>>
  BY <1>1 DEF SidecarsTrue, Distinct
<1>2. ASSUME NEW t \in Template, NEW key \in Build, NEW is \in Build, Puts(t, key, is)
      PROVE  SidecarsTrue'
  BY <1>2, PutSidecars DEF Puts, TypeOK
<1>3. ASSUME NEW p \in Pruner, PruneSidecar(p) PROVE SidecarsTrue'
  BY <1>3, DeletingShrinks
<1>4. QED
  BY <1>1, <1>2, <1>3, SidecarsChange

LEMMA PastStays ==
  ASSUME TypeOK, SidecarsTrue, PastsTrue, UploadsTrue, \A p \in Pruner : PlanTrue(prune[p]),
         [Next]_vars,
         NEW X, Past(X), \A x \in X : x.of \in Template /\ x.at \in Nat
  PROVE  Past(X)'
<1>1. CASE UNCHANGED <<sidecars, stored, hasty>>
  BY <1>1 DEF Past, Distinct
<1>2. ASSUME NEW t \in Template, NEW key \in Build, NEW is \in Build, Puts(t, key, is)
      PROVE  Past(X)'
  BY <1>2, PastAfterPut DEF Puts, TypeOK
<1>3. ASSUME NEW p \in Pruner, PruneSidecar(p) PROVE Past(X)'
  BY <1>3, PastAfterDelete DEF PastsTrue
<1>4. QED
  BY <1>1, <1>2, <1>3, SidecarsChange

\* The registry has the keys and the ages of the sidecars it was made of.
LEMMA AssembledIsPast ==
  ASSUME BucketType, NEW R, R \subseteq Sidecar, Past(R), NEW b
  PROVE  Past(Assembled(R, b))
<1> DEFINE entry == [s \in SelectNewest(R) |->
             [of |-> s.of, key |-> s.key, is |-> s.is, at |-> s.at, url |-> WithUrl(s, b)]]
<1>1. SelectNewest(R) \subseteq R
  BY DEF SelectNewest
<1>2. Assembled(R, b) = {entry[s] : s \in SelectNewest(R)}
  BY DEF Assembled
<1>3. IsFiniteSet(Assembled(R, b))
  <2>1. IsFiniteSet(SelectNewest(R))
    BY <1>1, FS_Subset DEF Past
  <2>2. entry \in Surjection(SelectNewest(R), Assembled(R, b))
    BY <1>2 DEF Surjection
  <2>3. QED
    BY <2>1, <2>2, FS_Surjection
<1>4. ASSUME NEW e \in Assembled(R, b)
      PROVE  \E s \in SelectNewest(R) : /\ e = entry[s]
               /\ e.of = s.of /\ e.key = s.key /\ e.is = s.is /\ e.at = s.at
  BY <1>2
<1> HIDE DEF entry
<1>5. Distinct(Assembled(R, b))
  BY <1>1, <1>4 DEF Past, Distinct
<1>6. ASSUME NEW e \in Assembled(R, b) PROVE
        /\ e.at <= stored[e.of]
        /\ \A s \in sidecars : s.of = e.of /\ s.key = e.key => s.at >= e.at
        /\ e.of \in hasty \/ \E s \in sidecars : s.of = e.of /\ s.at >= e.at
  <2>1. PICK x \in R : e.of = x.of /\ e.key = x.key /\ e.at = x.at
    BY <1>1, <1>4
  <2>2. QED
    BY <2>1 DEF Past
<1>7. QED
  BY <1>3, <1>5, <1>6 DEF Past

LEMMA JobChanges ==
  ASSUME TypeOK, [Next]_vars
  PROVE  \/ UNCHANGED <<job, mirror>>
         \/ PublishList \/ PublishFetch \/ Mirror
         \/ job' = NoJob /\ UNCHANGED mirror
<1>1. ASSUME NEW p \in Pruner, PruneEnds(p)
      PROVE  (job' = job \/ job' = NoJob) /\ UNCHANGED mirror
  BY <1>1 DEF PruneEnds
<1>2. JobFails => job' = NoJob /\ UNCHANGED mirror
  BY DEF JobFails
<1>3. QED
  BY <1>1, <1>2 DEF Next, vars, PutImage, PutSidecar,
     BuildBegin, ExportDisks, ExportUpload, ExportWrites, ExportSidecar, ExportFails,
     SyncLink, SyncRename, SyncFails, LoadSidecars, CheckArtifacts, UploadDisk,
     UploadSidecar, UploadFails, PruneList, PruneRead, PruneSidecar, PruneImage

LEMMA PlanChanges ==
  ASSUME TypeOK, [Next]_vars, NEW p \in Pruner
  PROVE  \/ prune'[p] = prune[p]
         \/ PruneList(p) \/ PruneRead(p) \/ PruneSidecar(p) \/ PruneImage(p)
         \/ prune'[p] = Nothing
<1>1. ASSUME NEW q \in Pruner,
             \/ PruneList(q) \/ PruneRead(q) \/ PruneSidecar(q) \/ PruneImage(q)
             \/ PruneEnds(q)
      PROVE  q # p => prune'[p] = prune[p]
  BY <1>1 DEF TypeOK, PruneList, PruneRead, PruneSidecar, PruneImage, PruneEnds, Step
<1>2. PruneEnds(p) => prune'[p] = Nothing
  BY DEF TypeOK, PruneEnds, Step
<1>3. UNCHANGED prune => prune'[p] = prune[p]
  OBVIOUS
<1>4. QED
  BY <1>1, <1>2, <1>3 DEF Next, vars, PutImage, PutSidecar,
     BuildBegin, ExportDisks, ExportUpload, ExportWrites, ExportSidecar, ExportFails,
     SyncLink, SyncRename, SyncFails, LoadSidecars, CheckArtifacts, UploadDisk,
     UploadSidecar, UploadFails, PublishList, PublishFetch, Mirror, JobFails

LEMMA PastsStep ==
  ASSUME TypeOK, SidecarsTrue, PastsTrue, UploadsTrue, \A p \in Pruner : PlanTrue(prune[p]),
         [Next]_vars
  PROVE  PastsTrue'
<1> USE DEF TypeOK
<1>1. Past({})'
  BY FS_EmptySet DEF Past, Distinct
<1>2. PICK listed, registry, published :
        listed = job.listed /\ registry = job.registry /\ published = mirror
  OBVIOUS
<1>3. Past(listed)' /\ Past(registry)' /\ Past(published)'
  <2>1. Past(listed) /\ Past(registry) /\ Past(published)
    BY <1>2 DEF PastsTrue
  <2>2. \A x \in listed \cup registry \cup published : x.of \in Template /\ x.at \in Nat
    BY <1>2 DEF JobType, BucketType, Sidecar, Entry
  <2>3. QED
    BY <2>1, <2>2, PastStays
<1>4. Past(job.listed)'
  <2>1. job'.listed \in {{}, listed} \/ (PublishList /\ job'.listed = sidecars)
    <3>1. PublishList => job'.listed = sidecars
      BY DEF PublishList, JobType
    <3>2. PublishFetch => job'.listed = {}
      BY DEF PublishFetch, JobType
    <3>3. Mirror => job'.listed = listed
      BY <1>2 DEF Mirror, JobType
    <3>4. QED
      BY <1>2, <3>1, <3>2, <3>3, JobChanges DEF NoJob
  <2>2. CASE PublishList /\ job'.listed = sidecars
    <3>1. PICK X : X = sidecars
      OBVIOUS
    <3>2. Past(X)
      BY <3>1, ListedIsPast
    <3>3. UNCHANGED <<sidecars, stored, hasty>>
      BY <2>2 DEF PublishList, bucket, history
    <3>4. QED
      BY <2>2, <3>1, <3>2, <3>3 DEF Past
  <2>3. QED
    BY <1>1, <1>3, <2>1, <2>2 DEF Past
<1>5. Past(job.registry)'
  <2>1. job'.registry \in {{}, registry} \/ PublishFetch
    <3>1. PublishList => job'.registry = registry
      BY <1>2 DEF PublishList, JobType
    <3>2. Mirror => job'.registry = {}
      BY DEF Mirror, JobType
    <3>3. QED
      BY <1>2, <3>1, <3>2, JobChanges DEF NoJob
  <2>2. CASE PublishFetch
    <3>1. PICK template \in BOOLEAN, unfit \in SUBSET Fetched(job.listed) :
            job'.registry = Assembled(Fetched(job.listed) \ unfit, template)
      BY <2>2, PublishFetches DEF JobType
    <3>2. /\ Past(Fetched(job.listed) \ unfit)
          /\ Fetched(job.listed) \ unfit \subseteq Sidecar
      BY FetchedIsPast, FewerArePast, FetchedBodies DEF PastsTrue, JobType
    <3>3. Past(Assembled(Fetched(job.listed) \ unfit, template))
      BY <3>2, AssembledIsPast
    <3>4. PICK X : X = Assembled(Fetched(job.listed) \ unfit, template)
      OBVIOUS
    <3>5. Past(X)
      BY <3>3, <3>4
    <3>6. UNCHANGED <<sidecars, stored, hasty>>
      BY <2>2 DEF PublishFetch, bucket, history
    <3>7. QED
      BY <3>1, <3>4, <3>5, <3>6 DEF Past
  <2>3. QED
    BY <1>1, <1>3, <2>1, <2>2 DEF Past
<1>6. Past(mirror)'
  <2>1. mirror' = published \/ mirror' = registry
    BY <1>2, JobChanges DEF PublishList, PublishFetch, Mirror
  <2>2. QED
    BY <1>3, <2>1 DEF Past
<1>7. ASSUME NEW p \in Pruner PROVE Past(prune[p].read)'
  <2>1. PICK read : read = prune[p].read
    OBVIOUS
  <2>2. Past(read)'
    <3>1. Past(read) /\ \A x \in read : x.of \in Template /\ x.at \in Nat
      BY <2>1 DEF PastsTrue, PlanType, Sidecar
    <3>2. QED
      BY <3>1, PastStays
  <2>3. \/ prune'[p].read \in {{}, read}
        \/ PruneList(p) \/ PruneRead(p)
    <3>1. PruneSidecar(p) \/ PruneImage(p) => prune'[p].read = prune[p].read
      BY DEF PruneSidecar, PruneImage, Step, PlanType
    <3>2. QED
      BY <2>1, <3>1, PlanChanges DEF Nothing
  <2>4. CASE PruneList(p)
    <3>1. PICK X : X = {s \in sidecars : s.key # 0}
      OBVIOUS
    <3>2. Past(X)
      BY <3>1, ListedIsPast
    <3>3. prune'[p].read = X /\ UNCHANGED <<sidecars, stored, hasty>>
      BY <2>4, <3>1 DEF PruneList, Step, bucket, history
    <3>4. QED
      BY <3>2, <3>3 DEF Past
  <2>5. CASE PruneRead(p)
    <3>1. PICK unreadable \in SUBSET prune[p].read :
            prune'[p].read = Fetched(prune[p].read \ unreadable)
      <4>1. PICK unreadable \in SUBSET prune[p].read : \E stale, orphans :
              prune' = [prune EXCEPT ![p] =
                [phase |-> "delete", read |-> Fetched(prune[p].read \ unreadable),
                 stale |-> stale, images |-> orphans]]
        BY <2>5 DEF PruneRead, Step
      <4>2. PICK stale, orphans :
              prune' = [prune EXCEPT ![p] =
                [phase |-> "delete", read |-> Fetched(prune[p].read \ unreadable),
                 stale |-> stale, images |-> orphans]]
        BY <4>1
      <4>3. QED
        BY <4>2
    <3>2. PICK X : X = Fetched(prune[p].read \ unreadable)
      OBVIOUS
    <3>3. Past(X)
      <4>1. Past(prune[p].read \ unreadable)
        BY FewerArePast DEF PastsTrue
      <4>2. prune[p].read \ unreadable \subseteq Sidecar
        BY DEF PlanType
      <4>3. QED
        BY <3>2, <4>1, <4>2, FetchedIsPast
    <3>4. UNCHANGED <<sidecars, stored, hasty>>
      BY <2>5 DEF PruneRead, bucket, history
    <3>5. QED
      BY <3>1, <3>2, <3>3, <3>4 DEF Past
  <2>6. QED
    BY <1>1, <2>2, <2>3, <2>4, <2>5 DEF Past
<1>8. QED
  BY <1>4, <1>5, <1>6, <1>7 DEF PastsTrue

\* Each uploader stores the images before the sidecar that names them.
LEMMA WholeStep ==
  ASSUME TypeOK, SidecarsTrue, UploadsTrue, SidecarsWhole,
         \A p \in Pruner : PlanTrue(prune[p]), [Next]_vars
  PROVE  SidecarsWhole'
<1>1. ASSUME NEW s \in sidecars, s.is = s.key PROVE Images(s.of, s.is) \subseteq There'
  <2> SUFFICES ASSUME NEW k \in Images(s.of, s.is) PROVE k \in There'
    OBVIOUS
  <2>1. k \in There /\ Claimed(k)
    BY <1>1 DEF SidecarsWhole, There, Claimed
  <2>2. QED
    BY <2>1, ClaimedStay
<1>2. ASSUME NEW t \in Template, NEW key \in Build, NEW is \in Build, Puts(t, key, is)
      PROVE  SidecarsWhole'
  <2>1. \A s \in sidecars' : s = ASidecar(t, key, is) \/ s \in sidecars
    BY <1>2, PutSidecars DEF Puts, TypeOK
  <2>2. There' = There
    BY <1>2 DEF Puts, PutSidecar, history, There
  <2>3. Images(t, key) \subseteq There'
    BY <1>2, <2>2 DEF Puts
  <2>4. ASSUME NEW s \in sidecars', s.is = s.key PROVE Images(s.of, s.is) \subseteq There'
    BY <1>1, <2>1, <2>3, <2>4 DEF ASidecar
  <2>5. QED
    BY <2>4 DEF SidecarsWhole, There, Images, Image
<1>3. CASE sidecars' \subseteq sidecars
  BY <1>1, <1>3 DEF SidecarsWhole, There, Images, Image
<1>4. ASSUME NEW p \in Pruner, PruneSidecar(p) PROVE sidecars' \subseteq sidecars
  BY <1>4, DeletingShrinks
<1>5. QED
  BY <1>2, <1>3, <1>4, SidecarsChange

\* A prune takes the sidecar of an entry only when it is hasty or the entry is
\* old, and its images only when the sidecar is gone or names others.
LEMMA StandsStays ==
  ASSUME TypeOK, SidecarsTrue, UploadsTrue, SidecarsWhole, PastsTrue,
         \A p \in Pruner : PlanTrue(prune[p]), [Next]_vars,
         NEW e, e.of \in Template, e.key \in Build, e.at \in Nat, Stands(e),
         \A s \in sidecars : s.of = e.of /\ s.key = e.key => s.at >= e.at
  PROVE  Stands(e)'
<1> SUFFICES ASSUME e.is = e.key PROVE Stands(e)'
  BY DEF Stands
<1> DEFINE Old == stored[e.of] - e.at >= Keep
           There_ == Images(e.of, e.is) \subseteq There
<1>1. stored \in [Template -> Nat] /\ Keep \in Nat
  BY RetentionAssumption DEF TypeOK, BucketType
<1>2. Images(e.of, e.is)' = Images(e.of, e.is)
  BY DEF Images, Image
<1>3. ASSUME There_, ~ OtherBody(e), NEW s \in sidecars, s.of = e.of, s.key = e.key
      PROVE  Images(e.of, e.is) \subseteq There'
  <2> SUFFICES ASSUME NEW k \in Images(e.of, e.is) PROVE k \in There'
    OBVIOUS
  <2>1. s.is = e.is
    BY <1>3 DEF OtherBody
  <2>2. QED
    BY <1>3, <2>1, ClaimedStay DEF Claimed
<1>4. CASE UNCHANGED <<sidecars, stored, hasty>>
  <2>1. OtherBody(e)' <=> OtherBody(e)
    BY <1>4 DEF OtherBody
  <2>2. QED
    BY <1>2, <1>3, <1>4, <2>1 DEF Stands
<1>5. ASSUME NEW t \in Template, NEW key \in Build, NEW is \in Build, Puts(t, key, is)
      PROVE  Stands(e)'
  <2> DEFINE new == ASidecar(t, key, is)
  <2>1. new.of = t /\ new.key = key /\ new.is = is /\ hasty' = hasty /\ There' = There
    BY <1>5 DEF ASidecar, Puts, PutSidecar, history, There
  <2> HIDE DEF new
  <2>2. /\ new \in sidecars'
        /\ \A s \in sidecars' : s = new \/ (s \in sidecars /\ ~ (s.of = t /\ s.key = key))
        /\ \A s \in sidecars : s \in sidecars' \/ (s.of = t /\ s.key = key)
        /\ \A u \in Template : stored[u] \in Nat /\ stored'[u] \in Nat /\ stored'[u] >= stored[u]
    BY <1>5, PutSidecars DEF new, Puts, TypeOK
  <2>3. CASE Old
    BY <1>1, <2>2, <2>3 DEF Stands
  <2>4. CASE e.of = t /\ e.key = key
    <3>1. CASE is # key
      BY <2>1, <2>2, <2>4, <3>1 DEF Stands, OtherBody
    <3>2. CASE is = key
      BY <1>2, <1>5, <2>1, <2>2, <2>4, <3>2 DEF Stands, Puts
    <3>3. QED
      BY <3>1, <3>2
  <2>5. CASE ~ (e.of = t /\ e.key = key)
    <3>1. OtherBody(e) => OtherBody(e)'
      BY <2>2, <2>5 DEF OtherBody
    <3>2. (\E s \in sidecars : s.of = e.of /\ s.key = e.key)
            => \E s \in sidecars' : s.of = e.of /\ s.key = e.key
      BY <2>2, <2>5
    <3>3. QED
      BY <1>2, <2>1, <2>3, <3>1, <3>2 DEF Stands
  <2>6. QED
    BY <2>4, <2>5
<1>6. ASSUME NEW p \in Pruner, PruneSidecar(p) PROVE Stands(e)'
  <2>1. /\ sidecars' \subseteq sidecars /\ hasty \subseteq hasty' /\ stored' = stored
        /\ There' = There
    BY <1>6, DeletingShrinks DEF There
  <2>2. ASSUME NEW s \in sidecars, s.of = e.of, s.key = e.key, s \notin sidecars'
        PROVE  Stands(e)'
    <3>1. s.at \in Nat /\ s.at >= e.at
      BY <2>2 DEF TypeOK, BucketType, Sidecar
    <3>2. s.of \in hasty' \/ stored[s.of] - s.at >= Keep
      BY <1>6, <2>2, DeletedAreStale DEF PastsTrue
    <3>3. stored[e.of] - s.at >= Keep => Old
      BY <1>1, <3>1
    <3>4. QED
      BY <2>1, <2>2, <3>2, <3>3 DEF Stands
  <2>3. CASE \A s \in sidecars : s.of = e.of /\ s.key = e.key => s \in sidecars'
    <3>1. OtherBody(e) => OtherBody(e)'
      BY <2>3 DEF OtherBody
    <3>2. QED
      BY <1>2, <2>1, <2>3, <3>1 DEF Stands
  <2>4. QED
    BY <2>2, <2>3
<1>7. QED
  BY <1>4, <1>5, <1>6, SidecarsChange

LEMMA EntriesStep ==
  ASSUME BucketInv, [Next]_vars
  PROVE  EntriesTrue'
<1> USE DEF BucketInv
<1>1. ASSUME NEW e \in job.registry \cup mirror PROVE e.url /\ Stands(e)'
  <2>1. e \in Entry
    BY DEF TypeOK, JobType, BucketType
  <2>2. e.of \in Template /\ e.key \in Build /\ e.at \in Nat
    BY <2>1 DEF Entry
  <2>3. e.url /\ Stands(e)
    BY DEF EntriesTrue
  <2>4. \A s \in sidecars : s.of = e.of /\ s.key = e.key => s.at >= e.at
    BY DEF PastsTrue, Past
  <2>5. QED
    BY <2>2, <2>3, <2>4, StandsStays
<1>2. CASE job'.registry \cup mirror' \subseteq job.registry \cup mirror
  BY <1>1, <1>2 DEF EntriesTrue, Stands, OtherBody, There, Images, Image
<1>3. CASE PublishFetch
  <2>1. PICK template \in BOOLEAN, unfit \in SUBSET Fetched(job.listed) :
          /\ job'.registry = Assembled(Fetched(job.listed) \ unfit, template)
          /\ DisksMissingUrls(Assembled(Fetched(job.listed) \ unfit, template)) = {}
    BY <1>3, PublishFetches DEF TypeOK, JobType
  <2>2. ASSUME NEW e \in job'.registry PROVE e.url /\ Stands(e)
    <3>1. e.url
      BY <2>1 DEF DisksMissingUrls
    <3>2. PICK f \in Fetched(job.listed) :
            e.of = f.of /\ e.key = f.key /\ e.is = f.is /\ e.at = f.at
      BY <2>1 DEF Assembled, SelectNewest
    <3>3. PICK s \in sidecars : s.of = f.of /\ s.key = f.key /\ s.is = f.is
      BY FetchedBodies DEF TypeOK, JobType
    <3>4. e.is = e.key => Images(e.of, e.is) \subseteq There
      BY <3>2, <3>3 DEF SidecarsWhole, There
    <3>5. QED
      BY <3>1, <3>2, <3>3, <3>4 DEF Stands
  <2>3. UNCHANGED <<bucket, mirror, history>>
    BY <1>3 DEF PublishFetch
  <2>4. ASSUME NEW e \in job'.registry \cup mirror' PROVE e.url /\ Stands(e)'
    <3>1. CASE e \in mirror
      BY <1>1, <3>1
    <3>2. CASE e \in job'.registry
      BY <2>2, <2>3, <3>2 DEF bucket, history, Stands, OtherBody, There, Images, Image
    <3>3. QED
      BY <2>3, <2>4, <3>1, <3>2
  <2>5. QED
    BY <2>4 DEF EntriesTrue, Stands, OtherBody, There, Images, Image
<1>4. CASE PublishList \/ Mirror
  <2>1. job'.registry \cup mirror' \subseteq job.registry \cup mirror
    BY <1>4 DEF PublishList, Mirror, TypeOK, JobType
  <2>2. QED
    BY <1>2, <2>1
<1>5. QED
  BY <1>2, <1>3, <1>4, JobChanges DEF NoJob

LEMMA PlansStep ==
  ASSUME BucketInv, [Next]_vars, NEW p \in Pruner
  PROVE  PlanTrue(prune[p])'
<1> USE DEF BucketInv
<1>1. PlanTrue(prune[p]) /\ prune \in [Pruner -> PlanType]
  BY DEF TypeOK
<1>2. ASSUME sidecars' \cap prune[p].read \subseteq sidecars, prune'[p] = prune[p]
      PROVE  PlanTrue(prune[p])'
  BY <1>1, <1>2 DEF PlanTrue, Live, Newer, Named, Images, Image
<1>3. sidecars' \cap prune[p].read \subseteq sidecars
  <2>1. ASSUME NEW t \in Template, NEW key \in Build, NEW is \in Build, Puts(t, key, is)
        PROVE  sidecars' \cap prune[p].read \subseteq sidecars
    <3>1. \A s \in sidecars' : s = ASidecar(t, key, is) \/ s \in sidecars
      BY <2>1, PutSidecars DEF Puts, TypeOK
    <3>2. ASidecar(t, key, is) \notin prune[p].read
      <4>1. ASidecar(t, key, is).of = t /\ ASidecar(t, key, is).at = stored[t] + 1
        BY DEF ASidecar
      <4>2. stored[t] \in Nat
        BY DEF TypeOK, BucketType
      <4>3. ~ (stored[t] + 1 <= stored[t])
        BY <4>2
      <4>4. QED
        BY <4>1, <4>3 DEF PastsTrue, Past
    <3>3. QED
      BY <3>1, <3>2
  <2>2. ASSUME NEW q \in Pruner, PruneSidecar(q) PROVE sidecars' \subseteq sidecars
    BY <2>2, DeletingShrinks
  <2>3. QED
    BY <2>1, <2>2, SidecarsChange
<1>4. ASSUME NEW plan, plan = prune'[p], plan.phase # "delete" PROVE PlanTrue(prune[p])'
  BY <1>4 DEF PlanTrue
<1>5. CASE PruneList(p)
  BY <1>1, <1>5 DEF PruneList, Step, PlanTrue
<1>6. CASE PruneRead(p)
  <2>1. PICK unreadable \in SUBSET prune[p].read :
          LET read == Fetched(prune[p].read \ unreadable) IN
          prune'[p] = [phase |-> "delete", read |-> read, stale |-> read \ Live(read),
                       images |-> Orphans(prune[p].images, read)]
    BY <1>1, <1>6 DEF PruneRead, Step
  <2>2. PICK read : read = Fetched(prune[p].read \ unreadable)
    OBVIOUS
  <2>3. prune'[p] = [phase |-> "delete", read |-> read, stale |-> read \ Live(read),
                     images |-> prune[p].images \ Named(Live(read))]
    BY <2>1, <2>2 DEF Orphans
  <2>4. Live(read)' = Live(read) /\ Named(Live(read))' = Named(Live(read))
    BY DEF Live, Newer, Named, Images, Image
  <2>5. /\ prune'[p].images = prune[p].images \ Named(Live(read))
        /\ prune'[p].read = read /\ prune'[p].stale = read \ Live(read)
    BY <2>3
  <2>6. Live(prune[p].read)' = Live(read) /\ Named(Live(prune[p].read))' = Named(Live(read))
    BY <2>5 DEF Live, Newer, Named, Images, Image
  <2>7. QED
    BY <2>5, <2>6 DEF PlanTrue
<1>7. CASE PruneSidecar(p)
  <2>1. PICK s \in prune[p].stale :
          /\ sidecars' = sidecars \ {o \in sidecars : o.of = s.of /\ o.key = s.key}
          /\ prune'[p] = [prune[p] EXCEPT !.stale = prune[p].stale \ {s}]
    BY <1>1, <1>7 DEF PruneSidecar, Step
  <2>2. /\ prune'[p].phase = prune[p].phase /\ prune'[p].images = prune[p].images
        /\ prune'[p].read = prune[p].read /\ prune'[p].stale = prune[p].stale \ {s}
    BY <1>1, <2>1 DEF PlanType
  <2>3. s \notin sidecars'
    BY <2>1
  <2>4. Live(prune[p].read)' = Live(prune[p].read)
        /\ Named(Live(prune[p].read))' = Named(Live(prune[p].read))
    BY <2>2 DEF Live, Newer, Named, Images, Image
  <2>5. QED
    BY <1>1, <2>1, <2>2, <2>3, <2>4 DEF PlanTrue
<1>8. CASE PruneImage(p)
  <2>1. PICK k : prune'[p] = [prune[p] EXCEPT !.images = prune[p].images \ {k}]
    BY <1>1, <1>8 DEF PruneImage, Step
  <2>2. /\ prune'[p].phase = prune[p].phase /\ prune'[p].images \subseteq prune[p].images
        /\ prune'[p].read = prune[p].read /\ prune'[p].stale = prune[p].stale
    BY <1>1, <2>1 DEF PlanType
  <2>3. sidecars' = sidecars
    BY <1>8 DEF PruneImage
  <2>4. Live(prune[p].read)' = Live(prune[p].read)
        /\ Named(Live(prune[p].read))' = Named(Live(prune[p].read))
    BY <2>2 DEF Live, Newer, Named, Images, Image
  <2>5. QED
    BY <1>1, <2>2, <2>3, <2>4 DEF PlanTrue
<1>9. CASE prune'[p] = Nothing
  BY <1>9 DEF Nothing, PlanTrue
<1>10. QED
  BY <1>2, <1>3, <1>5, <1>6, <1>7, <1>8, <1>9, PlanChanges

\* Nothing that was published is newer than what is to be.
LEMMA NewsStep ==
  ASSUME BucketInv, [Next]_vars
  PROVE  /\ (job.phase = "fetch" => AsNew(job.listed, hasty))'
         /\ (job.phase = "push" => AsNew(job.registry, hasty \cup job.skipped))'
<1> USE DEF BucketInv
<1>1. hasty \subseteq hasty'
  <2>1. ASSUME NEW t \in Template, NEW key \in Build, NEW is \in Build, Puts(t, key, is)
        PROVE  hasty \subseteq hasty'
    BY <2>1 DEF Puts, PutSidecar, history
  <2>2. ASSUME NEW q \in Pruner, PruneSidecar(q) PROVE hasty \subseteq hasty'
    BY <2>2, DeletingShrinks
  <2>3. QED
    BY <2>1, <2>2, SidecarsChange
<1>2. CASE UNCHANGED <<job, mirror>>
  BY <1>1, <1>2 DEF AsNew
<1>3. CASE PublishList
  <2>1. job'.phase = "fetch" /\ job'.listed = sidecars /\ mirror' = mirror
    BY <1>3 DEF PublishList, TypeOK, JobType
  <2>2. \A e \in mirror : e.of \in hasty \/ \E s \in sidecars : s.of = e.of /\ s.at >= e.at
    BY DEF PastsTrue, Past
  <2>3. QED
    BY <1>1, <2>1, <2>2 DEF AsNew
<1>4. CASE PublishFetch
  <2>1. PICK template \in BOOLEAN, unfit \in SUBSET Fetched(job.listed) :
          /\ job'.registry = Assembled(Fetched(job.listed) \ unfit, template)
          /\ job'.skipped = {f.of : f \in unfit}
          /\ ~ Missing(job.listed) /\ job.phase = "fetch" /\ job'.phase = "push"
    BY <1>4, PublishFetches DEF TypeOK, JobType
  <2> DEFINE got == Fetched(job.listed)
             fit == got \ unfit
  <2>2. mirror' = mirror
    BY <1>4 DEF PublishFetch
  <2>3. job.listed \subseteq Sidecar /\ IsFiniteSet(job.listed)
    BY DEF TypeOK, JobType, PastsTrue, Past
  <2>4. Past(fit) /\ fit \subseteq Sidecar /\ got \subseteq Sidecar
    BY <2>3, FetchedIsPast, FewerArePast, FetchedBodies DEF PastsTrue, TypeOK
  <2>5. ASSUME NEW e \in mirror, e.of \notin hasty, e.of \notin job'.skipped
        PROVE  \E r \in job'.registry : r.of = e.of /\ r.at >= e.at
    <3>1. PICK x \in job.listed : x.of = e.of /\ x.at >= e.at
      BY <2>1, <2>5 DEF AsNew
    <3>2. x \in Fetchable(job.listed)
      BY <2>1, <2>3, NothingMissing
    <3>3. PICK f \in got : f.of = x.of /\ f.at = x.at
      BY <2>3, <3>2, FetchedAsTheyAre DEF Fetchable, Sidecar, TypeOK
    <3>4. f \in fit
      BY <2>1, <2>5, <3>1, <3>3
    <3>5. PICK n \in SelectNewest(fit) : n.of = f.of /\ n.at >= f.at
      BY <2>4, <3>4, NewestIsThere DEF TypeOK
    <3>6. PICK r \in Assembled(fit, template) : r.of = n.of /\ r.at = n.at
      <4> DEFINE entry == [of |-> n.of, key |-> n.key, is |-> n.is, at |-> n.at,
                           url |-> WithUrl(n, template)]
      <4>1. entry \in Assembled(fit, template)
        BY DEF Assembled
      <4>2. entry.of = n.of /\ entry.at = n.at
        OBVIOUS
      <4>3. QED
        BY <4>1, <4>2
    <3>7. e.at \in Nat /\ x.at \in Nat /\ n.at \in Nat
      BY <2>3, <2>4 DEF TypeOK, BucketType, Entry, Sidecar, SelectNewest
    <3>8. QED
      BY <2>1, <3>1, <3>3, <3>5, <3>6, <3>7
  <2>6. QED
    BY <1>1, <2>1, <2>2, <2>5 DEF AsNew
<1>5. CASE Mirror
  BY <1>5 DEF Mirror, TypeOK, JobType
<1>6. CASE job' = NoJob
  BY <1>6 DEF NoJob
<1>7. QED
  BY <1>2, <1>3, <1>4, <1>5, <1>6, JobChanges

LEMMA BucketStarts == Init => BucketInv
<1> SUFFICES ASSUME Init PROVE BucketInv
  OBVIOUS
<1> USE DEF Init
<1>1. IsFiniteSet(sidecars)
  <2> DEFINE first == [t \in Legacy |-> LegacySidecar(t)]
  <2>1. IsFiniteSet(Legacy)
    BY FS_Subset, RetentionAssumption
  <2>2. first \in Surjection(Legacy, sidecars)
    BY DEF Surjection
  <2>3. QED
    BY <2>1, <2>2, FS_Surjection
<1>2. ASSUME NEW s \in sidecars
      PROVE  s.of \in Template /\ s.key = 0 /\ s.is = 0 /\ s.at = 0 /\ s = LegacySidecar(s.of)
  BY <1>2, RetentionAssumption DEF LegacySidecar
<1>3. \A t \in Template : 0 \in Build /\ 0 <= Builds[t] /\ Builds[t] \in Nat
  <2>1. \A t \in Template : 0 \in 0 .. Builds[t] /\ 0 <= Builds[t] /\ Builds[t] \in Nat
    BY RetentionAssumption
  <2>2. QED
    BY <2>1 DEF Build
<1>4. sidecars \subseteq Sidecar
  BY <1>3, RetentionAssumption DEF LegacySidecar, Sidecar
<1>5. SidecarsTrue
  BY <1>1, <1>2 DEF SidecarsTrue, Distinct
<1>6. images \subseteq AllImages
  <2>1. ASSUME NEW s \in sidecars, NEW d \in Disk PROVE Image(s.of, d, s.is) \in AllImages
    BY <1>2, <1>3, ImageType
  <2>2. QED
    BY <2>1 DEF Named, Images
<1>7. SourceType
  BY <1>3 DEF SourceType
<1>8. BucketType
  BY <1>4, <1>6 DEF BucketType
<1>9. UploadType /\ JobType /\ prune \in [Pruner -> PlanType]
  BY DEF UploadType, JobType, PlanType, NoUpload, NoJob, Nothing, Artifact, Disk
<1>10. Past({})
  BY FS_EmptySet DEF Past, Distinct
<1>11. PastsTrue
  BY <1>10 DEF PastsTrue, NoJob, Nothing
<1>12. UploadsTrue
  BY DEF UploadsTrue, NoUpload, Artifact, Disk
<1>13. SidecarsWhole
  BY DEF SidecarsWhole, Named
<1>14. EntriesTrue
  BY DEF EntriesTrue, NoJob
<1>15. \A p \in Pruner : PlanTrue(prune[p])
  BY DEF PlanTrue, Nothing
<1>16. job.phase = "idle"
  BY DEF NoJob
<1>17. QED
  BY <1>5, <1>7, <1>8, <1>9, <1>11, <1>12, <1>13, <1>14, <1>15, <1>16
  DEF BucketInv, TypeOK

LEMMA BucketIsSound == Spec => []BucketInv
<1>1. BucketInv /\ [Next]_vars => BucketInv'
  <2> SUFFICES ASSUME BucketInv, [Next]_vars PROVE BucketInv'
    OBVIOUS
  <2>1. TypeOK' /\ SidecarsTrue' /\ PastsTrue' /\ UploadsTrue' /\ SidecarsWhole'
    BY TypeStep, SidecarsStep, PastsStep, UploadsStep, WholeStep DEF BucketInv
  <2>2. EntriesTrue' /\ \A p \in Pruner : PlanTrue(prune[p])'
    BY EntriesStep, PlansStep
  <2>3. QED
    BY <2>1, <2>2, NewsStep DEF BucketInv
<1>2. QED
  BY BucketStarts, <1>1, PTL DEF Spec

-----------------------------------------------------------------------------
(* Theorems.                                                                *)

\* What the sidecars of the bucket name is stored, unless a prune swept what it
\* could not know of (executeUpload, planR2Prune).
THEOREM SidecarsAreWhole == Spec => []SidecarsWhole
  BY BucketIsSound, PTL DEF BucketInv

\* What the registry advertises can be downloaded until Keep newer generations
\* were stored, for any Keep (planR2Prune, buildManifestFromR2).
THEOREM RegistryIsTrue == Spec => []RegistryStands
<1>1. BucketInv => RegistryStands
  BY DEF BucketInv, EntriesTrue, Stands, There, RegistryStands
<1>2. QED
  BY <1>1, BucketIsSound, PTL

\* No publish takes a template out of the registry or back to an older generation, unless
\* a prune was hasty or the publish skipped a sidecar of the template that did not parse
\* (buildManifestFromR2, publish.yml).
THEOREM RegistryOnlyGrowsNewer == Spec => RegistryNeverBack
<1> DEFINE Back == \A e \in mirror : \/ e.of \in hasty \cup job.skipped
                                     \/ \E f \in mirror' : f.of = e.of /\ f.at >= e.at
<1>1. BucketInv /\ [Next]_vars =>
        [\A e \in mirror : \/ e.of \in hasty \cup job.skipped
                           \/ \E f \in mirror' : f.of = e.of /\ f.at >= e.at]_vars
  <2> SUFFICES ASSUME BucketInv, [Next]_vars, ~ UNCHANGED vars PROVE Back
    OBVIOUS
  <2>1. CASE Mirror
    BY <2>1 DEF BucketInv, Mirror, AsNew
  <2>2. CASE mirror' = mirror
    BY <2>2 DEF BucketInv, TypeOK, BucketType, Entry
  <2>3. QED
    BY <2>1, <2>2, JobChanges DEF BucketInv, PublishList, PublishFetch
<1>2. Spec => [][\A e \in mirror :
                   \/ e.of \in hasty \cup job.skipped
                   \/ \E f \in mirror' : f.of = e.of /\ f.at >= e.at]_vars
  BY <1>1, BucketIsSound, PTL DEF Spec
<1>3. QED
  BY <1>2 DEF RegistryNeverBack

=============================================================================
