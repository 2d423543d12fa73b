---------------------------- MODULE CoportProofs ----------------------------
(***************************************************************************)
(* For any templates, VMIDs and limits: what coport's cache says stands, a  *)
(* broken upgrade stays stale, no guest goes unasked, no semaphore hands    *)
(* out a slot twice, and the preflight judges every plan of a run right.    *)
(***************************************************************************)
EXTENDS Coport, FiniteSetTheorems, SequenceTheorems, WellFoundedInduction, TLAPS

-----------------------------------------------------------------------------
(* The invariant.                                                           *)

\* Who is at a semaphore: at work under it, or waiting.
At(sem) == sem.running \cup {sem.waiters[i] : i \in DOMAIN sem.waiters}

\* The items at the semaphores are those whose stage says so, and only an item
\* with an import slot works on the node.
SlotsTrue ==
  /\ At(run.downloads) = {t \in Templates : run.stage[t] = "downloading"}
  /\ At(run.installs) = {t \in Templates : run.stage[t] \in
                           {"downloaded", "destroying", "creating", "templating"}}
  /\ \A t \in Templates : run.stage[t] \in {"destroying", "creating", "templating"}
                            => t \in run.installs.running

\* Nothing begins before the preflight, and nothing is in hand after a run.
PhasesTrue ==
  /\ run.phase = "over" => Items = {} /\ run.writing = <<>>
  /\ run.phase = "planned" => run.installs = Permits(InstallLimit)
                              /\ run.downloads = Permits(DownloadLimit)
  /\ \A t \in Templates :
       run.phase # "installing" \/ t \notin Items => run.stage[t] = "none"

\* An item destroys only what its plan replaces, and imports what it verified.
ItemsTrue ==
  \A t \in Items :
    /\ run.plan[t].version <= registry
    /\ run.plan[t].overwrite => run.mode # "install"
    /\ run.stage[t] = "destroying" => run.plan[t].overwrite
    /\ run.stage[t] \in {"destroying", "creating"} => run.temp[t] = {run.plan[t].version}

\* What the item created stands at its VMID, if something of its template does.
GuestsTrue ==
  \A t \in Items : run.stage[t] = "templating" /\ vm[VmidOf(t)] \in Guests
    => (vm[VmidOf(t)].template = t => vm[VmidOf(t)].image = run.plan[t].version)

\* Who has a foreign guest has it from somebody's hands.
ForeignTrue == \A v \in Vmids : vm[v] = Foreign => removedBy[v] = "others"

\* A cache is true: of what was not removed since, and of what an upgrade removed.
Recorded(r, t) ==
  LET guest == vm[r.vmid] IN
  /\ r.version <= registry
  /\ removedBy[r.vmid] = "nobody" => guest \in Guests /\ guest.ready
  /\ guest \in Guests => (guest.template = t => guest.image >= r.version)
  /\ removedBy[r.vmid] = t => r.version # registry \/ (guest \in Guests /\ guest.ready)

CacheTrue(cache) == \A t \in DOMAIN cache : Recorded(cache[t], t)

Settled == {"flushing", "ok", "failed"}

\* No plan goes back to an older version, and an upgrade replaces what is older.
CacheOlder(cache) ==
  \A t \in Items \cap DOMAIN cache :
    /\ cache[t].version <= run.plan[t].version
    /\ run.mode = "upgrade" /\ run.stage[t] \notin Settled
         => cache[t].version < run.plan[t].version

Installed(t) == [vmid |-> VmidOf(t), version |-> run.plan[t].version]

\* What is installed is in the cache, and in the file once a write went well.
WritesTrue ==
  /\ \A i \in DOMAIN run.writing :
       run.writing[i] \in Items /\ run.stage[run.writing[i]] \in {"flushing", "ok"}
  /\ \A t \in Items :
       /\ run.stage[t] \in {"flushing", "ok"} => t \in DOMAIN run.cache /\ run.cache[t] = Installed(t)
       /\ run.stage[t] = "ok" /\ ~ run.writeFailed => t \in DOMAIN file /\ file[t] = Installed(t)

CoportInv ==
  /\ TypeOK /\ SlotsTrue /\ PhasesTrue /\ ItemsTrue /\ GuestsTrue /\ ForeignTrue /\ WritesTrue
  /\ CacheTrue(file) /\ CacheTrue(run.cache) /\ CacheOlder(file) /\ CacheOlder(run.cache)

-----------------------------------------------------------------------------
(* The semaphore.                                                           *)

LEMMA TemplatesFinite == IsFiniteSet(Templates)
<1> DEFINE order == [i \in 1 .. Len(Order) |-> Order[i]]
<1>1. Order \in Seq(Templates) /\ Templates = {Order[i] : i \in DOMAIN Order}
  BY CoportAssumption
<1>2. DOMAIN Order = 1 .. Len(Order) /\ Len(Order) \in Nat
  BY <1>1, LenProperties
<1>3. order \in Surjection(1 .. Len(Order), Templates)
  BY <1>1, <1>2 DEF Surjection
<1>4. IsFiniteSet(1 .. Len(Order))
  BY <1>2, FS_Interval
<1>5. QED
  BY <1>3, <1>4, FS_Surjection

LEMMA EmptyIsSound ==
  ASSUME NEW n \in Nat
  PROVE  Permits(n) \in Semaphores /\ Sound(Permits(n), n) /\ At(Permits(n)) = {}
<1>1. Permits(n) \in Semaphores
  BY EmptySeq DEF Permits, Semaphores
<1>2. Permits(n).available = n /\ Permits(n).waiters = <<>> /\ Permits(n).running = {}
  BY DEF Permits
<1>3. DOMAIN <<>> = {}
  OBVIOUS
<1>4. Cardinality({}) = 0
  BY FS_EmptySet
<1>5. QED
  BY <1>1, <1>2, <1>3, <1>4 DEF Sound, At

\* Who comes is at the semaphore, and takes nobody's slot.
LEMMA RunIsSound ==
  ASSUME NEW n \in Nat, NEW sem \in Semaphores, Sound(sem, n),
         NEW c \in Templates, c \notin At(sem)
  PROVE  /\ Run(sem, c) \in Semaphores /\ Sound(Run(sem, c), n)
         /\ At(Run(sem, c)) = At(sem) \cup {c}
         /\ sem.running \subseteq Run(sem, c).running
<1>1. /\ sem.available \in Nat /\ sem.waiters \in Seq(Templates)
      /\ sem.running \subseteq Templates /\ IsFiniteSet(sem.running)
      /\ DOMAIN sem.waiters = 1 .. Len(sem.waiters) /\ Len(sem.waiters) \in Nat
  BY TemplatesFinite, FS_Subset, LenProperties DEF Semaphores
<1>2. c \notin sem.running /\ \A i \in DOMAIN sem.waiters : sem.waiters[i] # c
  BY DEF At
<1>3. CASE sem.available > 0
  <2>1. /\ Run(sem, c).available = sem.available - 1
        /\ Run(sem, c).waiters = sem.waiters
        /\ Run(sem, c).running = sem.running \cup {c}
    BY <1>1, <1>3 DEF Run, Semaphores
  <2>6. Run(sem, c) \in Semaphores
    <3>1. sem.available - 1 \in Nat /\ sem.running \cup {c} \subseteq Templates
      BY <1>1, <1>3
    <3>2. Run(sem, c) = [sem EXCEPT !.available = sem.available - 1,
                                    !.running = sem.running \cup {c}]
      BY <1>3 DEF Run
    <3>3. QED
      BY <3>1, <3>2 DEF Semaphores
  <2>2. Cardinality(sem.running \cup {c}) = Cardinality(sem.running) + 1
    BY <1>1, <1>2, FS_AddElement
  <2>3. Cardinality(sem.running) \in Nat
    BY <1>1, FS_CardinalityType
  <2>4. Sound(Run(sem, c), n)
    BY <1>1, <1>2, <1>3, <2>1, <2>2, <2>3 DEF Sound
  <2>5. QED
    BY <2>1, <2>4, <2>6 DEF At
<1>4. CASE ~ (sem.available > 0)
  <2>1. /\ Run(sem, c).available = sem.available
        /\ Run(sem, c).waiters = Append(sem.waiters, c)
        /\ Run(sem, c).running = sem.running
    BY <1>1, <1>4 DEF Run, Semaphores
  <2>2. /\ Append(sem.waiters, c) \in Seq(Templates)
        /\ DOMAIN Append(sem.waiters, c) = 1 .. Len(sem.waiters) + 1
        /\ \A i \in 1 .. Len(sem.waiters) : Append(sem.waiters, c)[i] = sem.waiters[i]
        /\ Append(sem.waiters, c)[Len(sem.waiters) + 1] = c
    BY <1>1, AppendProperties, LenProperties
  <2>3. Run(sem, c) \in Semaphores
    BY <1>1, <1>4, <2>2 DEF Run, Semaphores
  <2>4. sem.available = 0
    BY <1>1, <1>4
  <2>5. ASSUME NEW i \in 1 .. Len(sem.waiters) + 1
        PROVE  /\ Append(sem.waiters, c)[i] \notin sem.running
               /\ \A j \in 1 .. Len(sem.waiters) + 1 :
                    Append(sem.waiters, c)[i] = Append(sem.waiters, c)[j] => i = j
    BY <1>1, <1>2, <2>2 DEF Sound
  <2>6. Sound(Run(sem, c), n)
    BY <2>1, <2>2, <2>4, <2>5 DEF Sound
  <2>7. At(Run(sem, c)) = At(sem) \cup {c}
    <3>1. {Append(sem.waiters, c)[i] : i \in 1 .. Len(sem.waiters) + 1}
            = {sem.waiters[i] : i \in 1 .. Len(sem.waiters)} \cup {c}
      BY <1>1, <2>2
    <3>2. QED
      BY <1>1, <2>1, <2>2, <3>1 DEF At
  <2>8. QED
    BY <2>1, <2>3, <2>6, <2>7
<1>5. QED
  BY <1>3, <1>4

\* Who is done leaves, and its slot goes to one waiter or back.
LEMMA DoneIsSound ==
  ASSUME NEW n \in Nat, NEW sem \in Semaphores, Sound(sem, n), NEW c \in sem.running
  PROVE  /\ Done(sem, c) \in Semaphores /\ Sound(Done(sem, c), n)
         /\ At(Done(sem, c)) = At(sem) \ {c}
         /\ sem.running \ {c} \subseteq Done(sem, c).running
<1>1. /\ sem.available \in Nat /\ sem.waiters \in Seq(Templates)
      /\ sem.running \subseteq Templates /\ IsFiniteSet(sem.running)
      /\ DOMAIN sem.waiters = 1 .. Len(sem.waiters) /\ Len(sem.waiters) \in Nat
  BY TemplatesFinite, FS_Subset, LenProperties DEF Semaphores
<1>2. /\ IsFiniteSet(sem.running \ {c}) /\ Cardinality(sem.running) \in Nat
      /\ Cardinality(sem.running \ {c}) = Cardinality(sem.running) - 1
  BY <1>1, FS_RemoveElement, FS_CardinalityType
<1>3. CASE sem.waiters = <<>>
  <2>1. /\ Done(sem, c).available = sem.available + 1
        /\ Done(sem, c).waiters = <<>> /\ Done(sem, c).running = sem.running \ {c}
    BY <1>1, <1>3 DEF Done, Semaphores
  <2>5. Done(sem, c) \in Semaphores
    <3>1. sem.available + 1 \in Nat /\ sem.running \ {c} \subseteq Templates
      BY <1>1
    <3>2. Done(sem, c) = [sem EXCEPT !.available = sem.available + 1,
                                     !.running = sem.running \ {c}]
      BY <1>3 DEF Done
    <3>3. QED
      BY <3>1, <3>2 DEF Semaphores
  <2>2. DOMAIN <<>> = {}
    OBVIOUS
  <2>3. Sound(Done(sem, c), n)
    BY <1>1, <1>2, <2>1, <2>2 DEF Sound
  <2>4. QED
    BY <1>3, <2>1, <2>2, <2>3, <2>5 DEF At
<1>4. CASE sem.waiters # <<>>
  <2> DEFINE head == Head(sem.waiters)
             tail == Tail(sem.waiters)
             len == Len(sem.waiters)
  <2>1. /\ len >= 1 /\ tail \in Seq(Templates) /\ DOMAIN tail = 1 .. len - 1
        /\ head = sem.waiters[1] /\ head \in Templates
        /\ \A i \in 1 .. len - 1 : tail[i] = sem.waiters[i + 1]
    BY <1>1, <1>4, HeadTailProperties, LenProperties, EmptySeq
  <2>2. /\ Done(sem, c).available = sem.available
        /\ Done(sem, c).waiters = tail
        /\ Done(sem, c).running = (sem.running \ {c}) \cup {head}
    BY <1>4 DEF Done, Semaphores
  <2>3. Done(sem, c) \in Semaphores
    BY <1>1, <1>4, <2>1 DEF Done, Semaphores
  <2>4. head \notin sem.running /\ \A i \in 1 .. len - 1 : tail[i] \notin sem.running /\ tail[i] # head
    BY <1>1, <2>1 DEF Sound
  <2>5. Cardinality((sem.running \ {c}) \cup {head}) = Cardinality(sem.running)
    <3>1. Cardinality((sem.running \ {c}) \cup {head}) = Cardinality(sem.running \ {c}) + 1
      BY <1>2, <2>4, FS_AddElement
    <3>2. QED
      BY <1>2, <3>1
  <2>6. \A i, j \in 1 .. len - 1 : tail[i] = tail[j] => i = j
    <3> SUFFICES ASSUME NEW i \in 1 .. len - 1, NEW j \in 1 .. len - 1, tail[i] = tail[j]
                 PROVE  i = j
      OBVIOUS
    <3>1. i + 1 \in DOMAIN sem.waiters /\ j + 1 \in DOMAIN sem.waiters
      BY <1>1
    <3>2. sem.waiters[i + 1] = sem.waiters[j + 1]
      BY <2>1
    <3>3. i + 1 = j + 1
      BY <3>1, <3>2 DEF Sound
    <3>4. QED
      BY <1>1, <3>3
  <2>7. Cardinality(sem.running) + sem.available = n /\ sem.available = 0
    BY <1>4 DEF Sound
  <2>8. Sound(Done(sem, c), n)
    BY <2>1, <2>2, <2>4, <2>5, <2>6, <2>7 DEF Sound
  <2>9. {sem.waiters[i] : i \in 1 .. len} = {head} \cup {tail[i] : i \in 1 .. len - 1}
    <3>1. ASSUME NEW i \in 1 .. len
          PROVE  sem.waiters[i] \in {head} \cup {tail[k] : k \in 1 .. len - 1}
      <4>1. CASE i = 1
        BY <2>1, <4>1
      <4>2. CASE i # 1
        <5>1. i - 1 \in 1 .. len - 1 /\ (i - 1) + 1 = i
          BY <1>1, <4>2
        <5>2. sem.waiters[i] = tail[i - 1]
          BY <2>1, <5>1
        <5>3. QED
          BY <5>1, <5>2
      <4>3. QED
        BY <4>1, <4>2
    <3>2. ASSUME NEW k \in 1 .. len - 1
          PROVE  tail[k] \in {sem.waiters[i] : i \in 1 .. len}
      <4>1. k + 1 \in 1 .. len
        BY <1>1
      <4>2. QED
        BY <2>1, <4>1
    <3>3. head \in {sem.waiters[i] : i \in 1 .. len}
      BY <1>1, <2>1
    <3>4. QED
      BY <3>1, <3>2, <3>3
  <2>10. c \notin {sem.waiters[i] : i \in 1 .. len}
    BY <1>1 DEF Sound
  <2>11. At(Done(sem, c)) = At(sem) \ {c}
    <3>1. At(sem) = sem.running \cup {sem.waiters[i] : i \in 1 .. len}
      BY <1>1 DEF At
    <3> HIDE DEF head, tail, len
    <3>2. At(Done(sem, c)) = ((sem.running \ {c}) \cup {head}) \cup {tail[i] : i \in 1 .. len - 1}
      BY <2>1, <2>2 DEF At
    <3>3. QED
      BY <2>9, <2>10, <3>1, <3>2
  <2>12. QED
    BY <2>2, <2>3, <2>8, <2>11
<1>5. QED
  BY <1>3, <1>4

\* A batch in the order of the registry has each of its templates once.
LEMMA BatchIsWhole ==
  ASSUME NEW T \in SUBSET Templates, NEW batch \in InOrder(T)
  PROVE  /\ batch \in Seq(Templates) /\ Len(batch) \in Nat /\ DOMAIN batch = 1 .. Len(batch)
         /\ \A i, j \in DOMAIN batch : batch[i] = batch[j] => i = j
         /\ T = {batch[i] : i \in DOMAIN batch}
<1>1. IsFiniteSet(T) /\ Cardinality(T) \in Nat
  BY TemplatesFinite, FS_Subset, FS_CardinalityType
<1>2. /\ batch \in [1 .. Cardinality(T) -> T] /\ DOMAIN batch = 1 .. Cardinality(T)
      /\ \A i, j \in DOMAIN batch : i < j => Before(batch[i], batch[j])
  BY DEF InOrder
<1>3. batch \in Seq(T) /\ Len(batch) = Cardinality(T)
  BY <1>1, <1>2, LenProperties, IsASeq
<1>4. \A t \in Templates : ~ Before(t, t)
  <2> SUFFICES ASSUME NEW t \in Templates, NEW i \in DOMAIN Order, NEW j \in DOMAIN Order,
                      i < j, Order[i] = t, Order[j] = t
               PROVE  FALSE
    BY DEF Before
  <2>1. i = j
    BY CoportAssumption
  <2>2. i \in Nat
    BY CoportAssumption, LenProperties
  <2>3. QED
    BY <2>1, <2>2
<1>5. ASSUME NEW i \in DOMAIN batch, NEW j \in DOMAIN batch, batch[i] = batch[j] PROVE i = j
  <2>1. batch[i] \in Templates /\ i \in Nat /\ j \in Nat
    BY <1>1, <1>2
  <2>2. ~ (i < j) /\ ~ (j < i)
    BY <1>2, <1>4, <1>5, <2>1
  <2>3. QED
    BY <2>1, <2>2
<1>6. batch \in Injection(1 .. Cardinality(T), T)
  BY <1>2, <1>5 DEF Injection, IsInjective
<1>7. Cardinality(1 .. Cardinality(T)) = Cardinality(T)
  <2>1. Cardinality(1 .. Cardinality(T))
          = IF 1 > Cardinality(T) THEN 0 ELSE Cardinality(T) - 1 + 1
    BY <1>1, FS_Interval
  <2>2. QED
    BY <1>1, <2>1
<1>8. batch \in Surjection(1 .. Cardinality(T), T)
  BY <1>1, <1>6, <1>7, FS_Injection
<1>9. T = {batch[i] : i \in DOMAIN batch}
  BY <1>2, <1>8 DEF Surjection
<1>10. batch \in Seq(Templates)
  BY <1>3, SeqMonotonic
<1>11. QED
  BY <1>1, <1>2, <1>3, <1>5, <1>9, <1>10

\* The first of a batch go in, the others wait.
LEMMA EnterIsSound ==
  ASSUME NEW n \in Nat, NEW T \in SUBSET Templates, NEW batch \in InOrder(T)
  PROVE  /\ EnterAll(Permits(n), batch) \in Semaphores
         /\ Sound(EnterAll(Permits(n), batch), n)
         /\ At(EnterAll(Permits(n), batch)) = T
<1> DEFINE len == Len(batch)
           k == IF n < len THEN n ELSE len
           first == {batch[i] : i \in 1 .. k}
           rest == SubSeq(batch, k + 1, len)
<1>1. /\ batch \in Seq(Templates) /\ len \in Nat /\ DOMAIN batch = 1 .. len
      /\ \A i, j \in 1 .. len : batch[i] = batch[j] => i = j
      /\ T = {batch[i] : i \in 1 .. len}
      /\ \A i \in 1 .. len : batch[i] \in Templates
  BY BatchIsWhole, ElementOfSeq
<1>2. k \in Nat /\ k <= len /\ k <= n /\ (k = n \/ k = len)
  BY <1>1
<1> HIDE DEF len, k
<1>3. /\ rest \in Seq(Templates) /\ Len(rest) = len - k /\ DOMAIN rest = 1 .. len - k
      /\ \A i \in 1 .. len - k : rest[i] = batch[k + i]
  <2>1. /\ k + 1 \in Int /\ len \in Int
        /\ \A i \in k + 1 .. len : batch[i] \in Templates
    BY <1>1, <1>2
  <2>2. /\ rest \in Seq(Templates)
        /\ Len(rest) = IF k + 1 <= len THEN len - (k + 1) + 1 ELSE 0
        /\ \A i \in 1 .. len - (k + 1) + 1 : rest[i] = batch[(k + 1) + i - 1]
    BY <2>1, SubSeqProperties
  <2> HIDE DEF rest
  <2>3. Len(rest) = len - k
    BY <1>1, <1>2, <2>2
  <2>4. DOMAIN rest = 1 .. len - k
    BY <2>2, <2>3, LenProperties
  <2>5. \A i \in 1 .. len - k : rest[i] = batch[k + i]
    <3> SUFFICES ASSUME NEW i \in 1 .. len - k PROVE rest[i] = batch[k + i]
      OBVIOUS
    <3>1. i \in 1 .. len - (k + 1) + 1 /\ (k + 1) + i - 1 = k + i
      BY <1>1, <1>2
    <3>2. QED
      BY <2>2, <3>1
  <2>6. QED
    BY <2>2, <2>3, <2>4, <2>5
<1>4. <<>> \o rest = rest
  BY <1>3, ConcatEmptySeq
<1> DEFINE sem == EnterAll(Permits(n), batch)
<1>5. sem = [available |-> n - k, waiters |-> rest, running |-> first]
  BY <1>4 DEF EnterAll, Permits, k, len
<1> HIDE DEF rest
<1>6. Cardinality(first) = k /\ first \subseteq Templates
  <2> DEFINE f == [i \in 1 .. k |-> batch[i]]
  <2>1. f \in Surjection(1 .. k, first) /\ f \in Injection(1 .. k, first)
    BY <1>1, <1>2 DEF Surjection, Injection, IsInjective
  <2>2. IsFiniteSet(1 .. k) /\ Cardinality(1 .. k) = k
    <3>1. IsFiniteSet(1 .. k) /\ Cardinality(1 .. k) = IF 1 > k THEN 0 ELSE k - 1 + 1
      BY <1>2, FS_Interval
    <3>2. QED
      BY <1>2, <3>1
  <2>3. Cardinality(first) = Cardinality(1 .. k)
    BY <2>1, <2>2, FS_Surjection
  <2>4. first \subseteq Templates
    BY <1>1, <1>2
  <2>5. QED
    BY <2>2, <2>3, <2>4
<1>7. sem \in Semaphores
  BY <1>2, <1>3, <1>5, <1>6 DEF Semaphores
<1>8. ASSUME NEW i \in 1 .. len - k PROVE rest[i] \notin first
  <2>1. rest[i] = batch[k + i] /\ k + i \in 1 .. len /\ k + i > k
    BY <1>1, <1>2, <1>3
  <2>2. ASSUME NEW j \in 1 .. k PROVE batch[j] # batch[k + i]
    <3>1. j \in 1 .. len /\ j # k + i
      BY <1>1, <1>2, <2>1
    <3>2. QED
      BY <1>1, <2>1, <3>1
  <2>3. QED
    BY <2>1, <2>2
<1>9. ASSUME NEW i \in 1 .. len - k, NEW j \in 1 .. len - k, rest[i] = rest[j] PROVE i = j
  <2>1. k + i \in 1 .. len /\ k + j \in 1 .. len /\ batch[k + i] = batch[k + j]
    BY <1>1, <1>2, <1>3, <1>9
  <2>2. k + i = k + j
    BY <1>1, <2>1
  <2>3. QED
    BY <1>2, <2>2
<1>10. rest # <<>> => n - k = 0
  <2>1. CASE k = n
    BY <2>1
  <2>2. CASE k = len
    BY <1>1, <1>3, <2>2, EmptySeq
  <2>3. QED
    BY <1>2, <2>1, <2>2
<1>11. Sound(sem, n)
  <2>1. sem.available = n - k /\ sem.waiters = rest /\ sem.running = first
    BY <1>5
  <2>2. k + (n - k) = n
    BY <1>2
  <2>3. QED
    BY <1>3, <1>6, <1>8, <1>9, <1>10, <2>1, <2>2 DEF Sound
<1>12. At(sem) = T
  <2>1. At(sem) = first \cup {rest[i] : i \in 1 .. len - k}
    BY <1>3, <1>5 DEF At
  <2>2. ASSUME NEW i \in 1 .. len PROVE batch[i] \in At(sem)
    <3>1. CASE i <= k
      BY <1>2, <2>1, <3>1
    <3>2. CASE i > k
      <4>1. i - k \in 1 .. len - k /\ k + (i - k) = i
        BY <1>1, <1>2, <3>2
      <4>2. batch[i] = rest[i - k]
        BY <1>3, <4>1
      <4>3. QED
        BY <2>1, <4>1, <4>2
    <3>3. QED
      BY <1>1, <1>2, <3>1, <3>2
  <2>3. ASSUME NEW i \in 1 .. len - k PROVE rest[i] \in T
    <3>1. k + i \in 1 .. len
      BY <1>1, <1>2
    <3>2. QED
      BY <1>1, <1>3, <3>1
  <2>4. first \subseteq T
    BY <1>1, <1>2
  <2>5. QED
    BY <1>1, <2>1, <2>2, <2>3, <2>4
<1>13. QED
  BY <1>7, <1>11, <1>12

-----------------------------------------------------------------------------
(* Types.                                                                   *)

LEMMA CacheForm ==
  /\ \A c \in Caches : DOMAIN c \in SUBSET Templates /\ c \in [DOMAIN c -> Record]
  /\ \A T \in SUBSET Templates : [T -> Record] \subseteq Caches
  /\ \A plan \in InstallPlans : DOMAIN plan \in SUBSET Templates /\ plan \in [DOMAIN plan -> PlanType]
  /\ \A T \in SUBSET Templates : [T -> PlanType] \subseteq InstallPlans
  BY DEF Caches, InstallPlans

LEMMA NothingYet ==
  \A S : <<>> \in [{} -> S]
<1> SUFFICES ASSUME NEW S PROVE <<>> \in [{} -> S]
  OBVIOUS
<1>1. <<>> \in Seq(S) /\ DOMAIN <<>> = {}
  BY EmptySeq
<1>2. PICK n \in Nat : <<>> \in [1 .. n -> S]
  BY <1>1, SeqDef
<1>3. 1 .. n = {}
  BY <1>1, <1>2
<1>4. QED
  BY <1>2, <1>3

LEMMA RunFields ==
  ASSUME run \in RunType
  PROVE  /\ run.phase \in Phases /\ run.mode \in Modes
         /\ run.plan \in InstallPlans /\ run.cache \in Caches
         /\ run.stage \in [Templates -> Stages] /\ run.temp \in [Templates -> SUBSET Images]
         /\ run.downloads \in Semaphores /\ run.installs \in Semaphores
         /\ run.writing \in Seq(Templates) /\ run.writeFailed \in BOOLEAN
         /\ Items \in SUBSET Templates
         /\ \A t \in Items : run.plan[t] \in PlanType
  <1>1. /\ run.phase \in Phases /\ run.mode \in Modes
        /\ run.plan \in InstallPlans /\ run.cache \in Caches
        /\ run.stage \in [Templates -> Stages] /\ run.temp \in [Templates -> SUBSET Images]
        /\ run.downloads \in Semaphores /\ run.installs \in Semaphores
        /\ run.writing \in Seq(Templates) /\ run.writeFailed \in BOOLEAN
    BY DEF RunType
  <1>2. Items \in SUBSET Templates /\ run.plan \in [Items -> PlanType]
    BY <1>1, CacheForm DEF Items
  <1>3. QED
    BY <1>1, <1>2

LEMMA OverIsRun ==
  /\ Over \in RunType /\ Over.phase = "over"
  /\ DOMAIN Over.plan = {} /\ DOMAIN Over.cache = {} /\ Over.writing = <<>>
  /\ Over.downloads = Permits(DownloadLimit) /\ Over.installs = Permits(InstallLimit)
  /\ \A t \in Templates : Over.stage[t] = "none"
<1>1. <<>> \in Caches /\ <<>> \in InstallPlans /\ <<>> \in Seq(Templates) /\ DOMAIN <<>> = {}
  <2>1. {} \in SUBSET Templates
    OBVIOUS
  <2>2. <<>> \in [{} -> Record] /\ <<>> \in [{} -> PlanType]
    BY NothingYet
  <2>3. QED
    BY <2>1, <2>2, CacheForm, EmptySeq
<1>2. DownloadLimit \in Nat /\ InstallLimit \in Nat
  BY PreflightAssumption
<1>3. Permits(DownloadLimit) \in Semaphores /\ Permits(InstallLimit) \in Semaphores
  BY <1>2, EmptyIsSound
<1>4. [t \in Templates |-> "none"] \in [Templates -> Stages]
  BY DEF Stages
<1>5. NoImages \in [Templates -> SUBSET Images]
  BY DEF NoImages
<1>6. "over" \in Phases /\ "install" \in Modes
  BY DEF Phases, Modes
<1>7. Over \in RunType
  BY <1>1, <1>3, <1>4, <1>5, <1>6 DEF Over, RunType
<1>8. QED
  BY <1>1, <1>7 DEF Over

-----------------------------------------------------------------------------
(* What a step does to the run.                                             *)

ItemStep(t) ==
  \/ DownloadEnds(t) \/ DownloadFails(t) \/ Verify(t) \/ VerifyFails(t)
  \/ Destroy(t) \/ Create(t) \/ CreateFails(t) \/ Template(t) \/ TemplateFails(t)

\* Only t's stage and images move.
Moves(t, stage, images) ==
  /\ run'.phase = run.phase /\ run'.mode = run.mode
  /\ run'.plan = run.plan /\ run'.writeFailed = run.writeFailed
  /\ run'.stage = [run.stage EXCEPT ![t] = stage]
  /\ run'.temp = [run.temp EXCEPT ![t] = images]

KeepsWrites == run'.cache = run.cache /\ run'.writing = run.writing

Lands(t) ==
  /\ run.stage[t] = "downloading" /\ t \in run.downloads.running
  /\ \E image \in {run.plan[t].version, Corrupt} : Moves(t, "downloaded", {image})
  /\ run'.downloads = Done(run.downloads, t) /\ run'.installs = Run(run.installs, t)
  /\ KeepsWrites

GivesUp(t) ==
  /\ run.stage[t] = "downloading" /\ t \in run.downloads.running
  /\ Moves(t, "failed", {})
  /\ run'.downloads = Done(run.downloads, t) /\ run'.installs = run.installs
  /\ KeepsWrites

Works(t) ==
  /\ \/ /\ run.stage[t] = "downloaded" /\ t \in run.installs.running
        /\ run.temp[t] = {run.plan[t].version}
        /\ \/ run.plan[t].overwrite /\ Moves(t, "destroying", run.temp[t])
           \/ Moves(t, "creating", run.temp[t])
     \/ run.stage[t] = "destroying" /\ Moves(t, "creating", run.temp[t])
     \/ run.stage[t] = "creating" /\ Moves(t, "templating", run.temp[t])
  /\ run'.downloads = run.downloads /\ run'.installs = run.installs
  /\ KeepsWrites

Fails(t) ==
  /\ \/ run.stage[t] = "downloaded" /\ t \in run.installs.running
     \/ run.stage[t] = "creating"
     \/ run.stage[t] = "templating"
  /\ Moves(t, "failed", {})
  /\ run'.downloads = run.downloads /\ run'.installs = Done(run.installs, t)
  /\ KeepsWrites

Records(t) ==
  /\ run.stage[t] = "templating"
  /\ Moves(t, "flushing", {})
  /\ run'.downloads = run.downloads /\ run'.installs = Done(run.installs, t)
  /\ run'.cache = [u \in DOMAIN run.cache \cup {t} |->
                     IF u = t THEN Installed(t) ELSE run.cache[u]]
  /\ run'.writing = Append(run.writing, t)

\* A step of an item is one of these.
LEMMA ItemMoves ==
  ASSUME run \in RunType, NEW t \in Templates, ItemStep(t)
  PROVE  Lands(t) \/ GivesUp(t) \/ Works(t) \/ Fails(t) \/ Records(t)
<1>1. /\ run.stage \in [Templates -> Stages] /\ run.temp \in [Templates -> SUBSET Images]
  BY RunFields
<1> DEFINE same == /\ run'.phase = run.phase /\ run'.mode = run.mode
                   /\ run'.plan = run.plan /\ run'.writeFailed = run.writeFailed
<1>2. run.temp = [run.temp EXCEPT ![t] = run.temp[t]]
  BY <1>1
<1>3. CASE DownloadEnds(t)
  <2>1. PICK image \in {run.plan[t].version, Corrupt} :
          run' = [run EXCEPT !.stage[t] = "downloaded", !.temp[t] = {image},
                             !.downloads = Done(@, t), !.installs = Run(@, t)]
    BY <1>3 DEF DownloadEnds
  <2>2. Moves(t, "downloaded", {image})
    BY <2>1 DEF RunType, Moves
  <2>3. run'.downloads = Done(run.downloads, t) /\ run'.installs = Run(run.installs, t)
        /\ KeepsWrites
    BY <2>1 DEF RunType, KeepsWrites
  <2>4. QED
    BY <1>3, <2>2, <2>3 DEF Lands, DownloadEnds, InDownload
<1>4. CASE DownloadFails(t)
  <2>1. run' = [run EXCEPT !.stage[t] = "failed", !.temp[t] = {}, !.downloads = Done(@, t)]
    BY <1>4 DEF DownloadFails
  <2>2. Moves(t, "failed", {})
    BY <2>1 DEF RunType, Moves
  <2>3. run'.downloads = Done(run.downloads, t) /\ run'.installs = run.installs /\ KeepsWrites
    BY <2>1 DEF RunType, KeepsWrites
  <2>4. QED
    BY <1>4, <2>2, <2>3 DEF GivesUp, DownloadFails, InDownload
<1>5. CASE Verify(t)
  <2> DEFINE next == IF run.plan[t].overwrite THEN "destroying" ELSE "creating"
  <2>1. run' = [run EXCEPT !.stage[t] = next]
    BY <1>5 DEF Verify
  <2>2. Moves(t, next, run.temp[t])
    BY <1>2, <2>1 DEF RunType, Moves
  <2>3. run'.downloads = run.downloads /\ run'.installs = run.installs /\ KeepsWrites
    BY <2>1 DEF RunType, KeepsWrites
  <2>4. run.stage[t] = "downloaded" /\ t \in run.installs.running
        /\ run.temp[t] = {run.plan[t].version}
    BY <1>5 DEF Verify, InInstall, Verified
  <2>5. (run.plan[t].overwrite /\ Moves(t, "destroying", run.temp[t]))
        \/ Moves(t, "creating", run.temp[t])
    BY <2>2
  <2>6. QED
    BY <2>3, <2>4, <2>5 DEF Works
<1>6. ASSUME FailInstall(t) PROVE
        /\ Moves(t, "failed", {})
        /\ run'.downloads = run.downloads /\ run'.installs = Done(run.installs, t)
        /\ KeepsWrites
  <2>1. run' = [run EXCEPT !.stage[t] = "failed", !.temp[t] = {}, !.installs = Done(@, t)]
    BY <1>6 DEF FailInstall
  <2>2. Moves(t, "failed", {})
    BY <2>1 DEF RunType, Moves
  <2>3. run'.downloads = run.downloads /\ run'.installs = Done(run.installs, t) /\ KeepsWrites
    BY <2>1 DEF RunType, KeepsWrites
  <2>4. QED
    BY <2>2, <2>3
<1>7. CASE VerifyFails(t)
  BY <1>6, <1>7 DEF VerifyFails, InInstall, Fails
<1>8. CASE Destroy(t)
  <2>1. run' = [run EXCEPT !.stage[t] = "creating"] /\ run.stage[t] = "destroying"
    BY <1>8 DEF Destroy
  <2>2. Moves(t, "creating", run.temp[t])
    BY <1>2, <2>1 DEF RunType, Moves
  <2>3. run'.downloads = run.downloads /\ run'.installs = run.installs /\ KeepsWrites
    BY <2>1 DEF RunType, KeepsWrites
  <2>4. QED
    BY <2>1, <2>2, <2>3 DEF Works
<1>9. CASE Create(t)
  <2>1. run' = [run EXCEPT !.stage[t] = "templating"] /\ run.stage[t] = "creating"
    BY <1>9 DEF Create
  <2>2. Moves(t, "templating", run.temp[t])
    BY <1>2, <2>1 DEF RunType, Moves
  <2>3. run'.downloads = run.downloads /\ run'.installs = run.installs /\ KeepsWrites
    BY <2>1 DEF RunType, KeepsWrites
  <2>4. QED
    BY <2>1, <2>2, <2>3 DEF Works
<1>10. CASE CreateFails(t)
  BY <1>6, <1>10 DEF CreateFails, Fails
<1>11. CASE TemplateFails(t)
  BY <1>6, <1>11 DEF TemplateFails, Fails
<1>12. CASE Template(t)
  <2>1. /\ run.stage[t] = "templating"
        /\ run' = [run EXCEPT !.stage[t] = "flushing", !.temp[t] = {}, !.installs = Done(@, t),
                              !.cache = [u \in DOMAIN @ \cup {t} |->
                                              IF u = t THEN Installed(t) ELSE @[u]],
                              !.writing = Append(@, t)]
    BY <1>12 DEF Template, Installed
  <2>2. Moves(t, "flushing", {})
    BY <2>1 DEF RunType, Moves
  <2>3. /\ run'.downloads = run.downloads /\ run'.installs = Done(run.installs, t)
        /\ run'.writing = Append(run.writing, t)
    BY <2>1 DEF RunType
  <2>4. run'.cache = [u \in DOMAIN run.cache \cup {t} |->
                        IF u = t THEN Installed(t) ELSE run.cache[u]]
    BY <2>1 DEF RunType
  <2>5. QED
    BY <2>1, <2>2, <2>3, <2>4 DEF Records
<1>13. QED
  BY <1>3, <1>4, <1>5, <1>7, <1>8, <1>9, <1>10, <1>11, <1>12 DEF ItemStep

IsRecord(r) ==
  r = [phase |-> r.phase, mode |-> r.mode, plan |-> r.plan, cache |-> r.cache,
       stage |-> r.stage, temp |-> r.temp, downloads |-> r.downloads, installs |-> r.installs,
       writing |-> r.writing, writeFailed |-> r.writeFailed]

LEMMA RunIsRecord ==
  ASSUME run \in RunType
  PROVE  IsRecord(run)
  BY DEF RunType, IsRecord

LEMMA ItemKeepsRecord ==
  ASSUME run \in RunType, NEW t \in Templates, ItemStep(t)
  PROVE  IsRecord(run')
<1>1. CASE DownloadEnds(t)
  <2>1. PICK image \in {run.plan[t].version, Corrupt} :
          run' = [run EXCEPT !.stage[t] = "downloaded", !.temp[t] = {image},
                             !.downloads = Done(@, t), !.installs = Run(@, t)]
    BY <1>1 DEF DownloadEnds
  <2>2. QED
    BY <2>1 DEF RunType, IsRecord
<1>2. CASE DownloadFails(t)
  BY <1>2 DEF DownloadFails, RunType, IsRecord
<1>3. CASE Verify(t)
  BY <1>3 DEF Verify, RunType, IsRecord
<1>4. CASE VerifyFails(t)
  BY <1>4 DEF VerifyFails, FailInstall, RunType, IsRecord
<1>5. CASE Destroy(t)
  BY <1>5 DEF Destroy, RunType, IsRecord
<1>6. CASE Create(t)
  BY <1>6 DEF Create, RunType, IsRecord
<1>7. CASE CreateFails(t)
  BY <1>7 DEF CreateFails, FailInstall, RunType, IsRecord
<1>8. CASE TemplateFails(t)
  BY <1>8 DEF TemplateFails, FailInstall, RunType, IsRecord
<1>9. CASE Template(t)
  BY <1>9 DEF Template, RunType, IsRecord
<1>10. QED
  BY <1>1, <1>2, <1>3, <1>4, <1>5, <1>6, <1>7, <1>8, <1>9 DEF ItemStep

Working == {"destroying", "creating", "templating"}

\* A slot for each that works, and nobody is lost between the semaphores.
LEMMA ItemKeepsSlots ==
  ASSUME TypeOK, SlotsTrue, NEW t \in Templates, ItemStep(t)
  PROVE  /\ run'.downloads \in Semaphores /\ Sound(run'.downloads, DownloadLimit)
         /\ run'.installs \in Semaphores /\ Sound(run'.installs, InstallLimit)
         /\ SlotsTrue'
<1> DEFINE down == run.downloads
           inst == run.installs
<1>1. /\ down \in Semaphores /\ inst \in Semaphores /\ run.stage \in [Templates -> Stages]
      /\ Sound(down, DownloadLimit) /\ Sound(inst, InstallLimit)
      /\ DownloadLimit \in Nat /\ InstallLimit \in Nat
  BY RunFields, PreflightAssumption DEF TypeOK
<1>2. /\ At(down) = {u \in Templates : run.stage[u] = "downloading"}
      /\ At(inst) = {u \in Templates : run.stage[u] \in {"downloaded"} \cup Working}
      /\ \A u \in Templates : run.stage[u] \in Working => u \in inst.running
  BY DEF SlotsTrue, Working
<1>3. ASSUME /\ At(run'.downloads) = {u \in Templates : run'.stage[u] = "downloading"}
             /\ At(run'.installs) = {u \in Templates : run'.stage[u] \in {"downloaded"} \cup Working}
             /\ \A u \in Templates : run'.stage[u] \in Working => u \in run'.installs.running
      PROVE SlotsTrue'
  BY <1>3 DEF SlotsTrue, Working, At
<1>4. Lands(t) \/ GivesUp(t) \/ Works(t) \/ Fails(t) \/ Records(t)
  BY ItemMoves DEF TypeOK
<1> HIDE DEF down, inst
<1>6. CASE Lands(t)
  <2>1. /\ run.stage[t] = "downloading" /\ t \in down.running
        /\ run'.downloads = Done(down, t) /\ run'.installs = Run(inst, t)
        /\ run'.stage[t] = "downloaded"
        /\ \A u \in Templates : u # t => run'.stage[u] = run.stage[u]
    BY <1>1, <1>6 DEF Moves, Lands, down, inst
  <2>2. t \notin At(inst)
    BY <1>2, <2>1 DEF Working
  <2>3. /\ Done(down, t) \in Semaphores /\ Sound(Done(down, t), DownloadLimit)
        /\ At(Done(down, t)) = At(down) \ {t}
    BY <1>1, <2>1, DoneIsSound
  <2>4. /\ Run(inst, t) \in Semaphores /\ Sound(Run(inst, t), InstallLimit)
        /\ At(Run(inst, t)) = At(inst) \cup {t} /\ inst.running \subseteq Run(inst, t).running
    BY <1>1, <2>2, RunIsSound
  <2>5. At(run'.downloads) = {u \in Templates : run'.stage[u] = "downloading"}
    BY <1>2, <2>1, <2>3
  <2>6. At(run'.installs) = {u \in Templates : run'.stage[u] \in {"downloaded"} \cup Working}
    BY <1>2, <2>1, <2>4
  <2>7. \A u \in Templates : run'.stage[u] \in Working => u \in run'.installs.running
    BY <1>2, <2>1, <2>4 DEF Working
  <2>8. QED
    BY <1>3, <2>1, <2>3, <2>4, <2>5, <2>6, <2>7
<1>7. CASE GivesUp(t)
  <2>1. /\ run.stage[t] = "downloading" /\ t \in down.running
        /\ run'.downloads = Done(down, t) /\ run'.installs = inst
        /\ run'.stage[t] = "failed"
        /\ \A u \in Templates : u # t => run'.stage[u] = run.stage[u]
    BY <1>1, <1>7 DEF Moves, GivesUp, down, inst
  <2>2. /\ Done(down, t) \in Semaphores /\ Sound(Done(down, t), DownloadLimit)
        /\ At(Done(down, t)) = At(down) \ {t}
    BY <1>1, <2>1, DoneIsSound
  <2>3. At(run'.downloads) = {u \in Templates : run'.stage[u] = "downloading"}
    BY <1>2, <2>1, <2>2
  <2>4. At(run'.installs) = {u \in Templates : run'.stage[u] \in {"downloaded"} \cup Working}
    BY <1>2, <2>1 DEF Working
  <2>5. \A u \in Templates : run'.stage[u] \in Working => u \in run'.installs.running
    BY <1>2, <2>1 DEF Working
  <2>6. QED
    BY <1>1, <1>3, <2>1, <2>2, <2>3, <2>4, <2>5
<1>8. CASE Works(t)
  <2>1. /\ run.stage[t] \in {"downloaded"} \cup Working /\ run'.stage[t] \in Working
        /\ run.stage[t] = "downloaded" => t \in inst.running
        /\ run'.downloads = down /\ run'.installs = inst
        /\ \A u \in Templates : u # t => run'.stage[u] = run.stage[u]
    BY <1>1, <1>8 DEF Moves, Works, Working, down, inst
  <2>2. At(run'.downloads) = {u \in Templates : run'.stage[u] = "downloading"}
    BY <1>2, <2>1 DEF Working
  <2>3. At(run'.installs) = {u \in Templates : run'.stage[u] \in {"downloaded"} \cup Working}
    BY <1>2, <2>1
  <2>4. \A u \in Templates : run'.stage[u] \in Working => u \in run'.installs.running
    BY <1>2, <2>1
  <2>5. QED
    BY <1>1, <1>3, <2>1, <2>2, <2>3, <2>4
<1>9. CASE Fails(t) \/ Records(t)
  <2>1. /\ run.stage[t] \in {"downloaded"} \cup Working /\ run'.stage[t] \in {"failed", "flushing"}
        /\ run.stage[t] = "downloaded" => t \in inst.running
        /\ run'.downloads = down /\ run'.installs = Done(inst, t)
        /\ \A u \in Templates : u # t => run'.stage[u] = run.stage[u]
    BY <1>1, <1>9 DEF Moves, Fails, Records, Working, down, inst
  <2>2. t \in inst.running
    BY <1>2, <2>1
  <2>3. /\ Done(inst, t) \in Semaphores /\ Sound(Done(inst, t), InstallLimit)
        /\ At(Done(inst, t)) = At(inst) \ {t} /\ inst.running \ {t} \subseteq Done(inst, t).running
    BY <1>1, <2>2, DoneIsSound
  <2>4. At(run'.downloads) = {u \in Templates : run'.stage[u] = "downloading"}
    BY <1>2, <2>1 DEF Working
  <2>5. At(run'.installs) = {u \in Templates : run'.stage[u] \in {"downloaded"} \cup Working}
    BY <1>2, <2>1, <2>3 DEF Working
  <2>6. \A u \in Templates : run'.stage[u] \in Working => u \in run'.installs.running
    BY <1>2, <2>1, <2>3 DEF Working
  <2>7. QED
    BY <1>1, <1>3, <2>1, <2>3, <2>4, <2>5, <2>6
<1>10. QED
  BY <1>4, <1>6, <1>7, <1>8, <1>9

\* The run and its semaphores are in order.
RunTrue ==
  /\ run \in RunType
  /\ Sound(run.downloads, DownloadLimit) /\ Sound(run.installs, InstallLimit)
  /\ SlotsTrue /\ PhasesTrue

LEMMA OverKeepsRun ==
  ASSUME run' = Over
  PROVE  RunTrue'
<1>1. DownloadLimit \in Nat /\ InstallLimit \in Nat
  BY PreflightAssumption
<1>2. /\ At(Over.downloads) = {} /\ At(Over.installs) = {}
      /\ Sound(Over.downloads, DownloadLimit) /\ Sound(Over.installs, InstallLimit)
  BY <1>1, EmptyIsSound, OverIsRun
<1>3. /\ At(run'.downloads) = {t \in Templates : run'.stage[t] = "downloading"}
      /\ At(run'.installs) = {t \in Templates : run'.stage[t] \in
                           {"downloaded", "destroying", "creating", "templating"}}
      /\ \A t \in Templates : run'.stage[t] \in {"destroying", "creating", "templating"}
                            => t \in run'.installs.running
  BY <1>2, OverIsRun
<1>4. SlotsTrue'
  BY <1>3 DEF SlotsTrue, At
<1>5. PhasesTrue'
  BY OverIsRun DEF PhasesTrue, Items
<1>6. QED
  BY <1>2, <1>4, <1>5, OverIsRun DEF RunTrue

\* What every plan is made of.
Planned(plan, mode) ==
  /\ plan \in InstallPlans
  /\ \A t \in DOMAIN plan :
       /\ plan[t].version = registry
       /\ mode = "install" => ~ plan[t].overwrite
       /\ mode = "upgrade" => t \in DOMAIN file /\ file[t].version # registry

LEMMA PlansArePlanned ==
  ASSUME file \in Caches, registry \in Versions, NEW mode \in Modes, NEW T \in SUBSET Templates
  PROVE  /\ mode = "upgrade" => Planned(StaleItems(T, file), mode)
         /\ \A p \in PlanInstall(T, file, mode = "overwrite") : \A plan \in Reviewed(p) :
              mode # "upgrade" => Planned(plan, mode)
<1>1. DOMAIN file \in SUBSET Templates /\ file \in [DOMAIN file -> Record]
  BY CacheForm
<1>2. ASSUME mode = "upgrade" PROVE Planned(StaleItems(T, file), mode)
  <2> DEFINE stale == {u \in T \cap DOMAIN file : IsStale(u, file)}
             plan == StaleItems(T, file)
  <2>1. plan = [t \in stale |-> [vmid |-> file[t].vmid, overwrite |-> TRUE, version |-> registry]]
    BY DEF StaleItems
  <2>2. ASSUME NEW t \in stale
        PROVE  /\ t \in DOMAIN file /\ file[t].version # registry /\ file[t].vmid \in Vmids
               /\ plan[t].version = registry /\ plan[t] \in PlanType
    BY <1>1, <2>1 DEF IsStale, PlanType, Record
  <2>3. stale \in SUBSET Templates /\ DOMAIN plan = stale /\ plan \in [stale -> PlanType]
    BY <1>1, <2>1, <2>2
  <2> HIDE DEF plan, stale
  <2>4. plan \in InstallPlans
    BY <2>3, CacheForm
  <2>5. Planned(plan, mode)
    BY <1>2, <2>2, <2>3, <2>4 DEF Planned
  <2>6. QED
    BY <2>5 DEF plan
<1>3. ASSUME NEW p \in PlanInstall(T, file, mode = "overwrite"), NEW plan \in Reviewed(p),
             mode # "upgrade"
      PROVE  Planned(plan, mode)
  <2>1. /\ p \in [T -> [vmid : Vmids, version : {registry}, overwrite : BOOLEAN]]
        /\ ResolveVmids(p, file, Taken, mode = "overwrite")
    BY DEF PlanInstall
  <2>2. ASSUME NEW t \in T, mode = "install" PROVE ~ p[t].overwrite
    <3>1. DOMAIN p = T
      BY <2>1
    <3>2. mode # "overwrite"
      BY <2>2
    <3>3. QED
      BY <2>1, <3>1, <3>2 DEF ResolveVmids
  <2>3. ASSUME NEW t \in T
        PROVE  p[t] \in PlanType /\ p[t].version = registry /\ p[t].overwrite \in BOOLEAN
    BY <2>1 DEF PlanType
  <2>4. CASE plan = p
    <3>1. plan \in [T -> PlanType] /\ DOMAIN plan = T
      BY <2>1, <2>3, <2>4
    <3>2. plan \in InstallPlans
      BY <3>1, CacheForm
    <3>3. QED
      BY <1>3, <2>2, <2>3, <2>4, <3>1, <3>2 DEF Planned
  <2>5. CASE plan # p
    <3> DEFINE free(t) == {v \in Vmids : vm[v] = NoVm /\ \A u \in DOMAIN p \ {t} : p[u].vmid # v}
               edits(t) == {[p EXCEPT ![t].vmid = v, ![t].overwrite = FALSE] : v \in free(t)}
    <3>1. plan \in UNION {edits(t) : t \in DOMAIN p}
      BY <2>5 DEF Reviewed
    <3>10. PICK u \in DOMAIN p : plan \in edits(u)
      BY <3>1
    <3>2. PICK v \in Vmids : plan = [p EXCEPT ![u].vmid = v, ![u].overwrite = FALSE]
      BY <3>10
    <3>3. u \in T /\ DOMAIN plan = T
      BY <2>1, <3>10, <3>2
    <3>4. plan[u] \in PlanType /\ plan[u].version = registry /\ ~ plan[u].overwrite
      BY <2>1, <3>2, <3>3 DEF PlanType
    <3>5. \A t \in T : t # u => plan[t] = p[t]
      BY <2>1, <3>2, <3>3
    <3>6. plan = [t \in T |-> plan[t]]
      BY <2>1, <3>2
    <3>7. plan \in [T -> PlanType]
      BY <2>3, <3>4, <3>5, <3>6
    <3>8. plan \in InstallPlans
      BY <3>7, CacheForm
    <3>9. QED
      BY <1>3, <2>2, <2>3, <3>3, <3>4, <3>5, <3>8 DEF Planned
  <2>6. QED
    BY <2>4, <2>5
<1>4. QED
  BY <1>2, <1>3

\* A run begins with a plan, and with the cache as it is.
Begins(plan, mode) ==
  /\ mode \in Modes /\ Planned(plan, mode) /\ DOMAIN plan # {}
  /\ run' \in RunType
  /\ run'.phase = "planned" /\ run'.mode = mode /\ run'.plan = plan /\ run'.cache = file
  /\ run'.writing = <<>> /\ run'.downloads = Over.downloads /\ run'.installs = Over.installs
  /\ run'.stage = Over.stage

LEMMA BeginBegins ==
  ASSUME file \in Caches, registry \in Versions, Begin
  PROVE  \E mode \in Modes : \E plan : Begins(plan, mode)
<1>1. PICK mode \in Modes : \E T \in SUBSET Templates : \E plan \in PlansFor(T, mode) :
        /\ DOMAIN plan # {}
        /\ run' = [Over EXCEPT !.phase = "planned", !.mode = mode, !.plan = plan, !.cache = file]
  BY DEF Begin
<1>10. PICK T \in SUBSET Templates : \E plan \in PlansFor(T, mode) :
        /\ DOMAIN plan # {}
        /\ run' = [Over EXCEPT !.phase = "planned", !.mode = mode, !.plan = plan, !.cache = file]
  BY <1>1
<1>2. PICK plan \in PlansFor(T, mode) :
        /\ DOMAIN plan # {}
        /\ run' = [Over EXCEPT !.phase = "planned", !.mode = mode, !.plan = plan, !.cache = file]
  BY <1>10
<1>9. /\ mode = "upgrade" => plan = StaleItems(T, file)
      /\ mode # "upgrade" =>
           \E p \in PlanInstall(T, file, mode = "overwrite") : plan \in Reviewed(p)
  BY <1>2 DEF PlansFor
<1>3. Planned(plan, mode)
  BY <1>9, PlansArePlanned
<1>4. plan \in InstallPlans /\ "planned" \in Phases
  BY <1>3 DEF Planned, Phases
<1>5. Over \in RunType
  BY OverIsRun
<1>6. run' \in RunType
  BY <1>2, <1>4, <1>5 DEF RunType
<1>7. /\ run'.phase = "planned" /\ run'.mode = mode /\ run'.plan = plan /\ run'.cache = file
      /\ run'.writing = Over.writing /\ run'.downloads = Over.downloads
      /\ run'.installs = Over.installs /\ run'.stage = Over.stage
  BY <1>2, <1>5 DEF RunType
<1>8. QED
  BY <1>2, <1>3, <1>6, <1>7, OverIsRun DEF Begins

LEMMA BeginKeepsRun ==
  ASSUME file \in Caches, registry \in Versions, Begin
  PROVE  RunTrue'
<1>1. PICK mode \in Modes : \E plan : Begins(plan, mode)
  BY BeginBegins
<1>2. PICK plan : Begins(plan, mode)
  BY <1>1
<1>3. DownloadLimit \in Nat /\ InstallLimit \in Nat
  BY PreflightAssumption
<1>4. /\ At(Over.downloads) = {} /\ At(Over.installs) = {}
      /\ Sound(Over.downloads, DownloadLimit) /\ Sound(Over.installs, InstallLimit)
  BY <1>3, EmptyIsSound, OverIsRun
<1>5. /\ run' \in RunType /\ run'.phase = "planned"
      /\ run'.downloads = Over.downloads /\ run'.installs = Over.installs
      /\ \A t \in Templates : run'.stage[t] = "none"
  BY <1>2, OverIsRun DEF Begins
<1>6. SlotsTrue'
  BY <1>4, <1>5 DEF SlotsTrue, At
<1>7. PhasesTrue'
  BY <1>5, OverIsRun DEF PhasesTrue
<1>8. QED
  BY <1>4, <1>5, <1>6, <1>7 DEF RunTrue

\* The whole plan comes to the downloads.
LEMMA StartKeepsRun ==
  ASSUME RunTrue, StartInstalls
  PROVE  /\ RunTrue' /\ run'.phase = "installing" /\ run.phase = "planned"
         /\ run'.mode = run.mode /\ run'.plan = run.plan /\ run'.cache = run.cache
         /\ run'.writing = run.writing
         /\ \A t \in Templates : run'.stage[t] = IF t \in Items THEN "downloading" ELSE "none"
<1>1. PICK batch \in InOrder(Items) :
         run' = [run EXCEPT !.phase = "installing",
                            !.stage = [t \in Templates |->
                                            IF t \in Items THEN "downloading" ELSE "none"],
                            !.downloads = EnterAll(@, batch)]
  BY DEF StartInstalls
<1>2. /\ run \in RunType /\ Items \in SUBSET Templates /\ run.phase = "planned"
      /\ run.downloads = Permits(DownloadLimit) /\ run.installs = Permits(InstallLimit)
      /\ DownloadLimit \in Nat /\ InstallLimit \in Nat
  BY RunFields, PreflightAssumption DEF RunTrue, PhasesTrue, StartInstalls
<1> DEFINE stage == [t \in Templates |-> IF t \in Items THEN "downloading" ELSE "none"]
           down == EnterAll(Permits(DownloadLimit), batch)
<1>3. /\ down \in Semaphores /\ Sound(down, DownloadLimit) /\ At(down) = Items
  BY <1>2, EnterIsSound
<1>4. Sound(Permits(InstallLimit), InstallLimit) /\ At(Permits(InstallLimit)) = {}
  BY <1>2, EmptyIsSound
<1>5. stage \in [Templates -> Stages] /\ "installing" \in Phases
  BY DEF Stages, Phases
<1>6. run' = [run EXCEPT !.phase = "installing", !.stage = stage, !.downloads = down]
  BY <1>1, <1>2
<1>7. \A t \in Templates : stage[t] = IF t \in Items THEN "downloading" ELSE "none"
  OBVIOUS
<1> HIDE DEF stage, down
<1>8. run' \in RunType
  BY <1>2, <1>3, <1>5, <1>6 DEF RunType
<1>9. /\ run'.phase = "installing" /\ run'.stage = stage /\ run'.downloads = down
      /\ run'.mode = run.mode /\ run'.plan = run.plan /\ run'.cache = run.cache
      /\ run'.writing = run.writing /\ run'.installs = Permits(InstallLimit)
  BY <1>2, <1>6 DEF RunType
<1>10. SlotsTrue'
  <2>1. At(run'.downloads) = {t \in Templates : run'.stage[t] = "downloading"}
    BY <1>2, <1>3, <1>7, <1>9
  <2>2. At(run'.installs) = {t \in Templates : run'.stage[t] \in
                           {"downloaded", "destroying", "creating", "templating"}}
    BY <1>4, <1>7, <1>9
  <2>3. \A t \in Templates : run'.stage[t] \notin {"destroying", "creating", "templating"}
    BY <1>7, <1>9
  <2>4. QED
    BY <2>1, <2>2, <2>3 DEF SlotsTrue, At
<1>11. PhasesTrue'
  BY <1>7, <1>9 DEF PhasesTrue, Items
<1>12. QED
  BY <1>2, <1>3, <1>4, <1>7, <1>8, <1>9, <1>10, <1>11 DEF RunTrue

\* One write of the chain: of the first item in it.
Writes(t) ==
  /\ run.writing # <<>> /\ t = Head(run.writing) /\ t \in Items
  /\ run.stage[t] \in {"flushing", "ok"}
  /\ run'.phase = run.phase /\ run'.mode = run.mode
  /\ run'.plan = run.plan /\ run'.cache = run.cache
  /\ run'.stage = [run.stage EXCEPT ![t] = "ok"] /\ run'.temp = run.temp
  /\ run'.writing = Tail(run.writing)
  /\ file' = IF run'.writeFailed THEN file ELSE run.cache

LEMMA FlushKeepsRun ==
  ASSUME RunTrue, WritesTrue, Flush
  PROVE  RunTrue' /\ \E t \in Templates : Writes(t)
<1>1. PICK failed \in BOOLEAN :
        /\ file' = IF failed THEN file ELSE run.cache
        /\ run' = [run EXCEPT !.stage[Head(run.writing)] = "ok",
                              !.writing = Tail(@), !.writeFailed = failed]
  BY DEF Flush
<1> DEFINE t == Head(run.writing)
<1>2. /\ run \in RunType /\ run.stage \in [Templates -> Stages]
      /\ run.writing \in Seq(Templates) /\ run.writing # <<>> /\ run.phase = "installing"
      /\ Items \in SUBSET Templates
  BY RunFields DEF RunTrue, Flush
<1>3. /\ t = run.writing[1] /\ 1 \in DOMAIN run.writing /\ Tail(run.writing) \in Seq(Templates)
  BY <1>2, HeadTailProperties, LenProperties, EmptySeq
<1>4. t \in Items /\ run.stage[t] \in {"flushing", "ok"} /\ t \in Templates
  BY <1>2, <1>3 DEF WritesTrue
<1> HIDE DEF t
<1> DEFINE stage == [run.stage EXCEPT ![t] = "ok"]
<1>5. run' = [run EXCEPT !.stage = stage, !.writing = Tail(run.writing), !.writeFailed = failed]
  BY <1>1, <1>2 DEF t
<1>6. stage \in [Templates -> Stages]
  BY <1>2 DEF Stages
<1>7. /\ stage[t] = "ok" /\ \A u \in Templates : u # t => stage[u] = run.stage[u]
  BY <1>2, <1>4
<1>8. Writes(t)
  <2>1. /\ run'.phase = run.phase /\ run'.mode = run.mode
        /\ run'.plan = run.plan /\ run'.cache = run.cache
        /\ run'.stage = stage /\ run'.temp = run.temp
        /\ run'.writing = Tail(run.writing) /\ run'.writeFailed = failed
    BY <1>2, <1>5 DEF RunType
  <2>2. QED
    BY <1>1, <1>2, <1>4, <2>1 DEF Writes, t
<1> HIDE DEF stage
<1>9. run' \in RunType
  BY <1>2, <1>3, <1>5, <1>6 DEF RunType
<1>10. /\ run'.phase = run.phase /\ run'.plan = run.plan /\ run'.stage = stage
       /\ run'.downloads = run.downloads /\ run'.installs = run.installs
  BY <1>2, <1>5 DEF RunType
<1>11. SlotsTrue'
  <2>1. /\ At(run.downloads) = {u \in Templates : run.stage[u] = "downloading"}
        /\ At(run.installs) = {u \in Templates : run.stage[u] \in
                           {"downloaded", "destroying", "creating", "templating"}}
        /\ \A u \in Templates : run.stage[u] \in {"destroying", "creating", "templating"}
                            => u \in run.installs.running
    BY DEF RunTrue, SlotsTrue
  <2>2. At(run'.downloads) = {u \in Templates : run'.stage[u] = "downloading"}
    BY <1>4, <1>7, <1>10, <2>1
  <2>3. At(run'.installs) = {u \in Templates : run'.stage[u] \in
                           {"downloaded", "destroying", "creating", "templating"}}
    BY <1>4, <1>7, <1>10, <2>1
  <2>4. \A u \in Templates : run'.stage[u] \in {"destroying", "creating", "templating"}
                            => u \in run'.installs.running
    BY <1>4, <1>7, <1>10, <2>1
  <2>5. QED
    BY <2>2, <2>3, <2>4 DEF SlotsTrue, At
<1>12. PhasesTrue'
  <2>1. \A u \in Templates : u \notin Items => run.stage[u] = "none"
    BY DEF RunTrue, PhasesTrue
  <2>2. \A u \in Templates : u \notin Items' => run'.stage[u] = "none"
    BY <1>4, <1>7, <1>10, <2>1 DEF Items
  <2>3. QED
    BY <1>2, <1>10, <2>2 DEF PhasesTrue
<1>13. QED
  BY <1>4, <1>8, <1>9, <1>10, <1>11, <1>12 DEF RunTrue

LEMMA ItemKeepsRun ==
  ASSUME TypeOK, RunTrue, NEW t \in Items, ItemStep(t)
  PROVE  RunTrue' /\ run.phase = "installing"
<1>1. /\ run \in RunType /\ SlotsTrue /\ PhasesTrue /\ t \in Templates
      /\ run.plan \in InstallPlans /\ run.cache \in Caches /\ run.writing \in Seq(Templates)
      /\ run.stage \in [Templates -> Stages] /\ run.temp \in [Templates -> SUBSET Images]
      /\ run.plan[t] \in PlanType
      /\ run.phase \in Phases /\ run.mode \in Modes /\ run.writeFailed \in BOOLEAN
  BY RunFields DEF RunTrue
<1>2. /\ run'.downloads \in Semaphores /\ Sound(run'.downloads, DownloadLimit)
      /\ run'.installs \in Semaphores /\ Sound(run'.installs, InstallLimit)
      /\ SlotsTrue'
  BY <1>1, ItemKeepsSlots
<1>3. Lands(t) \/ GivesUp(t) \/ Works(t) \/ Fails(t) \/ Records(t)
  BY <1>1, ItemMoves
<1>4. run.stage[t] # "none"
  BY <1>3 DEF Lands, GivesUp, Works, Fails, Records
<1>5. run.phase = "installing"
  BY <1>1, <1>4 DEF PhasesTrue
<1>6. /\ run'.phase = run.phase /\ run'.mode = run.mode
      /\ run'.plan = run.plan /\ run'.writeFailed = run.writeFailed
      /\ run'.stage \in [Templates -> Stages]
      /\ \A u \in Templates : u # t => run'.stage[u] = run.stage[u]
  <2>1. PICK s \in Stages : /\ run'.stage = [run.stage EXCEPT ![t] = s]
                            /\ run'.phase = run.phase /\ run'.mode = run.mode
                            /\ run'.plan = run.plan /\ run'.writeFailed = run.writeFailed
    BY <1>3 DEF Lands, GivesUp, Works, Fails, Records, Moves, Stages
  <2>2. QED
    BY <1>1, <2>1
<1>7. run'.temp \in [Templates -> SUBSET Images]
  <2>1. {run.plan[t].version} \subseteq Images /\ {Corrupt} \subseteq Images
        /\ run.temp[t] \subseteq Images
    BY <1>1 DEF PlanType, Images
  <2>2. CASE Lands(t)
    <3>1. PICK image \in {run.plan[t].version, Corrupt} : run'.temp = [run.temp EXCEPT ![t] = {image}]
      BY <2>2 DEF Lands, Moves
    <3>2. {image} \in SUBSET Images
      BY <2>1, <3>1
    <3>3. QED
      BY <1>1, <3>1, <3>2
  <2>3. CASE ~ Lands(t)
    <3>1. run'.temp = [run.temp EXCEPT ![t] = {}] \/ run'.temp = [run.temp EXCEPT ![t] = run.temp[t]]
      BY <1>3, <2>3 DEF GivesUp, Works, Fails, Records, Moves
    <3>2. QED
      BY <1>1, <3>1
  <2>4. QED
    BY <2>2, <2>3
<1>8. run'.cache \in Caches /\ run'.writing \in Seq(Templates)
  <2>1. CASE Records(t)
    <3>1. Installed(t) \in Record
      BY <1>1 DEF Installed, Record, PlanType, VmidOf
    <3>2. DOMAIN run.cache \in SUBSET Templates /\ run.cache \in [DOMAIN run.cache -> Record]
      BY <1>1, CacheForm
    <3>3. /\ DOMAIN run.cache \cup {t} \in SUBSET Templates
          /\ run'.cache \in [DOMAIN run.cache \cup {t} -> Record]
      BY <1>1, <2>1, <3>1, <3>2 DEF Records
    <3>4. run'.writing = Append(run.writing, t)
      BY <2>1 DEF Records
    <3>5. run'.cache \in Caches
      BY <3>3, CacheForm
    <3>6. Append(run.writing, t) \in Seq(Templates)
      BY <1>1, AppendProperties
    <3>7. QED
      BY <3>4, <3>5, <3>6
  <2>2. CASE ~ Records(t)
    BY <1>1, <1>3, <2>2 DEF Lands, GivesUp, Works, Fails, KeepsWrites
  <2>3. QED
    BY <2>1, <2>2
<1>9. run' \in RunType
  <2>1. IsRecord(run')
    BY <1>1, ItemKeepsRecord
  <2>2. QED
    BY <1>1, <1>2, <1>6, <1>7, <1>8, <2>1 DEF IsRecord, RunType
<1>10. PhasesTrue'
  <2>1. \A u \in Templates : u \notin Items => run'.stage[u] = "none"
    BY <1>1, <1>6 DEF PhasesTrue
  <2>2. QED
    BY <1>5, <1>6, <2>1 DEF PhasesTrue, Items
<1>11. QED
  BY <1>2, <1>5, <1>9, <1>10 DEF RunTrue

\* Every step is one of these.
Stays  == run' = run /\ file' = file
Ends   == run' = Over /\ file' \in {file, run.cache}
Starts ==
  /\ file' = file /\ run.phase = "planned"
  /\ run'.mode = run.mode /\ run'.plan = run.plan /\ run'.cache = run.cache
  /\ run'.writing = run.writing
  /\ \A t \in Templates : run'.stage[t] = IF t \in Items THEN "downloading" ELSE "none"

LEMMA Steps ==
  ASSUME TypeOK, RunTrue, WritesTrue, [Next]_vars
  PROVE  /\ RunTrue'
         /\ registry' \in Versions /\ registry <= registry'
         /\ \/ Stays \/ Ends \/ Starts
            \/ /\ file' = file /\ registry' = registry
               /\ \E mode \in Modes : \E plan : Begins(plan, mode)
            \/ \E t \in Templates : Writes(t)
            \/ file' = file /\ \E t \in Items : ItemStep(t)
<1>1. /\ file \in Caches /\ registry \in Versions /\ registry \in Nat /\ LastVersion \in Nat
  BY CoportAssumption DEF TypeOK, Versions
<1>2. CASE UNCHANGED vars
  <2>1. run' = run /\ file' = file /\ registry' = registry
    BY <1>2 DEF vars
  <2>2. RunTrue'
    BY <2>1 DEF RunTrue, SlotsTrue, PhasesTrue, At, Items
  <2>3. QED
    BY <1>1, <2>1, <2>2 DEF Stays
<1>3. CASE Publish
  <2>1. run' = run /\ file' = file /\ registry' \in Versions /\ registry <= registry'
    BY <1>1, <1>3 DEF Publish, Versions
  <2>2. RunTrue'
    BY <2>1 DEF RunTrue, SlotsTrue, PhasesTrue, At, Items
  <2>3. QED
    BY <1>1, <2>1, <2>2 DEF Stays
<1>4. CASE \E v \in Vmids : ByHand(v)
  <2>1. run' = run /\ file' = file /\ registry' = registry
    BY <1>4 DEF ByHand
  <2>2. RunTrue'
    BY <2>1 DEF RunTrue, SlotsTrue, PhasesTrue, At, Items
  <2>3. QED
    BY <1>1, <2>1, <2>2 DEF Stays
<1>5. CASE PreflightRefuses \/ End \/ Stop
  <2>1. run' = Over /\ file' \in {file, run.cache} /\ registry' = registry
    BY <1>5 DEF PreflightRefuses, End, Stop
  <2>2. QED
    BY <1>1, <2>1, OverKeepsRun DEF Ends
<1>6. CASE Begin
  <2>1. file' = file /\ registry' = registry
    BY <1>6 DEF Begin
  <2>2. QED
    BY <1>1, <1>6, <2>1, BeginKeepsRun, BeginBegins
<1>7. CASE StartInstalls
  <2>1. file' = file /\ registry' = registry
    BY <1>7 DEF StartInstalls
  <2>2. QED
    BY <1>1, <1>7, <2>1, StartKeepsRun DEF Starts
<1>8. CASE Flush
  <2>1. registry' = registry
    BY <1>8 DEF Flush
  <2>2. QED
    BY <1>1, <1>8, <2>1, FlushKeepsRun
<1>9. CASE \E t \in Items : ItemStep(t)
  <2>1. PICK t \in Items : ItemStep(t)
    BY <1>9
  <2>2. file' = file /\ registry' = registry
    BY <2>1 DEF ItemStep, DownloadEnds, DownloadFails, Verify, VerifyFails, Destroy, Create,
                CreateFails, Template, TemplateFails
  <2>3. QED
    BY <1>1, <2>1, <2>2, ItemKeepsRun
<1>10. QED
  BY <1>2, <1>3, <1>4, <1>5, <1>6, <1>7, <1>8, <1>9 DEF Next, Step, ItemStep

-----------------------------------------------------------------------------
(* What a step does at a VMID.                                              *)

Kept(v) == vm'[v] = vm[v] /\ removedBy'[v] = removedBy[v]
Removed(v) ==
  \E t \in Items :
    /\ VmidOf(t) = v /\ run.stage[t] = "destroying"
    /\ vm'[v] = NoVm /\ removedBy'[v] = Remover(t)
Made(v) ==
  \E t \in Items :
    /\ VmidOf(t) = v /\ run.stage[t] = "creating" /\ vm[v] = NoVm
    /\ vm'[v] = Guest(t, run.plan[t].version, FALSE) /\ removedBy'[v] = removedBy[v]
Finished(v) ==
  /\ Unfinished(v) /\ vm'[v] = [vm[v] EXCEPT !.ready = TRUE]
  /\ removedBy'[v] \in {removedBy[v], "nobody"}
Touched(v) == hands' # hands /\ vm'[v] \in {NoVm, Foreign} /\ removedBy'[v] = "others"

Changed(v) == Kept(v) \/ Removed(v) \/ Made(v) \/ Finished(v) \/ Touched(v)

LEMMA ImportedIs ==
  ASSUME ItemsTrue, NEW t \in Items, run.stage[t] = "creating"
  PROVE  Imported(t) = Guest(t, run.plan[t].version, FALSE)
<1>1. run.temp[t] = {run.plan[t].version}
  BY DEF ItemsTrue
<1>2. (CHOOSE image \in run.temp[t] : TRUE) = run.plan[t].version
  BY <1>1
<1>3. QED
  BY <1>2 DEF Imported

LEMMA VmChanges ==
  ASSUME TypeOK, ItemsTrue, [Next]_vars
  PROVE  /\ DOMAIN vm' = Vmids /\ vm' = [v \in Vmids |-> vm'[v]]
         /\ removedBy' = [v \in Vmids |-> removedBy'[v]]
         /\ hands' \in 0 .. MaxHands
         /\ \A v \in Vmids : Changed(v)
<1> DEFINE Goal == /\ vm' = [v \in Vmids |-> vm'[v]]
                   /\ removedBy' = [v \in Vmids |-> removedBy'[v]]
                   /\ hands' \in 0 .. MaxHands
                   /\ \A v \in Vmids : Changed(v)
<1>1. /\ vm \in [Vmids -> {NoVm, Foreign} \cup Guests]
      /\ removedBy \in [Vmids -> Templates \cup {"nobody", "others"}]
      /\ hands \in 0 .. MaxHands /\ MaxHands \in Nat
      /\ \A t \in Items : VmidOf(t) \in Vmids
  BY RunFields, CoportAssumption DEF TypeOK, VmidOf, PlanType
<1>2. ASSUME vm' = vm, removedBy' = removedBy, hands' = hands PROVE Goal
  BY <1>1, <1>2 DEF Changed, Kept
<1>3. ASSUME NEW t \in Items, ItemStep(t), ~ Destroy(t), ~ Create(t), ~ CreateFails(t), ~ Template(t)
      PROVE  Goal
  <2>1. vm' = vm /\ removedBy' = removedBy /\ hands' = hands
    BY <1>3 DEF ItemStep, DownloadEnds, DownloadFails, Verify, VerifyFails, TemplateFails
  <2>2. QED
    BY <1>2, <2>1
<1>4. ASSUME NEW t \in Items, Destroy(t) PROVE Goal
  <2>1. hands' = hands /\ run.stage[t] = "destroying"
    BY <1>4 DEF Destroy
  <2>2. CASE vm' = vm /\ removedBy' = removedBy
    BY <1>2, <2>1, <2>2
  <2>3. CASE /\ vm' = [vm EXCEPT ![VmidOf(t)] = NoVm]
             /\ removedBy' = [removedBy EXCEPT ![VmidOf(t)] = Remover(t)]
    <3>1. Removed(VmidOf(t))
      BY <1>1, <2>1, <2>3 DEF Removed
    <3>2. \A v \in Vmids : v # VmidOf(t) => Kept(v)
      BY <1>1, <2>3 DEF Kept
    <3>3. \A v \in Vmids : Changed(v)
      BY <3>1, <3>2 DEF Changed
    <3>4. QED
      BY <1>1, <2>1, <2>3, <3>3
  <2>4. QED
    BY <1>4, <2>2, <2>3 DEF Destroy
<1>5. ASSUME NEW t \in Items, Create(t) \/ CreateFails(t) PROVE Goal
  <2>1. hands' = hands /\ run.stage[t] = "creating" /\ removedBy' = removedBy
    BY <1>5 DEF Create, CreateFails
  <2>2. CASE vm' = vm
    BY <1>2, <2>1, <2>2
  <2>3. CASE vm[VmidOf(t)] = NoVm /\ vm' = [vm EXCEPT ![VmidOf(t)] = Imported(t)]
    <3>1. Made(VmidOf(t))
      BY <1>1, <2>1, <2>3, ImportedIs DEF Made
    <3>2. \A v \in Vmids : v # VmidOf(t) => Kept(v)
      BY <1>1, <2>1, <2>3 DEF Kept
    <3>3. \A v \in Vmids : Changed(v)
      BY <3>1, <3>2 DEF Changed
    <3>4. QED
      BY <1>1, <2>1, <2>3, <3>3
  <2>4. QED
    BY <1>5, <2>2, <2>3 DEF Create, CreateFails
<1>6. ASSUME NEW t \in Items, Template(t) PROVE Goal
  <2>1. /\ hands' = hands
        /\ vm' = [vm EXCEPT ![VmidOf(t)] =
                     IF Unfinished(VmidOf(t)) THEN [@ EXCEPT !.ready = TRUE] ELSE @]
        /\ removedBy' = [removedBy EXCEPT ![VmidOf(t)] =
                            IF Unfinished(VmidOf(t)) THEN "nobody" ELSE @]
    BY <1>6 DEF Template, Templated
  <2>2. Finished(VmidOf(t)) \/ Kept(VmidOf(t))
    BY <1>1, <2>1 DEF Finished, Kept
  <2>3. \A v \in Vmids : v # VmidOf(t) => Kept(v)
    BY <1>1, <2>1 DEF Kept
  <2>4. \A v \in Vmids : Changed(v)
    BY <2>2, <2>3 DEF Changed
  <2>5. QED
    BY <1>1, <2>1, <2>4
<1>7. ASSUME NEW w \in Vmids, ByHand(w) PROVE Goal
  <2>1. /\ hands < MaxHands /\ hands' = hands + 1
        /\ \E guest \in {NoVm, Foreign} : vm' = [vm EXCEPT ![w] = guest]
        /\ removedBy' = [removedBy EXCEPT ![w] = "others"]
    BY <1>7 DEF ByHand
  <2>2. Touched(w)
    BY <1>1, <2>1 DEF Touched
  <2>3. \A v \in Vmids : v # w => Kept(v)
    BY <1>1, <2>1 DEF Kept
  <2>4. \A v \in Vmids : Changed(v)
    BY <2>2, <2>3 DEF Changed
  <2>6. vm' = [v \in Vmids |-> vm'[v]]
    BY <1>1, <2>1
  <2>7. removedBy' = [v \in Vmids |-> removedBy'[v]]
    BY <1>1, <2>1
  <2>8. hands' \in 0 .. MaxHands
    BY <1>1, <2>1
  <2>5. QED
    BY <2>4, <2>6, <2>7, <2>8
<1>8. CASE Stop
  <2>1. PICK D \in SUBSET Commands :
          /\ \A t, u \in D : VmidOf(t) = VmidOf(u) => t = u
          /\ vm' = [v \in Vmids |-> IF {t \in D : VmidOf(t) = v} = {} THEN vm[v]
                                    ELSE Effect(CHOOSE t \in {t \in D : VmidOf(t) = v} : TRUE)]
          /\ removedBy' = [v \in Vmids |->
                              IF \E t \in {t \in D : VmidOf(t) = v} : run.stage[t] = "destroying"
                              THEN Remover(CHOOSE t \in {t \in D : VmidOf(t) = v} : TRUE)
                              ELSE removedBy[v]]
    BY <1>8 DEF Stop
  <2>2. ASSUME NEW v \in Vmids PROVE Changed(v)
    <3> DEFINE at == {t \in D : VmidOf(t) = v}
    <3>1. CASE at = {}
      BY <2>1, <3>1 DEF Changed, Kept
    <3>2. CASE at # {}
      <4>1. PICK t : t = CHOOSE u \in at : TRUE
        OBVIOUS
      <4>2. t \in D /\ VmidOf(t) = v /\ \A u \in at : u = t
        BY <2>1, <3>2, <4>1
      <4>3. /\ t \in Items
            /\ \/ run.stage[t] = "destroying" /\ vm[v] # NoVm
               \/ run.stage[t] = "creating" /\ vm[v] = NoVm
               \/ run.stage[t] = "templating" /\ CanTemplate(v)
        BY <4>2 DEF Commands
      <4>4. vm'[v] = Effect(t)
        BY <2>1, <3>2, <4>1
      <4>5. removedBy'[v] = IF run.stage[t] = "destroying" THEN Remover(t) ELSE removedBy[v]
        BY <2>1, <4>1, <4>2
      <4>6. CASE run.stage[t] = "destroying"
        <5>1. Effect(t) = NoVm
          BY <4>6 DEF Effect
        <5>2. QED
          BY <4>2, <4>3, <4>4, <4>5, <4>6, <5>1 DEF Changed, Removed
      <4>7. CASE run.stage[t] = "creating"
        <5>1. Effect(t) = Imported(t)
          BY <4>7 DEF Effect
        <5>2. QED
          BY <4>2, <4>3, <4>4, <4>5, <4>7, <5>1, ImportedIs DEF Changed, Made
      <4>8. CASE run.stage[t] = "templating"
        <5>1. Effect(t) = Templated(VmidOf(t))[VmidOf(t)]
          BY <4>8 DEF Effect
        <5>2. Effect(t) = IF Unfinished(v) THEN [vm[v] EXCEPT !.ready = TRUE] ELSE vm[v]
          BY <1>1, <4>2, <5>1 DEF Templated
        <5>3. QED
          BY <4>2, <4>3, <4>4, <4>5, <4>8, <5>2 DEF Changed, Finished, Kept
      <4>9. QED
        BY <4>3, <4>6, <4>7, <4>8
    <3>3. QED
      BY <3>1, <3>2
  <2>3. hands' = hands
    BY <1>8 DEF Stop
  <2>4. QED
    BY <1>1, <2>1, <2>2, <2>3
<1>9. CASE \/ UNCHANGED vars \/ PreflightRefuses \/ End \/ Begin \/ StartInstalls \/ Flush \/ Publish
  <2>1. vm' = vm /\ removedBy' = removedBy /\ hands' = hands
    BY <1>9 DEF vars, PreflightRefuses, End, Begin, StartInstalls, Flush, Publish
  <2>2. QED
    BY <1>2, <2>1
<1>10. Goal
  BY <1>3, <1>4, <1>5, <1>6, <1>7, <1>8, <1>9 DEF Next, Step, ItemStep
<1>11. QED
  BY <1>10

LEMMA ChangesHaveTypes ==
  ASSUME TypeOK, NEW v \in Vmids, Changed(v)
  PROVE  /\ vm'[v] \in {NoVm, Foreign} \cup Guests
         /\ removedBy'[v] \in Templates \cup {"nobody", "others"}
<1>1. /\ vm[v] \in {NoVm, Foreign} \cup Guests
      /\ removedBy[v] \in Templates \cup {"nobody", "others"}
      /\ \A t \in Items : t \in Templates /\ run.plan[t].version \in Images
  BY RunFields DEF TypeOK, PlanType, Images
<1>2. CASE Kept(v)
  BY <1>1, <1>2 DEF Kept
<1>3. CASE Removed(v)
  BY <1>1, <1>3 DEF Removed, Remover
<1>4. CASE Made(v)
  BY <1>1, <1>4 DEF Made, Guest, Guests
<1>5. CASE Finished(v)
  BY <1>1, <1>5 DEF Finished, Unfinished, Guests
<1>6. CASE Touched(v)
  BY <1>6 DEF Touched
<1>7. QED
  BY <1>2, <1>3, <1>4, <1>5, <1>6 DEF Changed

LEMMA TypesKeep ==
  ASSUME TypeOK, RunTrue, ItemsTrue, WritesTrue, [Next]_vars
  PROVE  TypeOK'
<1>1. /\ vm' = [v \in Vmids |-> vm'[v]] /\ removedBy' = [v \in Vmids |-> removedBy'[v]]
      /\ hands' \in 0 .. MaxHands
      /\ \A v \in Vmids : Changed(v)
  BY VmChanges
<1>2. \A v \in Vmids : /\ vm'[v] \in {NoVm, Foreign} \cup Guests
                       /\ removedBy'[v] \in Templates \cup {"nobody", "others"}
  BY <1>1, ChangesHaveTypes
<1>3. /\ vm' \in [Vmids -> {NoVm, Foreign} \cup Guests]
      /\ removedBy' \in [Vmids -> Templates \cup {"nobody", "others"}]
  BY <1>1, <1>2
<1>4. RunTrue' /\ registry' \in Versions
  BY Steps
<1>5. file' \in Caches
  <2>1. file \in Caches /\ run.cache \in Caches
    BY RunFields DEF TypeOK
  <2>2. file' \in {file, run.cache}
    BY Steps DEF Stays, Ends, Starts, Writes
  <2>3. QED
    BY <2>1, <2>2
<1>6. QED
  BY <1>1, <1>3, <1>4, <1>5 DEF TypeOK, RunTrue

\* A record stays true, whatever happens at its VMID: what an upgrade removes is
\* older than its plan, and what an install makes is not older than the record.
LEMMA RecordKeeps ==
  ASSUME TypeOK, ItemsTrue, [Next]_vars, registry' \in Versions, registry <= registry',
         NEW t \in Templates, NEW r \in Record, Recorded(r, t),
         t \in Items => r.version <= run.plan[t].version,
         t \in Items /\ run.mode = "upgrade" /\ run.stage[t] \notin Settled
            => r.version < run.plan[t].version
  PROVE  Recorded(r, t)'
<1> DEFINE v == r.vmid
<1>12. /\ v \in Vmids /\ r.version \in Nat /\ registry \in Nat /\ registry' \in Nat
  BY DEF TypeOK, Record, Versions
<1>13. vm[v] \in {NoVm, Foreign} \cup Guests
  BY <1>12 DEF TypeOK
<1>14. /\ t # "nobody" /\ t # "others"
       /\ \A u \in Items : u # "nobody" /\ run.plan[u].version \in Nat
  <2>1. \A u \in Templates : u # "nobody" /\ u # "others"
    BY CoportAssumption
  <2>2. \A u \in Items : u \in Templates /\ run.plan[u].version \in Nat
    BY RunFields DEF TypeOK, PlanType, Versions
  <2>3. QED
    BY <2>1, <2>2
<1>15. NoVm \notin Guests /\ Foreign \notin Guests
  BY DEF NoVm, Foreign, Guests
<1>1. /\ v \in Vmids /\ r.version \in Nat /\ registry \in Nat /\ registry' \in Nat
      /\ vm[v] \in {NoVm, Foreign} \cup Guests
      /\ t # "nobody" /\ t # "others" /\ \A u \in Items : u # "nobody"
      /\ NoVm \notin Guests /\ Foreign \notin Guests
      /\ \A u \in Items : run.plan[u].version \in Nat
  BY <1>12, <1>13, <1>14, <1>15
<1>2. /\ r.version <= registry
      /\ removedBy[v] = "nobody" => vm[v] \in Guests /\ vm[v].ready
      /\ vm[v] \in Guests => (vm[v].template = t => vm[v].image >= r.version)
      /\ removedBy[v] = t => r.version # registry \/ (vm[v] \in Guests /\ vm[v].ready)
  BY DEF Recorded
<1>3. SUFFICES
        /\ removedBy'[v] = "nobody" => vm'[v] \in Guests /\ vm'[v].ready
        /\ vm'[v] \in Guests => (vm'[v].template = t => vm'[v].image >= r.version)
        /\ removedBy'[v] = t => r.version # registry' \/ (vm'[v] \in Guests /\ vm'[v].ready)
  BY <1>1, <1>2 DEF Recorded
<1>4. Changed(v)
  BY <1>1, VmChanges
<1>5. r.version # registry => r.version # registry'
  BY <1>1, <1>2
<1> HIDE DEF v
<1>6. CASE Kept(v)
  BY <1>2, <1>5, <1>6 DEF Kept
<1>7. CASE Removed(v)
  <2>1. PICK u \in Items : /\ run.stage[u] = "destroying"
                           /\ vm'[v] = NoVm /\ removedBy'[v] = Remover(u)
    BY <1>7 DEF Removed
  <2>2. removedBy'[v] # "nobody"
    BY <1>1, <2>1 DEF Remover
  <2>3. ASSUME removedBy'[v] = t PROVE r.version # registry'
    <3>1. u = t /\ run.mode = "upgrade"
      BY <1>1, <2>1, <2>3 DEF Remover
    <3>2. run.stage[t] \notin Settled
      BY <2>1, <3>1 DEF Settled
    <3>3. t \in Items /\ r.version < run.plan[t].version /\ run.plan[t].version <= registry
      BY <3>1, <3>2 DEF ItemsTrue
    <3>4. QED
      BY <1>1, <3>3
  <2>4. QED
    BY <1>1, <2>1, <2>2, <2>3
<1>8. CASE Made(v)
  <2>1. PICK u \in Items : /\ vm[v] = NoVm /\ removedBy'[v] = removedBy[v]
                           /\ vm'[v] = Guest(u, run.plan[u].version, FALSE)
    BY <1>8 DEF Made
  <2>2. vm'[v].template = u /\ vm'[v].image = run.plan[u].version
    BY <2>1 DEF Guest
  <2>3. vm'[v].template = t => vm'[v].image >= r.version
    BY <1>1, <2>2
  <2>4. QED
    BY <1>1, <1>2, <1>5, <2>1, <2>3
<1>9. CASE Finished(v)
  <2>1. /\ vm[v] \in Guests /\ vm'[v] = [vm[v] EXCEPT !.ready = TRUE]
    BY <1>9 DEF Finished, Unfinished
  <2>2. /\ vm'[v] \in Guests /\ vm'[v].ready
        /\ vm'[v].template = vm[v].template /\ vm'[v].image = vm[v].image
    BY <2>1 DEF Guests
  <2>3. QED
    BY <1>2, <2>1, <2>2
<1>10. CASE Touched(v)
  BY <1>1, <1>10 DEF Touched
<1>11. QED
  BY <1>4, <1>6, <1>7, <1>8, <1>9, <1>10 DEF Changed

-----------------------------------------------------------------------------
(* The invariant is kept.                                                   *)

\* A cache that is not written stays older than the plan: what is settled stays so.
LEMMA OlderStays ==
  ASSUME NEW cache, CacheOlder(cache), run'.plan = run.plan, run'.mode = run.mode,
         \A t \in Items : run.stage[t] \in Settled => run'.stage[t] \in Settled
  PROVE  CacheOlder(cache)'
  BY DEF CacheOlder, Items

LEMMA SettledStays ==
  ASSUME RunTrue, NEW t \in Items, ItemStep(t)
  PROVE  /\ run'.plan = run.plan /\ run'.mode = run.mode /\ run'.writeFailed = run.writeFailed
         /\ run.stage[t] \notin Settled
         /\ \A u \in Templates : u # t => run'.stage[u] = run.stage[u] /\ run'.temp[u] = run.temp[u]
         /\ \/ Records(t)
            \/ ~ Records(t) /\ KeepsWrites /\ run'.stage[t] \notin {"flushing", "ok"}
<1>1. /\ run \in RunType /\ t \in Templates
      /\ run.stage \in [Templates -> Stages] /\ run.temp \in [Templates -> SUBSET Images]
  BY RunFields DEF RunTrue
<1>2. Lands(t) \/ GivesUp(t) \/ Works(t) \/ Fails(t) \/ Records(t)
  BY <1>1, ItemMoves
<1>3. run.stage[t] \notin Settled
  BY <1>2 DEF Lands, GivesUp, Works, Fails, Records, Settled
<1>4. PICK s, x : Moves(t, s, x)
  BY <1>2 DEF Lands, GivesUp, Works, Fails, Records
<1>5. /\ run'.plan = run.plan /\ run'.mode = run.mode /\ run'.writeFailed = run.writeFailed
      /\ \A u \in Templates : u # t => run'.stage[u] = run.stage[u] /\ run'.temp[u] = run.temp[u]
  BY <1>1, <1>4 DEF Moves
<1>6. ASSUME ~ Records(t) PROVE KeepsWrites /\ run'.stage[t] \notin {"flushing", "ok"}
  BY <1>1, <1>2, <1>6 DEF Lands, GivesUp, Works, Fails, Moves
<1>7. QED
  BY <1>3, <1>5, <1>6

LEMMA OlderKeeps ==
  ASSUME TypeOK, RunTrue, WritesTrue, CacheTrue(file), CacheOlder(file), CacheOlder(run.cache),
         [Next]_vars
  PROVE  CacheOlder(file)' /\ CacheOlder(run.cache)'
<1>1. PICK cache : cache = run.cache
  OBVIOUS
<1>2. PICK onDisk : onDisk = file
  OBVIOUS
<1>3. CacheOlder(cache) /\ CacheOlder(onDisk)
  BY <1>1, <1>2
<1>4. /\ run \in RunType /\ Items \in SUBSET Templates /\ PhasesTrue
      /\ run.stage \in [Templates -> Stages]
  BY RunFields DEF RunTrue
<1>5. ASSUME run'.plan = run.plan, run'.mode = run.mode, run'.cache = run.cache,
             \A t \in Items : run.stage[t] \in Settled => run'.stage[t] \in Settled,
             file' \in {file, run.cache}
      PROVE  CacheOlder(file)' /\ CacheOlder(run.cache)'
  <2>1. CacheOlder(cache)' /\ CacheOlder(onDisk)'
    BY <1>3, <1>5, OlderStays
  <2>2. run'.cache = cache /\ file' \in {onDisk, cache}
    BY <1>1, <1>2, <1>5
  <2>3. QED
    BY <2>1, <2>2 DEF CacheOlder
<1>6. CASE Stays
  BY <1>5, <1>6 DEF Stays
<1>7. CASE Ends
  <2>1. Items' = {}
    BY <1>7, OverIsRun DEF Ends, Items
  <2>2. QED
    BY <2>1 DEF CacheOlder
<1>8. CASE Starts
  <2>1. \A t \in Items : run.stage[t] = "none"
    BY <1>4, <1>8 DEF Starts, PhasesTrue
  <2>2. \A t \in Items : run.stage[t] \in Settled => run'.stage[t] \in Settled
    BY <2>1 DEF Settled
  <2>3. QED
    BY <1>5, <1>8, <2>2 DEF Starts
<1>9. ASSUME NEW mode \in Modes, NEW plan, Begins(plan, mode), file' = file
      PROVE  CacheOlder(file)' /\ CacheOlder(run.cache)'
  <2>1. /\ run'.plan = plan /\ run'.mode = mode /\ run'.cache = onDisk /\ file' = onDisk
        /\ Planned(plan, mode)
    BY <1>2, <1>9 DEF Begins
  <2>2. ASSUME NEW t \in DOMAIN plan, t \in DOMAIN onDisk
        PROVE  /\ onDisk[t].version <= plan[t].version
               /\ mode = "upgrade" => onDisk[t].version < plan[t].version
    <3>1. onDisk[t].version <= registry /\ t \in DOMAIN file
      BY <1>2, <2>2 DEF CacheTrue, Recorded
    <3>2. onDisk[t].version \in Nat /\ registry \in Nat
      BY <1>2, <3>1, CacheForm DEF TypeOK, Record, Versions
    <3>3. plan[t].version = registry /\ (mode = "upgrade" => onDisk[t].version # registry)
      BY <1>2, <2>1, <2>2 DEF Planned
    <3>4. QED
      BY <3>1, <3>2, <3>3
  <2>3. QED
    BY <2>1, <2>2 DEF CacheOlder, Items
<1>10. ASSUME NEW u \in Templates, Writes(u)
       PROVE  CacheOlder(file)' /\ CacheOlder(run.cache)'
  <2>1. \A t \in Items : run.stage[t] \in Settled => run'.stage[t] \in Settled
    BY <1>4, <1>10 DEF Writes, Settled
  <2>2. QED
    BY <1>5, <1>10, <2>1 DEF Writes
<1>11. ASSUME NEW u \in Items, ItemStep(u), file' = file
       PROVE  CacheOlder(file)' /\ CacheOlder(run.cache)'
  <2>1. /\ run'.plan = run.plan /\ run'.mode = run.mode /\ run.stage[u] \notin Settled
        /\ \A t \in Templates : t # u => run'.stage[t] = run.stage[t]
        /\ Records(u) \/ KeepsWrites
    BY <1>11, SettledStays
  <2>2. \A t \in Items : run.stage[t] \in Settled => run'.stage[t] \in Settled
    BY <1>4, <2>1
  <2>3. CASE KeepsWrites
    BY <1>5, <1>11, <2>1, <2>2, <2>3 DEF KeepsWrites
  <2>4. CASE Records(u)
    <3>1. CacheOlder(file)'
      BY <1>2, <1>3, <1>11, <2>1, <2>2, OlderStays DEF CacheOlder
    <3>2. PICK r : r = Installed(u)
      OBVIOUS
    <3>3. /\ run'.cache = [t \in DOMAIN cache \cup {u} |-> IF t = u THEN r ELSE cache[t]]
          /\ run'.stage[u] = "flushing" /\ r.version = run.plan[u].version
      BY <1>1, <1>4, <2>4, <3>2 DEF Records, Moves, Installed
    <3>4. run.plan[u].version \in Nat
      BY <1>4, RunFields DEF PlanType, Versions
    <3>5. CacheOlder(run.cache)'
      <4>1. ASSUME NEW t \in Items, t \in DOMAIN run'.cache
            PROVE  /\ run'.cache[t].version <= run.plan[t].version
                   /\ run.mode = "upgrade" /\ run'.stage[t] \notin Settled
                        => run'.cache[t].version < run.plan[t].version
        <5>1. CASE t = u
          BY <3>3, <3>4, <4>1, <5>1 DEF Settled
        <5>2. CASE t # u
          <6>1. t \in DOMAIN cache /\ run'.cache[t] = cache[t]
            BY <3>3, <4>1, <5>2
          <6>2. QED
            BY <1>3, <1>4, <2>1, <5>2, <6>1 DEF CacheOlder
        <5>3. QED
          BY <5>1, <5>2
      <4>2. QED
        BY <2>1, <4>1 DEF CacheOlder, Items
    <3>6. QED
      BY <3>1, <3>5
  <2>5. QED
    BY <2>1, <2>3, <2>4
<1>12. QED
  BY <1>6, <1>7, <1>8, <1>9, <1>10, <1>11, Steps

LEMMA ItemsKeep ==
  ASSUME TypeOK, RunTrue, WritesTrue, ItemsTrue, [Next]_vars
  PROVE  ItemsTrue'
<1>1. /\ run \in RunType /\ Items \in SUBSET Templates /\ PhasesTrue
      /\ run.stage \in [Templates -> Stages] /\ run.temp \in [Templates -> SUBSET Images]
      /\ \A t \in Items : run.plan[t].version \in Nat
  BY RunFields DEF RunTrue, PlanType, Versions
<1>2. /\ registry \in Nat /\ registry' \in Nat /\ registry <= registry'
  BY Steps DEF TypeOK, Versions
<1>3. \A t \in Items : run.plan[t].version <= registry'
  BY <1>1, <1>2 DEF ItemsTrue
<1>4. CASE Stays
  BY <1>3, <1>4 DEF Stays, ItemsTrue, Items
<1>5. CASE Ends
  <2>1. Items' = {}
    BY <1>5, OverIsRun DEF Ends, Items
  <2>2. QED
    BY <2>1 DEF ItemsTrue
<1>6. CASE Starts
  <2>1. \A t \in Items : run'.stage[t] = "downloading"
    BY <1>1, <1>6 DEF Starts
  <2>2. QED
    BY <1>3, <1>6, <2>1 DEF Starts, ItemsTrue, Items
<1>7. ASSUME NEW mode \in Modes, NEW plan, Begins(plan, mode), registry' = registry
      PROVE  ItemsTrue'
  <2>1. /\ run'.plan = plan /\ run'.mode = mode /\ Planned(plan, mode) /\ run' \in RunType
        /\ DOMAIN plan \in SUBSET Templates /\ \A t \in Templates : run'.stage[t] = "none"
    BY <1>7, OverIsRun, CacheForm DEF Begins, Planned
  <2>2. QED
    BY <1>2, <1>7, <2>1 DEF ItemsTrue, Items, Planned
<1>8. ASSUME NEW u \in Templates, Writes(u) PROVE ItemsTrue'
  <2>1. /\ run'.plan = run.plan /\ run'.mode = run.mode
        /\ \A t \in Templates : run'.stage[t] = IF t = u THEN "ok" ELSE run.stage[t]
    BY <1>1, <1>8 DEF Writes
  <2>2. run'.temp = run.temp
    BY <1>8 DEF Writes
  <2>3. QED
    BY <1>1, <1>3, <2>1, <2>2 DEF ItemsTrue, Items
<1>9. ASSUME NEW u \in Items, ItemStep(u) PROVE ItemsTrue'
  <2>1. /\ run'.plan = run.plan /\ run'.mode = run.mode
        /\ \A t \in Templates : t # u => run'.stage[t] = run.stage[t] /\ run'.temp[t] = run.temp[t]
    BY <1>9, SettledStays
  <2>2. /\ run'.stage[u] = "destroying" => run.plan[u].overwrite
        /\ run'.stage[u] \in {"destroying", "creating"} => run'.temp[u] = {run.plan[u].version}
    <3>1. Lands(u) \/ GivesUp(u) \/ Works(u) \/ Fails(u) \/ Records(u)
      BY <1>1, <1>9, ItemMoves
    <3>2. CASE Works(u)
      <4>1. /\ run'.temp[u] = run.temp[u]
            /\ run'.stage[u] = "destroying" => run.plan[u].overwrite
            /\ run'.stage[u] \in {"destroying", "creating"} =>
                 run.temp[u] = {run.plan[u].version} \/ run.stage[u] = "destroying"
        BY <1>1, <3>2 DEF Works, Moves
      <4>2. QED
        BY <4>1 DEF ItemsTrue
    <3>3. CASE ~ Works(u)
      <4>1. run'.stage[u] \in {"downloaded", "failed", "flushing"}
        BY <1>1, <3>1, <3>3 DEF Lands, GivesUp, Fails, Records, Moves
      <4>2. QED
        BY <4>1
    <3>4. QED
      BY <3>2, <3>3
  <2>3. QED
    BY <1>1, <1>3, <2>1, <2>2 DEF ItemsTrue, Items
<1>10. QED
  BY <1>4, <1>5, <1>6, <1>7, <1>8, <1>9, Steps

LEMMA WritesKeep ==
  ASSUME TypeOK, RunTrue, WritesTrue, [Next]_vars
  PROVE  WritesTrue'
<1>1. /\ run \in RunType /\ Items \in SUBSET Templates /\ PhasesTrue
      /\ run.stage \in [Templates -> Stages] /\ run.writing \in Seq(Templates)
      /\ DOMAIN run.writing = 1 .. Len(run.writing) /\ Len(run.writing) \in Nat
  BY RunFields, LenProperties DEF RunTrue
<1>2. CASE Stays
  BY <1>2 DEF Stays, WritesTrue, Items, Installed, VmidOf
<1>3. CASE Ends
  <2>1. Items' = {} /\ DOMAIN run'.writing = {}
    BY <1>3, OverIsRun DEF Ends, Items
  <2>2. QED
    BY <2>1 DEF WritesTrue
<1>4. CASE Starts
  <2>1. \A t \in Items : run.stage[t] = "none" /\ run'.stage[t] = "downloading"
    BY <1>1, <1>4 DEF Starts, PhasesTrue
  <2>2. DOMAIN run.writing = {}
    BY <2>1 DEF WritesTrue
  <2>3. QED
    BY <1>4, <2>1, <2>2 DEF Starts, WritesTrue, Items
<1>5. ASSUME NEW mode \in Modes, NEW plan, Begins(plan, mode) PROVE WritesTrue'
  <2>1. /\ DOMAIN run'.writing = {} /\ Items' \in SUBSET Templates
        /\ \A t \in Templates : run'.stage[t] = "none"
    BY <1>5, OverIsRun, CacheForm DEF Begins, Planned, Items
  <2>2. QED
    BY <2>1 DEF WritesTrue
<1>6. ASSUME NEW u \in Templates, Writes(u) PROVE WritesTrue'
  <2>1. /\ run'.plan = run.plan /\ run'.cache = run.cache /\ u \in Items
        /\ run.stage[u] \in {"flushing", "ok"}
        /\ \A t \in Templates : run'.stage[t] = IF t = u THEN "ok" ELSE run.stage[t]
        /\ run'.writing = Tail(run.writing) /\ run.writing # <<>>
        /\ file' = IF run'.writeFailed THEN file ELSE run.cache
    BY <1>1, <1>6 DEF Writes
  <2>2. /\ DOMAIN Tail(run.writing) = 1 .. Len(run.writing) - 1
        /\ \A i \in 1 .. Len(run.writing) - 1 : Tail(run.writing)[i] = run.writing[i + 1]
    BY <1>1, <2>1, HeadTailProperties, LenProperties, EmptySeq
  <2>3. ASSUME NEW i \in DOMAIN run'.writing
        PROVE  run'.writing[i] \in Items /\ run'.stage[run'.writing[i]] \in {"flushing", "ok"}
    <3>1. i + 1 \in DOMAIN run.writing /\ run'.writing[i] = run.writing[i + 1]
      BY <1>1, <2>1, <2>2
    <3>2. run.writing[i + 1] \in Items /\ run.stage[run.writing[i + 1]] \in {"flushing", "ok"}
      BY <3>1 DEF WritesTrue
    <3>3. QED
      BY <1>1, <2>1, <3>1, <3>2
  <2>4. ASSUME NEW t \in Items, run'.stage[t] \in {"flushing", "ok"}
        PROVE  t \in DOMAIN run.cache /\ run.cache[t] = Installed(t)
    <3>1. run.stage[t] \in {"flushing", "ok"}
      BY <1>1, <2>1, <2>4
    <3>2. QED
      BY <3>1 DEF WritesTrue
  <2>5. ASSUME NEW t \in Items, run'.stage[t] = "ok", ~ run'.writeFailed
        PROVE  t \in DOMAIN file' /\ file'[t] = Installed(t)
    BY <2>1, <2>4, <2>5
  <2>6. QED
    BY <2>1, <2>3, <2>4, <2>5 DEF WritesTrue, Items, Installed, VmidOf
<1>7. ASSUME NEW u \in Items, ItemStep(u), file' = file PROVE WritesTrue'
  <2>1. /\ run'.plan = run.plan /\ run'.writeFailed = run.writeFailed
        /\ run.stage[u] \notin Settled
        /\ \A t \in Templates : t # u => run'.stage[t] = run.stage[t]
        /\ \/ Records(u)
           \/ ~ Records(u) /\ KeepsWrites /\ run'.stage[u] \notin {"flushing", "ok"}
    BY <1>7, SettledStays
  <2>2. ASSUME NEW i \in DOMAIN run.writing
        PROVE  /\ run.writing[i] \in Items /\ run.writing[i] # u
               /\ run'.stage[run.writing[i]] \in {"flushing", "ok"}
    <3>1. run.writing[i] \in Items /\ run.stage[run.writing[i]] \in {"flushing", "ok"}
      BY DEF WritesTrue
    <3>2. QED
      BY <1>1, <2>1, <3>1 DEF Settled
  <2>3. CASE ~ Records(u)
    <3>1. KeepsWrites /\ run'.stage[u] \notin {"flushing", "ok"}
      BY <2>1, <2>3
    <3>2. ASSUME NEW t \in Items, run'.stage[t] \in {"flushing", "ok"}
          PROVE  t # u /\ run'.stage[t] = run.stage[t]
      BY <1>1, <2>1, <3>1, <3>2
    <3>3. QED
      BY <1>7, <2>1, <2>2, <3>1, <3>2 DEF KeepsWrites, WritesTrue, Items, Installed, VmidOf
  <2>4. CASE Records(u)
    <3>1. /\ run'.stage[u] = "flushing" /\ run'.writing = Append(run.writing, u)
          /\ run'.cache = [t \in DOMAIN run.cache \cup {u} |->
                             IF t = u THEN Installed(u) ELSE run.cache[t]]
      BY <1>1, <2>4 DEF Records, Moves
    <3>2. /\ DOMAIN Append(run.writing, u) = 1 .. Len(run.writing) + 1
          /\ \A i \in 1 .. Len(run.writing) : Append(run.writing, u)[i] = run.writing[i]
          /\ Append(run.writing, u)[Len(run.writing) + 1] = u
      BY <1>1, AppendProperties, LenProperties
    <3>3. ASSUME NEW i \in DOMAIN run'.writing
          PROVE  run'.writing[i] \in Items /\ run'.stage[run'.writing[i]] \in {"flushing", "ok"}
      <4>1. CASE i = Len(run.writing) + 1
        BY <3>1, <3>2, <4>1
      <4>2. CASE i # Len(run.writing) + 1
        <5>1. i \in DOMAIN run.writing /\ run'.writing[i] = run.writing[i]
          BY <1>1, <3>1, <3>2, <4>2
        <5>2. QED
          BY <2>2, <5>1
      <4>3. QED
        BY <4>1, <4>2
    <3>4. ASSUME NEW t \in Items, run'.stage[t] \in {"flushing", "ok"}
          PROVE  t \in DOMAIN run'.cache /\ run'.cache[t] = Installed(t)
      <4>1. CASE t = u
        BY <3>1, <4>1
      <4>2. CASE t # u
        <5>1. t \in DOMAIN run.cache /\ run.cache[t] = Installed(t)
          BY <1>1, <2>1, <3>4, <4>2 DEF WritesTrue
        <5>2. QED
          BY <3>1, <4>2, <5>1
      <4>3. QED
        BY <4>1, <4>2
    <3>5. ASSUME NEW t \in Items, run'.stage[t] = "ok", ~ run.writeFailed
          PROVE  t \in DOMAIN file /\ file[t] = Installed(t)
      <4>1. t # u /\ run.stage[t] = "ok"
        BY <1>1, <2>1, <3>1, <3>5
      <4>2. QED
        BY <3>5, <4>1 DEF WritesTrue
    <3>6. QED
      BY <1>7, <2>1, <3>3, <3>4, <3>5 DEF WritesTrue, Items, Installed, VmidOf
  <2>5. QED
    BY <2>3, <2>4
<1>8. QED
  BY <1>2, <1>3, <1>4, <1>5, <1>6, <1>7, Steps

\* Only qm create leads to qm template, and only qm template to a record.
LEMMA Origins ==
  ASSUME run \in RunType, NEW t \in Templates, ItemStep(t)
  PROVE  /\ run'.stage[t] = "templating" => Create(t)
         /\ Records(t) => Template(t)
<1>1. run.stage \in [Templates -> Stages]
  BY RunFields
<1>2. Records(t) => run'.stage[t] = "flushing"
  BY <1>1 DEF Records, Moves
<1>3. CASE DownloadEnds(t) \/ DownloadFails(t)
  <2>1. run'.stage[t] \in {"downloaded", "failed"}
    <3>1. CASE DownloadEnds(t)
      <4>1. PICK image \in {run.plan[t].version, Corrupt} :
              run' = [run EXCEPT !.stage[t] = "downloaded", !.temp[t] = {image},
                                 !.downloads = Done(@, t), !.installs = Run(@, t)]
        BY <3>1 DEF DownloadEnds
      <4>2. QED
        BY <1>1, <4>1 DEF RunType
    <3>2. CASE DownloadFails(t)
      BY <1>1, <3>2 DEF DownloadFails, RunType
    <3>3. QED
      BY <1>3, <3>1, <3>2
  <2>2. QED
    BY <1>2, <2>1
<1>4. CASE Verify(t) \/ Destroy(t)
  <2>1. run'.stage[t] \in {"destroying", "creating"}
    BY <1>1, <1>4 DEF Verify, Destroy, RunType
  <2>2. QED
    BY <1>2, <2>1
<1>5. CASE VerifyFails(t) \/ CreateFails(t) \/ TemplateFails(t)
  <2>3. FailInstall(t)
    BY <1>5 DEF VerifyFails, CreateFails, TemplateFails
  <2>1. run'.stage[t] = "failed"
    BY <1>1, <2>3 DEF FailInstall, RunType
  <2>2. QED
    BY <1>2, <2>1
<1>6. CASE Create(t)
  <2>1. run'.stage[t] = "templating"
    BY <1>1, <1>6 DEF Create, RunType
  <2>2. QED
    BY <1>2, <1>6, <2>1
<1>7. CASE Template(t)
  <2>1. run'.stage[t] = "flushing"
    BY <1>1, <1>7 DEF Template, RunType
  <2>2. QED
    BY <1>7, <2>1
<1>8. QED
  BY <1>3, <1>4, <1>5, <1>6, <1>7 DEF ItemStep

\* While qm template is to come, its VM keeps the image it was made of.
LEMMA GuestsKeep ==
  ASSUME TypeOK, RunTrue, WritesTrue, ItemsTrue, GuestsTrue, [Next]_vars
  PROVE  GuestsTrue'
<1>1. /\ run \in RunType /\ Items \in SUBSET Templates /\ PhasesTrue
      /\ run.stage \in [Templates -> Stages]
      /\ vm \in [Vmids -> {NoVm, Foreign} \cup Guests]
      /\ \A t \in Items : VmidOf(t) \in Vmids /\ run.plan[t].version \in Nat
  BY RunFields DEF RunTrue, TypeOK, VmidOf, PlanType, Versions
<1>2. NoVm \notin Guests /\ Foreign \notin Guests
  BY DEF NoVm, Foreign, Guests
<1>3. ASSUME NEW t \in Items, run.stage[t] = "templating", vm'[VmidOf(t)] \in Guests,
             vm'[VmidOf(t)].template = t
      PROVE  vm'[VmidOf(t)].image = run.plan[t].version
  <2> DEFINE v == VmidOf(t)
  <2>1. v \in Vmids /\ Changed(v)
    BY <1>1, VmChanges
  <2>2. vm[v] \in Guests /\ vm[v].template = t => vm[v].image = run.plan[t].version
    BY <1>3 DEF GuestsTrue
  <2>3. vm'[v] \in Guests /\ vm'[v].template = t
    BY <1>3
  <2> SUFFICES vm'[v].image = run.plan[t].version
    OBVIOUS
  <2> HIDE DEF v
  <2>4. CASE Kept(v)
    BY <2>2, <2>3, <2>4 DEF Kept
  <2>5. CASE Removed(v) \/ Touched(v)
    BY <1>2, <2>3, <2>5 DEF Removed, Touched
  <2>6. CASE Made(v)
    <3>1. PICK u \in Items : /\ run.stage[u] = "creating"
                             /\ vm'[v] = Guest(u, run.plan[u].version, FALSE)
      BY <2>6 DEF Made
    <3>2. vm'[v].template = u
      BY <3>1 DEF Guest
    <3>3. QED
      BY <1>3, <2>3, <3>1, <3>2
  <2>7. CASE Finished(v)
    <3>1. vm[v] \in Guests /\ vm'[v] = [vm[v] EXCEPT !.ready = TRUE]
      BY <2>7 DEF Finished, Unfinished
    <3>2. vm'[v].template = vm[v].template /\ vm'[v].image = vm[v].image
      BY <3>1 DEF Guests
    <3>3. QED
      BY <2>2, <2>3, <3>1, <3>2
  <2>8. QED
    BY <2>1, <2>4, <2>5, <2>6, <2>7 DEF Changed
<1>4. ASSUME run'.plan = run.plan,
             \A t \in Items : run'.stage[t] = "templating" => run.stage[t] = "templating"
      PROVE  GuestsTrue'
  BY <1>3, <1>4 DEF GuestsTrue, Items, VmidOf
<1>5. CASE Stays
  BY <1>4, <1>5 DEF Stays
<1>6. CASE Ends
  <2>1. Items' = {}
    BY <1>6, OverIsRun DEF Ends, Items
  <2>2. QED
    BY <2>1 DEF GuestsTrue
<1>7. CASE Starts
  <2>1. \A t \in Items : run'.stage[t] = "downloading"
    BY <1>1, <1>7 DEF Starts
  <2>2. QED
    BY <1>4, <1>7, <2>1 DEF Starts
<1>8. ASSUME NEW mode \in Modes, NEW plan, Begins(plan, mode) PROVE GuestsTrue'
  <2>1. Items' \in SUBSET Templates /\ \A t \in Templates : run'.stage[t] = "none"
    BY <1>8, OverIsRun, CacheForm DEF Begins, Planned, Items
  <2>2. QED
    BY <2>1 DEF GuestsTrue
<1>9. ASSUME NEW u \in Templates, Writes(u) PROVE GuestsTrue'
  <2>1. \A t \in Templates : run'.stage[t] = IF t = u THEN "ok" ELSE run.stage[t]
    BY <1>1, <1>9 DEF Writes
  <2>2. QED
    BY <1>1, <1>4, <1>9, <2>1 DEF Writes
<1>10. ASSUME NEW u \in Items, ItemStep(u) PROVE GuestsTrue'
  <2>1. /\ run'.plan = run.plan
        /\ \A t \in Templates : t # u => run'.stage[t] = run.stage[t]
    BY <1>10, SettledStays
  <2>2. CASE run'.stage[u] # "templating"
    BY <1>1, <1>4, <2>1, <2>2
  <2>3. CASE run'.stage[u] = "templating"
    <3>1. Create(u)
      BY <1>1, <1>10, <2>3, Origins
    <3>2. vm'[VmidOf(u)] = Guest(u, run.plan[u].version, FALSE)
      BY <1>1, <3>1, ImportedIs DEF Create
    <3>3. vm'[VmidOf(u)].image = run.plan[u].version
      BY <3>2 DEF Guest
    <3>4. ASSUME NEW t \in Items, run'.stage[t] = "templating", vm'[VmidOf(t)] \in Guests,
                 vm'[VmidOf(t)].template = t
          PROVE  vm'[VmidOf(t)].image = run.plan[t].version
      <4>1. CASE t = u
        BY <3>3, <4>1
      <4>2. CASE t # u
        BY <1>1, <1>3, <2>1, <3>4, <4>2
      <4>3. QED
        BY <4>1, <4>2
    <3>5. QED
      BY <2>1, <3>4 DEF GuestsTrue, Items, VmidOf
  <2>4. QED
    BY <2>2, <2>3
<1>11. QED
  BY <1>5, <1>6, <1>7, <1>8, <1>9, <1>10, Steps

\* Only a hand makes a foreign guest, and qm template leaves it one.
LEMMA ForeignKeeps ==
  ASSUME TypeOK, ItemsTrue, ForeignTrue, [Next]_vars
  PROVE  ForeignTrue'
<1> SUFFICES ASSUME NEW v \in Vmids, vm'[v] = Foreign PROVE removedBy'[v] = "others"
  BY DEF ForeignTrue
<1>1. Changed(v)
  BY VmChanges
<1>2. vm[v] = Foreign => removedBy[v] = "others"
  BY DEF ForeignTrue
<1>3. CASE Kept(v)
  BY <1>2, <1>3 DEF Kept
<1>4. ~ Removed(v) /\ ~ Made(v)
  <2>1. Foreign # NoVm /\ \A t, image, ready : Foreign # Guest(t, image, ready)
    <3>1. Foreign.kind = "foreign" /\ NoVm.kind = "none"
      BY DEF Foreign, NoVm
    <3>2. \A t, image, ready : Guest(t, image, ready).kind = "coport"
      BY DEF Guest
    <3>3. QED
      BY <3>1, <3>2
  <2>2. QED
    BY <2>1 DEF Removed, Made
<1>5. CASE Finished(v)
  <2>1. vm'[v].kind = "coport"
    BY <1>5 DEF Finished, Unfinished, Guests
  <2>2. QED
    BY <2>1 DEF Foreign
<1>6. CASE Touched(v)
  BY <1>6 DEF Touched
<1>7. QED
  BY <1>1, <1>3, <1>4, <1>5, <1>6 DEF Changed

LEMMA CacheStays ==
  ASSUME TypeOK, ItemsTrue, [Next]_vars, registry' \in Versions, registry <= registry',
         NEW cache \in Caches, CacheTrue(cache), CacheOlder(cache)
  PROVE  CacheTrue(cache)'
<1> SUFFICES ASSUME NEW t \in DOMAIN cache PROVE Recorded(cache[t], t)'
  BY DEF CacheTrue
<1>1. t \in Templates /\ cache[t] \in Record
  BY CacheForm
<1>2. Recorded(cache[t], t)
  BY DEF CacheTrue
<1>3. /\ t \in Items => cache[t].version <= run.plan[t].version
      /\ t \in Items /\ run.mode = "upgrade" /\ run.stage[t] \notin Settled
            => cache[t].version < run.plan[t].version
  BY DEF CacheOlder
<1>4. QED
  BY <1>1, <1>2, <1>3, RecordKeeps

LEMMA CachesKeep ==
  ASSUME TypeOK, RunTrue, WritesTrue, ItemsTrue, GuestsTrue, ForeignTrue, [Next]_vars,
         CacheTrue(file), CacheTrue(run.cache), CacheOlder(file), CacheOlder(run.cache)
  PROVE  CacheTrue(file)' /\ CacheTrue(run.cache)'
<1>1. PICK cache : cache = run.cache
  OBVIOUS
<1>2. PICK onDisk : onDisk = file
  OBVIOUS
<1>3. registry' \in Versions /\ registry <= registry'
  BY Steps
<1>4. cache \in Caches /\ onDisk \in Caches /\ run \in RunType
  BY <1>1, <1>2, RunFields DEF TypeOK
<1>5. CacheTrue(cache)' /\ CacheTrue(onDisk)'
  BY <1>1, <1>2, <1>3, <1>4, CacheStays
<1>6. file' \in {onDisk, cache}
  BY <1>1, <1>2, Steps DEF Stays, Ends, Starts, Writes
<1>7. CacheTrue(file)'
  BY <1>5, <1>6 DEF CacheTrue
<1> SUFFICES CacheTrue(run.cache)'
  BY <1>7
<1>8. ASSUME run'.cache \in {onDisk, cache} PROVE CacheTrue(run.cache)'
  BY <1>5, <1>8 DEF CacheTrue
<1>9. CASE Stays \/ Starts \/ \E u \in Templates : Writes(u)
  BY <1>1, <1>8, <1>9 DEF Stays, Starts, Writes
<1>10. CASE Ends
  <2>1. DOMAIN run'.cache = {}
    BY <1>10, OverIsRun DEF Ends
  <2>2. QED
    BY <2>1 DEF CacheTrue
<1>11. CASE \E mode \in Modes : \E plan : Begins(plan, mode)
  BY <1>2, <1>8, <1>11 DEF Begins
<1>12. ASSUME NEW u \in Items, ItemStep(u) PROVE CacheTrue(run.cache)'
  <2>1. Records(u) \/ KeepsWrites
    BY <1>12, SettledStays
  <2>2. CASE KeepsWrites
    BY <1>1, <1>8, <2>2 DEF KeepsWrites
  <2>3. CASE Records(u)
    <3>1. /\ u \in Templates /\ VmidOf(u) \in Vmids /\ run.plan[u].version \in Nat
          /\ vm \in [Vmids -> {NoVm, Foreign} \cup Guests]
          /\ removedBy \in [Vmids -> Templates \cup {"nobody", "others"}]
          /\ run.stage[u] = "templating" /\ u # "nobody"
      <4>1. /\ vm \in [Vmids -> {NoVm, Foreign} \cup Guests]
            /\ removedBy \in [Vmids -> Templates \cup {"nobody", "others"}]
        BY DEF TypeOK
      <4>2. u \in Templates /\ VmidOf(u) \in Vmids /\ run.plan[u].version \in Nat
        BY <1>4, RunFields DEF VmidOf, PlanType, Versions
      <4>3. \A t \in Templates : t # "nobody"
        BY CoportAssumption
      <4>4. run.stage[u] = "templating"
        BY <2>3 DEF Records
      <4>5. QED
        BY <4>1, <4>2, <4>3, <4>4
    <3>2. Template(u)
      BY <1>4, <1>12, <2>3, <3>1, Origins
    <3>5. /\ removedBy'[VmidOf(u)] = "nobody" =>
               vm'[VmidOf(u)] \in Guests /\ vm'[VmidOf(u)].ready
          /\ vm'[VmidOf(u)] \in Guests =>
               (vm'[VmidOf(u)].template = u => vm'[VmidOf(u)].image >= run.plan[u].version)
          /\ removedBy'[VmidOf(u)] # u
      <4>1. CASE Unfinished(VmidOf(u))
        <5>1. /\ vm[VmidOf(u)] \in Guests
              /\ vm'[VmidOf(u)] = [vm[VmidOf(u)] EXCEPT !.ready = TRUE]
              /\ removedBy'[VmidOf(u)] = "nobody"
          BY <3>1, <3>2, <4>1 DEF Template, Unfinished, Templated
        <5>2. /\ vm'[VmidOf(u)] \in Guests /\ vm'[VmidOf(u)].ready
              /\ vm'[VmidOf(u)].template = vm[VmidOf(u)].template
              /\ vm'[VmidOf(u)].image = vm[VmidOf(u)].image
          BY <5>1 DEF Guests
        <5>3. vm'[VmidOf(u)].template = u => vm'[VmidOf(u)].image >= run.plan[u].version
          BY <3>1, <5>1, <5>2 DEF GuestsTrue
        <5>4. QED
          BY <3>1, <5>1, <5>2, <5>3
      <4>2. CASE ~ Unfinished(VmidOf(u))
        <5>1. vm[VmidOf(u)] = Foreign
          BY <3>2, <4>2 DEF Template, CanTemplate
        <5>2. vm'[VmidOf(u)] = Foreign /\ removedBy'[VmidOf(u)] = "others"
          BY <3>1, <3>2, <4>2, <5>1 DEF Template, Templated, ForeignTrue
        <5>3. Foreign \notin Guests /\ u # "others"
          <6>1. u # "others"
            BY <3>1, CoportAssumption
          <6>2. Foreign \notin Guests
            BY DEF Foreign, Guests
          <6>3. QED
            BY <6>1, <6>2
        <5>4. QED
          BY <5>2, <5>3
      <4>3. QED
        BY <4>1, <4>2
    <3>6. run.plan[u].version <= registry'
      <4>1. registry \in Nat /\ registry' \in Nat /\ run.plan[u].version <= registry
        BY <1>3 DEF TypeOK, Versions, ItemsTrue
      <4>2. QED
        BY <1>3, <3>1, <4>1
    <3>7. PICK r : r = Installed(u)
      OBVIOUS
    <3>8. r.vmid = VmidOf(u) /\ r.version = run.plan[u].version
      BY <3>7 DEF Installed
    <3>9. Recorded(r, u)'
      BY <3>5, <3>6, <3>8 DEF Recorded
    <3>10. run'.cache = [t \in DOMAIN cache \cup {u} |-> IF t = u THEN r ELSE cache[t]]
      BY <1>1, <2>3, <3>7 DEF Records
    <3>11. ASSUME NEW t \in DOMAIN run'.cache PROVE Recorded(run.cache[t], t)'
      <4>1. CASE t = u
        BY <3>9, <3>10, <4>1 DEF Recorded
      <4>2. CASE t # u
        <5>1. t \in DOMAIN cache /\ run'.cache[t] = cache[t]
          BY <3>10, <4>2
        <5>2. QED
          BY <1>5, <5>1 DEF CacheTrue, Recorded
      <4>3. QED
        BY <4>1, <4>2
    <3>12. QED
      BY <3>11 DEF CacheTrue
  <2>4. QED
    BY <2>1, <2>2, <2>3
<1>13. QED
  BY <1>9, <1>10, <1>11, <1>12, Steps

LEMMA InvGivesRun ==
  CoportInv => RunTrue
  BY DEF CoportInv, TypeOK, RunTrue

LEMMA InvInit ==
  Init => CoportInv
<1> SUFFICES ASSUME Init PROVE CoportInv
  OBVIOUS
<1>1. /\ file \in Caches /\ \A t, u \in DOMAIN file : file[t].vmid = file[u].vmid => t = u
      /\ registry = 1 /\ \A t \in DOMAIN file : file[t].version = 1
      /\ run = Over /\ hands = 0 /\ removedBy = [v \in Vmids |-> "nobody"]
  BY DEF Init
<1> DEFINE here(v) == {t \in DOMAIN file : file[t].vmid = v}
<1>2. vm = [v \in Vmids |-> IF here(v) = {} THEN NoVm ELSE Guest(CHOOSE t \in here(v) : TRUE, 1, TRUE)]
  BY DEF Init
<1>3. /\ DOMAIN file \in SUBSET Templates
      /\ \A t \in DOMAIN file : file[t] \in Record /\ file[t].vmid \in Vmids
  BY <1>1, CacheForm DEF Record
<1>4. \A t \in Templates : t # "nobody"
  BY CoportAssumption
<1>5. 1 \in Versions /\ 1 \in Images
  BY CoportAssumption DEF Versions, Images
<1>6. ASSUME NEW t \in Templates
      PROVE  /\ Guest(t, 1, TRUE) \in Guests /\ Guest(t, 1, TRUE).ready
             /\ Guest(t, 1, TRUE).template = t /\ Guest(t, 1, TRUE).image = 1
  BY <1>5 DEF Guest, Guests
<1>7. vm \in [Vmids -> {NoVm, Foreign} \cup Guests]
  <2>1. ASSUME NEW v \in Vmids, here(v) # {} PROVE (CHOOSE t \in here(v) : TRUE) \in Templates
    BY <1>3, <2>1
  <2>2. QED
    BY <1>2, <1>6, <2>1
<1>8. ASSUME NEW t \in DOMAIN file PROVE vm[file[t].vmid] = Guest(t, 1, TRUE)
  <2>1. here(file[t].vmid) = {t}
    BY <1>1
  <2>2. (CHOOSE u \in here(file[t].vmid) : TRUE) = t
    BY <2>1
  <2>3. QED
    BY <1>2, <1>3, <2>1, <2>2
<1>9. CacheTrue(file)
  <2> SUFFICES ASSUME NEW t \in DOMAIN file PROVE Recorded(file[t], t)
    BY DEF CacheTrue
  <2>1. t \in Templates /\ file[t].version = 1 /\ file[t].vmid \in Vmids
    BY <1>1, <1>3
  <2>2. removedBy[file[t].vmid] = "nobody" /\ t # "nobody"
    BY <1>1, <1>4, <2>1
  <2>3. /\ vm[file[t].vmid] \in Guests /\ vm[file[t].vmid].ready
        /\ vm[file[t].vmid].image = 1
    BY <1>6, <1>8, <2>1
  <2>4. file[t].version <= registry /\ vm[file[t].vmid].image >= file[t].version
    BY <1>1, <2>1, <2>3
  <2>5. QED
    BY <2>2, <2>3, <2>4 DEF Recorded
<1>10. DownloadLimit \in Nat /\ InstallLimit \in Nat /\ MaxHands \in Nat
  BY PreflightAssumption, CoportAssumption
<1>11. /\ At(Over.downloads) = {} /\ At(Over.installs) = {}
       /\ Sound(Over.downloads, DownloadLimit) /\ Sound(Over.installs, InstallLimit)
  BY <1>10, EmptyIsSound, OverIsRun
<1>12. TypeOK
  BY <1>1, <1>5, <1>7, <1>10, <1>11, OverIsRun DEF TypeOK
<1>13. SlotsTrue
  BY <1>1, <1>11, OverIsRun DEF SlotsTrue
<1>14. Items = {} /\ DOMAIN run.writing = {} /\ DOMAIN run.cache = {}
  BY <1>1, OverIsRun DEF Items
<1>15. PhasesTrue
  BY <1>1, <1>14, OverIsRun DEF PhasesTrue
<1>16. /\ ItemsTrue /\ GuestsTrue /\ WritesTrue
       /\ CacheTrue(run.cache) /\ CacheOlder(file) /\ CacheOlder(run.cache)
  BY <1>14 DEF ItemsTrue, GuestsTrue, WritesTrue, CacheTrue, CacheOlder
<1>17. ForeignTrue
  BY <1>2, <1>3 DEF ForeignTrue, NoVm, Foreign, Guest
<1>18. QED
  BY <1>9, <1>12, <1>13, <1>15, <1>16, <1>17 DEF CoportInv

LEMMA InvStep ==
  CoportInv /\ [Next]_vars => CoportInv'
<1> SUFFICES ASSUME CoportInv, [Next]_vars PROVE CoportInv'
  OBVIOUS
<1>1. /\ TypeOK /\ RunTrue /\ ItemsTrue /\ GuestsTrue /\ ForeignTrue /\ WritesTrue
      /\ CacheTrue(file) /\ CacheTrue(run.cache) /\ CacheOlder(file) /\ CacheOlder(run.cache)
  BY InvGivesRun DEF CoportInv
<1>2. RunTrue'
  BY <1>1, Steps
<1>3. TypeOK'
  BY <1>1, TypesKeep
<1>4. ItemsTrue'
  BY <1>1, ItemsKeep
<1>5. GuestsTrue'
  BY <1>1, GuestsKeep
<1>6. WritesTrue'
  BY <1>1, WritesKeep
<1>7. CacheTrue(file)' /\ CacheTrue(run.cache)'
  BY <1>1, CachesKeep
<1>8. CacheOlder(file)' /\ CacheOlder(run.cache)'
  BY <1>1, OlderKeeps
<1>9. SlotsTrue' /\ PhasesTrue'
  BY <1>2 DEF RunTrue
<1>10. ForeignTrue'
  BY <1>1, ForeignKeeps
<1>11. QED
  BY <1>3, <1>4, <1>5, <1>6, <1>7, <1>8, <1>9, <1>10 DEF CoportInv

LEMMA InvAlways ==
  Spec => []CoportInv
  BY InvInit, InvStep, PTL DEF Spec

-----------------------------------------------------------------------------
(* Sums over finite sets.                                                   *)

\* A set of natural numbers has a least one.
LEMMA MinIsLeast ==
  ASSUME NEW S \in SUBSET Nat, S # {}
  PROVE  \E n \in S : \A m \in S : n <= m
<1> DEFINE Less == OpToRel(<, Nat)
<1>1. \A x, y \in Nat : x < y => <<x, y>> \in Less
  BY DEF OpToRel
<1>2. IsWellFoundedOn(Less, Nat)
  BY NatLessThanWellFounded
<1> HIDE DEF Less
<1>3. PICK n \in S : \A m \in S : ~ (<<m, n>> \in Less)
  BY <1>2, WFMin
<1>4. ASSUME NEW m \in S PROVE n <= m
  <2>1. m \in Nat /\ n \in Nat
    OBVIOUS
  <2>2. ~ (m < n)
    BY <1>1, <1>3, <2>1, Zenon
  <2>3. QED
    BY <2>1, <2>2
<1>5. QED
  BY <1>4

\* Of the finite sets that are bad, some has no smaller one in it that is bad.
LEMMA SmallestSet ==
  ASSUME NEW S, IsFiniteSet(S), NEW Bad \in SUBSET SUBSET S, Bad # {}
  PROVE  \E T \in Bad : \A U \in SUBSET T : U # T => U \notin Bad
<1>1. IsWellFoundedOn(StrictSubsetOrdering(S), FiniteSubsetsOf(S))
  BY FS_StrictSubsetOrderingWellFounded
<1>2. \A T \in SUBSET S : T \in FiniteSubsetsOf(S)
  BY FS_Subset DEF FiniteSubsetsOf
<1>3. Bad \subseteq FiniteSubsetsOf(S)
  BY <1>2
<1>4. PICK T \in Bad : \A U \in Bad : ~ (<<U, T>> \in StrictSubsetOrdering(S))
  BY <1>1, <1>3, WFMin
<1>5. ASSUME NEW U \in SUBSET T, U # T, U \in Bad PROVE FALSE
  <2>1. U \in FiniteSubsetsOf(S) /\ T \in FiniteSubsetsOf(S)
    BY <1>3, <1>5
  <2>2. <<U, T>> \in StrictSubsetOrdering(S)
    BY <1>2, <1>5 DEF StrictSubsetOrdering
  <2>3. QED
    BY <1>4, <1>5, <2>2
<1>6. QED
  BY <1>5

\* The element a sum takes next, and the sums of all subsets of S.
Picked(s) == CHOOSE x \in s : TRUE
IsSums(g, size, S) ==
  g = [s \in SUBSET S |-> IF s = {} THEN 0 ELSE size[Picked(s)] + g[s \ {Picked(s)}]]

LEMMA PickedIsIn ==
  ASSUME NEW s, s # {}
  PROVE  Picked(s) \in s
BY DEF Picked

\* Sums up to any number of elements, hence all of them.
LEMMA SumsExist ==
  ASSUME NEW S, IsFiniteSet(S), NEW size
  PROVE  \E g : IsSums(g, size, S)
<1> DEFINE Small(n) == {s \in SUBSET S : Cardinality(s) <= n}
           Then(g, s) == IF s = {} THEN 0 ELSE size[Picked(s)] + g[s \ {Picked(s)}]
           Sums(g, n) == DOMAIN g = Small(n) /\ g = [s \in Small(n) |-> Then(g, s)]
           Bad == {n \in Nat : ~ \E g : Sums(g, n)}
<1>1. \A s \in SUBSET S : IsFiniteSet(s) /\ Cardinality(s) \in Nat
  BY FS_Subset, FS_CardinalityType
<1>2. Bad = {}
  <2>1. SUFFICES ASSUME Bad # {} PROVE FALSE
    OBVIOUS
  <2>2. PICK n \in Bad : \A m \in Bad : n <= m
    BY <2>1, MinIsLeast
  <2>3. CASE n = 0
    <3>1. \A s \in Small(0) : s = {}
      BY <1>1, FS_EmptySet
    <3>2. Sums([s \in Small(0) |-> 0], 0)
      BY <3>1
    <3>3. QED
      BY <2>3, <3>2
  <2>4. CASE n # 0
    <3>1. n - 1 \in Nat /\ n - 1 \notin Bad
      <4>1. n \in Nat
        BY <2>2
      <4> HIDE DEF Bad
      <4>2. QED
        BY <2>2, <2>4, <4>1
    <3>2. PICK g : Sums(g, n - 1)
      BY <3>1
    <3> DEFINE h == [s \in Small(n) |-> Then(g, s)]
    <3>3. ASSUME NEW s \in Small(n - 1) PROVE h[s] = g[s]
      <4>1. s \in Small(n)
        BY <1>1, <3>1
      <4>2. g[s] = Then(g, s)
        BY <3>2
      <4>3. QED
        BY <4>1, <4>2
    <3>4. ASSUME NEW s \in Small(n), s # {} PROVE s \ {Picked(s)} \in Small(n - 1)
      BY <1>1, <3>4, PickedIsIn, FS_RemoveElement
    <3>5. ASSUME NEW s \in Small(n) PROVE Then(g, s) = Then(h, s)
      <4>1. CASE s = {}
        BY <4>1
      <4>2. CASE s # {}
        <5>1. h[s \ {Picked(s)}] = g[s \ {Picked(s)}]
          BY <3>3, <3>4, <4>2
        <5>2. QED
          BY <4>2, <5>1
      <4>3. QED
        BY <4>1, <4>2
    <3>6. Sums(h, n)
      BY <3>5
    <3>7. QED
      BY <2>2, <3>6
  <2>5. QED
    BY <2>3, <2>4
<1>3. Cardinality(S) \in Nat /\ Small(Cardinality(S)) = SUBSET S
  BY <1>1, FS_Subset, FS_CardinalityType
<1>4. PICK g : Sums(g, Cardinality(S))
  BY <1>2, <1>3
<1>5. g = [s \in SUBSET S |-> Then(g, s)]
  BY <1>3, <1>4
<1>6. IsSums(g, size, S)
  BY <1>5 DEF IsSums
<1>7. QED
  BY <1>6

LEMMA TotalIs ==
  ASSUME NEW S, IsFiniteSet(S), NEW size
  PROVE  \E g : IsSums(g, size, S) /\ Total(size, S) = g[S]
<1>1. Total(size, S) = (CHOOSE g : IsSums(g, size, S))[S]
  BY DEF Total, MapThenSumSet, MapThenFoldSet, IsSums, Picked
<1>2. IsSums(CHOOSE g : IsSums(g, size, S), size, S)
  BY SumsExist
<1>3. QED
  BY <1>1, <1>2

\* A total of sums is a sum of totals.
LEMMA TotalAdds ==
  ASSUME NEW S, IsFiniteSet(S), NEW a, NEW b, NEW c,
         \A x \in S : a[x] \in Nat /\ b[x] \in Nat /\ c[x] = a[x] + b[x]
  PROVE  /\ Total(a, S) \in Nat /\ Total(b, S) \in Nat
         /\ Total(c, S) = Total(a, S) + Total(b, S)
<1>1. PICK f : IsSums(f, a, S) /\ Total(a, S) = f[S]
  BY TotalIs
<1>2. PICK g : IsSums(g, b, S) /\ Total(b, S) = g[S]
  BY TotalIs
<1>3. PICK h : IsSums(h, c, S) /\ Total(c, S) = h[S]
  BY TotalIs
<1> DEFINE Adds(T) == f[T] \in Nat /\ g[T] \in Nat /\ h[T] = f[T] + g[T]
           Bad == {T \in SUBSET S : ~ Adds(T)}
<1>4. Bad = {}
  <2>1. SUFFICES ASSUME Bad # {} PROVE FALSE
    OBVIOUS
  <2>2. PICK T \in Bad : \A U \in SUBSET T : U # T => U \notin Bad
    <3>1. Bad \in SUBSET SUBSET S
      OBVIOUS
    <3> HIDE DEF Bad
    <3>2. QED
      BY <2>1, <3>1, SmallestSet
  <2>3. CASE T = {}
    <3>1. f[T] = 0 /\ g[T] = 0 /\ h[T] = 0
      BY <1>1, <1>2, <1>3, <2>3 DEF IsSums
    <3>2. QED
      BY <2>2, <3>1
  <2>4. CASE T # {}
    <3> DEFINE x == Picked(T)
               U == T \ {x}
    <3>1. x \in T /\ x \in S /\ U \in SUBSET S /\ U # T
      BY <2>4, PickedIsIn
    <3>2. Adds(U)
      BY <2>2, <3>1
    <3>3. f[T] = a[x] + f[U] /\ g[T] = b[x] + g[U] /\ h[T] = c[x] + h[U]
      BY <1>1, <1>2, <1>3, <2>4 DEF IsSums
    <3>4. a[x] \in Nat /\ b[x] \in Nat /\ c[x] = a[x] + b[x]
      BY <3>1
    <3> HIDE DEF x, U
    <3>5. Adds(T)
      BY <3>2, <3>3, <3>4
    <3>6. QED
      BY <3>5
  <2>5. QED
    BY <2>3, <2>4
<1>5. Adds(S)
  BY <1>4
<1>6. QED
  BY <1>1, <1>2, <1>3, <1>5

\* Totals of what is less are less.
LEMMA TotalGrows ==
  ASSUME NEW S, IsFiniteSet(S), NEW a, NEW b,
         \A x \in S : a[x] \in Nat /\ b[x] \in Nat /\ a[x] <= b[x]
  PROVE  Total(a, S) \in Nat /\ Total(b, S) \in Nat /\ Total(a, S) <= Total(b, S)
<1> DEFINE more == [x \in S |-> b[x] - a[x]]
<1>1. \A x \in S : more[x] \in Nat /\ b[x] = a[x] + more[x]
  OBVIOUS
<1> HIDE DEF more
<1>2. /\ Total(a, S) \in Nat /\ Total(more, S) \in Nat
      /\ Total(b, S) = Total(a, S) + Total(more, S)
  BY <1>1, TotalAdds
<1>3. QED
  BY <1>2

\* The maximum of the values of a function on a finite set.
LEMMA MaxIsGreatest ==
  ASSUME NEW S, IsFiniteSet(S), S # {}, NEW a, \A x \in S : a[x] \in Nat
  PROVE  LET most == Max({a[x] : x \in S}) IN most \in Nat /\ \A x \in S : a[x] <= most
<1> DEFINE Bad == {T \in SUBSET S : T # {} /\ ~ \E x \in T : \A y \in T : a[y] <= a[x]}
<1>1. Bad = {}
  <2>1. SUFFICES ASSUME Bad # {} PROVE FALSE
    OBVIOUS
  <2>2. PICK T \in Bad : \A U \in SUBSET T : U # T => U \notin Bad
    <3>1. Bad \in SUBSET SUBSET S
      OBVIOUS
    <3> HIDE DEF Bad
    <3>2. QED
      BY <2>1, <3>1, SmallestSet
  <2>3. PICK x \in T : TRUE
    BY <2>2
  <2>4. T \ {x} \in SUBSET T /\ T \ {x} # T /\ T \ {x} \in SUBSET S
    BY <2>3
  <2>5. CASE T \ {x} = {}
    <3>1. \A y \in T : a[y] <= a[x]
      BY <2>5
    <3>2. QED
      BY <2>2, <3>1
  <2>6. CASE T \ {x} # {}
    <3>1. PICK m \in T \ {x} : \A y \in T \ {x} : a[y] <= a[m]
      BY <2>2, <2>4, <2>6
    <3>2. \/ \A y \in T : a[y] <= a[m]
          \/ \A y \in T : a[y] <= a[x]
      BY <3>1
    <3>3. QED
      BY <2>2, <3>2
  <2>7. QED
    BY <2>5, <2>6
<1>2. PICK x \in S : \A y \in S : a[y] <= a[x]
  BY <1>1
<1>3. a[x] \in {a[y] : y \in S} /\ \A n \in {a[y] : y \in S} : a[x] >= n
  BY <1>2
<1>4. /\ Max({a[y] : y \in S}) \in {a[y] : y \in S}
      /\ \A n \in {a[y] : y \in S} : Max({a[y] : y \in S}) >= n
  BY <1>3 DEF Max
<1>5. QED
  BY <1>4

-----------------------------------------------------------------------------
(* The checks of the preflight.                                             *)

\* A silent probe takes errors away and adds none, unless it is the one for the images.
LEMMA SilenceIsNoError ==
  ASSUME NEW items, NEW taken, NEW node, NEW silent \in Probes \ {"images"}
  PROVE  Errors(Preflight(items, taken, node, Probes \ {silent}))
           \subseteq Errors(Preflight(items, taken, node, Probes))
<1> DEFINE heard == Probes \ {silent}
           table(h) == ProbeStorages(node, h)
           Stores(h) == IF table(h) = Unknown THEN {} ELSE CheckStorages(items, node, table(h))
<1>2. Stores(heard) \subseteq Stores(Probes)
  <2>1. CASE silent = "storages"
    <3>1. table(heard) = Unknown
      BY <2>1 DEF ProbeStorages
    <3>2. QED
      BY <3>1
  <2>2. CASE silent # "storages"
    <3>1. /\ "storages" \in heard /\ "storages" \in Probes
          /\ "images" \in heard /\ "images" \in Probes
      BY <2>2 DEF Probes
    <3> HIDE DEF heard
    <3>2. table(heard) = table(Probes)
      BY <3>1 DEF ProbeStorages
    <3>3. QED
      BY <3>2
  <2>3. QED
    BY <2>1, <2>2
<1>3. CheckVmids(items, taken, node, heard) \subseteq CheckVmids(items, taken, node, Probes)
  <2>1. ASSUME NEW v, Unreplaceable(ProbeGuest(v, taken, node, heard), heard)
        PROVE  Unreplaceable(ProbeGuest(v, taken, node, Probes), Probes)
    BY <2>1 DEF Unreplaceable, ProbeGuest, Probes
  <2>2. QED
    BY <2>1 DEF CheckVmids
<1>4. Errors(CheckTemp(DOMAIN items, node, heard))
        \subseteq Errors(CheckTemp(DOMAIN items, node, Probes))
  <2>1. CASE silent = "free"
    BY <2>1 DEF CheckTemp, FindingIf, Errors, Error, Warning
  <2>2. CASE silent # "free"
    <3>1. "free" \in heard /\ "free" \in Probes
      BY <2>2 DEF Probes
    <3>2. QED
      BY <3>1 DEF CheckTemp
  <2>3. QED
    BY <2>1, <2>2
<1>5. Errors(CheckArtifacts(DOMAIN items, node, heard))
        \subseteq Errors(CheckArtifacts(DOMAIN items, node, Probes))
  <2>1. CASE silent = "artifacts"
    BY <2>1 DEF CheckArtifacts, ProbeArtifact, Errors, Error, Warning
  <2>2. CASE silent # "artifacts"
    <3>1. "artifacts" \in heard /\ "artifacts" \in Probes
      BY <2>2 DEF Probes
    <3>2. QED
      BY <3>1 DEF CheckArtifacts, ProbeArtifact
  <2>3. QED
    BY <2>1, <2>2
<1>6. \A h : Preflight(items, taken, node, h) =
               CheckTooling(node) \cup Stores(h) \cup CheckVmids(items, taken, node, h)
                 \cup CheckTemp(DOMAIN items, node, h) \cup CheckBridge(node)
                 \cup CheckArtifacts(DOMAIN items, node, h)
  BY DEF Preflight
<1> HIDE DEF heard, Stores
<1>7. Errors(Preflight(items, taken, node, heard)) \subseteq Errors(Preflight(items, taken, node, Probes))
  BY <1>2, <1>3, <1>4, <1>5, <1>6 DEF Errors
<1>8. QED
  BY <1>7 DEF heard

\* Which findings are errors.
LEMMA FindingsAre ==
  /\ \A X, Y : Errors(X \cup Y) = {} <=> Errors(X) = {} /\ Errors(Y) = {}
  /\ \A check, about : Errors({Error(check, about)}) # {} /\ Errors({Warning(check, about)}) = {}
  /\ Errors({}) = {}
<1>1. \A X, Y : Errors(X \cup Y) = {} <=> Errors(X) = {} /\ Errors(Y) = {}
  BY DEF Errors
<1>2. ASSUME NEW check, NEW about
      PROVE  Errors({Error(check, about)}) # {} /\ Errors({Warning(check, about)}) = {}
  <2>1. Error(check, about).severity = "error" /\ Warning(check, about).severity = "warning"
    BY DEF Error, Warning
  <2>2. QED
    BY <2>1 DEF Errors
<1>3. Errors({}) = {}
  BY DEF Errors
<1>4. QED
  BY <1>1, <1>2, <1>3

LEMMA FindingsIf ==
  ASSUME NEW check, NEW about, NEW condition \in BOOLEAN
  PROVE  /\ Errors(FindingIf(condition, Error(check, about))) = {} <=> ~ condition
         /\ Errors(FindingIf(condition, Warning(check, about))) = {}
         /\ \A finding : FindingIf(condition, finding) = {} <=> ~ condition
BY FindingsAre DEF FindingIf

\* A node with a pvesm that lists some storage: of the others the preflight says nothing
\* about storages (preflight.ts:177).
Listed(node) == node.pvesm /\ \E s \in Storages : node.row[s] # NoRow

Table(node) == [all |-> {s \in Storages : node.row[s] # NoRow},
                imageCapable |-> {s \in Storages : node.row[s] # NoRow /\ node.row[s].images}]

LEMMA TableIsRead ==
  ASSUME NEW node
  PROVE  /\ Listed(node) => ProbeStorages(node, Probes) = Table(node) /\ Table(node) # Unknown
         /\ ~ Listed(node) => ProbeStorages(node, Probes) = Unknown
BY DEF Listed, ProbeStorages, Table, Unknown, Probes

\* What has no error: a storage has room for what is certain to come.
Affordable(row, demand) ==
  /\ row.type \in Thick => demand.virtual <= row.free
  /\ row.type \notin Thick \cup Compress => demand.download <= row.free

Usable(s, node) == node.row[s] # NoRow /\ node.row[s].images /\ node.row[s].active

LEMMA CapacityErrors ==
  ASSUME NEW row \in Rows, NEW demand, demand.download \in Nat, demand.virtual \in Nat,
         demand.download <= demand.virtual
  PROVE  /\ Errors(Capacity(row, demand)) = {} <=> Affordable(row, demand)
         /\ Capacity(row, demand) = {} => demand.virtual <= row.free
<1>1. row.free \in Nat /\ row.type \in {"lvm", "lvmthin", "zfspool"}
  BY DEF Rows
<1>2. CASE row.type \in Thick
  <2>1. Capacity(row, demand) = IF row.free < demand.virtual THEN {Error("capacity", row)} ELSE {}
    BY <1>2 DEF Capacity, FindingIf
  <2>2. row.type \notin Compress
    BY <1>2 DEF Thick, Compress
  <2>3. QED
    BY <1>1, <1>2, <2>1, <2>2, FindingsAre DEF Affordable
<1>3. CASE row.type \notin Thick /\ row.free < demand.download
  <2>1. Capacity(row, demand) = {IF row.type \in Compress THEN Warning("capacity", row)
                                 ELSE Error("capacity", row)}
    BY <1>3 DEF Capacity
  <2>2. QED
    BY <1>1, <1>3, <2>1, FindingsAre DEF Affordable
<1>4. CASE row.type \notin Thick /\ ~ (row.free < demand.download)
  <2>1. Capacity(row, demand) = IF row.free < demand.virtual THEN {Warning("capacity", row)} ELSE {}
    BY <1>4 DEF Capacity, FindingIf
  <2>2. QED
    BY <1>1, <1>4, <2>1, FindingsAre DEF Affordable
<1>5. QED
  BY <1>2, <1>3, <1>4

\* What the disks take is between what is downloaded and what they grow to.
LEMMA DemandIs ==
  ASSUME IsFiniteSet(Templates), NEW T \in SUBSET Templates
  PROVE  LET demand == StorageDemand(T)
             least == [t \in Templates |-> ImageSize[t] + Extras[t]]
             most == [t \in Templates |-> Full(t)]
         IN  /\ demand.download = Total(least, T) /\ demand.virtual = Total(most, T)
             /\ demand.download \in Nat /\ demand.virtual \in Nat
             /\ demand.download <= demand.virtual
<1> DEFINE demand == StorageDemand(T)
           least == [t \in Templates |-> ImageSize[t] + Extras[t]]
           most == [t \in Templates |-> Full(t)]
<1>1. IsFiniteSet(T)
  BY FS_Subset
<1>2. \A t \in T : /\ ImageSize[t] \in Nat /\ Extras[t] \in Nat /\ VirtualSize[t] \in Nat
                   /\ ImageSize[t] <= VirtualSize[t]
  BY PreflightAssumption
<1>3. \A t \in T : least[t] = ImageSize[t] + Extras[t] /\ most[t] = VirtualSize[t] + Extras[t]
  BY DEF Full
<1>4. \A t \in T : least[t] \in Nat /\ most[t] \in Nat /\ least[t] <= most[t]
  BY <1>2, <1>3
<1>5. /\ demand.download = Total(ImageSize, T) + Total(Extras, T)
      /\ demand.virtual = Total(VirtualSize, T) + Total(Extras, T)
  BY DEF StorageDemand
<1> HIDE DEF least, most, demand
<1>6. demand.download = Total(least, T)
  BY <1>1, <1>2, <1>3, <1>5, TotalAdds
<1>7. demand.virtual = Total(most, T)
  BY <1>1, <1>2, <1>3, <1>5, TotalAdds
<1>8. Total(least, T) \in Nat /\ Total(most, T) \in Nat /\ Total(least, T) <= Total(most, T)
  BY <1>1, <1>4, TotalGrows
<1>9. QED
  BY <1>6, <1>7, <1>8 DEF least, most, demand

\* A plan is passed if nothing is certain to fail.
Passes(items, taken, node) ==
  /\ node.qm /\ node.root /\ node.temp.writable
  /\ \A t \in DOMAIN items :
       /\ items[t].vmid \in Accepted
       /\ ImageSize[t] <= node.temp.free
       /\ node.artifact[t] # "gone"
       /\ items[t].overwrite /\ items[t].vmid \in taken
            => node.guest[items[t].vmid] \in {"stopped", "protected"}
  /\ Listed(node) => \A s \in Used(items) :
       Usable(s, node) /\ Affordable(node.row[s], StorageDemand(On(items, s)))

LEMMA PlanParts ==
  ASSUME NEW items, NEW taken, <<items, taken>> \in Plans, IsFiniteSet(Templates)
  PROVE  /\ DOMAIN items \in SUBSET Templates /\ DOMAIN items # {} /\ IsFiniteSet(DOMAIN items)
         /\ items \in [DOMAIN items -> Plan] /\ taken \in SUBSET Vmids
         /\ Used(items) \in SUBSET Storages
         /\ \A s : On(items, s) \in SUBSET DOMAIN items
<1>1. \E T \in (SUBSET Templates) \ {{}} : items \in [T -> Plan]
  BY DEF Plans
<1>2. taken \in SUBSET Vmids
  BY DEF Plans
<1>3. DOMAIN items \in SUBSET Templates /\ DOMAIN items # {} /\ items \in [DOMAIN items -> Plan]
  BY <1>1
<1>4. QED
  BY <1>2, <1>3, FS_Subset DEF Used, On, Plan

LEMMA ErrorsAre ==
  ASSUME NEW items, NEW taken, <<items, taken>> \in Plans, IsFiniteSet(Templates),
         NEW node \in Nodes
  PROVE  LET found == Preflight(items, taken, node, Probes) IN
         /\ Errors(found) = {} <=> Passes(items, taken, node)
         /\ found = {} /\ Listed(node) =>
              \A s \in Used(items) : StorageDemand(On(items, s)).virtual <= node.row[s].free
         /\ found = {} => ~ (node.temp.free < PeakTemp(DOMAIN items))
         /\ found = {} => \A t \in DOMAIN items : node.artifact[t] \in {"published", "noHead"}
<1> DEFINE D == DOMAIN items
           found == Preflight(items, taken, node, Probes)
           Demand(s) == StorageDemand(On(items, s))
           Found(s) == IF StorageProblem(s, node, Table(node)) THEN {Error("storage", s)}
                       ELSE Capacity(node.row[s], Demand(s))
           stores == IF Listed(node) THEN UNION {Found(s) : s \in Used(items)} ELSE {}
           tooling == CheckTooling(node)
           vmids == CheckVmids(items, taken, node, Probes)
           temp == CheckTemp(D, node, Probes)
           bridge == CheckBridge(node)
           artifacts == CheckArtifacts(D, node, Probes)
<1>1. found = tooling \cup stores \cup vmids \cup temp \cup bridge \cup artifacts
  BY TableIsRead DEF Preflight, CheckStorages
<1>2. /\ D \in SUBSET Templates /\ items \in [D -> Plan] /\ taken \in SUBSET Vmids
      /\ Used(items) \in SUBSET Storages /\ \A s : On(items, s) \in SUBSET Templates
  BY PlanParts
<1>3. node \in NodeTypes
  BY NodesAssumption
<1>4. Errors(tooling) = {} <=> node.qm /\ node.root
  <2>1. node.qm \in BOOLEAN /\ node.root \in BOOLEAN /\ node.pvesm \in BOOLEAN
    BY <1>3 DEF NodeTypes
  <2>2. Errors(FindingIf(~ node.qm, Error("tooling", "qm"))) = {} <=> node.qm
    BY <2>1, FindingsIf
  <2>3. Errors(FindingIf(~ node.root, Error("tooling", "root"))) = {} <=> node.root
    BY <2>1, FindingsIf
  <2>4. Errors(FindingIf(node.qm /\ ~ node.pvesm, Warning("tooling", "pvesm"))) = {}
    BY <2>1, FindingsIf
  <2> DEFINE A == FindingIf(~ node.qm, Error("tooling", "qm"))
             B == FindingIf(~ node.root, Error("tooling", "root"))
             C == FindingIf(node.qm /\ ~ node.pvesm, Warning("tooling", "pvesm"))
  <2>5. tooling = A \cup B \cup C
    BY DEF CheckTooling
  <2> HIDE DEF A, B, C
  <2>6. Errors(tooling) = {} <=> Errors(A) = {} /\ Errors(B) = {} /\ Errors(C) = {}
    BY <2>5 DEF Errors
  <2>7. QED
    BY <2>2, <2>3, <2>4, <2>6 DEF A, B, C
<1>5. ASSUME NEW s \in Used(items)
      PROVE  /\ Errors(Found(s)) = {} <=> Usable(s, node) /\ Affordable(node.row[s], Demand(s))
             /\ Found(s) = {} => Demand(s).virtual <= node.row[s].free
  <2>1. s \in Storages /\ node.row[s] \in Rows \cup {NoRow}
    BY <1>2, <1>3 DEF NodeTypes
  <2>2. StorageProblem(s, node, Table(node)) <=> ~ Usable(s, node)
    <3>1. /\ s \in Table(node).all <=> node.row[s] # NoRow
          /\ s \in Table(node).imageCapable <=> node.row[s] # NoRow /\ node.row[s].images
      BY <2>1 DEF Table
    <3>2. QED
      BY <3>1 DEF StorageProblem, Usable
  <2>3. CASE Usable(s, node)
    <3>1. node.row[s] \in Rows /\ Found(s) = Capacity(node.row[s], Demand(s))
      BY <2>1, <2>2, <2>3 DEF Usable
    <3>2. /\ Demand(s).download \in Nat /\ Demand(s).virtual \in Nat
          /\ Demand(s).download <= Demand(s).virtual
      BY <1>2, DemandIs
    <3> HIDE DEF Found, Demand
    <3>3. QED
      BY <2>3, <3>1, <3>2, CapacityErrors
  <2>4. CASE ~ Usable(s, node)
    <3>1. Found(s) = {Error("storage", s)}
      BY <2>2, <2>4
    <3>2. QED
      BY <2>4, <3>1, FindingsAre
  <2>5. QED
    BY <2>3, <2>4
<1>6. Errors(stores) = {} <=>
        (Listed(node) =>
           \A s \in Used(items) : Usable(s, node) /\ Affordable(node.row[s], Demand(s)))
  <2>1. Errors(stores) = {} <=> (Listed(node) => \A s \in Used(items) : Errors(Found(s)) = {})
    BY DEF Errors
  <2>2. QED
    BY <1>5, <2>1
<1>7. Errors(vmids) = {} <=>
        \A t \in D : /\ items[t].vmid \in Accepted
                     /\ items[t].overwrite /\ items[t].vmid \in taken
                          => node.guest[items[t].vmid] \in {"stopped", "protected"}
  <2>1. ASSUME NEW t \in D
        PROVE  Unreplaceable(ProbeGuest(items[t].vmid, taken, node, Probes), Probes)
                 <=> /\ items[t].vmid \in taken
                     /\ node.guest[items[t].vmid] \notin {"stopped", "protected"}
    <3>1. items[t].vmid \in taken => node.guest[items[t].vmid] \in Conditions
      BY <1>2, <1>3 DEF NodeTypes
    <3>2. QED
      BY <3>1 DEF Unreplaceable, ProbeGuest, Probes, Conditions
  <2>2. Errors(vmids) = vmids
    BY DEF CheckVmids, Errors, Error
  <2>3. vmids = {} <=>
          \A t \in D : items[t].vmid \in Accepted
            /\ ~ (/\ items[t].overwrite
                  /\ Unreplaceable(ProbeGuest(items[t].vmid, taken, node, Probes), Probes))
    BY DEF CheckVmids
  <2>4. QED
    BY <2>1, <2>2, <2>3
<1>8. Errors(temp) = {} <=> node.temp.writable /\ \A t \in D : ImageSize[t] <= node.temp.free
  <2>1. node.temp.free \in Nat /\ \A t \in D : ImageSize[t] \in Nat
    BY <1>2, <1>3, PreflightAssumption DEF NodeTypes
  <2>2. (\E t \in D : node.temp.free < ImageSize[t]) <=> ~ \A t \in D : ImageSize[t] <= node.temp.free
    BY <2>1
  <2>3. Errors(temp) = {} <=> node.temp.writable /\ ~ \E t \in D : node.temp.free < ImageSize[t]
    <3> DEFINE short == \E t \in D : node.temp.free < ImageSize[t]
               tight == node.temp.free < PeakTemp(D)
               second == IF short THEN {Error("temp", "free")}
                         ELSE FindingIf(tight, Warning("temp", "free"))
    <3>1. temp = FindingIf(~ node.temp.writable, Error("temp", "writable")) \cup second
      BY DEF CheckTemp, Probes
    <3>2. Errors(FindingIf(~ node.temp.writable, Error("temp", "writable"))) = {}
            <=> node.temp.writable
      BY <1>3, FindingsIf DEF NodeTypes
    <3>3. Errors(second) = {} <=> ~ short
      <4>1. Errors(FindingIf(tight, Warning("temp", "free"))) = {}
        BY FindingsAre DEF FindingIf
      <4>2. QED
        BY <4>1, FindingsAre
    <3> HIDE DEF short, second
    <3>4. QED
      BY <3>1, <3>2, <3>3, FindingsAre DEF short
  <2>4. QED
    BY <2>2, <2>3
<1>9. Errors(bridge) = {}
  BY DEF CheckBridge, FindingIf, Errors, Warning
<1>10. Errors(artifacts) = {} <=> \A t \in D : node.artifact[t] # "gone"
  <2> DEFINE gone == {t \in D : node.artifact[t] = "gone"}
             other == {t \in D : ProbeArtifact(t, node, Probes) = "unreachable"}
                        \cup {t \in D : ProbeArtifact(t, node, Probes) = "otherLength"}
  <2>1. artifacts = {Error("artifact", t) : t \in gone} \cup {Warning("artifact", t) : t \in other}
    <3>1. gone = {t \in D : ProbeArtifact(t, node, Probes) = "gone"}
      BY DEF ProbeArtifact, Probes
    <3>2. QED
      BY <3>1 DEF CheckArtifacts
  <2>2. \A t : Error("artifact", t).severity = "error" /\ Warning("artifact", t).severity = "warning"
    BY DEF Error, Warning
  <2>3. Errors({Error("artifact", t) : t \in gone}) = {} <=> gone = {}
    BY <2>2 DEF Errors
  <2>4. Errors({Warning("artifact", t) : t \in other}) = {}
    BY <2>2 DEF Errors
  <2> HIDE DEF other
  <2>5. QED
    BY <2>1, <2>3, <2>4, FindingsAre
<1> HIDE DEF D, found, stores, tooling, vmids, temp, bridge, artifacts, Demand, Found
<1>11. Errors(found) = {} <=> /\ Errors(tooling) = {} /\ Errors(stores) = {} /\ Errors(vmids) = {}
                              /\ Errors(temp) = {} /\ Errors(bridge) = {} /\ Errors(artifacts) = {}
  BY <1>1 DEF Errors
<1>12. Errors(found) = {} <=> Passes(items, taken, node)
  BY <1>4, <1>6, <1>7, <1>8, <1>9, <1>10, <1>11 DEF Passes, D, Demand
<1>13. ASSUME found = {}, Listed(node), NEW s \in Used(items)
       PROVE  Demand(s).virtual <= node.row[s].free
  <2>1. Found(s) = {}
    BY <1>1, <1>13 DEF stores
  <2>2. QED
    BY <1>5, <2>1
<1>14. ASSUME found = {} PROVE ~ (node.temp.free < PeakTemp(D))
  <2>1. temp = {}
    BY <1>1, <1>14
  <2>2. QED
    BY <2>1 DEF temp, CheckTemp, FindingIf, Probes
<1>15. ASSUME found = {}, NEW t \in D PROVE node.artifact[t] \in {"published", "noHead"}
  <2>1. artifacts = {}
    BY <1>1, <1>15
  <2>2. ProbeArtifact(t, node, Probes) \notin {"gone", "unreachable", "otherLength"}
    BY <2>1 DEF artifacts, CheckArtifacts
  <2>3. node.artifact[t] \in Artifacts
    BY <1>2, <1>3 DEF NodeTypes
  <2>4. QED
    BY <2>2, <2>3 DEF ProbeArtifact, Probes, Artifacts
<1>16. QED
  BY <1>12, <1>13, <1>14, <1>15 DEF found, Demand, D

\* What a size that a template may have lies between.
LEMMA SizesAre ==
  ASSUME NEW items, NEW taken, <<items, taken>> \in Plans, IsFiniteSet(Templates),
         NEW node \in Nodes, NEW size \in Sizes(items, node), NEW t \in DOMAIN items
  PROVE  LET type == node.row[items[t].storage].type IN
         /\ size[t] \in Nat /\ Full(t) \in Nat /\ size[t] <= Full(t)
         /\ type \in Thick => size[t] = Full(t)
         /\ type \notin Thick \cup Compress => ImageSize[t] + Extras[t] <= size[t]
<1>1. t \in Templates
  BY PlanParts
<1>2. ImageSize[t] \in Nat /\ Extras[t] \in Nat /\ VirtualSize[t] \in Nat /\ ImageSize[t] <= VirtualSize[t]
  BY <1>1, PreflightAssumption
<1>3. Full(t) \in Nat
  BY <1>2 DEF Full
<1>4. size[t] \in Takes(t, node.row[items[t].storage])
  BY DEF Sizes
<1>5. QED
  BY <1>2, <1>3, <1>4 DEF Takes

\* The least that the templates may take is a size they may have.
Least(items, node) ==
  [t \in DOMAIN items |->
     LET type == node.row[items[t].storage].type
     IN  IF type \in Thick THEN Full(t)
         ELSE IF type \in Compress THEN 0 ELSE ImageSize[t] + Extras[t]]

LEMMA LeastIsASize ==
  ASSUME NEW items, NEW taken, <<items, taken>> \in Plans, IsFiniteSet(Templates),
         NEW node \in Nodes
  PROVE  Least(items, node) \in Sizes(items, node)
<1> DEFINE D == DOMAIN items
           full == [t \in D |-> Full(t)]
           most == Max({Full(t) : t \in D})
<1>1. D \in SUBSET Templates /\ D # {} /\ IsFiniteSet(D)
  BY PlanParts
<1>2. \A t \in D : /\ ImageSize[t] \in Nat /\ Extras[t] \in Nat /\ VirtualSize[t] \in Nat
                   /\ ImageSize[t] <= VirtualSize[t]
  BY <1>1, PreflightAssumption
<1>3. \A t \in D : full[t] = Full(t) /\ Full(t) \in Nat /\ ImageSize[t] + Extras[t] \in 0..Full(t)
  BY <1>2 DEF Full
<1>4. {full[t] : t \in D} = {Full(t) : t \in D}
  OBVIOUS
<1> HIDE DEF full
<1>5. most \in Nat /\ \A t \in D : Full(t) <= most
  <2>1. Max({full[t] : t \in D}) \in Nat /\ \A u \in D : full[u] <= Max({full[t] : t \in D})
    BY <1>1, <1>3, MaxIsGreatest
  <2>2. QED
    BY <1>3, <1>4, <2>1
<1> HIDE DEF most
<1>6. ASSUME NEW t \in D
      PROVE  /\ Least(items, node)[t] \in 0..most
             /\ Least(items, node)[t] \in Takes(t, node.row[items[t].storage])
  <2> DEFINE type == node.row[items[t].storage].type
  <2>1. Least(items, node)[t] = IF type \in Thick THEN Full(t)
                                ELSE IF type \in Compress THEN 0 ELSE ImageSize[t] + Extras[t]
    BY DEF Least
  <2>2. Least(items, node)[t] \in 0..Full(t)
    BY <1>3, <2>1
  <2>3. Least(items, node)[t] \in Takes(t, node.row[items[t].storage])
    BY <1>3, <2>1 DEF Takes
  <2>4. QED
    BY <1>3, <1>5, <2>2, <2>3
<1>7. Least(items, node) = [t \in D |-> Least(items, node)[t]]
  BY DEF Least
<1>8. Least(items, node) \in [D -> 0..most]
  BY <1>6, <1>7
<1>9. QED
  BY <1>6, <1>8 DEF Sizes, most

\* Totals of what is equal are equal, and of nothing nothing.
LEMMA TotalSame ==
  ASSUME NEW S, IsFiniteSet(S), NEW a, NEW b, \A x \in S : a[x] \in Nat /\ b[x] = a[x]
  PROVE  Total(a, S) = Total(b, S)
<1>1. /\ Total(a, S) \in Nat /\ Total(b, S) \in Nat
      /\ Total(a, S) <= Total(b, S) /\ Total(b, S) <= Total(a, S)
  BY TotalGrows
<1>2. QED
  BY <1>1

LEMMA TotalOfNothing ==
  ASSUME NEW S, IsFiniteSet(S), NEW a, \A x \in S : a[x] = 0
  PROVE  Total(a, S) = 0
<1> DEFINE n == Total(a, S)
<1>1. n \in Nat /\ n = n + n
  BY TotalAdds
<1> HIDE DEF n
<1>2. n = 0
  BY <1>1
<1>3. QED
  BY <1>2 DEF n

\* What the templates take on a storage is at most its demand, and no less than is certain.
LEMMA TakenOn ==
  ASSUME NEW items, NEW taken, <<items, taken>> \in Plans, IsFiniteSet(Templates),
         NEW node \in Nodes, NEW size \in Sizes(items, node), NEW s \in Used(items)
  PROVE  LET takes == Total(size, On(items, s))
             demand == StorageDemand(On(items, s))
         IN  /\ takes \in Nat /\ demand.virtual \in Nat /\ takes <= demand.virtual
             /\ node.row[s].type \in Thick => takes = demand.virtual
             /\ node.row[s].type \notin Thick \cup Compress => demand.download <= takes
<1> DEFINE T == On(items, s)
           takes == Total(size, T)
           demand == StorageDemand(T)
           least == [t \in Templates |-> ImageSize[t] + Extras[t]]
           most == [t \in Templates |-> Full(t)]
           type == node.row[s].type
<1>1. T \in SUBSET DOMAIN items /\ T \in SUBSET Templates
  BY PlanParts
<1>2. IsFiniteSet(T)
  BY <1>1, FS_Subset
<1>3. \A t \in T : items[t].storage = s
  BY DEF On
<1>4. \A t \in T : least[t] = ImageSize[t] + Extras[t] /\ most[t] = Full(t)
  BY <1>1
<1>5. \A t \in T : ImageSize[t] \in Nat /\ Extras[t] \in Nat
  BY <1>1, PreflightAssumption
<1>6. \A t \in T : /\ size[t] \in Nat /\ most[t] \in Nat /\ size[t] <= most[t]
                   /\ type \in Thick => size[t] = most[t]
                   /\ type \notin Thick \cup Compress => least[t] <= size[t]
  <2>1. ASSUME NEW t \in T
        PROVE  /\ size[t] \in Nat /\ Full(t) \in Nat /\ size[t] <= Full(t)
               /\ type \in Thick => size[t] = Full(t)
               /\ type \notin Thick \cup Compress => ImageSize[t] + Extras[t] <= size[t]
    <3>1. t \in DOMAIN items /\ node.row[items[t].storage].type = type
      BY <1>1, <1>3
    <3>2. QED
      BY <3>1, SizesAre
  <2>2. QED
    BY <1>4, <2>1
<1>7. /\ demand.download = Total(least, T) /\ demand.virtual = Total(most, T)
      /\ demand.virtual \in Nat
  BY <1>1, DemandIs
<1> HIDE DEF T, demand, least, most, type
<1>8. \A t \in T : least[t] \in Nat
  <2>1. ASSUME NEW t \in T PROVE least[t] \in Nat
    <3>1. least[t] = ImageSize[t] + Extras[t] /\ ImageSize[t] \in Nat /\ Extras[t] \in Nat
      BY <1>4, <1>5
    <3>2. QED
      BY <3>1
  <2>2. QED
    BY <2>1
<1>9. takes \in Nat /\ takes <= demand.virtual
  BY <1>2, <1>6, <1>7, TotalGrows
<1>10. type \in Thick => takes = demand.virtual
  BY <1>2, <1>6, <1>7, TotalSame
<1>11. type \notin Thick \cup Compress => demand.download <= takes
  BY <1>2, <1>6, <1>7, <1>8, TotalGrows
<1>12. QED
  BY <1>7, <1>9, <1>10, <1>11 DEF T, demand, type

\* A plan that passes can be brought to its end when nothing unseen is in the way, and
\* neither are the sizes, the servers and the images on disk.
LEMMA PassesInstalls ==
  ASSUME NEW items, NEW taken, <<items, taken>> \in Plans, NEW node \in Nodes, NEW outcome,
         Passes(items, taken, node), ~ Unseen(items, taken, node),
         \A t \in DOMAIN items : t \in outcome.served,
         Total(ImageSize, outcome.resident) <= node.temp.free,
         \A s \in Used(items) : Total(outcome.size, On(items, s)) <= node.row[s].free
  PROVE  Installs(items, taken, node, outcome)
<1>1. Listed(node)
  BY DEF Unseen, Listed
<1>2. \A v \in Replaced(items, taken) : node.guest[v] = "stopped"
  <2> SUFFICES ASSUME NEW t \in DOMAIN items, items[t].overwrite, items[t].vmid \in taken
               PROVE  node.guest[items[t].vmid] = "stopped"
    BY DEF Replaced
  <2>1. node.guest[items[t].vmid] \in {"stopped", "protected"}
    BY DEF Passes
  <2>2. node.guest[items[t].vmid] # "protected"
    BY DEF Unseen
  <2>3. QED
    BY <2>1, <2>2
<1>3. \A t \in DOMAIN items : /\ items[t].vmid \in taken => items[t].overwrite
                             /\ \A u \in DOMAIN items \ {t} : items[u].vmid # items[t].vmid
  BY DEF Unseen
<1>4. QED
  BY <1>1, <1>2, <1>3 DEF Installs, Passes, Usable

\* The images on disk, when they are no more than the limits, are within the peak.
LEMMA PeakIsMost ==
  ASSUME IsFiniteSet(Templates), NEW T \in SUBSET Templates, NEW U \in SUBSET T,
         Cardinality(U) <= DownloadLimit + InstallLimit
  PROVE  Total(ImageSize, U) \in Nat /\ PeakTemp(T) \in Nat /\ Total(ImageSize, U) <= PeakTemp(T)
<1> DEFINE few == {W \in SUBSET T : Cardinality(W) <= DownloadLimit + InstallLimit}
           total == [W \in few |-> Total(ImageSize, W)]
<1>1. IsFiniteSet(T) /\ IsFiniteSet(SUBSET T)
  BY FS_Subset, FS_SUBSET
<1>2. IsFiniteSet(few) /\ U \in few
  BY <1>1, FS_Subset
<1>3. ASSUME NEW W \in few PROVE total[W] = Total(ImageSize, W) /\ total[W] \in Nat
  <2>1. IsFiniteSet(W) /\ \A t \in W : ImageSize[t] \in Nat
    BY <1>1, FS_Subset, PreflightAssumption
  <2>2. QED
    BY <2>1, TotalGrows
<1>4. PeakTemp(T) = Max({total[W] : W \in few})
  <2>1. {Total(ImageSize, W) : W \in few} = {total[W] : W \in few}
    OBVIOUS
  <2>2. QED
    BY <2>1 DEF PeakTemp
<1> HIDE DEF few, total
<1>5. few # {}
  BY <1>2
<1>6. QED
  BY <1>2, <1>3, <1>4, <1>5, MaxIsGreatest

\* The preflight judges every plan right, on every node.
LEMMA PlanIsJudged ==
  ASSUME NEW items, NEW taken, <<items, taken>> \in Plans, IsFiniteSet(Templates),
         NEW node \in Nodes
  PROVE  Judges(items, taken, node)
<1> DEFINE found == Preflight(items, taken, node, Probes)
           can == \E outcome \in Outcomes(items, node) : Installs(items, taken, node, outcome)
<1>1. /\ Errors(found) = {} <=> Passes(items, taken, node)
      /\ found = {} /\ Listed(node) =>
           \A s \in Used(items) : StorageDemand(On(items, s)).virtual <= node.row[s].free
      /\ found = {} => ~ (node.temp.free < PeakTemp(DOMAIN items))
      /\ found = {} => \A t \in DOMAIN items : node.artifact[t] \in {"published", "noHead"}
  BY ErrorsAre
<1>2. /\ \A s \in Used(items) : s \in Storages
      /\ DOMAIN items \in SUBSET Templates
  BY PlanParts
<1>3. \A s \in Used(items) : Usable(s, node) => node.row[s].free \in Nat /\ node.row[s] \in Rows
  <2>1. ASSUME NEW s \in Used(items), Usable(s, node)
        PROVE  node.row[s].free \in Nat /\ node.row[s] \in Rows
    <3>1. node.row[s] \in Rows \cup {NoRow}
      BY <1>2, NodesAssumption DEF NodeTypes
    <3>2. QED
      BY <2>1, <3>1 DEF Usable, Rows
  <2>2. QED
    BY <2>1
<1>8. ~ Unseen(items, taken, node) => Listed(node)
  BY DEF Unseen, Listed
<1>9. node.temp.free \in Nat
  BY NodesAssumption DEF NodeTypes
<1>4. ASSUME found = {}, ~ Unseen(items, taken, node), NEW outcome \in Outcomes(items, node),
             Expected(outcome, items, node)
      PROVE  Installs(items, taken, node, outcome)
  <2>1. Passes(items, taken, node)
    BY <1>1, <1>4 DEF Errors
  <2>2. /\ outcome.size \in Sizes(items, node)
        /\ outcome.resident \in SUBSET DOMAIN items
        /\ \A t \in DOMAIN items : node.artifact[t] = "published" => t \in outcome.served
    BY DEF Outcomes
  <2>3. ASSUME NEW s \in Used(items) PROVE Total(outcome.size, On(items, s)) <= node.row[s].free
    <3>1. StorageDemand(On(items, s)).virtual <= node.row[s].free
      BY <1>1, <1>4, <1>8
    <3>2. node.row[s].free \in Nat
      BY <1>3, <1>4, <1>8, <2>1 DEF Passes
    <3>3. /\ Total(outcome.size, On(items, s)) \in Nat
          /\ StorageDemand(On(items, s)).virtual \in Nat
          /\ Total(outcome.size, On(items, s)) <= StorageDemand(On(items, s)).virtual
      BY <2>2, TakenOn
    <3>4. QED
      BY <3>1, <3>2, <3>3
  <2>4. Total(ImageSize, outcome.resident) <= node.temp.free
    <3>1. Cardinality(outcome.resident) <= DownloadLimit + InstallLimit
      BY <1>4 DEF Expected
    <3>2. LET total == Total(ImageSize, outcome.resident)
              peak == PeakTemp(DOMAIN items)
          IN  total \in Nat /\ peak \in Nat /\ total <= peak
      BY <1>2, <2>2, <3>1, PeakIsMost
    <3>3. ~ (node.temp.free < PeakTemp(DOMAIN items))
      BY <1>1, <1>4
    <3>4. QED
      BY <1>9, <3>2, <3>3
  <2>5. \A t \in DOMAIN items : t \in outcome.served
    BY <1>1, <1>4, <2>2 DEF Expected
  <2>6. QED
    BY <1>4, <2>1, <2>3, <2>4, <2>5, PassesInstalls
<1>5. ASSUME Errors(found) = {}, ~ Unseen(items, taken, node) PROVE can
  <2> DEFINE size == Least(items, node)
             outcome == [size |-> size, served |-> DOMAIN items, resident |-> {}]
  <2>1. size \in Sizes(items, node)
    BY LeastIsASize
  <2>2. Passes(items, taken, node)
    BY <1>1, <1>5
  <2>3. ASSUME NEW s \in Used(items) PROVE Total(size, On(items, s)) <= node.row[s].free
    <3> DEFINE T == On(items, s)
               row == node.row[s]
               demand == StorageDemand(T)
               least == [t \in Templates |-> ImageSize[t] + Extras[t]]
    <3>1. /\ row \in Rows /\ row.free \in Nat /\ Affordable(row, demand)
      BY <1>3, <1>5, <1>8, <2>2 DEF Passes
    <3>2. /\ T \in SUBSET DOMAIN items /\ T \in SUBSET Templates /\ IsFiniteSet(T)
          /\ \A t \in T : items[t].storage = s
      BY PlanParts, FS_Subset DEF On
    <3>3. /\ Total(size, T) \in Nat
          /\ row.type \in Thick => Total(size, T) = demand.virtual
      BY <2>1, TakenOn
    <3>4. CASE row.type \in Thick
      BY <3>1, <3>3, <3>4 DEF Affordable
    <3>5. CASE row.type \notin Thick /\ row.type \in Compress
      <4>1. \A t \in T : size[t] = 0
        BY <3>2, <3>5 DEF Least
      <4> HIDE DEF size, T
      <4>2. Total(size, T) = 0
        BY <3>2, <4>1, TotalOfNothing
      <4>3. QED
        BY <3>1, <4>2 DEF T
    <3>6. CASE row.type \notin Thick /\ row.type \notin Compress
      <4>1. \A t \in T : size[t] = ImageSize[t] + Extras[t] /\ least[t] = ImageSize[t] + Extras[t]
        BY <3>2, <3>6 DEF Least
      <4>2. \A t \in T : ImageSize[t] + Extras[t] \in Nat
        BY <3>2, PreflightAssumption
      <4>3. demand.download = Total(least, T)
        BY <3>2, DemandIs
      <4> HIDE DEF size, T, least, demand, row
      <4>4. Total(least, T) = Total(size, T)
        BY <3>2, <4>1, <4>2, TotalSame
      <4>5. demand.download <= row.free
        BY <3>1, <3>6 DEF Affordable
      <4>6. QED
        BY <4>3, <4>4, <4>5 DEF T, row
    <3>7. QED
      BY <3>4, <3>5, <3>6
  <2> HIDE DEF size
  <2>4. outcome \in Outcomes(items, node)
    <3>1. \A t \in DOMAIN items : node.artifact[t] \notin {"gone", "blank"}
      BY <1>5, <2>2 DEF Passes, Unseen
    <3>2. QED
      BY <2>1, <3>1 DEF Outcomes
  <2>5. Total(ImageSize, outcome.resident) <= node.temp.free
    <3>1. Total(ImageSize, {}) = 0
      BY FS_EmptySet, TotalOfNothing
    <3>2. QED
      BY <1>9, <3>1
  <2>6. Installs(items, taken, node, outcome)
    <3>1. /\ \A t \in DOMAIN items : t \in outcome.served
          /\ \A s \in Used(items) : Total(outcome.size, On(items, s)) <= node.row[s].free
      BY <2>3
    <3> HIDE DEF outcome
    <3>2. QED
      BY <1>5, <2>2, <2>5, <3>1, PassesInstalls
  <2>7. QED
    BY <2>4, <2>6
<1>6. ASSUME NEW outcome \in Outcomes(items, node), Installs(items, taken, node, outcome),
             Replaced(items, taken) = {}
      PROVE  Passes(items, taken, node)
  <2>1. \A t \in DOMAIN items : ~ (items[t].overwrite /\ items[t].vmid \in taken)
    BY <1>6 DEF Replaced
  <2>2. ASSUME NEW s \in Used(items)
        PROVE  Usable(s, node) /\ Affordable(node.row[s], StorageDemand(On(items, s)))
    <3> DEFINE demand == StorageDemand(On(items, s))
               takes == Total(outcome.size, On(items, s))
               row == node.row[s]
    <3>1. Usable(s, node) /\ takes <= row.free
      BY <1>6 DEF Installs, Usable
    <3>2. row.free \in Nat
      BY <1>3, <3>1
    <3>3. /\ takes \in Nat /\ demand.virtual \in Nat /\ takes <= demand.virtual
          /\ row.type \in Thick => takes = demand.virtual
          /\ row.type \notin Thick \cup Compress => demand.download <= takes
      <4>1. outcome.size \in Sizes(items, node)
        BY <1>6 DEF Outcomes
      <4>2. QED
        BY <4>1, TakenOn
    <3>4. demand.download \in Nat
      <4>1. On(items, s) \in SUBSET Templates
        BY PlanParts
      <4>2. QED
        BY <4>1, DemandIs
    <3> HIDE DEF demand, takes, row
    <3>5. Affordable(row, demand)
      BY <3>1, <3>2, <3>3, <3>4 DEF Affordable
    <3>6. QED
      BY <3>1, <3>5 DEF row, demand
  <2>3. \A t \in DOMAIN items : node.artifact[t] # "gone"
    BY <1>6 DEF Outcomes, Installs
  <2>4. QED
    BY <1>6, <2>1, <2>2, <2>3 DEF Installs, Passes
<1> HIDE DEF found
<1>7. QED
  BY <1>1, <1>4, <1>5, <1>6 DEF Judges, found

\* What the plans are checked against.
LEMMA PlanIsAmong ==
  ASSUME NEW items, NEW taken, <<items, taken>> \in Plans, IsFiniteSet(Templates)
  PROVE  /\ <<items, taken>> \in OpenToSilence
         /\ <<items, taken>> \in JudgedRight
<1>1. \A node \in Nodes, silent \in Probes \ {"images"} :
            Errors(Preflight(items, taken, node, Probes \ {silent}))
                \subseteq Errors(Preflight(items, taken, node, Probes))
  BY SilenceIsNoError
<1>2. <<items, taken>> \in OpenToSilence
  BY <1>1 DEF OpenToSilence, PlansWhere
<1>3. \A node \in Nodes : Judges(items, taken, node)
  BY PlanIsJudged
<1>4. <<items, taken>> \in JudgedRight
  BY <1>3 DEF JudgedRight, PlansWhere
<1>5. QED
  BY <1>2, <1>4

-----------------------------------------------------------------------------
(* The plans of a run.                                                      *)

\* A run that has a plan has something to install.
PlanIsWhole == run.phase = "planned" => Items # {}

LEMMA PlanStaysWhole ==
  CoportInv /\ PlanIsWhole /\ [Next]_vars => PlanIsWhole'
<1> SUFFICES ASSUME CoportInv, PlanIsWhole, [Next]_vars PROVE PlanIsWhole'
  OBVIOUS
<1>1. TypeOK /\ RunTrue /\ WritesTrue
  BY InvGivesRun DEF CoportInv
<1>2. CASE Stays
  BY <1>2 DEF Stays, PlanIsWhole, Items
<1>3. CASE Ends
  BY <1>3, OverIsRun DEF Ends, PlanIsWhole
<1>4. CASE Starts
  BY <1>4 DEF Starts, PlanIsWhole, Items
<1>5. CASE \E mode \in Modes : \E plan : Begins(plan, mode)
  BY <1>5 DEF Begins, PlanIsWhole, Items
<1>6. CASE \E t \in Templates : Writes(t)
  BY <1>6 DEF Writes, PlanIsWhole, Items
<1>7. CASE \E t \in Items : ItemStep(t)
  <2>1. PICK t \in Items : ItemStep(t)
    BY <1>7
  <2>2. t \in Templates
    BY <1>1, RunFields DEF RunTrue
  <2>3. Lands(t) \/ GivesUp(t) \/ Works(t) \/ Fails(t) \/ Records(t)
    BY <1>1, <2>1, <2>2, ItemMoves DEF RunTrue
  <2>4. run'.phase = run.phase /\ run'.plan = run.plan
    BY <2>3 DEF Lands, GivesUp, Works, Fails, Records, Moves
  <2>5. QED
    BY <2>4 DEF PlanIsWhole, Items
<1>8. QED
  BY <1>1, <1>2, <1>3, <1>4, <1>5, <1>6, <1>7, Steps

LEMMA PlanAlwaysWhole ==
  Spec => [](CoportInv /\ PlanIsWhole)
<1>1. Init => PlanIsWhole
  BY OverIsRun DEF Init, PlanIsWhole
<1>2. QED
  BY <1>1, PlanStaysWhole, InvAlways, PTL DEF Spec

\* The preflight meets one of the plans.
LEMMA PlacedIsAPlan ==
  ASSUME CoportInv, PlanIsWhole, run.phase = "planned", NEW place \in Placements
  PROVE  <<Placed(place), Taken>> \in Plans
<1>1. /\ Items \in SUBSET Templates /\ Items # {}
      /\ \A t \in Items : run.plan[t] \in PlanType
  BY RunFields DEF CoportInv, TypeOK, PlanIsWhole
<1>2. \A t \in Items : place[t] \in Storages
  BY DEF Placements
<1>3. \A t \in Items : VmidOf(t) \in Vmids /\ run.plan[t].overwrite \in BOOLEAN
  BY <1>1 DEF VmidOf, PlanType
<1>4. Placed(place) \in [Items -> Plan]
  BY <1>2, <1>3 DEF Placed, Plan
<1>5. Taken \in SUBSET Vmids
  BY DEF Taken
<1>6. QED
  BY <1>1, <1>4, <1>5 DEF Plans

-----------------------------------------------------------------------------
(* The theorems.                                                            *)

\* Every variable keeps its type, and a slot of either semaphore is with one
\* template at a time, whatever fails (semaphore.ts).
THEOREM SlotsAreSound == Spec => []TypeOK
<1>1. CoportInv => TypeOK
  BY DEF CoportInv
<1>2. QED
  BY <1>1, InvAlways, PTL

\* What the cache file says is installed stands at that VMID unless somebody or an
\* upgrade removed it since, and what a run finished is in the file (cache.ts, runner.ts).
THEOREM CacheStandsTrue == Spec => []CacheIsTrue
<1>1. CoportInv => CacheIsTrue
  <2> SUFFICES ASSUME CoportInv PROVE CacheIsTrue
    OBVIOUS
  <2>1. ASSUME NEW t \in DOMAIN file PROVE Recorded(file[t], t)
    BY DEF CoportInv, CacheTrue
  <2>2. ASSUME NEW t \in Items, run.stage[t] = "ok", ~ run.writeFailed
        PROVE  t \in DOMAIN file /\ file[t] = Installed(t)
    BY <2>2 DEF CoportInv, WritesTrue
  <2>3. QED
    BY <2>1, <2>2 DEF CacheIsTrue, Recorded, Installed
<1>2. QED
  BY <1>1, InvAlways, PTL

\* A template whose upgrade destroyed it and came no further is stale to the next
\* --upgrade (runner.ts records only what was installed).
THEOREM BrokenUpgradeIsRetried == Spec => []UpgradeRetries
<1>1. CoportInv => UpgradeRetries
  <2> SUFFICES ASSUME CoportInv PROVE UpgradeRetries
    OBVIOUS
  <2>1. ASSUME NEW t \in DOMAIN file PROVE Recorded(file[t], t)
    BY DEF CoportInv, CacheTrue
  <2>2. QED
    BY <2>1 DEF UpgradeRetries, Recorded, IsStale
<1>2. QED
  BY <1>1, InvAlways, PTL

\* A run removes a guest only where its plan said overwrite, in a mode that was asked
\* to, and hands remove the others (runner.ts destroys under plan.overwrite alone).
THEOREM NoGuestGoesUnasked == Spec => UnaskedSurvive
<1> DEFINE Survives ==
      \A v \in Vmids :
         vm[v] # NoVm /\ vm'[v] = NoVm =>
            \/ hands' # hands
            \/ /\ run.mode # "install"
               /\ \E t \in Items : VmidOf(t) = v /\ run.plan[t].overwrite
<1>1. CoportInv /\ [Next]_vars => [Survives]_vars
  <2> SUFFICES ASSUME CoportInv, [Next]_vars, NEW v \in Vmids, vm[v] # NoVm, vm'[v] = NoVm,
                      ~ (hands' # hands)
               PROVE  /\ run.mode # "install"
                      /\ \E t \in Items : VmidOf(t) = v /\ run.plan[t].overwrite
    OBVIOUS
  <2>1. TypeOK /\ ItemsTrue
    BY DEF CoportInv
  <2>2. Changed(v)
    BY <2>1, VmChanges
  <2>3. Removed(v)
    <3>1. ~ Kept(v) /\ ~ Made(v) /\ ~ Touched(v)
      BY DEF Kept, Made, Touched, Guest, NoVm
    <3>2. ~ Finished(v)
      BY DEF Finished, Unfinished, Guests, NoVm
    <3>3. QED
      BY <2>2, <3>1, <3>2 DEF Changed
  <2>4. PICK t \in Items : VmidOf(t) = v /\ run.stage[t] = "destroying"
    BY <2>3 DEF Removed
  <2>5. run.plan[t].overwrite /\ run.mode # "install"
    BY <2>1, <2>4 DEF ItemsTrue
  <2>6. QED
    BY <2>4, <2>5
<1>2. Spec => [][Survives]_vars
  BY <1>1, InvAlways, PTL DEF Spec
<1>3. QED
  BY <1>2 DEF UnaskedSurvive

\* A probe of the node that could not run makes the preflight refuse no plan of a run that
\* it would not refuse otherwise; the second call of pvesm is the one exception
\* (preflight.ts fails open).
THEOREM SilenceRefusesNothing == Spec => []FailsOpen
<1>1. CoportInv /\ PlanIsWhole => FailsOpen
  BY PlacedIsAPlan, PlanIsAmong, TemplatesFinite DEF FailsOpen, Checked
<1>2. QED
  BY <1>1, PlanAlwaysWhole, PTL

\* With every probe heard, what the preflight says of the plan of a run is right, of all that
\* it looks at: without a finding nothing gets in the way, without an error the plan can be
\* installed, and a plan that replaces no guest is refused only if it cannot be
\* (preflight.ts: the tools, the VMIDs, the temp space, the artifacts, and what the disks take
\* on each storage; Unseen and Expected say what it does not look at).
THEOREM PreflightIsRight == Spec => []PreflightJudges
<1>1. CoportInv /\ PlanIsWhole => PreflightJudges
  BY PlacedIsAPlan, PlanIsAmong, TemplatesFinite DEF PreflightJudges, Checked
<1>2. QED
  BY <1>1, PlanAlwaysWhole, PTL

=============================================================================
