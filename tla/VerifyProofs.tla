----------------------------- MODULE VerifyProofs -----------------------------
(***************************************************************************)
(* For any number of verifications and scratch VMIDs, whatever is swept,   *)
(* killed, rebuilt or cleaned: a verification judges the artifact its      *)
(* sidecar describes, its VM is its own, and a VM can be found.            *)
(*                                                                         *)
(* And of the judgement itself (GuestBoot), for any number of polls, of    *)
(* boots and of unanswered calls: a flawed image fails, a sound one does   *)
(* not.                                                                    *)
(***************************************************************************)
EXTENDS Verify, GuestBoot, SequenceTheorems, WellFoundedInduction, TLAPS

\* The minimum of a set of numbers is one of them, and no other is less.
LEMMA MinIsLeast ==
  ASSUME NEW S \in SUBSET Nat, S # {}
  PROVE  Min(S) \in S /\ \A m \in S : Min(S) <= m
<1> DEFINE Less == OpToRel(<, Nat)
<1>1. \A x, y \in Nat : x < y => <<x, y>> \in Less
  BY DEF OpToRel
<1>2. IsWellFoundedOn(Less, Nat)
  BY NatLessThanWellFounded
<1> HIDE DEF Less
<1>3. PICK n \in S : \A m \in S : ~ (<<m, n>> \in Less)
  BY <1>2, WFMin
<1>4. ASSUME NEW m \in S PROVE n <= m
  <2>1. m \in Nat /\ n \in Nat
    OBVIOUS
  <2>2. ~ (m < n)
    BY <1>1, <1>3, <2>1, Zenon
  <2>3. QED
    BY <2>1, <2>2
<1>5. QED
  BY <1>4 DEF Min

\* A step of a clock that stops at its bound (how Tick ages what it ages).
LEMMA ClockStops ==
  ASSUME NEW bound \in Nat, NEW n \in 0 .. bound
  PROVE  Min({n + 1, bound}) \in 0 .. bound
<1>1. {n + 1, bound} \in SUBSET Nat
  OBVIOUS
<1>2. QED
  BY <1>1, MinIsLeast

-----------------------------------------------------------------------------
(* The inductive invariant.                                                 *)

\* A VMID is had from Reserve on.
IdsTrue ==
  \A v \in Verification :
    /\ st[v] \in {"new", "asked", "leased"} => id[v] = None
    /\ st[v] \in {"reserved", "named", "creating", "created"} => id[v] # None
    /\ v \in creating =>
         /\ id[v] # None
         /\ st[v] \in {"creating", "ending", "destroyed", "unreserved", "done", "dead"}

ReservationsDiffer ==
  \A v, w \in Verification : res[v] # None /\ res[v] = res[w] => v = w

\* What those have that no sweep took from.
ClaimsStand ==
  \A v \in Verification \ evicted :
    /\ Alive(v) /\ st[v] # "asked" => lease[v] # "none"
    /\ st[v] \in {"named", "creating", "created"} => lease[v] = "named"
    /\ st[v] \in {"reserved", "named", "creating", "created", "ending"} => res[v] = id[v]
    /\ lease[v] = "named" /\ st[v] # "unreserved" => res[v] = id[v]
    /\ v \in creating => lease[v] # "unnamed"

\* A VM is at the VMID of whose it is, and outlives its destruction if leaked.
VmsTrue ==
  \A i \in Vmid : \A v \in Verification :
    vm[i] = v =>
      /\ id[v] = i
      /\ st[v] \in {"created", "ending", "destroyed", "unreserved", "done", "dead"}
      /\ st[v] \in {"destroyed", "unreserved"} => v \in leaked
      /\ v \notin evicted => lease[v] # "unnamed"

\* The images read or still to be read, uploaded or imported, are those of the sidecar; no
\* build of the recipe works, and none has since the lease was had.
ArtifactsTrue ==
  /\ \A v \in Verification : st[v] = "new" => v \notin uploads
  /\ \A v \in uploads \ behind :
       /\ st[v] \in {"asked", "leased"} => side[v] = disk[v]
       /\ st[v] \in {"reserved", "named", "creating"} => images[v] = side[v]
  /\ \A v \in Verification \ evicted :
       st[v] \in {"leased", "reserved", "named", "creating"} =>
         /\ v \notin building
         /\ v \notin behind \cup uploads => side[v] = artifact[v]
  /\ \A v \in Verification \ (evicted \cup behind) :
       st[v] = "creating" => images[v] = side[v]

\* The bound on versions leaves one for each build at work.
VersionsLeft == \A v \in building : made[v] < MaxVersion

VerifyInv ==
  /\ TypeOK /\ VersionsLeft
  /\ IdsTrue /\ ReservationsDiffer /\ ClaimsStand /\ VmsTrue /\ ArtifactsTrue
  /\ HealthyVmStands /\ VmIsFindable /\ OneArtifact

-----------------------------------------------------------------------------
(* The steps.                                                               *)

LEMMA InitVerifies == Init => VerifyInv
<1> SUFFICES ASSUME Init PROVE VerifyInv
  OBVIOUS
<1>1. TypeOK /\ VersionsLeft
  BY StaleType, MaxVersionType, OwnersDiffer DEF Init, TypeOK, VersionsLeft, State, Version, Vmid
<1>2. IdsTrue /\ ReservationsDiffer /\ ClaimsStand /\ VmsTrue /\ ArtifactsTrue
  BY OwnersDiffer DEF Init, IdsTrue, ReservationsDiffer, ClaimsStand, Alive, VmsTrue, ArtifactsTrue
<1>3. HealthyVmStands /\ VmIsFindable /\ OneArtifact
  BY OwnersDiffer DEF Init, HealthyVmStands, VmIsFindable, OneArtifact
<1>4. QED
  BY <1>1, <1>2, <1>3 DEF VerifyInv

\* Destroying takes VMs away at the VMIDs of these alone, and one of theirs that stands is
\* among the leaked.
LEMMA DestroyVmsTakes ==
  ASSUME VerifyInv, NEW owners \in SUBSET Verification,
         \A u \in owners : id[u] # None, DestroyVms(owners)
  PROVE  /\ vm' \in [Vmid -> Verification \cup {Stranger, None}]
         /\ leaked' \subseteq Verification
         /\ \A i \in Vmid : vm'[i] \in {vm[i], None}
         /\ \A i \in Vmid : (\A u \in owners : id[u] # i) => vm'[i] = vm[i]
         /\ \A i \in Vmid : \A w \in Verification :
              vm'[i] = w => /\ vm[i] = w
                            /\ w \in owners \cup leaked => w \in leaked'
<1>1. PICK standing \in SUBSET {u \in owners : vm[id[u]] # None} :
        /\ vm' = [i \in Vmid |-> IF \E u \in owners \ standing : id[u] = i THEN None ELSE vm[i]]
        /\ leaked' = {u \in leaked \cup standing : \E i \in Vmid : vm'[i] = u}
  BY DEF DestroyVms
<1>2. /\ vm \in [Vmid -> Verification \cup {Stranger, None}]
      /\ leaked \subseteq Verification
  BY DEF VerifyInv, TypeOK
<1>3. \A i \in Vmid : vm'[i] \in {vm[i], None}
  BY <1>1
<1>4. \A i \in Vmid : (\A u \in owners : id[u] # i) => vm'[i] = vm[i]
  BY <1>1
<1>5. ASSUME NEW i \in Vmid, NEW w \in Verification, vm'[i] = w
      PROVE  vm[i] = w /\ (w \in owners \cup leaked => w \in leaked')
  <2>1. vm[i] = w /\ id[w] = i
    BY <1>3, <1>5, OwnersDiffer DEF VerifyInv, VmsTrue
  <2>2. w \in owners => w \in standing
    BY <1>1, <1>5, <2>1, OwnersDiffer
  <2>3. QED
    BY <1>1, <1>5, <2>1, <2>2
<1>6. QED
  BY <1>1, <1>2, <1>3, <1>4, <1>5

LEMMA ReadSidecarKeeps ==
  ASSUME VerifyInv, NEW v \in Verification, ReadSidecar(v) PROVE VerifyInv'
<1> USE OwnersDiffer, StaleType, MaxVersionType DEF VerifyInv, ReadSidecar, Alive, Goto, local, leases, reservations, vms,
                                                   recipes, history
<1>1. TypeOK' /\ VersionsLeft'
  BY DEF TypeOK, State, Version, VersionsLeft, IdsTrue
<1>2. IdsTrue' /\ ReservationsDiffer'
  BY DEF TypeOK, IdsTrue, ReservationsDiffer
<1>3. ClaimsStand'
  BY DEF TypeOK, IdsTrue, ClaimsStand
<1>4. VmsTrue'
  BY DEF TypeOK, IdsTrue, ClaimsStand, VmsTrue
<1>5. ArtifactsTrue' /\ OneArtifact'
  BY DEF TypeOK, ClaimsStand, ArtifactsTrue, OneArtifact
<1>6. HealthyVmStands' /\ VmIsFindable'
  BY DEF TypeOK, IdsTrue, ReservationsDiffer, ClaimsStand, VmsTrue, HealthyVmStands, VmIsFindable
<1>7. QED
  BY <1>1, <1>2, <1>3, <1>4, <1>5, <1>6

LEMMA ReserveKeeps ==
  ASSUME VerifyInv, NEW v \in Verification, Reserve(v) PROVE VerifyInv'
<1> DEFINE stale == {w \in Verification : res[w] # None /\ resAge[w] >= ResStale}
           free == Free(vm', stale)
           swept == [w \in Verification |-> IF w \in stale THEN None ELSE res[w]]
<1>1. /\ free \subseteq Vmid
      /\ \A i \in free : vm'[i] = None /\ \A w \in Verification : swept[w] # i
  BY OwnersDiffer DEF Free, Used
<1>2. free # {} => Min(free) \in free
  BY <1>1, MinIsLeast, VmidsType DEF Vmid
<1>3. /\ st[v] = "leased" /\ id[v] = None /\ res[v] = None
      /\ DestroyVms(stale)
      /\ evicted' = evicted \cup {w \in stale : Alive(w) \/ lease[w] # "none"}
      /\ images' = [images EXCEPT ![v] = IF v \in uploads THEN disk[v] ELSE None]
      /\ UNCHANGED <<side, uploads, leases, creating, recipes, behind>>
  BY DEF Reserve, VerifyInv, TypeOK, IdsTrue
<1>4. \/ st' = [st EXCEPT ![v] = "ending"] /\ res' = swept /\ UNCHANGED <<id, resAge>>
      \/ \E i \in free : /\ id' = [id EXCEPT ![v] = i]
                         /\ res' = [swept EXCEPT ![v] = i]
                         /\ resAge' = [resAge EXCEPT ![v] = 0]
                         /\ st' = [st EXCEPT ![v] = "reserved"]
  BY <1>2 DEF Reserve, Goto
<1>5. /\ \A w \in Verification \ {v} : st'[w] = st[w] /\ id'[w] = id[w] /\ res'[w] = swept[w]
      /\ \/ st'[v] = "ending" /\ id'[v] = None /\ res'[v] = None
         \/ st'[v] = "reserved" /\ id'[v] \in free /\ res'[v] = id'[v]
  <2>1. st \in [Verification -> State] /\ id \in [Verification -> Vmid \cup {None}]
    BY DEF VerifyInv, TypeOK
  <2>2. DOMAIN swept = Verification /\ swept[v] = None
    BY <1>3
  <2> HIDE DEF swept, free
  <2>3. swept = [w \in Verification |-> swept[w]]
    BY DEF swept
  <2>4. QED
    BY <1>3, <1>4, <2>1, <2>2, <2>3
<1>6. st' \in [Verification -> State] /\ id' \in [Verification -> Vmid \cup {None}]
      /\ res' \in [Verification -> Vmid \cup {None}] /\ resAge' \in [Verification -> 0 .. ResStale]
  <2>1. /\ st \in [Verification -> State] /\ id \in [Verification -> Vmid \cup {None}]
        /\ resAge \in [Verification -> 0 .. ResStale] /\ 0 \in 0 .. ResStale
        /\ res \in [Verification -> Vmid \cup {None}]
    BY StaleType DEF VerifyInv, TypeOK
  <2>2. swept \in [Verification -> Vmid \cup {None}]
    BY <2>1
  <2> HIDE DEF swept, free
  <2>3. CASE st' = [st EXCEPT ![v] = "ending"] /\ res' = swept /\ UNCHANGED <<id, resAge>>
    BY <2>1, <2>2, <2>3 DEF State
  <2>4. ASSUME NEW i \in free, id' = [id EXCEPT ![v] = i], res' = [swept EXCEPT ![v] = i],
               resAge' = [resAge EXCEPT ![v] = 0], st' = [st EXCEPT ![v] = "reserved"]
        PROVE  /\ st' \in [Verification -> State] /\ id' \in [Verification -> Vmid \cup {None}]
               /\ res' \in [Verification -> Vmid \cup {None}]
               /\ resAge' \in [Verification -> 0 .. ResStale]
    BY <1>1, <2>1, <2>2, <2>4 DEF State
  <2>5. QED
    BY <1>4, <2>3, <2>4
<1>7. /\ \A w \in Verification : swept[w] \in {res[w], None}
      /\ \A w \in Verification \ evicted' :
           Alive(w) \/ lease[w] # "none" => w \notin evicted /\ swept[w] = res[w]
      /\ \A w \in Verification \ stale : swept[w] = res[w]
      /\ evicted \subseteq evicted'
  BY <1>3, OwnersDiffer
<1>8. \A w \in stale : Alive(w) => w \in evicted'
  BY <1>3
<1>9. /\ \A w \in stale : id[w] # None /\ id[w] = res[w]
      /\ stale \in SUBSET Verification
  BY OwnersDiffer DEF VerifyInv, TypeOK
<1>10. /\ vm' \in [Vmid -> Verification \cup {Stranger, None}]
       /\ leaked' \subseteq Verification
       /\ \A i \in Vmid : vm'[i] \in {vm[i], None}
       /\ \A i \in Vmid : (\A u \in stale : id[u] # i) => vm'[i] = vm[i]
       /\ \A i \in Vmid : \A w \in Verification :
            vm'[i] = w => vm[i] = w /\ (w \in stale \cup leaked => w \in leaked')
  <2> HIDE DEF stale, free, swept
  <2>1. QED
    BY <1>3, <1>9, DestroyVmsTakes
<1>11. /\ images' \in [Verification -> Version \cup {None}]
       /\ images'[v] = IF v \in uploads THEN disk[v] ELSE None
       /\ \A w \in Verification \ {v} : images'[w] = images[w]
  <2>1. images \in [Verification -> Version \cup {None}] /\ disk[v] \in Version
    BY DEF VerifyInv, TypeOK
  <2>2. QED
    BY <1>3, <2>1
<1>12. evicted' \subseteq Verification
  BY <1>3 DEF VerifyInv, TypeOK
<1> HIDE DEF stale, free, swept
<1> USE OwnersDiffer DEF VerifyInv, leases, recipes
<1>13. TypeOK'
  <2>1. \A w \in Verification :
          /\ res'[w] # None => res'[w] = id'[w]
          /\ lease'[w] = "named" => id'[w] # None
    BY <1>3, <1>5, <1>7 DEF TypeOK
  <2>2. QED
    BY <1>3, <1>6, <1>10, <1>11, <1>12, <2>1 DEF TypeOK
<1>14. IdsTrue' /\ ReservationsDiffer'
  BY <1>1, <1>3, <1>5, <1>6, <1>7 DEF TypeOK, IdsTrue, ReservationsDiffer
<1>15. ClaimsStand'
  BY <1>3, <1>5, <1>7 DEF TypeOK, IdsTrue, ClaimsStand, Alive
<1>16. ArtifactsTrue' /\ VersionsLeft' /\ OneArtifact'
  BY <1>3, <1>5, <1>7, <1>11 DEF TypeOK, ArtifactsTrue, VersionsLeft, OneArtifact
<1>17. VmsTrue'
  BY <1>3, <1>5, <1>7, <1>10 DEF VmsTrue
<1>18. HealthyVmStands'
  <2> SUFFICES ASSUME NEW w \in Verification, st'[w] = "created",
                      \A u \in evicted' : id'[u] # id'[w]
               PROVE  vm'[id'[w]] = w
    BY DEF HealthyVmStands
  <2>1. w # v /\ st[w] = "created" /\ id'[w] = id[w] /\ w \notin evicted'
    BY <1>5
  <2>2. w \notin evicted /\ res[w] = id[w] /\ id[w] \in Vmid
    BY <1>7, <2>1 DEF TypeOK, ClaimsStand, IdsTrue
  <2>3. \A u \in evicted : id[u] # id[w]
    BY <1>3, <1>5, <1>7, <2>1, <2>2 DEF TypeOK
  <2>4. \A u \in stale : id[u] # id[w]
    BY <1>8, <1>9, <2>1, <2>2 DEF ReservationsDiffer, Alive
  <2>5. QED
    BY <1>10, <2>1, <2>2, <2>3, <2>4 DEF HealthyVmStands
<1>19. VmIsFindable'
  BY <1>3, <1>5, <1>7, <1>10 DEF VmIsFindable, VmsTrue
<1>20. QED
  BY <1>13, <1>14, <1>15, <1>16, <1>17, <1>18, <1>19

LEMMA SetVmidKeeps ==
  ASSUME VerifyInv, NEW v \in Verification, SetVmid(v) PROVE VerifyInv'
<1> USE OwnersDiffer, StaleType, MaxVersionType DEF VerifyInv, SetVmid, Alive, Goto, local, leases, reservations, vms,
                                                   recipes, history
<1>1. TypeOK' /\ VersionsLeft'
  BY DEF TypeOK, State, Version, VersionsLeft, IdsTrue
<1>2. IdsTrue' /\ ReservationsDiffer'
  BY DEF TypeOK, IdsTrue, ReservationsDiffer
<1>3. ClaimsStand'
  BY DEF TypeOK, IdsTrue, ClaimsStand
<1>4. VmsTrue'
  BY DEF TypeOK, IdsTrue, ClaimsStand, VmsTrue
<1>5. ArtifactsTrue' /\ OneArtifact'
  BY DEF TypeOK, ClaimsStand, ArtifactsTrue, OneArtifact
<1>6. HealthyVmStands' /\ VmIsFindable'
  BY DEF TypeOK, IdsTrue, ReservationsDiffer, ClaimsStand, VmsTrue, HealthyVmStands, VmIsFindable
<1>7. QED
  BY <1>1, <1>2, <1>3, <1>4, <1>5, <1>6

LEMMA CreateBeginKeeps ==
  ASSUME VerifyInv, NEW v \in Verification, CreateBegin(v) PROVE VerifyInv'
<1> USE OwnersDiffer, StaleType, MaxVersionType DEF VerifyInv, CreateBegin, Alive, Goto, local, leases, reservations, vms,
                                                   recipes, history
<1>1. TypeOK' /\ VersionsLeft'
  BY DEF TypeOK, State, Version, VersionsLeft, IdsTrue
<1>2. IdsTrue' /\ ReservationsDiffer'
  BY DEF TypeOK, IdsTrue, ReservationsDiffer
<1>3. ClaimsStand'
  BY DEF TypeOK, IdsTrue, ClaimsStand
<1>4. VmsTrue'
  BY DEF TypeOK, IdsTrue, ClaimsStand, VmsTrue
<1>5. ArtifactsTrue' /\ OneArtifact'
  BY DEF TypeOK, ClaimsStand, ArtifactsTrue, OneArtifact
<1>6. HealthyVmStands' /\ VmIsFindable'
  BY DEF TypeOK, IdsTrue, ReservationsDiffer, ClaimsStand, VmsTrue, HealthyVmStands, VmIsFindable
<1>7. QED
  BY <1>1, <1>2, <1>3, <1>4, <1>5, <1>6

LEMMA CreateLandsKeeps ==
  ASSUME VerifyInv, NEW v \in Verification, CreateLands(v) PROVE VerifyInv'
<1> USE OwnersDiffer, StaleType, MaxVersionType DEF VerifyInv, CreateLands, Remembered, Alive, Goto, local, leases, reservations, vms,
                                                   recipes, history
<1>1. TypeOK' /\ VersionsLeft'
  BY DEF TypeOK, State, Version, VersionsLeft, IdsTrue
<1>2. IdsTrue' /\ ReservationsDiffer'
  BY DEF TypeOK, IdsTrue, ReservationsDiffer
<1>3. ClaimsStand'
  BY DEF TypeOK, IdsTrue, ClaimsStand
<1>4. VmsTrue'
  BY DEF TypeOK, IdsTrue, ClaimsStand, VmsTrue
<1>5. ArtifactsTrue' /\ OneArtifact'
  BY DEF TypeOK, ClaimsStand, ArtifactsTrue, OneArtifact
<1>6. HealthyVmStands' /\ VmIsFindable'
  BY DEF TypeOK, IdsTrue, ReservationsDiffer, ClaimsStand, VmsTrue, HealthyVmStands, VmIsFindable
<1>7. QED
  BY <1>1, <1>2, <1>3, <1>4, <1>5, <1>6

LEMMA CreateFailsKeeps ==
  ASSUME VerifyInv, NEW v \in Verification, CreateFails(v) PROVE VerifyInv'
<1> USE OwnersDiffer, StaleType, MaxVersionType DEF VerifyInv, CreateFails, Alive, Goto, local, leases, reservations, vms,
                                                   recipes, history
<1>1. TypeOK' /\ VersionsLeft'
  BY DEF TypeOK, State, Version, VersionsLeft, IdsTrue
<1>2. IdsTrue' /\ ReservationsDiffer'
  BY DEF TypeOK, IdsTrue, ReservationsDiffer
<1>3. ClaimsStand'
  BY DEF TypeOK, IdsTrue, ClaimsStand
<1>4. VmsTrue'
  BY DEF TypeOK, IdsTrue, ClaimsStand, VmsTrue
<1>5. ArtifactsTrue' /\ OneArtifact'
  BY DEF TypeOK, ClaimsStand, ArtifactsTrue, OneArtifact
<1>6. HealthyVmStands' /\ VmIsFindable'
  BY DEF TypeOK, IdsTrue, ReservationsDiffer, ClaimsStand, VmsTrue, HealthyVmStands, VmIsFindable
<1>7. QED
  BY <1>1, <1>2, <1>3, <1>4, <1>5, <1>6

LEMMA EndsKeeps ==
  ASSUME VerifyInv, NEW v \in Verification, Ends(v) PROVE VerifyInv'
<1> USE OwnersDiffer, StaleType, MaxVersionType DEF VerifyInv, Ends, Alive, Goto, local, leases, reservations, vms,
                                                   recipes, history
<1>1. TypeOK' /\ VersionsLeft'
  BY DEF TypeOK, State, Version, VersionsLeft, IdsTrue
<1>2. IdsTrue' /\ ReservationsDiffer'
  BY DEF TypeOK, IdsTrue, ReservationsDiffer
<1>3. ClaimsStand'
  BY DEF TypeOK, IdsTrue, ClaimsStand
<1>4. VmsTrue'
  BY DEF TypeOK, IdsTrue, ClaimsStand, VmsTrue
<1>5. ArtifactsTrue' /\ OneArtifact'
  BY DEF TypeOK, ClaimsStand, ArtifactsTrue, OneArtifact
<1>6. HealthyVmStands' /\ VmIsFindable'
  BY DEF TypeOK, IdsTrue, ReservationsDiffer, ClaimsStand, VmsTrue, HealthyVmStands, VmIsFindable
<1>7. QED
  BY <1>1, <1>2, <1>3, <1>4, <1>5, <1>6

LEMMA DestroyKeeps ==
  ASSUME VerifyInv, NEW v \in Verification, Destroy(v) PROVE VerifyInv'
<1> DEFINE owners == IF id[v] = None THEN {} ELSE {v}
<1>1. /\ vm' \in [Vmid -> Verification \cup {Stranger, None}]
      /\ leaked' \subseteq Verification
      /\ \A i \in Vmid : vm'[i] \in {vm[i], None}
      /\ \A i \in Vmid : id[v] # i => vm'[i] = vm[i]
      /\ \A i \in Vmid : \A w \in Verification :
           vm'[i] = w => vm[i] = w /\ (w \in owners \cup leaked => w \in leaked')
  <2>1. owners \in SUBSET Verification /\ DestroyVms(owners) /\ \A u \in owners : id[u] # None
    BY DEF Destroy
  <2>2. \A i \in Vmid : id[v] # i => \A u \in owners : id[u] # i
    OBVIOUS
  <2> HIDE DEF owners
  <2>3. QED
    BY <2>1, <2>2, DestroyVmsTakes
<1>2. /\ st[v] = "ending" /\ st' = [st EXCEPT ![v] = "destroyed"]
      /\ UNCHANGED <<side, images, id, uploads, leases, reservations, creating, recipes,
                     evicted, behind>>
  BY DEF Destroy, Goto
<1> USE OwnersDiffer DEF VerifyInv, leases, reservations, recipes
<1>3. TypeOK' /\ VersionsLeft'
  BY <1>1, <1>2 DEF TypeOK, State, VersionsLeft
<1>4. IdsTrue' /\ ReservationsDiffer' /\ ClaimsStand'
  BY <1>2 DEF TypeOK, IdsTrue, ReservationsDiffer, ClaimsStand, Alive
<1>5. ArtifactsTrue' /\ OneArtifact'
  BY <1>2 DEF TypeOK, ArtifactsTrue, OneArtifact
<1>6. VmsTrue'
  <2>1. ASSUME NEW i \in Vmid, vm'[i] = v PROVE v \in leaked'
    <3>1. vm[i] = v /\ id[v] = i /\ i # None
      BY <1>1, <2>1 DEF VmsTrue
    <3>2. QED
      BY <1>1, <2>1, <3>1
  <2>2. \A i \in Vmid : \A w \in Verification : vm'[i] = w => vm[i] = w
    BY <1>1
  <2>3. \A i \in Vmid : \A w \in Verification : vm'[i] = w /\ w \in leaked => w \in leaked'
    BY <1>1
  <2>4. QED
    BY <1>2, <2>1, <2>2, <2>3 DEF TypeOK, VmsTrue
<1>7. HealthyVmStands'
  <2> SUFFICES ASSUME NEW w \in Verification, st'[w] = "created",
                      \A u \in evicted : id[u] # id[w]
               PROVE  vm'[id[w]] = w
    BY <1>2 DEF HealthyVmStands
  <2>1. w # v /\ st[w] = "created" /\ vm[id[w]] = w /\ id[w] # None
    BY <1>2 DEF TypeOK, HealthyVmStands, IdsTrue
  <2>2. id[v] # id[w]
    BY <1>2, <2>1 DEF TypeOK, ClaimsStand, ReservationsDiffer
  <2>3. QED
    BY <1>1, <2>1, <2>2 DEF TypeOK
<1>8. VmIsFindable'
  <2>1. \A i \in Vmid : \A w \in Verification :
          vm'[i] = w => vm[i] = w /\ (w \in leaked => w \in leaked')
    BY <1>1
  <2>2. QED
    BY <1>2, <2>1 DEF VmIsFindable
<1>9. QED
  BY <1>3, <1>4, <1>5, <1>6, <1>7, <1>8

LEMMA UnreserveKeeps ==
  ASSUME VerifyInv, NEW v \in Verification, Unreserve(v) PROVE VerifyInv'
<1> USE OwnersDiffer, StaleType, MaxVersionType DEF VerifyInv, Unreserve, Alive, Goto, local, leases, reservations, vms,
                                                   recipes, history
<1>1. TypeOK' /\ VersionsLeft'
  BY DEF TypeOK, State, Version, VersionsLeft, IdsTrue
<1>2. IdsTrue' /\ ReservationsDiffer'
  BY DEF TypeOK, IdsTrue, ReservationsDiffer
<1>3. ClaimsStand'
  BY DEF TypeOK, IdsTrue, ClaimsStand
<1>4. VmsTrue'
  BY DEF TypeOK, IdsTrue, ClaimsStand, VmsTrue
<1>5. ArtifactsTrue' /\ OneArtifact'
  BY DEF TypeOK, ClaimsStand, ArtifactsTrue, OneArtifact
<1>6. HealthyVmStands' /\ VmIsFindable'
  BY DEF TypeOK, IdsTrue, ReservationsDiffer, ClaimsStand, VmsTrue, HealthyVmStands, VmIsFindable
<1>7. QED
  BY <1>1, <1>2, <1>3, <1>4, <1>5, <1>6

LEMMA ReleaseKeeps ==
  ASSUME VerifyInv, NEW v \in Verification, Release(v) PROVE VerifyInv'
<1> USE OwnersDiffer, StaleType, MaxVersionType DEF VerifyInv, Release, Over, Unbacked, Alive, Goto, local, leases, reservations, vms,
                                                   recipes, history
<1>1. TypeOK' /\ VersionsLeft'
  BY DEF TypeOK, State, Version, VersionsLeft, IdsTrue
<1>2. IdsTrue' /\ ReservationsDiffer'
  BY DEF TypeOK, IdsTrue, ReservationsDiffer
<1>3. ClaimsStand'
  BY DEF TypeOK, IdsTrue, ClaimsStand
<1>4. VmsTrue'
  BY DEF TypeOK, IdsTrue, ClaimsStand, VmsTrue
<1>5. ArtifactsTrue' /\ OneArtifact'
  BY DEF TypeOK, ClaimsStand, ArtifactsTrue, OneArtifact
<1>6. HealthyVmStands' /\ VmIsFindable'
  BY DEF TypeOK, IdsTrue, ReservationsDiffer, ClaimsStand, VmsTrue, HealthyVmStands, VmIsFindable
<1>7. QED
  BY <1>1, <1>2, <1>3, <1>4, <1>5, <1>6

LEMMA SignalKeeps ==
  ASSUME VerifyInv, NEW v \in Verification, Signal(v) PROVE VerifyInv'
<1>1. PICK unreserves, releases \in BOOLEAN :
        /\ unreserves => st[v] \notin {"ending", "destroyed", "unreserved"}
        /\ res' = IF unreserves THEN [res EXCEPT ![v] = None] ELSE res
        /\ lease' = IF releases THEN [lease EXCEPT ![v] = "none"] ELSE lease
        /\ DestroyVms({w \in {v} : \/ unreserves /\ id[v] # None
                                   \/ releases /\ lease[v] = "named"})
  BY DEF Signal
<1> DEFINE owners == {w \in {v} : \/ unreserves /\ id[v] # None
                                  \/ releases /\ lease[v] = "named"}
<1>2. /\ Alive(v)
      /\ evicted' = IF Unbacked(v) \/ (lease[v] = "named" /\ res[v] = None)
                    THEN evicted \cup {v} ELSE evicted
      /\ Over(v, "done")
      /\ UNCHANGED <<id, silent, resAge, creating, recipes>>
  BY DEF Signal
<1>3. /\ vm' \in [Vmid -> Verification \cup {Stranger, None}]
      /\ leaked' \subseteq Verification
      /\ \A i \in Vmid : vm'[i] \in {vm[i], None}
      /\ \A i \in Vmid : v \notin owners \/ id[v] # i => vm'[i] = vm[i]
      /\ \A i \in Vmid : \A w \in Verification :
           vm'[i] = w => vm[i] = w /\ (w \in owners \cup leaked => w \in leaked')
  <2>1. owners \in SUBSET Verification /\ DestroyVms(owners) /\ \A u \in owners : id[u] # None
    BY <1>1 DEF VerifyInv, TypeOK
  <2>2. \A i \in Vmid : v \notin owners \/ id[v] # i => \A u \in owners : id[u] # i
    OBVIOUS
  <2> HIDE DEF owners
  <2>3. QED
    BY <2>1, <2>2, DestroyVmsTakes
<1>4. /\ \A w \in Verification \ {v} : res'[w] = res[w] /\ lease'[w] = lease[w] /\ st'[w] = st[w]
      /\ res'[v] \in {res[v], None} /\ lease'[v] \in {lease[v], "none"}
      /\ st'[v] = "done" /\ st[v] \notin {"new", "done", "dead"}
  BY <1>1, <1>2 DEF VerifyInv, TypeOK, Over, Goto, Alive
<1> USE OwnersDiffer DEF VerifyInv, recipes
<1>5. TypeOK' /\ VersionsLeft'
  <2>1. /\ st' \in [Verification -> State]
        /\ res' \in [Verification -> Vmid \cup {None}]
        /\ lease' \in [Verification -> {"none", "unnamed", "named"}]
    BY <1>1, <1>2 DEF TypeOK, State, Over, Goto
  <2>2. \A w \in Verification : /\ res'[w] # None => res'[w] = id[w]
                                /\ lease'[w] = "named" => id[w] # None
    BY <1>4 DEF TypeOK
  <2>3. evicted' \subseteq Verification
    BY <1>2 DEF TypeOK
  <2>4. QED
    BY <1>2, <1>3, <2>1, <2>2, <2>3 DEF TypeOK, VersionsLeft, Over
<1>6. IdsTrue'
  BY <1>2, <1>4 DEF IdsTrue
<1>7. ReservationsDiffer'
  BY <1>4 DEF ReservationsDiffer
<1>8. /\ evicted \subseteq evicted'
      /\ v \notin evicted' /\ lease'[v] = "named" => res'[v] = id[v]
      /\ lease[v] = "named" /\ res[v] = None => v \in evicted'
      /\ \A w \in Verification \ {v} : w \in evicted' => w \in evicted
  BY <1>2, <1>4 DEF TypeOK, Unbacked
<1>9. ClaimsStand'
  <2>1. ASSUME NEW w \in Verification \ evicted', w # v
        PROVE  /\ Alive(w)' /\ st'[w] # "asked" => lease'[w] # "none"
               /\ st'[w] \in {"named", "creating", "created"} => lease'[w] = "named"
               /\ st'[w] \in {"reserved", "named", "creating", "created", "ending"} => res'[w] = id'[w]
               /\ lease'[w] = "named" /\ st'[w] # "unreserved" => res'[w] = id'[w]
               /\ w \in creating' => lease'[w] # "unnamed"
    BY <1>2, <1>4, <1>8, <2>1 DEF ClaimsStand, Alive
  <2>2. ASSUME v \notin evicted'
        PROVE  /\ lease'[v] = "named" => res'[v] = id'[v]
               /\ v \in creating' => lease'[v] # "unnamed"
    BY <1>2, <1>4, <1>8, <2>2 DEF ClaimsStand
  <2>3. QED
    BY <1>4, <2>1, <2>2 DEF ClaimsStand, Alive
<1>10. ArtifactsTrue' /\ OneArtifact'
  <2>1. /\ \A w \in Verification \ {v} : /\ side'[w] = side[w] /\ images'[w] = images[w]
                                         /\ w \in uploads' => w \in uploads
                                         /\ w \in uploads => w \in uploads'
                                         /\ w \in behind => w \in behind'
    BY <1>2 DEF TypeOK, Over
  <2>2. behind' \subseteq behind /\ uploads' \subseteq uploads /\ v \notin uploads'
    BY <1>2 DEF Over
  <2>3. /\ \A w \in Verification : st'[w] = "new" => w \notin uploads'
        /\ \A w \in uploads' \ behind' :
             /\ st'[w] \in {"asked", "leased"} => side'[w] = disk'[w]
             /\ st'[w] \in {"reserved", "named", "creating"} => images'[w] = side'[w]
    <3>1. uploads' \subseteq Verification \ {v}
      BY <2>2 DEF TypeOK
    <3>2. \A w \in uploads' \ behind' : w \in uploads \ behind /\ w \in Verification \ {v}
      BY <2>1, <3>1
    <3>3. QED
      BY <1>2, <1>4, <2>1, <2>2, <3>1, <3>2 DEF ArtifactsTrue
  <2>4. \A w \in Verification \ {v} :
          /\ w \notin evicted' => w \notin evicted
          /\ w \notin behind' => w \notin behind
          /\ w \notin uploads' => w \notin uploads
    BY <1>8, <2>1
  <2>5. /\ \A w \in Verification \ evicted' :
             st'[w] \in {"leased", "reserved", "named", "creating"} =>
               /\ w \notin building'
               /\ w \notin behind' \cup uploads' => side'[w] = artifact'[w]
        /\ \A w \in Verification \ (evicted' \cup behind') :
             st'[w] = "creating" => images'[w] = side'[w]
    BY <1>2, <1>4, <2>1, <2>4 DEF ArtifactsTrue
  <2>6. OneArtifact'
    BY <1>2, <1>4, <2>1, <2>4 DEF OneArtifact
  <2>7. QED
    BY <2>3, <2>5, <2>6 DEF ArtifactsTrue
<1>11. VmsTrue'
  BY <1>2, <1>3, <1>4, <1>8 DEF VmsTrue
<1>12. HealthyVmStands'
  <2> SUFFICES ASSUME NEW w \in Verification, st'[w] = "created",
                      \A u \in evicted' : id[u] # id[w]
               PROVE  vm'[id[w]] = w
    BY <1>2 DEF HealthyVmStands
  <2>1. w # v /\ st[w] = "created" /\ vm[id[w]] = w /\ id[w] # None /\ w \notin evicted
    BY <1>4, <1>8 DEF HealthyVmStands, IdsTrue
  <2>2. v \in owners => id[v] # id[w]
    <3>1. ASSUME v \in owners, id[v] = id[w] PROVE FALSE
      <4>1. v \notin evicted' /\ v \notin evicted
        BY <1>8, <3>1
      <4>2. res[w] = id[w]
        BY <2>1 DEF ClaimsStand
      <4>3. res[v] = id[v]
        BY <1>1, <1>4, <1>8, <2>1, <3>1, <4>1 DEF TypeOK, State, IdsTrue, ClaimsStand
      <4>4. QED
        BY <2>1, <3>1, <4>2, <4>3 DEF ReservationsDiffer
    <3>2. QED
      BY <3>1
  <2>3. QED
    BY <1>3, <2>1, <2>2 DEF TypeOK
<1>13. VmIsFindable'
  <2> SUFFICES ASSUME NEW i \in Vmid, NEW w \in Verification, vm'[i] = w
               PROVE  \/ res'[w] = i
                      \/ lease'[w] = "named" /\ id[w] = i
                      \/ w \in evicted' \cup leaked'
    BY <1>2 DEF VmIsFindable
  <2>1. vm[i] = w /\ id[w] = i /\ (w \in owners \cup leaked => w \in leaked')
    BY <1>3 DEF VmsTrue
  <2>2. \/ res[w] = i
        \/ lease[w] = "named" /\ id[w] = i
        \/ w \in evicted \cup leaked
    BY <2>1 DEF VmIsFindable
  <2>3. CASE w # v \/ w \in evicted \cup leaked
    BY <1>4, <1>8, <2>1, <2>2, <2>3
  <2>4. CASE w = v /\ w \notin evicted \cup leaked /\ w \notin owners
    <3>1. ~unreserves /\ res'[v] = res[v]
      BY <1>1, <2>1, <2>4
    <3>2. lease[v] = "named" => lease'[v] = "named"
      BY <1>1, <2>4
    <3>3. QED
      BY <2>1, <2>2, <2>4, <3>1, <3>2
  <2>5. QED
    BY <2>1, <2>3, <2>4
<1>14. QED
  BY <1>5, <1>6, <1>7, <1>9, <1>10, <1>11, <1>12, <1>13

LEMMA DiesKeeps ==
  ASSUME VerifyInv, NEW v \in Verification, Dies(v) PROVE VerifyInv'
<1> USE OwnersDiffer, StaleType, MaxVersionType DEF VerifyInv, Dies, Over, Alive, Goto, local, leases, reservations, vms,
                                                   recipes, history
<1>1. TypeOK' /\ VersionsLeft'
  BY DEF TypeOK, State, Version, VersionsLeft, IdsTrue
<1>2. IdsTrue' /\ ReservationsDiffer'
  BY DEF TypeOK, IdsTrue, ReservationsDiffer
<1>3. ClaimsStand'
  BY DEF TypeOK, IdsTrue, ClaimsStand
<1>4. VmsTrue'
  BY DEF TypeOK, IdsTrue, ClaimsStand, VmsTrue
<1>5. ArtifactsTrue' /\ OneArtifact'
  BY DEF TypeOK, ClaimsStand, ArtifactsTrue, OneArtifact
<1>6. HealthyVmStands' /\ VmIsFindable'
  BY DEF TypeOK, IdsTrue, ReservationsDiffer, ClaimsStand, VmsTrue, HealthyVmStands, VmIsFindable
<1>7. QED
  BY <1>1, <1>2, <1>3, <1>4, <1>5, <1>6

LEMMA BuildBeginKeeps ==
  ASSUME VerifyInv, NEW v \in Verification, BuildBegin(v) PROVE VerifyInv'
<1> USE OwnersDiffer, StaleType, MaxVersionType DEF VerifyInv, BuildBegin, Alive, Goto, local, leases, reservations, vms,
                                                   recipes, history
<1>1. TypeOK' /\ VersionsLeft'
  BY DEF TypeOK, State, Version, VersionsLeft, IdsTrue
<1>2. IdsTrue' /\ ReservationsDiffer'
  BY DEF TypeOK, IdsTrue, ReservationsDiffer
<1>3. ClaimsStand'
  BY DEF TypeOK, IdsTrue, ClaimsStand
<1>4. VmsTrue'
  BY DEF TypeOK, IdsTrue, ClaimsStand, VmsTrue
<1>5. ArtifactsTrue' /\ OneArtifact'
  BY DEF TypeOK, ClaimsStand, ArtifactsTrue, OneArtifact
<1>6. HealthyVmStands' /\ VmIsFindable'
  BY DEF TypeOK, IdsTrue, ReservationsDiffer, ClaimsStand, VmsTrue, HealthyVmStands, VmIsFindable
<1>7. QED
  BY <1>1, <1>2, <1>3, <1>4, <1>5, <1>6

LEMMA SyncBackKeeps ==
  ASSUME VerifyInv, NEW v \in Verification, SyncBack(v) PROVE VerifyInv'
<1> USE OwnersDiffer, StaleType, MaxVersionType DEF VerifyInv, SyncBack, Alive, Goto, local, leases, reservations, vms,
                                                   recipes, history
<1>1. TypeOK' /\ VersionsLeft'
  BY DEF TypeOK, State, Version, VersionsLeft, IdsTrue
<1>2. IdsTrue' /\ ReservationsDiffer'
  BY DEF TypeOK, IdsTrue, ReservationsDiffer
<1>3. ClaimsStand'
  BY DEF TypeOK, IdsTrue, ClaimsStand
<1>4. VmsTrue'
  BY DEF TypeOK, IdsTrue, ClaimsStand, VmsTrue
<1>5. ArtifactsTrue' /\ OneArtifact'
  BY DEF TypeOK, ClaimsStand, ArtifactsTrue, OneArtifact
<1>6. HealthyVmStands' /\ VmIsFindable'
  BY DEF TypeOK, IdsTrue, ReservationsDiffer, ClaimsStand, VmsTrue, HealthyVmStands, VmIsFindable
<1>7. QED
  BY <1>1, <1>2, <1>3, <1>4, <1>5, <1>6

LEMMA BuildEndsKeeps ==
  ASSUME VerifyInv, NEW v \in Verification, BuildEnds(v) PROVE VerifyInv'
<1> USE DEF VerifyInv, BuildEnds, Alive, local, leases, reservations, vms, history
<1>1. TypeOK' /\ VersionsLeft'
  <2>1. made[v] \in Nat /\ made[v] + 1 \in Version /\ artifact[v] \in Nat
    BY MaxVersionType DEF TypeOK, VersionsLeft, Version
  <2>2. \A w \in Version : w \in 0 .. MaxVersion
    BY MaxVersionType DEF Version
  <2>3. made' \in [Verification -> Version] /\ artifact' \in [Verification -> 0 .. MaxVersion]
    BY <2>1, <2>2 DEF TypeOK
  <2>4. \A w \in Verification : artifact'[w] <= made'[w]
    BY <2>1 DEF TypeOK, Version
  <2>5. QED
    BY <2>3, <2>4 DEF TypeOK, VersionsLeft
<1>2. IdsTrue' /\ ReservationsDiffer' /\ ClaimsStand' /\ VmsTrue'
  BY DEF TypeOK, IdsTrue, ReservationsDiffer, ClaimsStand, VmsTrue
<1>3. ArtifactsTrue'
  BY DEF TypeOK, ArtifactsTrue
<1>4. HealthyVmStands' /\ VmIsFindable' /\ OneArtifact'
  BY DEF HealthyVmStands, VmIsFindable, OneArtifact
<1>5. QED
  BY <1>1, <1>2, <1>3, <1>4

LEMMA CleanKeeps ==
  ASSUME VerifyInv, Clean PROVE VerifyInv'
<1> USE OwnersDiffer, MaxVersionType DEF VerifyInv, Clean, Alive, local, vms
<1>1. TypeOK' /\ VersionsLeft'
  BY DEF TypeOK, Version, VersionsLeft
<1>2. IdsTrue' /\ ReservationsDiffer' /\ ClaimsStand' /\ VmsTrue'
  BY DEF TypeOK, IdsTrue, ReservationsDiffer, ClaimsStand, VmsTrue
<1>3. ArtifactsTrue' /\ OneArtifact'
  BY DEF TypeOK, State, ArtifactsTrue, OneArtifact
<1>4. HealthyVmStands' /\ VmIsFindable'
  BY DEF TypeOK, HealthyVmStands, VmIsFindable
<1>5. QED
  BY <1>1, <1>2, <1>3, <1>4

\* A sweep of leases, with whoever is admitted after it, leaves every VM to be
\* found and the VMs of those it does not evict standing.
LEMMA SweepKeeps ==
  ASSUME VerifyInv, NEW admitted \in SUBSET {v \in Verification : st[v] = "asked"},
         Sweep(admitted), UNCHANGED <<id, creating>>,
         \A v \in Verification : \/ v \notin admitted /\ st'[v] = st[v]
                                 \/ v \in admitted /\ st'[v] = "leased"
  PROVE  /\ lease' \in [Verification -> {"none", "unnamed", "named"}]
         /\ res' \in [Verification -> Vmid \cup {None}]
         /\ vm' \in [Vmid -> Verification \cup {Stranger, None}]
         /\ evicted \subseteq evicted'
         /\ evicted' \cup leaked' \subseteq Verification
         /\ \A v \in Verification : /\ res'[v] # None => res'[v] = id[v]
                                    /\ lease'[v] = "named" => id[v] # None
         /\ ReservationsDiffer' /\ ClaimsStand' /\ VmsTrue' /\ HealthyVmStands' /\ VmIsFindable'
<1> DEFINE owners == {v \in StaleLeases : lease[v] = "named"}
<1>1. /\ vm' \in [Vmid -> Verification \cup {Stranger, None}]
      /\ leaked' \subseteq Verification
      /\ \A i \in Vmid : vm'[i] \in {vm[i], None}
      /\ \A i \in Vmid : (\A u \in owners : id[u] # i) => vm'[i] = vm[i]
      /\ \A i \in Vmid : \A w \in Verification :
           vm'[i] = w => vm[i] = w /\ (w \in owners \cup leaked => w \in leaked')
  <2>1. owners \in SUBSET Verification /\ DestroyVms(owners) /\ \A u \in owners : id[u] # None
    BY DEF Sweep, StaleLeases, VerifyInv, TypeOK
  <2> HIDE DEF owners
  <2>2. QED
    BY <2>1, DestroyVmsTakes
<1>2. /\ lease' \in [Verification -> {"none", "unnamed", "named"}]
      /\ res' \in [Verification -> Vmid \cup {None}]
      /\ \A v \in Verification : res'[v] = IF v \in StaleLeases THEN None ELSE res[v]
      /\ \A v \in admitted : lease'[v] = "unnamed"
      /\ \A v \in Verification \ admitted :
           lease'[v] = IF v \in StaleLeases THEN "none" ELSE lease[v]
      /\ evicted' = evicted \cup {v \in StaleLeases : Alive(v)}
  <2>1. lease \in [Verification -> {"none", "unnamed", "named"}]
    BY DEF VerifyInv, TypeOK
  <2>2. res \in [Verification -> Vmid \cup {None}]
    BY DEF VerifyInv, TypeOK
  <2>3. /\ lease' \in [Verification -> {"none", "unnamed", "named"}]
        /\ \A v \in admitted : lease'[v] = "unnamed"
        /\ \A v \in Verification \ admitted :
             lease'[v] = IF v \in StaleLeases THEN "none" ELSE lease[v]
    BY <2>1 DEF Sweep
  <2>4. /\ res' \in [Verification -> Vmid \cup {None}]
        /\ \A v \in Verification : res'[v] = IF v \in StaleLeases THEN None ELSE res[v]
    BY <2>2 DEF Sweep
  <2>5. QED
    BY <2>3, <2>4 DEF Sweep
<1>3. /\ evicted \subseteq evicted' /\ evicted' \subseteq Verification
      /\ \A v \in Verification \ evicted' : Alive(v) => v \notin StaleLeases
  BY <1>2 DEF VerifyInv, TypeOK, StaleLeases
<1>4. \A v \in admitted : st[v] = "asked" /\ id[v] = None /\ res[v] = None /\ v \notin creating
  BY OwnersDiffer DEF VerifyInv, TypeOK, IdsTrue
<1>5. \A v \in Verification : /\ res'[v] # None => res'[v] = id[v]
                              /\ lease'[v] = "named" => id[v] # None
  BY <1>2 DEF VerifyInv, TypeOK
<1> USE OwnersDiffer DEF VerifyInv
<1>6. ReservationsDiffer'
  BY <1>2 DEF ReservationsDiffer
<1>7. ClaimsStand'
  BY <1>2, <1>3, <1>4 DEF ClaimsStand, Alive
<1>8. VmsTrue'
  <2> SUFFICES ASSUME NEW i \in Vmid, NEW w \in Verification, vm'[i] = w
               PROVE  /\ id[w] = i
                      /\ st'[w] \in {"created", "ending", "destroyed", "unreserved", "done", "dead"}
                      /\ st'[w] \in {"destroyed", "unreserved"} => w \in leaked'
                      /\ w \notin evicted' => lease'[w] # "unnamed"
    BY DEF VmsTrue
  <2>1. vm[i] = w /\ (w \in leaked => w \in leaked')
    BY <1>1
  <2>2. w \notin admitted
    BY <1>4, <2>1 DEF VmsTrue
  <2>3. QED
    BY <1>2, <1>3, <2>1, <2>2 DEF VmsTrue
<1>9. HealthyVmStands'
  <2> SUFFICES ASSUME NEW w \in Verification, st'[w] = "created",
                      \A u \in evicted' : id[u] # id[w]
               PROVE  vm'[id[w]] = w
    BY DEF HealthyVmStands
  <2>1. st[w] = "created" /\ w \notin evicted /\ vm[id[w]] = w /\ res[w] = id[w] /\ id[w] # None
    BY <1>3 DEF HealthyVmStands, ClaimsStand, IdsTrue
  <2>2. ASSUME NEW u \in owners, id[u] = id[w] PROVE FALSE
    <3>1. u \notin evicted' /\ u \in StaleLeases /\ lease[u] = "named" /\ u \in Verification
      BY <2>2 DEF StaleLeases
    <3>2. ~Alive(u) /\ u \notin evicted
      BY <1>3, <3>1
    <3>3. res[u] = id[u]
      BY <3>1, <3>2 DEF ClaimsStand, Alive
    <3>4. u = w
      BY <2>1, <2>2, <3>1, <3>3 DEF ReservationsDiffer
    <3>5. QED
      BY <2>1, <3>2, <3>4 DEF Alive
  <2>3. QED
    BY <1>1, <2>1, <2>2 DEF TypeOK
<1>10. VmIsFindable'
  <2> SUFFICES ASSUME NEW i \in Vmid, NEW w \in Verification, vm'[i] = w
               PROVE  \/ res'[w] = i
                      \/ lease'[w] = "named" /\ id[w] = i
                      \/ w \in evicted' \cup leaked'
    BY DEF VmIsFindable
  <2>1. vm[i] = w /\ id[w] = i /\ (w \in owners \cup leaked => w \in leaked')
    BY <1>1 DEF VmsTrue
  <2>2. w \notin admitted
    BY <1>4, <2>1
  <2>3. CASE w \notin StaleLeases
    BY <1>2, <1>3, <2>1, <2>2, <2>3 DEF VmIsFindable
  <2>4. CASE w \in StaleLeases /\ lease[w] # "named"
    BY <1>2, <1>3, <2>1, <2>4 DEF TypeOK, VmIsFindable, VmsTrue, StaleLeases
  <2>5. CASE w \in owners
    BY <2>1, <2>5
  <2>6. QED
    BY <2>3, <2>4, <2>5
<1>11. QED
  BY <1>1, <1>2, <1>3, <1>5, <1>6, <1>7, <1>8, <1>9, <1>10

LEMMA AcquireLeaseKeeps ==
  ASSUME VerifyInv, NEW v \in Verification, AcquireLease(v) PROVE VerifyInv'
<1> USE DEF AcquireLease, Goto
<1>1. /\ Sweep({v}) /\ {v} \in SUBSET {w \in Verification : st[w] = "asked"}
      /\ UNCHANGED <<id, creating>>
      /\ \A w \in Verification : \/ w \notin {v} /\ st'[w] = st[w]
                                 \/ w \in {v} /\ st'[w] = "leased"
  BY DEF VerifyInv, TypeOK
<1>2. /\ lease' \in [Verification -> {"none", "unnamed", "named"}]
      /\ res' \in [Verification -> Vmid \cup {None}]
      /\ vm' \in [Vmid -> Verification \cup {Stranger, None}]
      /\ evicted \subseteq evicted'
      /\ evicted' \cup leaked' \subseteq Verification
      /\ \A w \in Verification : /\ res'[w] # None => res'[w] = id[w]
                                 /\ lease'[w] = "named" => id[w] # None
      /\ ReservationsDiffer' /\ ClaimsStand' /\ VmsTrue' /\ HealthyVmStands' /\ VmIsFindable'
  BY <1>1, SweepKeeps
<1> USE DEF VerifyInv, recipes
<1>3. TypeOK' /\ VersionsLeft'
  <2>1. silent' \in [Verification -> 0 .. LeaseStale]
    BY StaleType DEF TypeOK
  <2>2. st' \in [Verification -> State]
    BY DEF TypeOK, State
  <2>3. behind' \subseteq Verification
    BY DEF TypeOK
  <2>4. QED
    BY <1>2, <2>1, <2>2, <2>3 DEF TypeOK, VersionsLeft
<1>4. IdsTrue'
  BY DEF TypeOK, IdsTrue
<1>5. ArtifactsTrue' /\ OneArtifact'
  BY <1>2 DEF TypeOK, ArtifactsTrue, OneArtifact
<1>6. QED
  BY <1>2, <1>3, <1>4, <1>5

LEMMA SweepLeasesKeeps ==
  ASSUME VerifyInv, SweepLeases PROVE VerifyInv'
<1> USE DEF SweepLeases, local, recipes
<1>1. /\ Sweep({}) /\ {} \in SUBSET {w \in Verification : st[w] = "asked"}
      /\ UNCHANGED <<id, creating>>
      /\ \A w \in Verification : \/ w \notin {} /\ st'[w] = st[w]
                                 \/ w \in {} /\ st'[w] = "leased"
  OBVIOUS
<1>2. /\ lease' \in [Verification -> {"none", "unnamed", "named"}]
      /\ res' \in [Verification -> Vmid \cup {None}]
      /\ vm' \in [Vmid -> Verification \cup {Stranger, None}]
      /\ evicted \subseteq evicted'
      /\ evicted' \cup leaked' \subseteq Verification
      /\ \A w \in Verification : /\ res'[w] # None => res'[w] = id[w]
                                 /\ lease'[w] = "named" => id[w] # None
      /\ ReservationsDiffer' /\ ClaimsStand' /\ VmsTrue' /\ HealthyVmStands' /\ VmIsFindable'
  BY <1>1, SweepKeeps
<1> USE DEF VerifyInv
<1>3. TypeOK' /\ VersionsLeft'
  BY <1>2 DEF TypeOK, VersionsLeft
<1>4. IdsTrue' /\ ArtifactsTrue' /\ OneArtifact'
  BY <1>2 DEF IdsTrue, ArtifactsTrue, OneArtifact
<1>5. QED
  BY <1>2, <1>3, <1>4

LEMMA TickKeeps ==
  ASSUME VerifyInv, Tick PROVE VerifyInv'
<1> USE DEF VerifyInv, Tick, Alive, local, vms, recipes, history
<1>1. TypeOK' /\ VersionsLeft'
  <2>1. 0 \in 0 .. LeaseStale /\ 0 \in 0 .. ResStale
    BY StaleType
  <2>2. \A v \in Verification : /\ Min({silent[v] + 1, LeaseStale}) \in 0 .. LeaseStale
                                /\ Min({resAge[v] + 1, ResStale}) \in 0 .. ResStale
    BY StaleType, ClockStops DEF TypeOK
  <2>3. silent' \in [Verification -> 0 .. LeaseStale] /\ resAge' \in [Verification -> 0 .. ResStale]
    BY <2>1, <2>2
  <2>4. QED
    BY <2>3 DEF TypeOK, VersionsLeft
<1>2. IdsTrue' /\ ReservationsDiffer' /\ ClaimsStand' /\ VmsTrue' /\ ArtifactsTrue'
  BY DEF TypeOK, IdsTrue, ReservationsDiffer, ClaimsStand, VmsTrue, ArtifactsTrue
<1>3. HealthyVmStands' /\ VmIsFindable' /\ OneArtifact'
  BY DEF HealthyVmStands, VmIsFindable, OneArtifact
<1>4. QED
  BY <1>1, <1>2, <1>3

-----------------------------------------------------------------------------

LEMMA VerifyInvariant == Spec => []VerifyInv
<1>1. VerifyInv /\ [Next]_vars => VerifyInv'
  <2> SUFFICES ASSUME VerifyInv, [Next]_vars PROVE VerifyInv'
    OBVIOUS
  <2>1. CASE SweepLeases \/ Clean \/ Tick
    BY <2>1, SweepLeasesKeeps, CleanKeeps, TickKeeps
  <2>2. ASSUME NEW v \in Verification,
               ReadSidecar(v) \/ AcquireLease(v) \/ Reserve(v) \/ SetVmid(v)
        PROVE  VerifyInv'
    BY <2>2, ReadSidecarKeeps, AcquireLeaseKeeps, ReserveKeeps, SetVmidKeeps
  <2>3. ASSUME NEW v \in Verification, CreateBegin(v) \/ CreateLands(v) \/ CreateFails(v)
        PROVE  VerifyInv'
    BY <2>3, CreateBeginKeeps, CreateLandsKeeps, CreateFailsKeeps
  <2>4. ASSUME NEW v \in Verification,
               Ends(v) \/ Destroy(v) \/ Unreserve(v) \/ Release(v) \/ Signal(v) \/ Dies(v)
        PROVE  VerifyInv'
    BY <2>4, EndsKeeps, DestroyKeeps, UnreserveKeeps, ReleaseKeeps, SignalKeeps, DiesKeeps
  <2>5. ASSUME NEW v \in Verification, BuildBegin(v) \/ BuildEnds(v) \/ SyncBack(v) PROVE VerifyInv'
    BY <2>5, BuildBeginKeeps, BuildEndsKeeps, SyncBackKeeps
  <2>6. CASE UNCHANGED vars
    BY <2>6 DEF VerifyInv, vars, local, leases, reservations, vms, recipes, history, TypeOK, Alive,
       IdsTrue, ReservationsDiffer, ClaimsStand, VmsTrue, ArtifactsTrue, HealthyVmStands,
       VmIsFindable, OneArtifact, VersionsLeft
  <2>7. QED
    BY <2>1, <2>2, <2>3, <2>4, <2>5, <2>6 DEF Next
<1>2. QED
  BY <1>1, InitVerifies, PTL DEF Spec

\* Every variable keeps its type: in particular a reservation or a named lease
\* is for the VMID the verification believes is its own.
THEOREM Typing == Spec => []TypeOK
  BY VerifyInvariant, PTL DEF VerifyInv

\* The VM a verification judges is its own: of those that may destroy whatever is at its
\* VMID, only the evicted are left (reserveScratchVmid, the finally and the signal handler
\* of runVerifyLocked, reapLeaseBody, the signal handler of the lease).
THEOREM VmsStand == Spec => []HealthyVmStands
  BY VerifyInvariant, PTL DEF VerifyInv

\* What a dead launcher leaves can be found and swept, but for what a clean or a failed
\* qm destroy left, what came of a qm create after its cleanup, and what the evicted left.
THEOREM VmsAreFound == Spec => []VmIsFindable
  BY VerifyInvariant, PTL DEF VerifyInv

\* A verification judges the images its sidecar describes, if it had its lease before a
\* build replaced them and still has it, and no sync came between its two reads of a local
\* artifact (runVerifyLocked, buildPhase, syncPhase).
THEOREM JudgesOneArtifact == Spec => []OneArtifact
  BY VerifyInvariant, PTL DEF VerifyInv

-----------------------------------------------------------------------------
(* The suites.                                                              *)

Phases == {"first-boot", "post-reboot", "post-logon"}

\* What every check of a recipe's suite is like.
FitsAs(r, p, severity, name) ==
  /\ p \in Phases /\ severity \in {"fail", "warn"}
  /\ IsWindows(r) \/ p # "post-logon"
  /\ name \in AfterCleanReboot => p = "post-reboot"
  /\ name \in {"shell-no-crashes", "shell-session-present"} => p = "post-logon"
  /\ name \in NewOnThisBoot => p = "first-boot" /\ ~ IsWindows(r)
  /\ name = "cloudbase-init-completed" => IsWindows(r)
  /\ name = "build-profile-removed" => p = "first-boot"
  /\ name \notin {"none", Console}

Fits(r, c) == FitsAs(r, c.phase, c.severity, c.id)

AllFit(r, s) == (\E C : s \in Seq(C)) /\ \A i \in DOMAIN s : Fits(r, s[i])

LEMMA SuiteFits ==
  ASSUME NEW r, NEW p, NEW severity, NEW Names, NEW ids \in Seq(Names),
         \A name \in Names : FitsAs(r, p, severity, name)
  PROVE  AllFit(r, Suite(p, severity, ids))
<1> DEFINE s == Suite(p, severity, ids)
           C == {[id |-> name, phase |-> p, severity |-> severity] : name \in Names}
<1>1. /\ Len(ids) \in Nat /\ DOMAIN ids = 1 .. Len(ids)
      /\ \A i \in DOMAIN ids : ids[i] \in Names
  BY LenProperties, ElementOfSeq
<1>2. s = [i \in 1 .. Len(ids) |-> [id |-> ids[i], phase |-> p, severity |-> severity]]
  BY <1>1 DEF Suite
<1>3. /\ DOMAIN s = DOMAIN ids
      /\ \A i \in DOMAIN ids : s[i] = [id |-> ids[i], phase |-> p, severity |-> severity]
  BY <1>1, <1>2
<1>4. \A i \in 1 .. Len(ids) : [id |-> ids[i], phase |-> p, severity |-> severity] \in C
  BY <1>1
<1>5. s \in Seq(C)
  <2> HIDE DEF C
  <2>1. s \in [1 .. Len(ids) -> C]
    BY <1>2, <1>4
  <2>2. QED
    BY <1>1, <2>1, SeqDef
<1>6. \A i \in DOMAIN s : Fits(r, s[i])
  BY <1>1, <1>3 DEF Fits
<1> HIDE DEF s, C
<1>7. QED
  BY <1>5, <1>6 DEF AllFit, s

LEMMA ConcatFits ==
  ASSUME NEW r, NEW s, NEW t, AllFit(r, s), AllFit(r, t)
  PROVE  AllFit(r, s \o t)
<1> PICK A : s \in Seq(A)
  BY DEF AllFit
<1> PICK B : t \in Seq(B)
  BY DEF AllFit
<1> DEFINE Checks == A \cup B
<1>1. s \in Seq(Checks) /\ t \in Seq(Checks)
  BY SeqMonotonic
<1> HIDE DEF Checks
<1>2. /\ s \o t \in Seq(Checks) /\ DOMAIN (s \o t) = 1 .. Len(s) + Len(t)
      /\ \A i \in 1 .. Len(s) + Len(t) :
           (s \o t)[i] = IF i <= Len(s) THEN s[i] ELSE t[i - Len(s)]
      /\ DOMAIN s = 1 .. Len(s) /\ DOMAIN t = 1 .. Len(t) /\ Len(s) \in Nat /\ Len(t) \in Nat
  BY <1>1, ConcatProperties, LenProperties
<1>3. ASSUME NEW i \in DOMAIN (s \o t) PROVE Fits(r, (s \o t)[i])
  <2>1. i \in 1 .. Len(s) + Len(t)
    BY <1>2
  <2>2. CASE i <= Len(s)
    <3>1. (s \o t)[i] = s[i] /\ i \in DOMAIN s
      BY <1>2, <2>1, <2>2
    <3>2. QED
      BY <3>1 DEF AllFit
  <2>3. CASE ~ (i <= Len(s))
    <3>1. (s \o t)[i] = t[i - Len(s)] /\ i - Len(s) \in DOMAIN t
      BY <1>2, <2>1, <2>3
    <3>2. QED
      BY <3>1 DEF AllFit
  <2>4. QED
    BY <2>2, <2>3
<1>4. QED
  BY <1>2, <1>3 DEF AllFit

LEMMA LinuxFits ==
  ASSUME NEW r, ~ IsWindows(r)
  PROVE  AllFit(r, LinuxSuite)
<1> DEFINE Early == {"cloud-init-done", "cloud-init-no-errors", "hostname-applied",
                     "ci-user-exists", "ci-sshkey-injected", "no-foreign-authorized-keys",
                     "no-build-user", "disk-fully-partitioned", "ssh-host-keys-regenerated",
                     "machine-id-valid", "machine-id-regenerated", "guest-agent-not-disabled",
                     "systemd-healthy-first-boot"}
           Late == {"systemd-healthy", "hostname-persists", "dns-resolves"}
<1>1. \A severity \in {"fail", "warn"} : \A name \in Early : FitsAs(r, "first-boot", severity, name)
  BY DEF FitsAs, Phases, AfterCleanReboot, NewOnThisBoot, Console
<1>2. \A severity \in {"fail", "warn"} : \A name \in Late : FitsAs(r, "post-reboot", severity, name)
  BY DEF FitsAs, Phases, AfterCleanReboot, NewOnThisBoot, Console
<1>3. /\ \A severity \in {"fail", "warn"} : \A ids \in Seq(Early) :
           AllFit(r, Suite("first-boot", severity, ids))
      /\ \A severity \in {"fail", "warn"} : \A ids \in Seq(Late) :
           AllFit(r, Suite("post-reboot", severity, ids))
  BY <1>1, <1>2, SuiteFits
<1>4. /\ <<"cloud-init-done", "cloud-init-no-errors", "hostname-applied",
           "ci-user-exists", "ci-sshkey-injected">> \in Seq(Early)
      /\ <<"no-foreign-authorized-keys", "no-build-user">> \in Seq(Early)
      /\ <<"disk-fully-partitioned", "ssh-host-keys-regenerated", "machine-id-valid">> \in Seq(Early)
      /\ <<"machine-id-regenerated">> \in Seq(Early) /\ <<"guest-agent-not-disabled">> \in Seq(Early)
      /\ <<"systemd-healthy-first-boot">> \in Seq(Early)
      /\ <<"systemd-healthy", "hostname-persists">> \in Seq(Late) /\ <<"dns-resolves">> \in Seq(Late)
  OBVIOUS
<1> HIDE DEF Early, Late
<1>5. AllFit(r, LinuxInitChecks) /\ AllFit(r, LinuxLeftoverChecks)
  BY <1>3, <1>4 DEF LinuxInitChecks, LinuxLeftoverChecks
<1>6. AllFit(r, LinuxFreshChecks)
  BY <1>3, <1>4, ConcatFits DEF LinuxFreshChecks
<1>7. AllFit(r, LinuxHealthChecks)
  BY <1>3, <1>4, ConcatFits DEF LinuxHealthChecks
<1>8. QED
  BY <1>5, <1>6, <1>7, ConcatFits DEF LinuxSuite

LEMMA WindowsFits ==
  ASSUME NEW r, IsWindows(r)
  PROVE  AllFit(r, WindowsSuite) /\ AllFit(r, WingetPresentCheck)
<1> DEFINE First == {"generalization-state", "cloudbase-init-completed", "build-profile-removed",
                     "winrm-not-exposed", "rdp-enabled", "no-plaintext-build-password",
                     "guest-agent-automatic", "cipassword-validates", "wu-policy-restored",
                     "pagefile-restored", "rearm-headroom"}
           Second == {"hostname-applied", "system-volume-extended", "no-critical-service-failures"}
           Third == {"shell-no-crashes", "shell-session-present", "winget-present"}
<1>1. \A severity \in {"fail", "warn"} : \A name \in First : FitsAs(r, "first-boot", severity, name)
  BY DEF FitsAs, Phases, AfterCleanReboot, NewOnThisBoot, Console
<1>2. \A severity \in {"fail", "warn"} : \A name \in Second : FitsAs(r, "post-reboot", severity, name)
  BY DEF FitsAs, Phases, AfterCleanReboot, NewOnThisBoot, Console
<1>3. \A severity \in {"fail", "warn"} : \A name \in Third : FitsAs(r, "post-logon", severity, name)
  BY DEF FitsAs, Phases, AfterCleanReboot, NewOnThisBoot, Console
<1>4. /\ \A severity \in {"fail", "warn"} : \A ids \in Seq(First) :
           AllFit(r, Suite("first-boot", severity, ids))
      /\ \A severity \in {"fail", "warn"} : \A ids \in Seq(Second) :
           AllFit(r, Suite("post-reboot", severity, ids))
      /\ \A severity \in {"fail", "warn"} : \A ids \in Seq(Third) :
           AllFit(r, Suite("post-logon", severity, ids))
  BY <1>1, <1>2, <1>3, SuiteFits
<1>5. /\ <<"generalization-state", "cloudbase-init-completed", "build-profile-removed">> \in Seq(First)
      /\ <<"winrm-not-exposed", "rdp-enabled", "no-plaintext-build-password",
           "guest-agent-automatic">> \in Seq(First)
      /\ <<"cipassword-validates", "wu-policy-restored">> \in Seq(First)
      /\ <<"pagefile-restored", "rearm-headroom">> \in Seq(First)
      /\ <<"hostname-applied", "system-volume-extended">> \in Seq(Second)
      /\ <<"no-critical-service-failures">> \in Seq(Second)
      /\ <<"shell-no-crashes", "shell-session-present">> \in Seq(Third)
      /\ <<"winget-present">> \in Seq(Third)
  OBVIOUS
<1> HIDE DEF First, Second, Third
<1>6. AllFit(r, WindowsInitChecks) /\ AllFit(r, WindowsExposureChecks)
  BY <1>4, <1>5 DEF WindowsInitChecks, WindowsExposureChecks
<1>7. AllFit(r, WindowsRestoredChecks)
  BY <1>4, <1>5, ConcatFits DEF WindowsRestoredChecks
<1>8. AllFit(r, WindowsRebootChecks)
  BY <1>4, <1>5, ConcatFits DEF WindowsRebootChecks
<1>9. AllFit(r, WindowsShellChecks) /\ AllFit(r, WingetPresentCheck)
  BY <1>4, <1>5 DEF WindowsShellChecks, WingetPresentCheck
<1>10. QED
  BY <1>6, <1>7, <1>8, <1>9, ConcatFits DEF WindowsSuite

\* An override keeps a suite one whose checks fit.
LEMMA MergeFits ==
  ASSUME NEW r, NEW base, NEW overrides, AllFit(r, base), AllFit(r, overrides)
  PROVE  LET suite == MergeChecks(base, overrides) IN
         /\ DOMAIN base \subseteq DOMAIN suite /\ DOMAIN suite \subseteq Nat \ {0}
         /\ \A k \in DOMAIN suite : Fits(r, suite[k])
         /\ overrides = <<>> => suite = base
<1> DEFINE Replacement(c) == {o \in {overrides[i] : i \in DOMAIN overrides} : o.id = c.id}
           Kept(c) == IF Replacement(c) = {} THEN c ELSE CHOOSE o \in Replacement(c) : TRUE
           New == {i \in DOMAIN overrides : \A j \in DOMAIN base : base[j].id # overrides[i].id}
           suite == MergeChecks(base, overrides)
<1>1. /\ DOMAIN base = 1 .. Len(base) /\ Len(base) \in Nat
      /\ DOMAIN overrides = 1 .. Len(overrides) /\ Len(overrides) \in Nat
  BY LenProperties DEF AllFit
<1>2. suite = [k \in DOMAIN base \cup {Len(base) + i : i \in New} |->
                 IF k \in DOMAIN base THEN Kept(base[k]) ELSE overrides[k - Len(base)]]
  BY Zenon DEF MergeChecks
<1>3. DOMAIN suite = DOMAIN base \cup {Len(base) + i : i \in New}
  BY <1>2
<1>4. ASSUME NEW c, Fits(r, c) PROVE Fits(r, Kept(c))
  <2>1. CASE Replacement(c) = {}
    BY <1>4, <2>1
  <2>2. CASE Replacement(c) # {}
    <3>1. Kept(c) \in Replacement(c)
      BY <2>2
    <3>2. PICK i \in DOMAIN overrides : Kept(c) = overrides[i]
      BY <3>1
    <3>3. QED
      BY <3>2 DEF AllFit
  <2>3. QED
    BY <2>1, <2>2
<1>5. ASSUME NEW k \in DOMAIN suite PROVE Fits(r, suite[k])
  <2>1. CASE k \in DOMAIN base
    <3>1. suite[k] = Kept(base[k]) /\ Fits(r, base[k])
      BY <1>2, <2>1 DEF AllFit
    <3>2. QED
      BY <1>4, <3>1
  <2>2. CASE k \notin DOMAIN base
    <3>1. PICK i \in New : k = Len(base) + i
      BY <1>3, <2>2
    <3>2. k - Len(base) = i
      BY <1>1, <3>1
    <3>3. suite[k] = overrides[i]
      BY <1>2, <2>2, <3>2
    <3>4. QED
      BY <3>3 DEF AllFit
  <2>3. QED
    BY <2>1, <2>2
<1>6. DOMAIN suite \subseteq Nat \ {0}
  BY <1>1, <1>3
<1>7. ASSUME overrides = <<>> PROVE suite = base
  <2>1. DOMAIN overrides = {}
    BY <1>7
  <2>2. \A c : Replacement(c) = {}
    BY <2>1
  <2>3. DOMAIN suite = DOMAIN base
    BY <1>3, <2>1
  <2>4. \A k \in DOMAIN base : suite[k] = base[k]
    BY <1>2, <2>2
  <2>5. base = [k \in DOMAIN base |-> base[k]] /\ suite = [k \in DOMAIN suite |-> suite[k]]
    <3>1. PICK C : base \in Seq(C)
      BY DEF AllFit
    <3>2. base = [k \in 1 .. Len(base) |-> base[k]]
      BY <3>1
    <3>3. QED
      BY <1>1, <1>2, <3>2
  <2>6. QED
    BY <2>3, <2>4, <2>5
<1>8. QED
  BY <1>3, <1>5, <1>6, <1>7
  
\* Every check fits its recipe; a Linux guest is asked first whether cloud-init is done.
LEMMA SuiteIsSound ==
  ASSUME NEW r \in Recipes
  PROVE  /\ DOMAIN SuiteFor(r) \subseteq Nat \ {0}
         /\ \A k \in DOMAIN SuiteFor(r) : Fits(r, SuiteFor(r)[k])
         /\ ~ IsWindows(r) =>
              /\ 1 \in DOMAIN SuiteFor(r)
              /\ SuiteFor(r)[1] = [id |-> "cloud-init-done", phase |-> "first-boot",
                                   severity |-> "fail"]
<1> DEFINE base == IF IsWindows(r) THEN WindowsSuite ELSE LinuxSuite
<1>1. SuiteFor(r) = MergeChecks(base, Overrides(r))
  BY DEF SuiteFor, Suites
<1>2. AllFit(r, base)
  BY LinuxFits, WindowsFits
<1>3. AllFit(r, Overrides(r))
  <2>1. CASE r = "windows-server-2025"
    BY <2>1, WindowsFits DEF Overrides, IsWindows
  <2>2. CASE r # "windows-server-2025"
    <3>1. Overrides(r) = <<>> /\ <<>> \in Seq({}) /\ DOMAIN <<>> = {}
      BY <2>2, EmptySeq DEF Overrides
    <3>2. QED
      BY <3>1 DEF AllFit
  <2>3. QED
    BY <2>1, <2>2
<1>4. ASSUME ~ IsWindows(r)
      PROVE  /\ 1 \in DOMAIN SuiteFor(r)
             /\ SuiteFor(r)[1] = [id |-> "cloud-init-done", phase |-> "first-boot",
                                  severity |-> "fail"]
  <2>1. Overrides(r) = <<>> /\ base = LinuxSuite
    BY <1>4 DEF Overrides, IsWindows
  <2>2. SuiteFor(r) = LinuxSuite
    BY <1>1, <1>2, <1>3, <2>1, MergeFits
  <2>3. LinuxSuite[1] = LinuxInitChecks[1] /\ 1 \in DOMAIN LinuxSuite
    BY DEF LinuxSuite, LinuxInitChecks, Suite
  <2>4. LinuxInitChecks[1] = [id |-> "cloud-init-done", phase |-> "first-boot", severity |-> "fail"]
    BY DEF LinuxInitChecks, Suite
  <2>5. QED
    BY <2>2, <2>3, <2>4
<1>5. QED
  BY <1>1, <1>2, <1>3, <1>4, MergeFits
-----------------------------------------------------------------------------
(* The invariant of GuestBoot.                                              *)

\* What has passed so far, on boot ids that were read as they are.
Clear == ~ failed /\ "misread" \notin mishaps

BeforeInit == {"prepare", "start", "ping", "idle", "settled"}
Checking == {"check", "baseline", "arm", "reboot", "confirm", "settle", "frame", "judge"}
LastPhase == IF IsWindows(recipe) THEN "post-logon" ELSE "post-reboot"

\* Which phase each step of a verification belongs to.
PhasesTrue ==
  /\ pc \in BeforeInit \cup Checking
  /\ verdict = "none"
  /\ pc \in BeforeInit => phase = "none" /\ ~ failed
  /\ pc \in Checking => phase \in Phases /\ level = "full"
  /\ pc \in {"idle", "settled"} => IsWindows(recipe) /\ level = "full"
  /\ pc \in {"arm", "settle"} => phase = "post-reboot" /\ IsWindows(recipe)
  /\ pc \in {"baseline", "reboot", "confirm"} =>
       phase = "first-boot" \/ (phase = "post-reboot" /\ IsWindows(recipe))
  /\ phase = "post-logon" => IsWindows(recipe)
  /\ pc \in {"frame", "judge"} => phase = LastPhase

\* Until it is asked to restart, a guest that needs no reboot of its own is up; once it
\* said that it is done initialising, it is, on the boot it says or an earlier one.
GuestTrue ==
  /\ pc \in {"prepare", "start"} =>
       guest.power = "off" /\ guest.boot = 0 /\ guest.init = "waiting"
  /\ pc \notin {"prepare", "start"} => guest.boot > 0
  /\ IsWindows(recipe) \/ guest.init # "marked"
  /\ guest.initBoot <= guest.boot
  /\ pc \notin {"prepare", "start", "confirm"} /\ guest.init # "marked" => guest.power = "up"
  /\ phase \in {"none", "first-boot"} => ~ guest.armed /\ ~ guest.profile
  /\ pc # "prepare" /\ level = "full" => Configured /\ seed.keys = ~ IsWindows(recipe)

\* The checks go on only with a guest that is initialised.
InitTrue ==
  /\ pc = "settled" => guest.init = "done"
  /\ phase # "none" => \/ guest.init = "done"
                       \/ ~ IsWindows(recipe) /\ phase = "first-boot" /\ pc = "check" /\ next = 1
  /\ ~ IsWindows(recipe) /\ (pc = "ping" \/ (phase = "first-boot" /\ pc = "check"))
       => (guest.init = "done" => guest.initBoot = guest.boot)

\* A boot id that differs from the one before is that of a later boot.
RebootsTrue ==
  /\ pc = "reboot" => before = guest.boot
  /\ pc = "confirm" => before <= guest.boot /\ (before # guest.boot => guest.power = "up")
  /\ pc \in {"reboot", "confirm"} => guest.initBoot <= before
  /\ phase \in {"post-reboot", "post-logon"} => guest.initBoot < guest.boot
  /\ (phase = "post-logon" \/ pc \in {"frame", "judge"}) /\ IsWindows(recipe)
       => guest.session \/ "late" \in mishaps

\* The hard checks that ran.
Ran(k) ==
  LET p == SuiteFor(recipe)[k].phase IN
  \/ phase = "post-reboot" /\ p = "first-boot"
  \/ phase = "post-logon" /\ p \in {"first-boot", "post-reboot"}
  \/ p = phase /\ (pc = "check" => k < next)

\* None of them asserts the absence of the flaw, except that a late desktop may hide one.
ChecksTrue ==
  /\ \A k \in DOMAIN SuiteFor(recipe) :
       Ran(k) /\ SuiteFor(recipe)[k].severity = "fail" /\ SuiteFor(recipe)[k].id = flaw
         => flaw = "shell-no-crashes" /\ "late" \in mishaps
  /\ pc = "judge" /\ flaw = Console /\ IsWindows(recipe) => mishaps \cap {"late", "blind"} # {}

\* An agent that left every attempt so far unanswered has been silent for as long.
SilenceTrue ==
  pc \in {"check", "baseline"} =>
    /\ tries < TransportAttempts
    /\ tries <= silence \/ silence > MaxOutage \/ "disturbed" \in mishaps

\* A sound guest's agent answers one of the attempts guestExecRetry makes.
AgentAnswers == MaxOutage < TransportAttempts

\* Nothing fails a sound image but a mishap.
SoundTrue == flaw = "none" /\ mishaps \subseteq {"blind"} => ~ failed

\* What holds until the verdict, and what holds of it.
Kept ==
  /\ PhasesTrue
  /\ AgentAnswers => SoundTrue
  /\ Clear => GuestTrue /\ InitTrue /\ RebootsTrue /\ ChecksTrue /\ SilenceTrue

Sentenced == FlawsFail /\ (AgentAnswers => SoundImagePasses)

GuestInv ==
  /\ GuestTypeOK
  /\ pc = "ended" => Sentenced
  /\ pc # "ended" => Kept

-----------------------------------------------------------------------------
(* The types.                                                               *)


LEMMA RepliesKeepType ==
  ASSUME GuestTypeOK, NEW reply, GuestExec(reply)
  PROVE  silence' \in 0 .. MaxOutage + 1
BY GuestAssumption DEF GuestTypeOK, GuestExec

LEMMA BootIdsAreInt ==
  ASSUME GuestTypeOK, NEW reply, NEW said \in BootIdReplies(reply)
  PROVE  said \in Int
BY DEF GuestTypeOK, BootIdReplies, NoId, Exception

\* A password begins with a letter or a digit.
LEMMA SentinelLeads ==
  ASSUME NEW chars \in Shuffles
  PROVE  /\ DOMAIN SentinelPassword(chars) = DOMAIN chars
         /\ SentinelPassword(chars)[1] = "alnum"
<1> DEFINE S == {i \in DOMAIN chars : chars[i] = "alnum"}
           Leads(i) == chars[i] = "alnum" /\ \A j \in 1 .. i - 1 : chars[j] # "alnum"
           lead == CHOOSE i \in DOMAIN chars : Leads(i)
<1>1. /\ chars \in Seq({"alnum", "symbol"}) /\ S # {}
      /\ DOMAIN chars = 1 .. Len(chars) /\ Len(chars) \in Nat
  BY GuestAssumption, LenProperties
<1>2. S \in SUBSET Nat
  BY <1>1
<1>3. PICK n \in S : \A m \in S : n <= m
  BY <1>1, <1>2, MinIsLeast
<1>4. Leads(n)
  <2>1. ASSUME NEW j \in 1 .. n - 1 PROVE chars[j] # "alnum"
    <3>1. n \in DOMAIN chars /\ j \in DOMAIN chars /\ ~ (n <= j)
      BY <1>1, <2>1
    <3>2. j \notin S
      BY <1>3, <3>1
    <3>3. QED
      BY <3>1, <3>2
  <2>2. QED
    BY <2>1
<1>5. lead \in DOMAIN chars /\ Leads(lead)
  BY <1>3, <1>4, Zenon
<1>6. 1 \in DOMAIN chars
  BY <1>1, <1>3
<1>7. SentinelPassword(chars) = [chars EXCEPT ![1] = chars[lead], ![lead] = chars[1]]
  BY Zenon DEF SentinelPassword
<1> HIDE DEF lead, S
<1>8. chars[lead] = "alnum"
  BY <1>5
<1>9. CASE lead = 1
  BY <1>6, <1>7, <1>8, <1>9
<1>10. CASE lead # 1
  BY <1>6, <1>7, <1>8, <1>10
<1>11. QED
  BY <1>9, <1>10

LEMMA SeedIs ==
  ASSUME NEW chars \in Shuffles, NEW windows \in BOOLEAN
  PROVE  CloudInitSet(SentinelPassword(chars), windows) = [lead |-> "alnum", keys |-> ~ windows]
BY SentinelLeads DEF CloudInitSet

LEMMA GuestTyped ==
  ASSUME GuestTypeOK, GuestStep
  PROVE  GuestTypeOK'
<1> /\ guest' \in [power : {"off", "up", "stopping"}, boot : Nat,
                   init : {"waiting", "running", "marked", "done"}, initBoot : Nat,
                   armed : BOOLEAN, armBoot : Nat, session : BOOLEAN, profile : BOOLEAN]
    /\ silence' \in 0 .. MaxOutage + 1
    /\ UNCHANGED <<recipe, level, flaw, seed, judging, mishaps>>
  <2>1. CASE InitStarts
    BY <2>1 DEF GuestTypeOK, InitStarts
  <2>2. CASE PluginsDone
    BY <2>2 DEF GuestTypeOK, PluginsDone
  <2>3. CASE RenameReboot
    BY <2>3 DEF GuestTypeOK, RenameReboot
  <2>4. CASE GoesDown
    BY <2>4 DEF GuestTypeOK, GoesDown
  <2>5. CASE ComesUp
    <3>1. /\ guest.boot + 1 \in Nat
          /\ (IF guest.init = "marked" THEN guest.boot + 1 ELSE guest.initBoot) \in Nat
          /\ (IF guest.init = "marked" THEN "done" ELSE guest.init)
               \in {"waiting", "running", "marked", "done"}
      BY DEF GuestTypeOK
    <3>2. guest' \in [power : {"off", "up", "stopping"}, boot : Nat,
                      init : {"waiting", "running", "marked", "done"}, initBoot : Nat,
                      armed : BOOLEAN, armBoot : Nat, session : BOOLEAN, profile : BOOLEAN]
      BY <2>5, <3>1 DEF GuestTypeOK, ComesUp
    <3>3. QED
      BY <2>5, <3>2, GuestAssumption DEF ComesUp
  <2>6. CASE LogsOn
    BY <2>6 DEF GuestTypeOK, LogsOn
  <2>7. QED
    BY <2>1, <2>2, <2>3, <2>4, <2>5, <2>6 DEF GuestStep
<1>1. QED
  BY DEF GuestTypeOK, judging

LEMMA JudgeTyped ==
  ASSUME GuestTypeOK, Judge
  PROVE  GuestTypeOK'
<1> DEFINE Same == UNCHANGED <<recipe, level, flaw>>
           Guests == [power : {"off", "up", "stopping"}, boot : Nat,
                      init : {"waiting", "running", "marked", "done"}, initBoot : Nat,
                      armed : BOOLEAN, armBoot : Nat, session : BOOLEAN, profile : BOOLEAN]
           Moved == /\ guest' \in Guests /\ silence' \in 0 .. MaxOutage + 1
                    /\ seed' \in [lead : {"none", "alnum", "symbol"}, keys : BOOLEAN]
                    /\ mishaps' \subseteq {"disturbed", "misread", "thrown", "late", "blind"}
           Judged == /\ next' \in Nat /\ tries' \in Nat
                     /\ stable' \in Int /\ before' \in Int /\ failed' \in BOOLEAN
                     /\ verdict' \in {"none", "passed", "failed"}
<1>1. CASE PrepareCloudInit
  <2>1. ASSUME NEW chars \in Shuffles
        PROVE  CloudInitSet(SentinelPassword(chars), IsWindows(recipe))
                 \in [lead : {"none", "alnum", "symbol"}, keys : BOOLEAN]
    <3>1. IsWindows(recipe) \in BOOLEAN
      BY DEF IsWindows
    <3>2. CloudInitSet(SentinelPassword(chars), IsWindows(recipe))
            = [lead |-> "alnum", keys |-> ~ IsWindows(recipe)]
      BY <3>1, SeedIs
    <3>3. QED
      BY <3>1, <3>2
  <2>2. Same /\ Moved
    BY <1>1, <2>1 DEF GuestTypeOK, PrepareCloudInit, Mishap
  <2>3. Judged
    <3>1. tries' \in {0, tries, tries + 1}
      BY <1>1 DEF PrepareCloudInit, Proceed, Throw
    <3>2. tries' \in Nat
      BY <3>1 DEF GuestTypeOK
    <3>3. next' \in Nat
      BY <1>1 DEF GuestTypeOK, PrepareCloudInit, Proceed, Throw
    <3>4. stable' \in Int /\ before' \in Int
      BY <1>1 DEF GuestTypeOK, PrepareCloudInit, Proceed, Throw
    <3>5. failed' \in BOOLEAN
      BY <1>1 DEF GuestTypeOK, PrepareCloudInit, Proceed, Throw
    <3>6. verdict' \in {"none", "passed", "failed"}
      BY <1>1 DEF GuestTypeOK, PrepareCloudInit, Proceed, Throw
    <3>7. QED
      BY <3>2, <3>3, <3>4, <3>5, <3>6
  <2>4. QED
    BY <2>2, <2>3 DEF GuestTypeOK
<1>2. CASE QmStart
  <2>0. Same /\ Moved
    <3>1. guest' = guest \/ \E n \in Nat : guest' = [guest EXCEPT !.power = "up", !.boot = n]
      BY <1>2 DEF QmStart
    <3>2. guest' \in Guests
      BY <3>1 DEF GuestTypeOK
    <3>3. QED
      BY <1>2, <3>2 DEF GuestTypeOK, QmStart, Throw, Mishap
  <2>1. Judged
    <3>1. tries' \in {0, tries, tries + 1}
      BY <1>2 DEF QmStart, Proceed, Throw
    <3>2. tries' \in Nat
      BY <3>1 DEF GuestTypeOK
    <3>3. next' \in Nat
      BY <1>2 DEF GuestTypeOK, QmStart, Proceed, Throw
    <3>4. stable' \in Int /\ before' \in Int
      BY <1>2 DEF GuestTypeOK, QmStart, Proceed, Throw
    <3>5. failed' \in BOOLEAN
      BY <1>2 DEF GuestTypeOK, QmStart, Proceed, Throw
    <3>6. verdict' \in {"none", "passed", "failed"}
      BY <1>2 DEF GuestTypeOK, QmStart, Proceed, Throw
    <3>7. QED
      BY <3>2, <3>3, <3>4, <3>5, <3>6
  <2>2. QED
    BY <2>0, <2>1 DEF GuestTypeOK
<1>3. CASE PingGuest
  <2>1. silence' \in 0 .. MaxOutage + 1
    BY <1>3, RepliesKeepType DEF PingGuest
  <2>2. Same /\ Moved
    <3>1. mishaps' \in {mishaps, mishaps \cup {"disturbed"}}
      BY <1>3 DEF PingGuest, TimesOut, Mishap
    <3>2. Same /\ UNCHANGED <<seed, guest>>
      BY <1>3 DEF PingGuest
    <3>3. QED
      BY <2>1, <3>1, <3>2 DEF GuestTypeOK
  <2>3. Judged
    <3>1. tries' \in {0, tries, tries + 1}
      BY <1>3 DEF PingGuest, Proceed, StartPhase, TimesOut, Throw, PollAgain
    <3>2. tries' \in Nat
      BY <3>1 DEF GuestTypeOK
    <3>3. next' \in Nat
      <4>1. next' \in {1, next}
        BY <1>3 DEF PingGuest, Proceed, StartPhase, TimesOut, Throw, PollAgain
      <4>2. QED
        BY <4>1 DEF GuestTypeOK
    <3>4. stable' \in Int /\ before' \in Int
      BY <1>3 DEF GuestTypeOK, PingGuest, Proceed, StartPhase, TimesOut, Throw, PollAgain
    <3>5. failed' \in BOOLEAN
      BY <1>3 DEF GuestTypeOK, PingGuest, Proceed, StartPhase, TimesOut, Throw, PollAgain
    <3>6. verdict' \in {"none", "passed", "failed"}
      BY <1>3 DEF GuestTypeOK, PingGuest, Proceed, StartPhase, TimesOut, Throw, PollAgain
    <3>7. QED
      BY <3>2, <3>3, <3>4, <3>5, <3>6
  <2>4. QED
    BY <2>2, <2>3 DEF GuestTypeOK
<1>4. CASE WaitForIdle
  <2>1. silence' \in 0 .. MaxOutage + 1
    BY <1>4, RepliesKeepType DEF WaitForIdle
  <2>2. Same /\ Moved
    <3>1. mishaps' \in {mishaps, mishaps \cup {"disturbed"}}
      BY <1>4 DEF WaitForIdle, TimesOut, Mishap
    <3>2. Same /\ UNCHANGED <<seed, guest>>
      BY <1>4 DEF WaitForIdle
    <3>3. QED
      BY <2>1, <3>1, <3>2 DEF GuestTypeOK
  <2>3. Judged
    <3>1. tries' \in {0, tries, tries + 1}
      BY <1>4 DEF WaitForIdle, NoId, TimesOut, Throw, PollAgain
    <3>2. tries' \in Nat
      BY <3>1 DEF GuestTypeOK
    <3>3. next' \in Nat
      BY <1>4 DEF GuestTypeOK, WaitForIdle, NoId, TimesOut, Throw, PollAgain
    <3>4. stable' \in Int /\ before' \in Int
      <4>1. stable' \in {NoId, stable} /\ before' \in {before}
        BY <1>4 DEF WaitForIdle, TimesOut, Throw, PollAgain
      <4>2. QED
        BY <4>1 DEF GuestTypeOK, NoId
    <3>5. failed' \in BOOLEAN
      BY <1>4 DEF GuestTypeOK, WaitForIdle, NoId, TimesOut, Throw, PollAgain
    <3>6. verdict' \in {"none", "passed", "failed"}
      BY <1>4 DEF GuestTypeOK, WaitForIdle, NoId, TimesOut, Throw, PollAgain
    <3>7. QED
      BY <3>2, <3>3, <3>4, <3>5, <3>6
  <2>4. QED
    BY <2>2, <2>3 DEF GuestTypeOK
<1>5. CASE WaitForSettled
  <2>1. silence' \in 0 .. MaxOutage + 1
    BY <1>5, RepliesKeepType DEF WaitForSettled
  <2>2. Same /\ Moved
    <3>1. mishaps' \in {mishaps, mishaps \cup {"disturbed"}}
      BY <1>5 DEF WaitForSettled, TimesOut, Mishap
    <3>2. Same /\ UNCHANGED <<seed, guest>>
      BY <1>5 DEF WaitForSettled
    <3>3. QED
      BY <2>1, <3>1, <3>2 DEF GuestTypeOK
  <2>3. Judged
    <3>1. tries' \in {0, tries, tries + 1}
      BY <1>5, BootIdsAreInt DEF WaitForSettled, StartPhase, TimesOut, Throw
    <3>2. tries' \in Nat
      BY <3>1 DEF GuestTypeOK
    <3>3. next' \in Nat
      <4>1. next' \in {1, next}
        BY <1>5, BootIdsAreInt DEF WaitForSettled, StartPhase, TimesOut, Throw
      <4>2. QED
        BY <4>1 DEF GuestTypeOK
    <3>4. stable' \in Int /\ before' \in Int
      BY <1>5, BootIdsAreInt DEF GuestTypeOK, WaitForSettled, StartPhase, TimesOut, Throw
    <3>5. failed' \in BOOLEAN
      BY <1>5, BootIdsAreInt DEF GuestTypeOK, WaitForSettled, StartPhase, TimesOut, Throw
    <3>6. verdict' \in {"none", "passed", "failed"}
      BY <1>5, BootIdsAreInt DEF GuestTypeOK, WaitForSettled, StartPhase, TimesOut, Throw
    <3>7. QED
      BY <3>2, <3>3, <3>4, <3>5, <3>6
  <2>4. QED
    BY <2>2, <2>3 DEF GuestTypeOK
<1>6. CASE RunCheck
  <2>1. silence' \in 0 .. MaxOutage + 1
    BY <1>6, RepliesKeepType DEF RunCheck
  <2>2. Same /\ Moved
    <3>1. mishaps' \in {mishaps, mishaps \cup {"disturbed"}, mishaps \cup {"thrown"}}
      BY <1>6 DEF RunCheck, Mishap
    <3>2. Same /\ UNCHANGED <<seed, guest>>
      BY <1>6 DEF RunCheck
    <3>3. QED
      BY <2>1, <3>1, <3>2 DEF GuestTypeOK
  <2>3. ToRun \subseteq Nat
    BY SuiteIsSound DEF ToRun, ChecksForPhase, GuestTypeOK
  <2>4. Judged
    <3>1. tries' \in {0, tries, tries + 1}
      BY <1>6, <2>3 DEF RunCheck, Report
    <3>2. tries' \in Nat
      BY <3>1 DEF GuestTypeOK
    <3>3. next' \in Nat
      <4>1. \E k \in ToRun : next' \in {next, k + 1}
        BY <1>6 DEF RunCheck
      <4>2. QED
        BY <2>3, <4>1 DEF GuestTypeOK
    <3>4. stable' \in Int /\ before' \in Int
      BY <1>6, <2>3 DEF GuestTypeOK, RunCheck, Report
    <3>5. failed' \in BOOLEAN
      BY <1>6, <2>3 DEF GuestTypeOK, RunCheck, Report
    <3>6. verdict' \in {"none", "passed", "failed"}
      BY <1>6, <2>3 DEF GuestTypeOK, RunCheck, Report
    <3>7. QED
      BY <3>2, <3>3, <3>4, <3>5, <3>6
  <2>5. QED
    BY <2>2, <2>4 DEF GuestTypeOK
<1>7. CASE PhaseEnds
  BY <1>7 DEF GuestTypeOK, PhaseEnds, Proceed
<1>8. CASE ArmAutologon
  <2>1. silence' \in 0 .. MaxOutage + 1
    BY <1>8, RepliesKeepType DEF ArmAutologon
  <2>2. Same /\ Moved
    <3>1. mishaps' \in {mishaps, mishaps \cup {"disturbed"}} /\ Same /\ UNCHANGED seed
      BY <1>8 DEF ArmAutologon, Mishap
    <3>2. guest' \in {guest, [guest EXCEPT !.armed = TRUE, !.armBoot = guest.boot]}
      BY <1>8 DEF ArmAutologon
    <3>3. guest' \in Guests
      BY <3>2 DEF GuestTypeOK
    <3>4. QED
      BY <2>1, <3>1, <3>3 DEF GuestTypeOK
  <2>3. Judged
    BY <1>8 DEF GuestTypeOK, ArmAutologon, Proceed
  <2>4. QED
    BY <2>2, <2>3 DEF GuestTypeOK
<1>9. CASE ReadBaseline
  <2>1. silence' \in 0 .. MaxOutage + 1
    BY <1>9, RepliesKeepType DEF ReadBaseline
  <2>2. Same /\ Moved
    <3>1. mishaps' \in {mishaps, mishaps \cup {"disturbed"}, mishaps \cup {"misread"}}
      BY <1>9 DEF ReadBaseline, Mishap
    <3>2. Same /\ UNCHANGED <<seed, guest>>
      BY <1>9 DEF ReadBaseline
    <3>3. QED
      BY <2>1, <3>1, <3>2 DEF GuestTypeOK
  <2>3. Judged
    BY <1>9, BootIdsAreInt DEF GuestTypeOK, ReadBaseline, Throw
  <2>4. QED
    BY <2>2, <2>3 DEF GuestTypeOK
<1>10. CASE TriggerReboot
  <2>1. silence' \in 0 .. MaxOutage + 1
    BY <1>10, RepliesKeepType DEF TriggerReboot
  <2>2. Same /\ Moved
    <3>1. mishaps' \in {mishaps, mishaps \cup {"disturbed"}} /\ Same /\ UNCHANGED seed
      BY <1>10 DEF TriggerReboot, Mishap
    <3>2. guest' \in {guest, [guest EXCEPT !.power = "stopping"]}
      BY <1>10 DEF TriggerReboot
    <3>3. guest' \in Guests
      BY <3>2 DEF GuestTypeOK
    <3>4. QED
      BY <2>1, <3>1, <3>3 DEF GuestTypeOK
  <2>3. Judged
    BY <1>10 DEF GuestTypeOK, TriggerReboot, Proceed
  <2>4. QED
    BY <2>2, <2>3 DEF GuestTypeOK
<1>11. CASE ConfirmReboot
  <2>1. silence' \in 0 .. MaxOutage + 1
    BY <1>11, RepliesKeepType DEF ConfirmReboot
  <2>2. Same /\ Moved
    <3>1. mishaps' \in {mishaps, mishaps \cup {"disturbed"}, mishaps \cup {"misread"}}
      BY <1>11 DEF ConfirmReboot, TimesOut, Mishap
    <3>2. Same /\ UNCHANGED <<seed, guest>>
      BY <1>11 DEF ConfirmReboot
    <3>3. QED
      BY <2>1, <3>1, <3>2 DEF GuestTypeOK
  <2>3. Judged
    <3>1. tries' \in {0, tries, tries + 1}
      BY <1>11 DEF ConfirmReboot, StartPhase, Proceed, TimesOut, Throw, PollAgain
    <3>2. tries' \in Nat
      BY <3>1 DEF GuestTypeOK
    <3>3. next' \in Nat
      <4>1. next' \in {1, next}
        BY <1>11 DEF ConfirmReboot, StartPhase, Proceed, TimesOut, Throw, PollAgain
      <4>2. QED
        BY <4>1 DEF GuestTypeOK
    <3>4. stable' \in Int /\ before' \in Int
      BY <1>11 DEF GuestTypeOK, ConfirmReboot, StartPhase, Proceed, TimesOut, Throw, PollAgain
    <3>5. failed' \in BOOLEAN
      BY <1>11 DEF GuestTypeOK, ConfirmReboot, StartPhase, Proceed, TimesOut, Throw, PollAgain
    <3>6. verdict' \in {"none", "passed", "failed"}
      BY <1>11 DEF GuestTypeOK, ConfirmReboot, StartPhase, Proceed, TimesOut, Throw, PollAgain
    <3>7. QED
      BY <3>2, <3>3, <3>4, <3>5, <3>6
  <2>4. QED
    BY <2>2, <2>3 DEF GuestTypeOK
<1>12. CASE ShellSettles
  BY <1>12 DEF GuestTypeOK, ShellSettles, StartPhase, Mishap
<1>13. CASE CaptureFrame
  <2>1. Same /\ Moved
    BY <1>13 DEF GuestTypeOK, CaptureFrame
  <2>2. failed' \in BOOLEAN
    BY <1>13 DEF GuestTypeOK, CaptureFrame, Report
  <2>3. QED
    BY <1>13, <2>1, <2>2 DEF GuestTypeOK, CaptureFrame
<1>14. CASE Summarize
  BY <1>14 DEF GuestTypeOK, Summarize
<1>15. QED
  BY <1>1, <1>2, <1>3, <1>4, <1>5, <1>6, <1>7, <1>8, <1>9, <1>10, <1>11, <1>12, <1>13, <1>14 DEF Judge

-----------------------------------------------------------------------------
(* The guest moves.                                                         *)

\* What a step of the guest does to what the invariant says of it.
GuestMoved ==
  /\ guest'.boot \in Nat /\ guest'.initBoot \in Nat
  /\ guest.init = "done" => guest'.init = "done" /\ guest'.initBoot = guest.initBoot
  /\ guest'.initBoot <= guest'.boot
  /\ guest'.init = "marked" => guest.init = "marked" \/ IsWindows(recipe)
  /\ guest.power # "off" \/ guest.boot # 0
  /\ guest.init = "marked" \/ guest.power = "up" => guest'.init = "marked" \/ guest'.power = "up"
  /\ guest.power = "up" => /\ guest'.boot = guest.boot /\ silence' = silence
                           /\ guest.init = "done" /\ guest.session => guest'.session
  /\ guest'.boot = guest.boot \/ (guest'.power = "up" /\ guest'.boot > guest.boot)
  /\ guest'.init = "done" => guest.init = "done" \/ guest'.initBoot = guest'.boot
  /\ ~ guest.armed => ~ guest'.armed /\ guest'.profile = guest.profile

LEMMA GuestMoves ==
  ASSUME GuestTypeOK, guest.initBoot <= guest.boot, guest.boot = 0 => guest.power = "off", GuestStep
  PROVE  GuestMoved
<1> /\ guest.power \in {"off", "up", "stopping"} /\ guest.boot \in Nat
    /\ guest.init \in {"waiting", "running", "marked", "done"} /\ guest.initBoot \in Nat
    /\ guest = [power |-> guest.power, boot |-> guest.boot, init |-> guest.init,
                initBoot |-> guest.initBoot, armed |-> guest.armed, armBoot |-> guest.armBoot,
                session |-> guest.session, profile |-> guest.profile]
  BY DEF GuestTypeOK
<1>1. CASE InitStarts
  BY <1>1 DEF InitStarts, GuestMoved
<1>2. CASE PluginsDone
  BY <1>2 DEF PluginsDone, GuestMoved
<1>3. CASE RenameReboot
  BY <1>3 DEF RenameReboot, GuestMoved
<1>4. CASE GoesDown
  BY <1>4 DEF GoesDown, GuestMoved
<1>5. CASE ComesUp
  BY <1>5 DEF ComesUp, GuestMoved
<1>6. CASE LogsOn
  BY <1>6 DEF LogsOn, GuestMoved
<1>7. QED
  BY <1>1, <1>2, <1>3, <1>4, <1>5, <1>6 DEF GuestStep

\* What is judged of the guest while nobody judges: nothing moves that was settled.
LEMMA GuestKeeps ==
  ASSUME GuestTypeOK, PhasesTrue, GuestTrue, InitTrue, RebootsTrue, SilenceTrue, GuestStep
  PROVE  GuestTrue' /\ InitTrue' /\ RebootsTrue' /\ SilenceTrue'
<1>1. /\ UNCHANGED <<recipe, level, flaw, seed, pc, phase, next, tries, before, failed, mishaps>>
      /\ seed' = seed
  BY DEF GuestStep, InitStarts, PluginsDone, RenameReboot, GoesDown, ComesUp, LogsOn, judging
<1>2. /\ guest.power \in {"off", "up", "stopping"} /\ guest.boot \in Nat
      /\ guest.init \in {"waiting", "running", "marked", "done"} /\ guest.initBoot \in Nat
      /\ before \in Int
  BY DEF GuestTypeOK
<1>3. guest.initBoot <= guest.boot /\ (guest.boot = 0 => guest.power = "off")
  BY <1>2 DEF GuestTrue
<1>4. GuestMoved
  BY <1>3, GuestMoves
<1>5. pc \notin {"prepare", "start"}
  BY <1>2, <1>4 DEF GuestTrue, GuestMoved
<1>6. guest'.power \in {"off", "up", "stopping"} /\ guest'.init \in {"waiting", "running", "marked", "done"}
  <2>1. GuestTypeOK'
    BY GuestTyped
  <2>2. QED
    BY <2>1 DEF GuestTypeOK
<1>7. GuestTrue'
  <2>1. IsWindows(recipe) \/ guest'.init # "marked"
    BY <1>4 DEF GuestTrue, GuestMoved
  <2>2. guest'.boot > 0
    BY <1>2, <1>4, <1>5 DEF GuestTrue, GuestMoved
  <2>3. ASSUME pc # "confirm", guest'.init # "marked" PROVE guest'.power = "up"
    BY <1>4, <1>5, <2>3 DEF GuestTrue, GuestMoved
  <2>4. phase \in {"none", "first-boot"} => ~ guest'.armed /\ ~ guest'.profile
    BY <1>4 DEF GuestTrue, GuestMoved
  <2>5. level = "full" => Configured' /\ seed.keys = ~ IsWindows(recipe)
    BY <1>1, <1>5 DEF GuestTrue, Configured
  <2>6. QED
    BY <1>1, <1>4, <1>5, <2>1, <2>2, <2>3, <2>4, <2>5 DEF GuestTrue, GuestMoved
<1>8. InitTrue'
  <2>1. ASSUME ~ IsWindows(recipe), pc = "ping" \/ (phase = "first-boot" /\ pc = "check"),
               guest'.init = "done"
        PROVE  guest'.initBoot = guest'.boot
    <3>1. guest.init # "marked" /\ guest.power = "up"
      BY <1>5, <2>1 DEF GuestTrue
    <3>2. guest'.boot = guest.boot
      BY <1>4, <3>1 DEF GuestMoved
    <3>3. QED
      BY <1>4, <2>1, <3>2 DEF InitTrue, GuestMoved
  <2>2. QED
    BY <1>1, <1>4, <2>1 DEF InitTrue, GuestMoved
<1>9. RebootsTrue'
  <2>1. ASSUME phase # "none", pc # "check" PROVE guest.init = "done"
    BY <2>1 DEF InitTrue
  <2>2. ASSUME phase \in {"post-reboot", "post-logon"} PROVE guest.init = "done"
    BY <2>2 DEF InitTrue
  <2>3. ASSUME pc = "reboot" PROVE before = guest'.boot /\ guest'.initBoot <= before
    <3>1. guest.init = "done"
      BY <2>1, <2>3 DEF PhasesTrue, BeforeInit, Checking, Phases
    <3>2. guest.power = "up"
      BY <1>5, <2>3, <3>1 DEF GuestTrue
    <3>3. QED
      BY <1>4, <2>3, <3>1, <3>2 DEF RebootsTrue, GuestMoved
  <2>4. ASSUME pc = "confirm"
        PROVE  /\ before <= guest'.boot /\ guest'.initBoot <= before
               /\ before # guest'.boot => guest'.power = "up"
    <3>1. guest.init = "done"
      BY <2>1, <2>4 DEF PhasesTrue, BeforeInit, Checking, Phases
    <3>2. guest'.init = "done" /\ guest'.initBoot = guest.initBoot
      BY <1>4, <3>1 DEF GuestMoved
    <3>3. before <= guest.boot /\ (before # guest.boot => guest.power = "up")
          /\ guest.initBoot <= before
      BY <2>4 DEF RebootsTrue
    <3>4. CASE guest'.boot = guest.boot
      <4>1. before # guest.boot => guest'.power = "up"
        BY <1>4, <3>2, <3>3 DEF GuestMoved
      <4>2. QED
        BY <3>2, <3>3, <3>4, <4>1
    <3>5. CASE guest'.boot # guest.boot
      BY <1>2, <1>4, <3>2, <3>3, <3>5 DEF GuestMoved
    <3>6. QED
      BY <3>4, <3>5
  <2>5. ASSUME phase \in {"post-reboot", "post-logon"} PROVE guest'.initBoot < guest'.boot
    BY <1>2, <1>4, <2>2, <2>5 DEF RebootsTrue, GuestMoved
  <2>6. ASSUME phase = "post-logon" \/ pc \in {"frame", "judge"}, IsWindows(recipe)
        PROVE  guest'.session \/ "late" \in mishaps
    <3>1. phase = "post-logon" /\ pc \notin {"reboot", "confirm", "baseline"}
      BY <2>6 DEF PhasesTrue, LastPhase
    <3>2. guest.init = "done" /\ guest.power = "up"
      BY <1>5, <2>2, <3>1 DEF GuestTrue
    <3>3. QED
      BY <1>4, <2>6, <3>2 DEF RebootsTrue, GuestMoved
  <2>7. QED
    BY <1>1, <2>3, <2>4, <2>5, <2>6 DEF RebootsTrue
<1>10. SilenceTrue'
  <2>1. ASSUME pc \in {"check", "baseline"} PROVE silence' = silence
    <3>1. guest.init # "marked"
      BY <2>1 DEF PhasesTrue, GuestTrue, InitTrue, Checking, Phases
    <3>2. guest.power = "up"
      BY <1>5, <2>1, <3>1 DEF GuestTrue
    <3>3. QED
      BY <1>4, <3>2 DEF GuestMoved
  <2>2. QED
    BY <1>1, <2>1 DEF SilenceTrue
<1>11. QED
  BY <1>7, <1>8, <1>9, <1>10

-----------------------------------------------------------------------------
(* The judge moves.                                                         *)

LEMMA NothingRan ==
  ASSUME GuestTypeOK, phase = "none"
  PROVE  \A k \in DOMAIN SuiteFor(recipe) : ~ Ran(k)
BY SuiteIsSound DEF GuestTypeOK, Ran, Fits, FitsAs, Phases

LEMMA ThrowSentences ==
  ASSUME Throw, mishaps' = mishaps \cup {"disturbed"}
  PROVE  pc' = "ended" /\ Sentenced'
BY DEF Throw, Sentenced, FlawsFail, SoundImagePasses

LEMMA TimeoutSentences ==
  ASSUME TimesOut
  PROVE  pc' = "ended" /\ Sentenced'
BY ThrowSentences DEF TimesOut, Mishap

LEMMA KeptStart ==
  ASSUME GuestTypeOK, Kept, GuestTypeOK', PrepareCloudInit
  PROVE  (pc' # "ended" /\ Kept') \/ (pc' = "ended" /\ Sentenced')
<1>1. CASE Throw
  BY <1>1, ThrowSentences DEF PrepareCloudInit, Proceed, Mishap, Throw
<1>2. CASE ~ Throw
  <2>1. /\ pc = "prepare" /\ pc' = "start" /\ tries' = 0
        /\ UNCHANGED <<recipe, level, flaw, guest, silence, phase, next, stable, before, failed,
                       verdict, mishaps>>
    BY <1>2 DEF PrepareCloudInit, Proceed
  <2>2. level = "full" => Configured' /\ seed'.keys = ~ IsWindows(recipe)
    <3>1. IsWindows(recipe) \in BOOLEAN
      BY DEF IsWindows
    <3>2. \A chars \in Shuffles : CloudInitSet(SentinelPassword(chars), IsWindows(recipe))
            = [lead |-> "alnum", keys |-> ~ IsWindows(recipe)]
      BY <3>1, SeedIs
    <3>3. level = "full" => \E chars \in Shuffles :
             seed' = CloudInitSet(SentinelPassword(chars), IsWindows(recipe))
      BY <1>2 DEF PrepareCloudInit
    <3>4. level = "full" => seed' = [lead |-> "alnum", keys |-> ~ IsWindows(recipe)]
      BY <3>2, <3>3
    <3>5. QED
      BY <3>1, <3>4 DEF Configured
  <2>3. PhasesTrue' /\ (AgentAnswers => SoundTrue')
    BY <2>1 DEF Kept, PhasesTrue, SoundTrue, BeforeInit, Checking
  <2>4. phase = "none"
    BY <2>1 DEF Kept, PhasesTrue, BeforeInit
  <2>5. ChecksTrue'
    <3>1. \A k \in DOMAIN SuiteFor(recipe) : ~ Ran(k)
      BY <2>4, NothingRan
    <3>2. QED
      BY <2>1, <2>4, <3>1 DEF ChecksTrue, Ran
  <2>6. ASSUME Clear' PROVE GuestTrue' /\ InitTrue' /\ RebootsTrue' /\ SilenceTrue'
    <3>1. GuestTrue
      BY <2>1, <2>6 DEF Kept, Clear
    <3>2. GuestTrue'
      BY <2>1, <2>2, <2>4, <3>1 DEF GuestTrue
    <3>3. QED
      BY <2>1, <2>4, <3>1, <3>2 DEF GuestTrue, InitTrue, RebootsTrue, SilenceTrue
  <2>7. QED
    BY <2>1, <2>3, <2>5, <2>6 DEF Kept
<1>3. QED
  BY <1>1, <1>2

LEMMA KeptPing ==
  ASSUME GuestTypeOK, Kept, GuestTypeOK', QmStart
  PROVE  (pc' # "ended" /\ Kept') \/ (pc' = "ended" /\ Sentenced')
<1>1. CASE Throw
  BY <1>1, ThrowSentences DEF QmStart, Proceed, Mishap, Throw
<1>2. CASE ~ Throw
  <2>1. /\ pc = "start" /\ pc' = "ping" /\ tries' = 0
        /\ guest' = [guest EXCEPT !.power = "up", !.boot = 1]
        /\ UNCHANGED <<recipe, level, flaw, seed, silence, phase, next, stable, before, failed,
                       verdict, mishaps>>
    BY <1>2 DEF QmStart, Proceed
  <2>2. /\ guest'.power = "up" /\ guest'.boot = 1 /\ guest'.init = guest.init
        /\ guest'.initBoot = guest.initBoot /\ guest'.armed = guest.armed
        /\ guest'.profile = guest.profile
    BY <2>1 DEF GuestTypeOK
  <2>3. PhasesTrue' /\ (AgentAnswers => SoundTrue')
    BY <2>1 DEF Kept, PhasesTrue, SoundTrue, BeforeInit, Checking
  <2>4. phase = "none"
    BY <2>1 DEF Kept, PhasesTrue, BeforeInit
  <2>5. ChecksTrue'
    <3>1. \A k \in DOMAIN SuiteFor(recipe) : ~ Ran(k)
      BY <2>4, NothingRan
    <3>2. QED
      BY <2>1, <2>4, <3>1 DEF ChecksTrue, Ran
  <2>6. ASSUME Clear' PROVE GuestTrue' /\ InitTrue' /\ RebootsTrue' /\ SilenceTrue'
    <3>1. GuestTrue /\ guest.initBoot \in Nat
      BY <2>1, <2>6 DEF Kept, Clear, GuestTypeOK
    <3>2. guest.initBoot = 0 /\ guest.init = "waiting"
      BY <2>1, <3>1 DEF GuestTrue
    <3>3. GuestTrue'
      BY <2>1, <2>2, <2>4, <3>1, <3>2 DEF GuestTrue, Configured
    <3>4. QED
      BY <2>1, <2>2, <2>4, <3>2, <3>3 DEF InitTrue, RebootsTrue, SilenceTrue
  <2>7. QED
    BY <2>1, <2>3, <2>5, <2>6 DEF Kept
<1>3. QED
  BY <1>1, <1>2

\* While the judge waits for a guest that is to initialise itself.
LEMMA WaitKeeps ==
  ASSUME GuestTypeOK, Kept, pc \in {"ping", "idle", "settled"}, pc' \in {"ping", "idle", "settled"},
         UNCHANGED <<recipe, level, flaw, seed, guest, phase, failed, verdict, mishaps>>,
         pc' = "ping" => pc = "ping",
         pc' # "ping" => IsWindows(recipe) /\ level = "full",
         pc' = "settled" => guest.init = "done"
  PROVE  pc' # "ended" /\ Kept'
<1>1. PhasesTrue' /\ (AgentAnswers => SoundTrue')
  BY DEF Kept, PhasesTrue, SoundTrue, BeforeInit, Checking
<1>2. phase = "none" /\ phase' = "none"
  BY DEF Kept, PhasesTrue, BeforeInit
<1>3. ChecksTrue'
  <2>1. \A k \in DOMAIN SuiteFor(recipe) : ~ Ran(k)
    BY <1>2, NothingRan
  <2>2. QED
    BY <1>2, <2>1 DEF ChecksTrue, Ran
<1>4. ASSUME Clear' PROVE GuestTrue' /\ InitTrue' /\ RebootsTrue' /\ SilenceTrue'
  <2>1. GuestTrue /\ InitTrue
    BY <1>4 DEF Kept, Clear
  <2>2. GuestTrue'
    BY <2>1 DEF GuestTrue, Configured
  <2>3. QED
    BY <1>2, <2>1, <2>2 DEF InitTrue, RebootsTrue, SilenceTrue
<1>5. QED
  BY <1>1, <1>3, <1>4 DEF Kept

\* The first phase begins with a guest that is up, on Windows with one that is initialised.
LEMMA FirstPhaseKeeps ==
  ASSUME GuestTypeOK, Kept, GuestTypeOK', pc \in {"ping", "settled"}, StartPhase("first-boot"),
         UNCHANGED <<recipe, level, flaw, seed, guest, mishaps>>, level = "full",
         IsWindows(recipe) => pc = "settled"
  PROVE  pc' # "ended" /\ Kept'
<1>1. /\ pc' = "check" /\ phase' = "first-boot" /\ next' = 1 /\ tries' = 0
      /\ UNCHANGED <<before, failed, verdict>> /\ silence' \in Nat
  BY GuestAssumption DEF StartPhase, GuestTypeOK
<1>2. PhasesTrue' /\ (AgentAnswers => SoundTrue')
  BY <1>1 DEF Kept, PhasesTrue, SoundTrue, BeforeInit, Checking, Phases
<1>3. ChecksTrue'
  <2>1. \A k \in DOMAIN SuiteFor(recipe) : k \in Nat /\ k >= 1
    BY SuiteIsSound DEF GuestTypeOK
  <2>2. QED
    BY <1>1, <2>1 DEF ChecksTrue, Ran
<1>4. ASSUME Clear' PROVE GuestTrue' /\ InitTrue' /\ RebootsTrue' /\ SilenceTrue'
  <2>1. GuestTrue /\ InitTrue /\ phase = "none"
    BY <1>1, <1>4 DEF Kept, Clear, PhasesTrue, BeforeInit
  <2>2. GuestTrue'
    BY <1>1, <2>1 DEF GuestTrue, Configured
  <2>3. InitTrue'
    <3>1. ASSUME ~ IsWindows(recipe) PROVE pc = "ping"
      BY <3>1 DEF Kept, PhasesTrue
    <3>2. QED
      BY <1>1, <2>1, <3>1 DEF InitTrue
  <2>4. QED
    BY <1>1, <2>2, <2>3 DEF RebootsTrue, SilenceTrue, TransportAttempts
<1>5. QED
  BY <1>1, <1>2, <1>3, <1>4 DEF Kept

LEMMA KeptPings ==
  ASSUME GuestTypeOK, Kept, GuestTypeOK', PingGuest
  PROVE  (pc' # "ended" /\ Kept') \/ (pc' = "ended" /\ Sentenced')
<1>1. /\ pc = "ping" /\ UNCHANGED <<recipe, level, flaw, seed, guest>>
      /\ level \in {"quick", "full"} /\ verdict = "none"
  BY GuestAssumption DEF PingGuest, GuestTypeOK, Kept, PhasesTrue
<1>2. CASE verdict' = "passed" /\ pc' = "ended" /\ level = "quick"
  BY <1>1, <1>2 DEF Sentenced, FlawsFail, SoundImagePasses
<1>3. CASE Proceed("idle") /\ IsWindows(recipe) /\ level = "full" /\ UNCHANGED mishaps
  BY <1>1, <1>3, WaitKeeps DEF Proceed
<1>4. CASE StartPhase("first-boot") /\ ~ IsWindows(recipe) /\ level = "full" /\ UNCHANGED mishaps
  BY <1>1, <1>4, FirstPhaseKeeps
<1>5. CASE PollAgain /\ UNCHANGED mishaps
  BY <1>1, <1>5, WaitKeeps DEF PollAgain
<1>6. CASE TimesOut
  BY <1>6, TimeoutSentences
<1>7. QED
  <2>1. level # "quick" => level = "full"
    BY <1>1
  <2>2. QED
    BY <1>2, <1>3, <1>4, <1>5, <1>6, <2>1 DEF PingGuest

LEMMA KeptIdle ==
  ASSUME GuestTypeOK, Kept, GuestTypeOK', WaitForIdle
  PROVE  (pc' # "ended" /\ Kept') \/ (pc' = "ended" /\ Sentenced')
<1>1. /\ pc = "idle" /\ UNCHANGED <<recipe, level, flaw, seed, guest>>
      /\ IsWindows(recipe) /\ level = "full"
  BY DEF WaitForIdle, Kept, PhasesTrue
<1>2. CASE /\ pc' = "settled" /\ CloudbaseIdle
           /\ UNCHANGED <<phase, next, tries, stable, before, failed, verdict, mishaps>>
  BY <1>1, <1>2, WaitKeeps DEF CloudbaseIdle
<1>3. CASE PollAgain /\ UNCHANGED mishaps
  BY <1>1, <1>3, WaitKeeps DEF PollAgain
<1>4. CASE TimesOut
  BY <1>4, TimeoutSentences
<1>5. QED
  BY <1>2, <1>3, <1>4 DEF WaitForIdle

LEMMA KeptSettled ==
  ASSUME GuestTypeOK, Kept, GuestTypeOK', WaitForSettled
  PROVE  (pc' # "ended" /\ Kept') \/ (pc' = "ended" /\ Sentenced')
<1>1. /\ pc = "settled" /\ UNCHANGED <<recipe, level, flaw, seed, guest>>
      /\ IsWindows(recipe) /\ level = "full"
  BY DEF WaitForSettled, Kept, PhasesTrue
<1>2. CASE StartPhase("first-boot") /\ UNCHANGED mishaps
  BY <1>1, <1>2, FirstPhaseKeeps
<1>3. CASE pc' = "idle" /\ UNCHANGED <<phase, next, before, failed, verdict, mishaps>>
  BY <1>1, <1>3, WaitKeeps
<1>4. CASE TimesOut
  BY <1>4, TimeoutSentences
<1>5. QED
  BY <1>2, <1>3, <1>4 DEF WaitForSettled

\* While the guest is up, an unanswered call makes its silence longer.
LEMMA SilenceGrows ==
  ASSUME GuestTypeOK, NEW reply, GuestExec(reply), Transport(reply), guest.power = "up"
  PROVE  silence' > MaxOutage \/ silence' = silence + 1
BY GuestAssumption DEF GuestTypeOK, GuestExec, Transport

\* The guest that is checked is up.
LEMMA CheckedIsUp ==
  ASSUME PhasesTrue, GuestTrue, InitTrue, pc \in {"check", "baseline"}
  PROVE  guest.power = "up"
<1>1. guest.init # "marked"
  BY DEF PhasesTrue, GuestTrue, InitTrue, Checking, Phases
<1>2. QED
  BY <1>1 DEF GuestTrue

\* A call that got no answer in time, after the attempts of those that tried enough.
LEMMA OutageIsLong ==
  ASSUME GuestTypeOK, PhasesTrue, GuestTrue, InitTrue, SilenceTrue, pc \in {"check", "baseline"},
         NEW reply, GuestExec(reply), Transport(reply), "disturbed" \notin mishaps
  PROVE  /\ tries + 1 <= silence' \/ silence' > MaxOutage
         /\ tries + 1 >= TransportAttempts /\ AgentAnswers => silence' > MaxOutage
<1>1. silence' > MaxOutage \/ silence' = silence + 1
  BY CheckedIsUp, SilenceGrows
<1>2. tries <= silence \/ silence > MaxOutage
  BY DEF SilenceTrue
<1>3. MaxOutage \in Nat /\ tries \in Nat /\ silence \in Nat
  BY GuestAssumption DEF GuestTypeOK
<1>4. silence > MaxOutage => silence' > MaxOutage
  BY <1>1, <1>3
<1>5. tries + 1 <= silence' \/ silence' > MaxOutage
  BY <1>1, <1>2, <1>3, <1>4
<1>6. ASSUME tries + 1 >= 4, MaxOutage < 4 PROVE silence' > MaxOutage
  BY <1>1, <1>3, <1>5, <1>6
<1>7. QED
  BY <1>5, <1>6 DEF AgentAnswers, TransportAttempts

\* A check that an initialised guest passes, unless its image has the flaw.
LEMMA SoundIsObserved ==
  ASSUME GuestTypeOK, PhasesTrue, GuestTrue, InitTrue, RebootsTrue, pc = "check",
         NEW c, Fits(recipe, c), c.phase = phase, guest.init = "done",
         flaw = "none", "late" \notin mishaps
  PROVE  Observed(c.id)
<1>1. level = "full"
  BY DEF PhasesTrue, Checking
<1>2. c.id \in AppliedFromUserData => Configured
  BY <1>1 DEF GuestTrue
<1>3. c.id \in NewOnThisBoot => guest.boot = guest.initBoot
  BY DEF Fits, FitsAs, InitTrue
<1>4. c.id = "cloudbase-init-completed" => ~ seed.keys
  BY <1>1 DEF Fits, FitsAs, GuestTrue
<1>5. c.id = "build-profile-removed" => ~ guest.profile
  BY DEF Fits, FitsAs, GuestTrue
<1>6. c.id = "shell-session-present" => guest.session
  BY DEF Fits, FitsAs, RebootsTrue
<1>7. c.id # flaw
  BY DEF Fits, FitsAs
<1>8. QED
  BY <1>2, <1>3, <1>4, <1>5, <1>6, <1>7 DEF Observed

\* A check that asserts the absence of the flaw is not passed, unless the desktop is late.
LEMMA FlawIsObserved ==
  ASSUME GuestTypeOK, PhasesTrue, RebootsTrue, pc = "check",
         NEW c, Fits(recipe, c), c.phase = phase, c.id = flaw, Observed(c.id)
  PROVE  flaw = "shell-no-crashes" /\ "late" \in mishaps
<1>1. CASE flaw \in AfterCleanReboot
  <2>1. guest.boot = guest.initBoot
    BY <1>1 DEF Observed, AfterCleanReboot
  <2>2. guest.initBoot < guest.boot
    BY <1>1 DEF Fits, FitsAs, RebootsTrue
  <2>3. QED
    BY <2>1, <2>2 DEF GuestTypeOK
<1>2. CASE flaw = "shell-no-crashes"
  <2>1. ~ guest.session
    BY <1>2 DEF Observed, AfterCleanReboot
  <2>2. phase = "post-logon" /\ IsWindows(recipe)
    BY <1>2 DEF Fits, FitsAs
  <2>3. QED
    BY <1>2, <2>1, <2>2 DEF RebootsTrue
<1>3. CASE flaw \notin AfterCleanReboot /\ flaw # "shell-no-crashes"
  BY <1>3 DEF Observed
<1>4. QED
  BY <1>1, <1>2, <1>3

LEMMA KeptCheck ==
  ASSUME GuestTypeOK, Kept, GuestTypeOK', RunCheck
  PROVE  pc' # "ended" /\ Kept'
<1> DEFINE check(k) == SuiteFor(recipe)[k]
<1>1. PICK k \in ToRun, reply \in Reply, thrown \in BOOLEAN :
        /\ \A j \in ToRun : k <= j
        /\ GuestExec(reply)
        /\ reply = "answer" => ~ Blocks(check(k).id)
        /\ thrown => reply = "answer" /\ IsWindows(recipe)
        /\ IF Transport(reply) /\ tries + 1 < TransportAttempts
           THEN /\ tries' = tries + 1
                /\ UNCHANGED <<next, failed, mishaps>>
           ELSE /\ Report(IF thrown THEN check(k).severity ELSE Evaluate(check(k), reply))
                /\ next' = k + 1 /\ tries' = 0
                /\ IF thrown THEN Mishap("thrown", TRUE)
                   ELSE Mishap("disturbed", Disturbed(reply))
  BY Zenon DEF RunCheck
<1>2. /\ pc = "check" /\ pc' = "check"
      /\ UNCHANGED <<recipe, level, flaw, seed, guest, phase, stable, before, verdict>>
  BY DEF RunCheck
<1>3. /\ k \in DOMAIN SuiteFor(recipe) /\ check(k).phase = phase /\ k >= next
      /\ DOMAIN SuiteFor(recipe) \subseteq Nat \ {0}
      /\ Fits(recipe, check(k))
      /\ next \in Nat /\ tries \in Nat /\ silence \in Nat /\ silence' \in Nat
  BY GuestAssumption, SuiteIsSound DEF ToRun, ChecksForPhase, GuestTypeOK
<1>4. PhasesTrue /\ PhasesTrue'
  BY <1>2 DEF Kept, PhasesTrue, BeforeInit, Checking, LastPhase
<1>5. ASSUME Clear
      PROVE  GuestTrue /\ InitTrue /\ RebootsTrue /\ ChecksTrue /\ SilenceTrue
             /\ GuestTrue' /\ RebootsTrue'
             /\ guest.power = "up" /\ guest.init # "marked"
  <2>1. GuestTrue /\ InitTrue /\ RebootsTrue /\ ChecksTrue /\ SilenceTrue
    BY <1>5 DEF Kept
  <2>2. GuestTrue'
    BY <1>2, <2>1 DEF GuestTrue, Configured
  <2>3. "late" \in mishaps => "late" \in mishaps'
    BY <1>1 DEF Mishap
  <2>4. RebootsTrue'
    BY <1>2, <2>1, <2>3 DEF RebootsTrue
  <2>5. guest.init # "marked"
    BY <1>2, <1>4, <2>1 DEF PhasesTrue, GuestTrue, InitTrue, Checking, Phases
  <2>6. QED
    BY <1>2, <1>4, <2>1, <2>2, <2>4, <2>5, CheckedIsUp
<1>6. CASE Transport(reply) /\ tries + 1 < TransportAttempts
  <2>1. tries' = tries + 1 /\ UNCHANGED <<next, failed, mishaps>>
    BY <1>1, <1>6
  <2>2. AgentAnswers => SoundTrue'
    BY <1>2, <2>1 DEF Kept, SoundTrue
  <2>3. ASSUME Clear' PROVE GuestTrue' /\ InitTrue' /\ RebootsTrue' /\ ChecksTrue' /\ SilenceTrue'
    <3>1. Clear
      BY <2>1, <2>3 DEF Clear
    <3>2. InitTrue'
      BY <1>2, <1>5, <2>1, <3>1 DEF InitTrue
    <3>3. ChecksTrue'
      BY <1>2, <1>5, <2>1, <3>1 DEF ChecksTrue, Ran
    <3>4. SilenceTrue'
      <4>1. ASSUME "disturbed" \notin mishaps PROVE tries + 1 <= silence' \/ silence' > MaxOutage
        BY <1>1, <1>2, <1>4, <1>5, <1>6, <3>1, <4>1, OutageIsLong
      <4>2. QED
        BY <1>6, <2>1, <4>1 DEF SilenceTrue
    <3>5. QED
      BY <1>5, <3>1, <3>2, <3>3, <3>4
  <2>4. QED
    BY <1>2, <1>4, <2>2, <2>3 DEF Kept
<1>7. CASE ~ (Transport(reply) /\ tries + 1 < TransportAttempts)
  <2> DEFINE status == IF thrown THEN check(k).severity ELSE Evaluate(check(k), reply)
  <2>1. /\ failed' = (failed \/ status = "fail") /\ next' = k + 1 /\ tries' = 0
        /\ mishaps \subseteq mishaps' /\ mishaps' \subseteq mishaps \cup {"disturbed", "thrown"}
        /\ IF thrown THEN "thrown" \in mishaps' ELSE Disturbed(reply) => "disturbed" \in mishaps'
    <3>1. /\ Report(status) /\ next' = k + 1 /\ tries' = 0
          /\ IF thrown THEN Mishap("thrown", TRUE)
             ELSE Mishap("disturbed", Disturbed(reply))
      BY <1>1, <1>7
    <3>2. QED
      BY <3>1 DEF Report, Mishap
  <2>2. status # "fail" /\ check(k).severity = "fail" => reply = "answer" /\ Observed(check(k).id)
    BY DEF Evaluate
  <2>3. guest.init = "done" \/ (~ IsWindows(recipe) /\ k = 1 /\ check(k).id = "cloud-init-done"
                                 /\ check(k).severity = "fail")
        \/ ~ Clear
    <3>1. ASSUME guest.init # "done", Clear PROVE ~ IsWindows(recipe) /\ phase = "first-boot" /\ next = 1
      <4>1. phase # "none"
        BY <1>2, <1>4 DEF PhasesTrue, Checking, Phases
      <4>2. QED
        BY <1>5, <3>1, <4>1 DEF InitTrue
    <3>2. ASSUME ~ IsWindows(recipe), phase = "first-boot", next = 1
          PROVE  k = 1 /\ check(k).id = "cloud-init-done" /\ check(k).severity = "fail"
      <4>1. /\ 1 \in DOMAIN SuiteFor(recipe)
            /\ check(1) = [id |-> "cloud-init-done", phase |-> "first-boot", severity |-> "fail"]
        BY <3>2, SuiteIsSound DEF GuestTypeOK
      <4>2. 1 \in ToRun
        BY <3>2, <4>1 DEF ToRun, ChecksForPhase
      <4>3. k = 1
        BY <1>1, <1>3, <4>2
      <4>4. QED
        BY <4>1, <4>3
    <3>3. QED
      BY <3>1, <3>2
  <2>4. ASSUME AgentAnswers, flaw = "none", mishaps' \subseteq {"blind"}
        PROVE  ~ failed'
    <3>1. ~ failed /\ Clear /\ "late" \notin mishaps /\ "disturbed" \notin mishaps
      BY <2>1, <2>4 DEF Kept, SoundTrue, Clear
    <3>2. ~ thrown /\ ~ Disturbed(reply)
      BY <2>1, <2>4
    <3>3. reply = "answer"
      <4>1. reply # "slow"
        BY <3>2 DEF Disturbed
      <4>2. ASSUME Transport(reply) PROVE FALSE
        <5>1. tries + 1 >= TransportAttempts
          BY <1>3, <1>7, <4>2 DEF TransportAttempts
        <5>2. silence' > MaxOutage
          BY <1>1, <1>2, <1>4, <1>5, <2>4, <3>1, <4>2, <5>1, OutageIsLong
        <5>3. QED
          BY <3>2, <5>2 DEF Disturbed
      <4>3. QED
        BY <4>1, <4>2 DEF Reply, Transport
    <3>4. guest.init = "done"
      BY <1>1, <2>3, <2>4, <3>1, <3>3 DEF Blocks, Stuck
    <3>5. Observed(check(k).id)
      BY <1>2, <1>3, <1>4, <1>5, <2>4, <3>1, <3>4, SoundIsObserved
    <3>6. status = "pass"
      BY <3>2, <3>3, <3>5 DEF Evaluate
    <3>7. QED
      BY <2>1, <3>1, <3>6
  <2>5. ASSUME Clear' PROVE GuestTrue' /\ InitTrue' /\ RebootsTrue' /\ ChecksTrue' /\ SilenceTrue'
    <3>1. Clear /\ status # "fail"
      BY <2>1, <2>5 DEF Clear
    <3>2. InitTrue'
      <4>1. guest.init = "done"
        BY <2>2, <2>3, <3>1 DEF Observed, AppliedByInit
      <4>2. InitTrue
        BY <1>5, <3>1
      <4>3. QED
        BY <1>2, <4>1, <4>2 DEF InitTrue
    <3>3. ChecksTrue'
      <4>1. ASSUME NEW j \in DOMAIN SuiteFor(recipe), Ran(j)',
                   check(j).severity = "fail", check(j).id = flaw
            PROVE  flaw = "shell-no-crashes" /\ "late" \in mishaps'
        <5>1. Ran(j) \/ j = k
          <6>1. CASE check(j).phase = phase
            <7>1. j \in Nat /\ j < k + 1
              BY <1>2, <1>3, <2>1, <4>1, <6>1 DEF Ran, Phases, PhasesTrue
            <7>2. CASE j < next
              BY <6>1, <7>2 DEF Ran
            <7>3. CASE ~ (j < next)
              <8>1. j \in ToRun
                BY <1>3, <6>1, <7>1, <7>3 DEF ToRun, ChecksForPhase
              <8>2. QED
                BY <1>1, <1>3, <7>1, <8>1
            <7>4. QED
              BY <7>2, <7>3
          <6>2. CASE check(j).phase # phase
            BY <1>2, <4>1, <6>2 DEF Ran
          <6>3. QED
            BY <6>1, <6>2
        <5>2. CASE Ran(j)
          BY <1>5, <2>1, <3>1, <4>1, <5>2 DEF ChecksTrue
        <5>3. CASE j = k
          <6>1. Observed(check(k).id)
            BY <2>2, <3>1, <4>1, <5>3
          <6>2. RebootsTrue
            BY <1>5, <3>1
          <6>3. flaw = "shell-no-crashes" /\ "late" \in mishaps
            BY <1>2, <1>3, <1>4, <4>1, <5>3, <6>1, <6>2, FlawIsObserved
          <6>4. QED
            BY <2>1, <6>3
        <5>4. QED
          BY <5>1, <5>2, <5>3
      <4>2. QED
        BY <1>2, <4>1 DEF ChecksTrue
    <3>4. SilenceTrue'
      BY <1>3, <2>1 DEF SilenceTrue, TransportAttempts
    <3>5. QED
      BY <1>5, <3>1, <3>2, <3>3, <3>4
  <2>6. QED
    BY <1>2, <1>4, <2>4, <2>5 DEF Kept, SoundTrue
<1>8. QED
  BY <1>6, <1>7

\* A step of the judge alone that forgets no mishap.
LEMMA RebootsStay ==
  ASSUME RebootsTrue, UNCHANGED <<recipe, guest, phase, before>>, mishaps \subseteq mishaps',
         pc' \in {"reboot", "confirm"} => pc' = pc,
         pc' \in {"frame", "judge"} => pc \in {"frame", "judge"} \/ phase = "post-logon"
                                       \/ ~ IsWindows(recipe)
  PROVE  RebootsTrue'
BY DEF RebootsTrue

\* Beyond the checks of a phase, the guest is initialised.
LEMMA DoneBeyond ==
  ASSUME PhasesTrue, InitTrue, pc \in Checking \ {"check"}
  PROVE  guest.init = "done"
BY DEF PhasesTrue, InitTrue, Checking, Phases

LEMMA KeptPhase ==
  ASSUME GuestTypeOK, Kept, GuestTypeOK', PhaseEnds
  PROVE  pc' # "ended" /\ Kept'
<1>1. /\ pc = "check" /\ ToRun = {} /\ pc' = AfterPhase(phase) /\ tries' = 0
      /\ UNCHANGED <<recipe, level, flaw, seed, guest, silence, phase, next, stable, before,
                     failed, verdict, mishaps>>
  BY DEF PhaseEnds, Proceed
<1>2. PhasesTrue /\ phase \in Phases /\ level = "full" /\ verdict = "none"
  BY <1>1 DEF Kept, PhasesTrue, Checking
<1>3. /\ phase = "first-boot" => pc' = "baseline"
      /\ phase = "post-reboot" => pc' = IF IsWindows(recipe) THEN "arm" ELSE "frame"
      /\ phase = "post-logon" => pc' = "frame"
  BY <1>1 DEF AfterPhase
<1>4. pc' \in {"baseline", "arm", "frame"}
  BY <1>2, <1>3 DEF Phases
<1>5. PhasesTrue'
  BY <1>1, <1>2, <1>3, <1>4 DEF PhasesTrue, BeforeInit, Checking, LastPhase, Phases
<1>6. AgentAnswers => SoundTrue'
  BY <1>1 DEF Kept, SoundTrue
<1>7. ASSUME Clear' PROVE GuestTrue' /\ InitTrue' /\ RebootsTrue' /\ ChecksTrue' /\ SilenceTrue'
  <2>1. GuestTrue /\ InitTrue /\ RebootsTrue /\ ChecksTrue
    BY <1>1, <1>7 DEF Kept, Clear
  <2>2. guest.init = "done"
    <3>1. SUFFICES ASSUME ~ IsWindows(recipe), phase = "first-boot", next = 1 PROVE FALSE
      BY <1>2, <2>1 DEF InitTrue, Phases
    <3>2. /\ 1 \in DOMAIN SuiteFor(recipe)
          /\ SuiteFor(recipe)[1] = [id |-> "cloud-init-done", phase |-> "first-boot", severity |-> "fail"]
      BY <3>1, SuiteIsSound DEF GuestTypeOK
    <3>3. 1 \in ToRun
      BY <3>1, <3>2 DEF ToRun, ChecksForPhase
    <3>4. QED
      BY <1>1, <3>3
  <2>3. GuestTrue'
    BY <1>1, <1>4, <2>1 DEF GuestTrue, Configured
  <2>4. InitTrue'
    BY <1>1, <1>4, <2>2 DEF InitTrue
  <2>5. RebootsTrue'
    BY <1>1, <1>2, <1>3, <1>4, <2>1, RebootsStay DEF Phases
  <2>6. ASSUME NEW k \in DOMAIN SuiteFor(recipe), Ran(k)' PROVE Ran(k)
    <3>1. CASE SuiteFor(recipe)[k].phase = phase
      <4>1. ~ (k >= next)
        BY <1>1, <3>1 DEF ToRun, ChecksForPhase
      <4>2. k \in Nat /\ next \in Nat
        BY SuiteIsSound DEF GuestTypeOK
      <4>3. QED
        BY <3>1, <4>1, <4>2 DEF Ran
    <3>2. CASE SuiteFor(recipe)[k].phase # phase
      BY <1>1, <2>6, <3>2 DEF Ran
    <3>3. QED
      BY <3>1, <3>2
  <2>7. ChecksTrue'
    BY <1>1, <1>4, <2>1, <2>6 DEF ChecksTrue
  <2>8. SilenceTrue'
    BY <1>1 DEF SilenceTrue, TransportAttempts, GuestTypeOK
  <2>9. QED
    BY <2>3, <2>4, <2>5, <2>7, <2>8
<1>8. QED
  BY <1>4, <1>5, <1>6, <1>7 DEF Kept

LEMMA KeptArmed ==
  ASSUME GuestTypeOK, Kept, GuestTypeOK', ArmAutologon
  PROVE  pc' # "ended" /\ Kept'
<1>1. /\ pc = "arm" /\ pc' = "baseline" /\ tries' = 0
      /\ UNCHANGED <<recipe, level, flaw, seed, phase, next, stable, before, failed, verdict>>
      /\ mishaps \subseteq mishaps' /\ mishaps' \subseteq mishaps \cup {"disturbed"}
      /\ guest' \in {guest, [guest EXCEPT !.armed = TRUE, !.armBoot = guest.boot]}
  BY DEF ArmAutologon, Proceed, Mishap
<1>2. /\ guest'.power = guest.power /\ guest'.boot = guest.boot /\ guest'.init = guest.init
      /\ guest'.initBoot = guest.initBoot /\ guest'.session = guest.session
  BY <1>1 DEF GuestTypeOK
<1>3. PhasesTrue /\ phase = "post-reboot"
  BY <1>1 DEF Kept, PhasesTrue
<1>4. PhasesTrue'
  BY <1>1, <1>3 DEF PhasesTrue, BeforeInit, Checking, LastPhase, Phases
<1>5. AgentAnswers => SoundTrue'
  BY <1>1 DEF Kept, SoundTrue
<1>6. ASSUME Clear' PROVE GuestTrue' /\ InitTrue' /\ RebootsTrue' /\ ChecksTrue' /\ SilenceTrue'
  <2>1. GuestTrue /\ InitTrue /\ RebootsTrue /\ ChecksTrue
    BY <1>1, <1>6 DEF Kept, Clear
  <2>2. guest.init = "done"
    BY <1>1, <1>3, <2>1, DoneBeyond DEF Checking
  <2>3. GuestTrue' /\ InitTrue' /\ RebootsTrue'
    BY <1>1, <1>2, <1>3, <2>1, <2>2 DEF GuestTrue, InitTrue, RebootsTrue, Configured
  <2>4. ChecksTrue'
    BY <1>1, <2>1 DEF ChecksTrue, Ran
  <2>5. SilenceTrue'
    BY <1>1 DEF SilenceTrue, TransportAttempts, GuestTypeOK
  <2>6. QED
    BY <2>3, <2>4, <2>5
<1>7. QED
  BY <1>1, <1>4, <1>5, <1>6 DEF Kept

\* A boot id that was not misread is that of the boot.
LEMMA IdsAreTrue ==
  ASSUME GuestTypeOK, NEW reply, NEW said \in BootIdReplies(reply), guest.boot > 0
  PROVE  /\ said = NoId => reply # "answer"
         /\ said # NoId => said = Exception \/ said = guest.boot
BY DEF GuestTypeOK, BootIdReplies, NoId, Exception

LEMMA KeptBaseline ==
  ASSUME GuestTypeOK, Kept, GuestTypeOK', ReadBaseline
  PROVE  (pc' # "ended" /\ Kept') \/ (pc' = "ended" /\ Sentenced')
<1>1. PICK reply \in Reply : \E said \in BootIdReplies(reply) :
        /\ GuestExec(reply)
        /\ IF said # NoId
           THEN /\ before' = said /\ pc' = "reboot" /\ tries' = 0
                /\ Mishap("misread", said = Exception)
                /\ UNCHANGED <<phase, next, stable, failed, verdict>>
           ELSE /\ Mishap("disturbed", Disturbed(reply))
                /\ IF tries + 1 < BootIdAttempts
                   THEN /\ tries' = tries + 1
                        /\ UNCHANGED <<pc, phase, next, stable, before, failed, verdict>>
                   ELSE Throw
  BY Zenon DEF ReadBaseline
<1>2. PICK said \in BootIdReplies(reply) :
        /\ GuestExec(reply)
        /\ IF said # NoId
           THEN /\ before' = said /\ pc' = "reboot" /\ tries' = 0
                /\ Mishap("misread", said = Exception)
                /\ UNCHANGED <<phase, next, stable, failed, verdict>>
           ELSE /\ Mishap("disturbed", Disturbed(reply))
                /\ IF tries + 1 < BootIdAttempts
                   THEN /\ tries' = tries + 1
                        /\ UNCHANGED <<pc, phase, next, stable, before, failed, verdict>>
                   ELSE Throw
  BY <1>1, Zenon
<1>3. pc = "baseline" /\ UNCHANGED <<recipe, level, flaw, seed, guest>>
  BY DEF ReadBaseline
<1>4. PhasesTrue
  BY <1>3 DEF Kept
<1>5. ASSUME Clear
      PROVE  /\ GuestTrue /\ InitTrue /\ RebootsTrue /\ ChecksTrue /\ SilenceTrue
             /\ guest.init = "done" /\ guest.boot > 0 /\ guest.boot \in Nat
  <2>1. GuestTrue /\ InitTrue /\ RebootsTrue /\ ChecksTrue /\ SilenceTrue
    BY <1>5 DEF Kept
  <2>2. QED
    BY <1>3, <1>4, <2>1, DoneBeyond DEF GuestTrue, Checking, GuestTypeOK
<1>6. CASE said # NoId
  <2>1. /\ before' = said /\ pc' = "reboot" /\ tries' = 0
        /\ UNCHANGED <<phase, next, stable, failed, verdict>>
        /\ mishaps \subseteq mishaps' /\ mishaps' \subseteq mishaps \cup {"misread"}
        /\ said = Exception => "misread" \in mishaps'
    BY <1>2, <1>6 DEF Mishap
  <2>2. PhasesTrue'
    BY <1>3, <1>4, <2>1 DEF PhasesTrue, BeforeInit, Checking, LastPhase, Phases
  <2>3. AgentAnswers => SoundTrue'
    BY <1>3, <2>1 DEF Kept, SoundTrue
  <2>4. ASSUME Clear' PROVE GuestTrue' /\ InitTrue' /\ RebootsTrue' /\ ChecksTrue' /\ SilenceTrue'
    <3>1. Clear /\ said # Exception
      BY <2>1, <2>4 DEF Clear
    <3>2. said = guest.boot
      BY <1>2, <1>5, <1>6, <3>1, IdsAreTrue
    <3>3. GuestTrue' /\ InitTrue'
      BY <1>3, <1>5, <2>1, <3>1 DEF GuestTrue, InitTrue, Configured
    <3>4. RebootsTrue'
      BY <1>3, <1>4, <1>5, <2>1, <3>1, <3>2 DEF RebootsTrue, GuestTrue, PhasesTrue
    <3>5. ChecksTrue'
      BY <1>3, <1>5, <2>1, <3>1 DEF ChecksTrue, Ran
    <3>6. SilenceTrue'
      BY <2>1 DEF SilenceTrue
    <3>7. QED
      BY <3>3, <3>4, <3>5, <3>6
  <2>5. QED
    BY <2>1, <2>2, <2>3, <2>4 DEF Kept
<1>7. CASE said = NoId
  <2>1. /\ mishaps \subseteq mishaps' /\ mishaps' \subseteq mishaps \cup {"disturbed"}
        /\ Disturbed(reply) => "disturbed" \in mishaps'
        /\ GuestExec(reply)
    BY <1>2, <1>7 DEF Mishap
  <2>2. ASSUME Clear, "disturbed" \notin mishaps'
        PROVE  /\ Transport(reply) /\ "disturbed" \notin mishaps /\ ~ (silence' > MaxOutage)
               /\ tries + 1 <= silence'
               /\ ~ (tries + 1 >= TransportAttempts /\ AgentAnswers)
    <3>1. reply # "answer" /\ reply # "slow" /\ ~ (silence' > MaxOutage) /\ "disturbed" \notin mishaps
      BY <1>2, <1>5, <1>7, <2>1, <2>2, IdsAreTrue DEF Disturbed
    <3>2. Transport(reply)
      BY <3>1 DEF Reply, Transport
    <3>3. QED
      BY <1>3, <1>4, <1>5, <2>1, <2>2, <3>1, <3>2, OutageIsLong
  <2>3. CASE tries + 1 < BootIdAttempts
    <3>1. /\ tries' = tries + 1 /\ pc' = "baseline" /\ silence' \in Nat /\ tries \in Nat
          /\ UNCHANGED <<phase, next, stable, before, failed, verdict>>
      BY <1>2, <1>3, <1>7, <2>3, GuestAssumption DEF GuestTypeOK
    <3>2. PhasesTrue' /\ (AgentAnswers => SoundTrue')
      BY <1>3, <1>4, <2>1, <3>1 DEF PhasesTrue, LastPhase, Kept, SoundTrue
    <3>3. ASSUME Clear' PROVE GuestTrue' /\ InitTrue' /\ RebootsTrue' /\ ChecksTrue' /\ SilenceTrue'
      <4>1. Clear
        BY <2>1, <3>1, <3>3 DEF Clear
      <4>2. GuestTrue' /\ InitTrue' /\ RebootsTrue'
        BY <1>3, <1>5, <2>1, <3>1, <4>1 DEF GuestTrue, InitTrue, RebootsTrue, Configured
      <4>3. ChecksTrue'
        BY <1>3, <1>5, <2>1, <3>1, <4>1 DEF ChecksTrue, Ran
      <4>4. SilenceTrue'
        BY <2>2, <2>3, <3>1, <4>1 DEF SilenceTrue, BootIdAttempts, TransportAttempts
      <4>5. QED
        BY <4>2, <4>3, <4>4
    <3>4. QED
      BY <3>1, <3>2, <3>3 DEF Kept
  <2>4. CASE ~ (tries + 1 < BootIdAttempts)
    <3>1. Throw
      BY <1>2, <1>7, <2>4
    <3>2. ASSUME AgentAnswers, flaw = "none", "disturbed" \notin mishaps'
          PROVE  mishaps' \ {"blind"} # {}
      <4>1. SUFFICES ASSUME mishaps' \subseteq {"blind"} PROVE FALSE
        OBVIOUS
      <4>2. Clear
        BY <2>1, <3>2, <4>1 DEF Kept, SoundTrue, Clear
      <4>3. tries + 1 >= TransportAttempts
        BY <2>4 DEF BootIdAttempts, TransportAttempts, GuestTypeOK
      <4>4. QED
        BY <2>2, <3>2, <4>2, <4>3
    <3>3. AgentAnswers /\ flaw = "none" => mishaps' \ {"blind"} # {}
      BY <3>2
    <3>4. QED
      BY <1>3, <3>1, <3>3 DEF Throw, Sentenced, FlawsFail, SoundImagePasses
  <2>5. QED
    BY <2>3, <2>4
<1>8. QED
  BY <1>6, <1>7

LEMMA KeptTriggered ==
  ASSUME GuestTypeOK, Kept, GuestTypeOK', TriggerReboot
  PROVE  pc' # "ended" /\ Kept'
<1>1. /\ pc = "reboot" /\ pc' = "confirm" /\ tries' = 0
      /\ UNCHANGED <<recipe, level, flaw, seed, phase, next, stable, before, failed, verdict>>
      /\ mishaps \subseteq mishaps' /\ mishaps' \subseteq mishaps \cup {"disturbed"}
      /\ guest' \in {guest, [guest EXCEPT !.power = "stopping"]}
  BY DEF TriggerReboot, Proceed, Mishap
<1>2. /\ guest'.boot = guest.boot /\ guest'.init = guest.init /\ guest'.armed = guest.armed
      /\ guest'.initBoot = guest.initBoot /\ guest'.profile = guest.profile
      /\ guest.boot \in Nat
  BY <1>1 DEF GuestTypeOK
<1>3. PhasesTrue /\ phase \in {"first-boot", "post-reboot"}
  BY <1>1 DEF Kept, PhasesTrue
<1>4. PhasesTrue'
  BY <1>1, <1>3 DEF PhasesTrue, BeforeInit, Checking, LastPhase, Phases
<1>5. AgentAnswers => SoundTrue'
  BY <1>1 DEF Kept, SoundTrue
<1>6. ASSUME Clear' PROVE GuestTrue' /\ InitTrue' /\ RebootsTrue' /\ ChecksTrue' /\ SilenceTrue'
  <2>1. GuestTrue /\ InitTrue /\ RebootsTrue /\ ChecksTrue
    BY <1>1, <1>6 DEF Kept, Clear
  <2>2. guest.init = "done"
    BY <1>1, <1>3, <2>1, DoneBeyond DEF Checking
  <2>3. GuestTrue' /\ InitTrue' /\ RebootsTrue'
    BY <1>1, <1>2, <1>3, <2>1, <2>2 DEF GuestTrue, InitTrue, RebootsTrue, Configured
  <2>4. ChecksTrue'
    BY <1>1, <2>1 DEF ChecksTrue, Ran
  <2>5. SilenceTrue'
    BY <1>1 DEF SilenceTrue
  <2>6. QED
    BY <2>3, <2>4, <2>5
<1>7. QED
  BY <1>1, <1>4, <1>5, <1>6 DEF Kept

LEMMA KeptConfirmed ==
  ASSUME GuestTypeOK, Kept, GuestTypeOK', ConfirmReboot
  PROVE  (pc' # "ended" /\ Kept') \/ (pc' = "ended" /\ Sentenced')
<1>1. PICK reply \in Reply : \E said \in BootIdReplies(reply) :
        /\ GuestExec(reply)
        /\ IF NewBoot(said)
           THEN /\ IF phase = "first-boot" THEN StartPhase("post-reboot") ELSE Proceed("settle")
                /\ Mishap("misread", said = Exception)
           ELSE \/ PollAgain /\ UNCHANGED <<stable, mishaps>>
                \/ TimesOut
  BY Zenon DEF ConfirmReboot
<1>2. PICK said \in BootIdReplies(reply) :
        /\ GuestExec(reply)
        /\ IF NewBoot(said)
           THEN /\ IF phase = "first-boot" THEN StartPhase("post-reboot") ELSE Proceed("settle")
                /\ Mishap("misread", said = Exception)
           ELSE \/ PollAgain /\ UNCHANGED <<stable, mishaps>>
                \/ TimesOut
  BY <1>1, Zenon
<1>3. pc = "confirm" /\ UNCHANGED <<recipe, level, flaw, seed, guest>>
  BY DEF ConfirmReboot
<1>4. PhasesTrue
  BY <1>3 DEF Kept
<1>5. /\ phase = "first-boot" \/ (phase = "post-reboot" /\ IsWindows(recipe))
      /\ level = "full" /\ verdict = "none"
  BY <1>3, <1>4 DEF PhasesTrue, Checking
<1>6. ASSUME Clear
      PROVE  /\ GuestTrue /\ InitTrue /\ RebootsTrue /\ ChecksTrue
             /\ guest.init = "done" /\ guest.boot > 0
  <2>1. GuestTrue /\ InitTrue /\ RebootsTrue /\ ChecksTrue
    BY <1>6 DEF Kept
  <2>2. QED
    BY <1>3, <1>4, <2>1, DoneBeyond DEF GuestTrue, Checking
<1>7. CASE NewBoot(said)
  <2>1. /\ mishaps \subseteq mishaps' /\ mishaps' \subseteq mishaps \cup {"misread"}
        /\ said = Exception => "misread" \in mishaps'
    BY <1>2, <1>7 DEF Mishap
  <2>2. IF phase = "first-boot" THEN StartPhase("post-reboot") ELSE Proceed("settle")
    BY <1>2, <1>7
  <2>3. /\ UNCHANGED <<stable, before, failed, verdict>> /\ tries' = 0
        /\ phase = "first-boot" => pc' = "check" /\ phase' = "post-reboot" /\ next' = 1
        /\ phase # "first-boot" => pc' = "settle" /\ phase' = phase /\ next' = next
    BY <2>2 DEF StartPhase, Proceed
  <2>4. PhasesTrue'
    BY <1>3, <1>4, <1>5, <2>3 DEF PhasesTrue, BeforeInit, Checking, LastPhase, Phases
  <2>5. AgentAnswers => SoundTrue'
    BY <1>3, <2>1, <2>3 DEF Kept, SoundTrue
  <2>6. ASSUME Clear' PROVE GuestTrue' /\ InitTrue' /\ RebootsTrue' /\ ChecksTrue' /\ SilenceTrue'
    <3>1. Clear /\ said # Exception
      BY <2>1, <2>3, <2>6 DEF Clear
    <3>2. said = guest.boot /\ said # before
      BY <1>2, <1>6, <1>7, <3>1, IdsAreTrue DEF NewBoot
    <3>3. guest.power = "up" /\ guest.initBoot < guest.boot
      BY <1>3, <1>6, <3>1, <3>2 DEF RebootsTrue, GuestTypeOK
    <3>4. GuestTrue' /\ InitTrue'
      BY <1>3, <1>5, <1>6, <2>3, <3>1, <3>3 DEF GuestTrue, InitTrue, Configured
    <3>5. RebootsTrue'
      BY <1>3, <1>5, <1>6, <2>3, <3>1, <3>3 DEF RebootsTrue
    <3>6. ChecksTrue'
      <4>1. ASSUME NEW k \in DOMAIN SuiteFor(recipe), Ran(k)' PROVE Ran(k)
        <5>1. k \in Nat /\ ~ (k < 1)
          BY SuiteIsSound DEF GuestTypeOK
        <5>2. QED
          BY <1>3, <1>5, <2>3, <4>1, <5>1 DEF Ran
      <4>2. QED
        BY <1>3, <1>5, <1>6, <2>1, <2>3, <3>1, <4>1 DEF ChecksTrue
    <3>7. SilenceTrue'
      BY <2>3 DEF SilenceTrue, TransportAttempts, GuestTypeOK
    <3>8. QED
      BY <3>4, <3>5, <3>6, <3>7
  <2>7. QED
    BY <1>5, <2>3, <2>4, <2>5, <2>6 DEF Kept
<1>8. CASE PollAgain /\ UNCHANGED <<stable, mishaps>>
  <2>1. UNCHANGED <<pc, phase, next, before, failed, verdict, mishaps>>
    BY <1>8 DEF PollAgain
  <2>2. PhasesTrue' /\ (AgentAnswers => SoundTrue')
    BY <1>3, <1>4, <2>1 DEF PhasesTrue, LastPhase, Kept, SoundTrue
  <2>3. ASSUME Clear' PROVE GuestTrue' /\ InitTrue' /\ RebootsTrue' /\ ChecksTrue' /\ SilenceTrue'
    <3>1. Clear
      BY <2>1, <2>3 DEF Clear
    <3>2. GuestTrue' /\ InitTrue' /\ RebootsTrue'
      BY <1>3, <1>6, <2>1, <3>1 DEF GuestTrue, InitTrue, RebootsTrue, Configured
    <3>3. ChecksTrue' /\ SilenceTrue'
      BY <1>3, <1>6, <2>1, <3>1 DEF ChecksTrue, Ran, SilenceTrue
    <3>4. QED
      BY <3>2, <3>3
  <2>4. QED
    BY <1>3, <2>1, <2>2, <2>3 DEF Kept
<1>9. CASE TimesOut
  BY <1>9, TimeoutSentences
<1>10. QED
  BY <1>2, <1>7, <1>8, <1>9

LEMMA KeptSettles ==
  ASSUME GuestTypeOK, Kept, GuestTypeOK', ShellSettles
  PROVE  pc' # "ended" /\ Kept'
<1>1. /\ pc = "settle" /\ pc' = "check" /\ phase' = "post-logon" /\ next' = 1 /\ tries' = 0
      /\ UNCHANGED <<recipe, level, flaw, seed, guest, silence, stable, before, failed, verdict>>
      /\ mishaps \subseteq mishaps' /\ mishaps' \subseteq mishaps \cup {"late"}
      /\ ~ guest.session => "late" \in mishaps'
  BY DEF ShellSettles, StartPhase, Mishap
<1>2. PhasesTrue /\ phase = "post-reboot" /\ IsWindows(recipe) /\ level = "full" /\ verdict = "none"
  BY <1>1 DEF Kept, PhasesTrue, Checking
<1>3. PhasesTrue'
  BY <1>1, <1>2 DEF PhasesTrue, BeforeInit, Checking, LastPhase, Phases
<1>4. AgentAnswers => SoundTrue'
  BY <1>1 DEF Kept, SoundTrue
<1>5. ASSUME Clear' PROVE GuestTrue' /\ InitTrue' /\ RebootsTrue' /\ ChecksTrue' /\ SilenceTrue'
  <2>1. GuestTrue /\ InitTrue /\ RebootsTrue /\ ChecksTrue
    BY <1>1, <1>5 DEF Kept, Clear
  <2>2. guest.init = "done"
    BY <1>1, <1>2, <2>1, DoneBeyond DEF Checking
  <2>3. GuestTrue' /\ InitTrue' /\ RebootsTrue'
    BY <1>1, <1>2, <2>1, <2>2 DEF GuestTrue, InitTrue, RebootsTrue, Configured
  <2>4. ASSUME NEW k \in DOMAIN SuiteFor(recipe), Ran(k)' PROVE Ran(k)
    <3>1. k \in Nat /\ ~ (k < 1)
      BY SuiteIsSound DEF GuestTypeOK
    <3>2. QED
      BY <1>1, <1>2, <2>4, <3>1 DEF Ran
  <2>5. ChecksTrue'
    BY <1>1, <2>1, <2>4 DEF ChecksTrue
  <2>6. SilenceTrue'
    BY <1>1 DEF SilenceTrue, TransportAttempts, GuestTypeOK
  <2>7. QED
    BY <2>3, <2>5, <2>6
<1>6. QED
  BY <1>1, <1>3, <1>4, <1>5 DEF Kept

LEMMA KeptFrame ==
  ASSUME GuestTypeOK, Kept, GuestTypeOK', CaptureFrame
  PROVE  pc' # "ended" /\ Kept'
<1>1. /\ pc = "frame" /\ pc' = "judge"
      /\ UNCHANGED <<recipe, level, flaw, seed, guest, silence, phase, next, tries, stable, before,
                     verdict>>
      /\ mishaps \subseteq mishaps' /\ mishaps' \subseteq mishaps \cup {"blind"}
  BY DEF CaptureFrame
<1>2. PhasesTrue /\ phase = LastPhase /\ level = "full" /\ failed \in BOOLEAN
  BY <1>1 DEF Kept, PhasesTrue, Checking, GuestTypeOK
<1>3. PhasesTrue'
  BY <1>1, <1>2 DEF PhasesTrue, BeforeInit, Checking, LastPhase, Phases
<1>4. \/ UNCHANGED failed /\ "blind" \in mishaps'
      \/ failed' = (failed \/ (Uniform /\ IsWindows(recipe)))
  <2>1. CASE UNCHANGED failed /\ mishaps' = mishaps \cup {"blind"}
    BY <2>1
  <2>2. CASE Report(IF Uniform THEN ScreenSeverity(recipe) ELSE "pass")
    BY <1>2, <2>2 DEF Report, ScreenSeverity
  <2>3. CASE ~ IsWindows(recipe) /\ Report("warn")
    BY <1>2, <2>3 DEF Report
  <2>4. QED
    BY <2>1, <2>2, <2>3 DEF CaptureFrame
<1>5. ~ failed' => ~ failed
  BY <1>4
<1>6. ASSUME Clear
      PROVE  /\ GuestTrue /\ InitTrue /\ RebootsTrue /\ ChecksTrue
             /\ guest.init = "done" /\ guest.power = "up"
  <2>1. GuestTrue /\ InitTrue /\ RebootsTrue /\ ChecksTrue
    BY <1>6 DEF Kept
  <2>2. guest.init = "done"
    BY <1>1, <1>2, <2>1, DoneBeyond DEF Checking
  <2>3. QED
    BY <1>1, <2>1, <2>2 DEF GuestTrue
<1>7. ASSUME AgentAnswers, flaw = "none", mishaps' \subseteq {"blind"}
      PROVE  ~ failed'
  <2>1. ~ failed /\ Clear
    BY <1>1, <1>7 DEF Kept, SoundTrue, Clear
  <2>2. ~ Uniform
    BY <1>6, <1>7, <2>1 DEF Uniform, Console
  <2>3. QED
    BY <1>4, <2>1, <2>2
<1>8. ASSUME Clear' PROVE GuestTrue' /\ InitTrue' /\ RebootsTrue' /\ ChecksTrue' /\ SilenceTrue'
  <2>1. Clear
    BY <1>1, <1>5, <1>8 DEF Clear
  <2>2. GuestTrue' /\ InitTrue' /\ RebootsTrue'
    BY <1>1, <1>6, <2>1 DEF GuestTrue, InitTrue, RebootsTrue, Configured
  <2>3. ASSUME flaw = Console, IsWindows(recipe) PROVE mishaps' \cap {"late", "blind"} # {}
    <3>1. CASE "blind" \in mishaps'
      BY <3>1
    <3>2. CASE ~ Uniform
      <4>1. "late" \in mishaps
        BY <1>1, <1>6, <2>1, <2>3, <3>2 DEF Uniform, RebootsTrue
      <4>2. QED
        BY <1>1, <4>1
    <3>3. QED
      BY <1>4, <1>8, <2>3, <3>1, <3>2 DEF Clear
  <2>4. ChecksTrue'
    BY <1>1, <1>6, <2>1, <2>3 DEF ChecksTrue, Ran
  <2>5. SilenceTrue'
    BY <1>1 DEF SilenceTrue
  <2>6. QED
    BY <2>2, <2>4, <2>5
<1>9. QED
  BY <1>1, <1>3, <1>7, <1>8 DEF Kept, SoundTrue

LEMMA KeptSentence ==
  ASSUME GuestTypeOK, Kept, Summarize
  PROVE  pc' = "ended" /\ Sentenced'
<1>1. /\ pc = "judge" /\ pc' = "ended" /\ verdict' = IF failed THEN "failed" ELSE "passed"
      /\ UNCHANGED <<recipe, level, flaw, mishaps>>
  BY DEF Summarize
<1>2. PhasesTrue /\ phase = LastPhase
  BY <1>1 DEF Kept, PhasesTrue
<1>3. ASSUME ~ failed, Severe(recipe, flaw), flaw # "none", mishaps \cap Overlooked = {}
      PROVE  FALSE
  <2>1. "misread" \in Overlooked
    BY DEF Overlooked
  <2>2. Clear
    BY <1>3, <2>1 DEF Clear
  <2>3. ChecksTrue
    BY <2>2 DEF Kept
  <2>4. CASE flaw = Console
    <3>1. IsWindows(recipe)
      BY <1>3, <2>4 DEF Severe, ScreenSeverity
    <3>2. mishaps \cap {"late", "blind"} # {}
      BY <1>1, <2>3, <2>4, <3>1 DEF ChecksTrue
    <3>3. Overlooked = {"misread", "late", "blind"}
      BY <2>4 DEF Overlooked, Console
    <3>4. QED
      BY <1>3, <3>2, <3>3
  <2>5. CASE flaw # Console
    <3>1. PICK k \in DOMAIN SuiteFor(recipe) :
            SuiteFor(recipe)[k].id = flaw /\ SuiteFor(recipe)[k].severity = "fail"
      BY <1>3, <2>5 DEF Severe
    <3>2. Fits(recipe, SuiteFor(recipe)[k])
      BY SuiteIsSound DEF GuestTypeOK
    <3>3. Ran(k)
      BY <1>1, <1>2, <3>2 DEF Ran, LastPhase, Fits, FitsAs, Phases
    <3>4. flaw = "shell-no-crashes" /\ "late" \in mishaps
      BY <2>3, <3>1, <3>3 DEF ChecksTrue
    <3>5. Overlooked = {"misread", "late"}
      BY <3>4 DEF Overlooked, Console
    <3>6. QED
      BY <1>3, <3>4, <3>5
  <2>6. QED
    BY <2>4, <2>5
<1>4. Severe(recipe, flaw)' = Severe(recipe, flaw) /\ Overlooked' = Overlooked
  BY <1>1 DEF Severe, ScreenSeverity, IsWindows, SuiteFor, Overlooked
<1>5. FlawsFail'
  BY <1>1, <1>3, <1>4 DEF FlawsFail
<1>6. AgentAnswers => SoundImagePasses'
  BY <1>1 DEF Kept, SoundTrue, SoundImagePasses
<1>7. QED
  BY <1>1, <1>5, <1>6 DEF Sentenced

-----------------------------------------------------------------------------
(* The verdict.                                                             *)

LEMMA GuestInvHolds ==
  ASSUME GuestInit
  PROVE  GuestInv
<1>1. /\ pc = "prepare" /\ phase = "none" /\ next = 1 /\ tries = 0 /\ stable = 0 /\ before = 0
      /\ failed = FALSE /\ verdict = "none" /\ mishaps = {} /\ silence = 0
      /\ seed = [lead |-> "none", keys |-> FALSE]
      /\ guest = [power |-> "off", boot |-> 0, init |-> "waiting", initBoot |-> 0,
                  armed |-> FALSE, armBoot |-> 0, session |-> FALSE, profile |-> FALSE]
      /\ recipe \in Recipes /\ level \in Levels /\ flaw \in Ids(recipe) \cup {"none"}
  BY DEF GuestInit, NoSeed, NoId
<1>2. GuestTypeOK
  <2>1. silence \in 0 .. MaxOutage + 1 /\ tries \in Nat /\ stable \in Int /\ before \in Int
    BY <1>1, GuestAssumption
  <2>2. next \in Nat
    BY <1>1
  <2>3. guest \in [power : {"off", "up", "stopping"}, boot : Nat,
                   init : {"waiting", "running", "marked", "done"}, initBoot : Nat,
                   armed : BOOLEAN, armBoot : Nat, session : BOOLEAN, profile : BOOLEAN]
    BY <1>1
  <2>4. QED
    BY <1>1, <2>1, <2>2, <2>3 DEF GuestTypeOK
<1>3. PhasesTrue /\ SoundTrue
  BY <1>1 DEF PhasesTrue, BeforeInit, Checking, SoundTrue
<1>4. GuestTrue /\ InitTrue /\ RebootsTrue /\ SilenceTrue
  BY <1>1 DEF GuestTrue, InitTrue, RebootsTrue, SilenceTrue
<1>5. ChecksTrue
  BY <1>1, <1>2, NothingRan DEF ChecksTrue
<1>6. QED
  BY <1>1, <1>2, <1>3, <1>4, <1>5 DEF GuestInv, Kept

\* Nothing the guest does changes what has been judged.
LEMMA KeptByGuest ==
  ASSUME GuestTypeOK, Kept, GuestStep
  PROVE  Kept'
<1>1. UNCHANGED <<recipe, level, flaw, seed, judging, mishaps>>
  BY DEF GuestStep, InitStarts, PluginsDone, RenameReboot, GoesDown, ComesUp, LogsOn
<1>2. PhasesTrue' /\ (AgentAnswers => SoundTrue')
  BY <1>1 DEF Kept, PhasesTrue, LastPhase, SoundTrue, judging
<1>3. ASSUME Clear' PROVE GuestTrue' /\ InitTrue' /\ RebootsTrue' /\ ChecksTrue' /\ SilenceTrue'
  <2>1. Clear
    BY <1>1, <1>3 DEF Clear, judging
  <2>2. ChecksTrue'
    BY <1>1, <2>1 DEF Kept, ChecksTrue, Ran, judging
  <2>3. QED
    BY <2>1, <2>2, GuestKeeps DEF Kept
<1>4. QED
  BY <1>2, <1>3 DEF Kept

LEMMA KeptByJudge ==
  ASSUME GuestTypeOK, Kept, Judge
  PROVE  (pc' # "ended" /\ Kept') \/ (pc' = "ended" /\ Sentenced')
<1>1. GuestTypeOK'
  BY JudgeTyped
<1>2. CASE PrepareCloudInit
  BY <1>1, <1>2, KeptStart
<1>3. CASE QmStart
  BY <1>1, <1>3, KeptPing
<1>4. CASE PingGuest
  BY <1>1, <1>4, KeptPings
<1>5. CASE WaitForIdle
  BY <1>1, <1>5, KeptIdle
<1>6. CASE WaitForSettled
  BY <1>1, <1>6, KeptSettled
<1>7. CASE RunCheck
  BY <1>1, <1>7, KeptCheck
<1>8. CASE PhaseEnds
  BY <1>1, <1>8, KeptPhase
<1>9. CASE ArmAutologon
  BY <1>1, <1>9, KeptArmed
<1>10. CASE ReadBaseline
  BY <1>1, <1>10, KeptBaseline
<1>11. CASE TriggerReboot
  BY <1>1, <1>11, KeptTriggered
<1>12. CASE ConfirmReboot
  BY <1>1, <1>12, KeptConfirmed
<1>13. CASE ShellSettles
  BY <1>1, <1>13, KeptSettles
<1>14. CASE CaptureFrame
  BY <1>1, <1>14, KeptFrame
<1>15. CASE Summarize
  BY <1>15, KeptSentence
<1>16. QED
  BY <1>2, <1>3, <1>4, <1>5, <1>6, <1>7, <1>8, <1>9, <1>10, <1>11, <1>12, <1>13, <1>14, <1>15
     DEF Judge

LEMMA GuestInvStays ==
  ASSUME GuestInv, [GuestNext]_guestVars
  PROVE  GuestInv'
<1>1. CASE Judge
  <2>1. pc # "ended"
    BY <1>1 DEF Judge, PrepareCloudInit, QmStart, PingGuest, WaitForIdle, WaitForSettled, RunCheck,
                PhaseEnds, ArmAutologon, ReadBaseline, TriggerReboot, ConfirmReboot, ShellSettles,
                CaptureFrame, Summarize
  <2>2. QED
    BY <1>1, <2>1, JudgeTyped, KeptByJudge DEF GuestInv
<1>2. CASE pc # "ended" /\ GuestStep
  <2>1. pc' = pc
    BY <1>2 DEF GuestStep, InitStarts, PluginsDone, RenameReboot, GoesDown, ComesUp, LogsOn, judging
  <2>2. QED
    BY <1>2, <2>1, GuestTyped, KeptByGuest DEF GuestInv
<1>3. CASE UNCHANGED guestVars
  <2>1. UNCHANGED <<recipe, level, flaw, seed, guest, silence, pc, phase, next, tries, stable,
                    before, failed, verdict, mishaps>>
    BY <1>3 DEF guestVars, judging
  <2>2. GuestTypeOK' /\ (Sentenced => Sentenced')
    BY <2>1 DEF GuestInv, GuestTypeOK, Ids, SuiteFor, Sentenced, FlawsFail, SoundImagePasses,
                Severe, ScreenSeverity, IsWindows, Overlooked
  <2>3. Kept => Kept'
    <3>1. /\ PhasesTrue' = PhasesTrue /\ SoundTrue' = SoundTrue /\ Clear' = Clear
      BY <2>1 DEF PhasesTrue, LastPhase, SoundTrue, Clear
    <3>2. GuestTrue' = GuestTrue /\ InitTrue' = InitTrue /\ RebootsTrue' = RebootsTrue
      BY <2>1 DEF GuestTrue, Configured, InitTrue, RebootsTrue
    <3>3. ChecksTrue => ChecksTrue'
      BY <2>1 DEF ChecksTrue, Ran
    <3>4. SilenceTrue => SilenceTrue'
      BY <2>1 DEF SilenceTrue
    <3>5. QED
      BY <3>1, <3>2, <3>3, <3>4 DEF Kept
  <2>4. QED
    BY <2>1, <2>2, <2>3 DEF GuestInv
<1>4. QED
  BY <1>1, <1>2, <1>3 DEF GuestNext

LEMMA GuestInvAlways == GuestSpec => []GuestInv
<1>1. GuestInit => GuestInv
  BY GuestInvHolds
<1>2. GuestInv /\ [GuestNext]_guestVars => GuestInv'
  BY GuestInvStays
<1>3. QED
  BY <1>1, <1>2, PTL DEF GuestSpec

(* An image with a flaw that one of its hard checks names is not passed by a  *)
(* full verification, for every recipe, however often the guest restarts, its *)
(* agent goes silent and each wait polls, unless a boot id was misread or the *)
(* desktop came late or was not seen (guest.ts, checks/*.ts).                 *)
THEOREM FlawedImagesFail == GuestSpec => []FlawsFail
<1>1. GuestInv => FlawsFail
  BY DEF GuestInv, Sentenced, Kept, PhasesTrue, FlawsFail
<1>2. QED
  BY <1>1, GuestInvAlways, PTL

(* Where a sound guest's agent answers one of the attempts guestExecRetry     *)
(* makes, a sound image fails only through a mishap that is not its own: a    *)
(* node that could not configure or start the VM, an outage longer than that, *)
(* a lost request to reboot or to log on, a timeout, a desktop not yet up, a  *)
(* check that threw, or an exception taken for a boot id (guest.ts,           *)
(* verify.ts).                                                                *)
THEOREM SoundImagesPass == AgentAnswers => (GuestSpec => []SoundImagePasses)
<1> SUFFICES ASSUME AgentAnswers PROVE GuestSpec => []SoundImagePasses
  OBVIOUS
<1>1. GuestInv => SoundImagePasses
  BY DEF GuestInv, Sentenced, Kept, PhasesTrue, SoundImagePasses
<1>2. QED
  BY <1>1, GuestInvAlways, PTL

=============================================================================
