------------------------------- MODULE RunLease -------------------------------
(***************************************************************************)
(* Node-wide run leases (src/build/lease.ts).  A run asks the node for a   *)
(* lease; the admission script, under the lease flock, first reaps stale   *)
(* leases and then admits, defers or rejects the run.  While the run works *)
(* its launcher refreshes the lease over SSH once per tick; a launcher     *)
(* that learns its lease is gone, or hears nothing for long enough, aborts.*)
(*                                                                         *)
(* One unit of time (Tick) is HEARTBEAT_MS.  Lease ids are unique to a run,*)
(* so leases are indexed by the run that owns them.                        *)
(***************************************************************************)
EXTENDS Demand

CONSTANTS
  Budget,         \* Budget[res][r]: CF_BUILD_*_BUDGET of run r's environment
  Preserve,       \* runs with --keep-vm (preserveVm)
  StaleTicks,     \* RUN_LEASE_STALE_SECS in heartbeats
  Prefixes,       \* the sets of runs one --reap-lease prefix can name
  Builders,       \* runs whose work gets as far as a session on the node
  Mortal,         \* runs whose launcher may be killed or told to stop
  Nobody, Pruner  \* the lease lock: free, or held by cf prune

ASSUME BudgetType == Budget \in [Resource -> [Run -> Nat]]
ASSUME PreserveType == Preserve \subseteq Run
ASSUME StaleTicksType == StaleTicks \in Nat \ {0}
ASSUME PrefixesType == Prefixes \subseteq SUBSET Run
ASSUME BuildersType == Builders \subseteq Run
ASSUME MortalType == Mortal \subseteq Run
ASSUME LockNames == Nobody \notin Run /\ Pruner \notin Run /\ Nobody # Pruner

LostAfter == StaleTicks        \* HEARTBEAT_LOST_AFTER_FAILURES

VARIABLES
  phase,     \* what each launcher is doing
  file,      \* each run's lease file: "named" once its record carries the VMID,
             \* "revived" when that record went into a file a late touch had made
  age,       \* ticks since the file's mtime, stopping at StaleTicks + 1
  vm,        \* the run's VM exists on the node
  packer,    \* runs with a session on the node that has still to make its VM
  beat,      \* the heartbeat request in flight
  failures,  \* consecutive failed heartbeats the launcher has counted
  lock,      \* who holds the lease flock
  todo,      \* leases the lock holder's sweep has not looked at yet
  doomed,    \* the lease the sweep has condemned but not yet removed
  target,    \* the leases prune reaps by name, whatever their age
  excused    \* history: runs the promise of a lease no longer covers

launcher == <<phase, beat, failures>>
sweeping == <<lock, todo, doomed, target>>
vars == <<phase, file, age, vm, packer, beat, failures, lock, todo, doomed, target,
          excused>>

Phase == {"waiting", "acquired", "named", "closing", "aborting", "releasing",
          "signalled", "ended"}
File == {"absent", "blank", "held", "named", "revived"}
Beat == {"rest", "sent", "tested", "ok", "gone", "failed"}

\* Leases that carry a record.  A blank file is read as no lease at all.
Named == {r \in Run : file[r] \in {"named", "revived"}}
Held == Named \cup {r \in Run : file[r] = "held"}

\* The launcher's heartbeat interval is running.
Listening == {r \in Run : phase[r] \in {"acquired", "named", "closing"}}

\* Leases as their admission made them: without those that a late touch brought back.
Admitted == {r \in Held : file[r] # "revived"}

Admission == INSTANCE NodeAdmission WITH held <- Admitted

Init ==
  /\ phase = [r \in Run |-> "waiting"]
  /\ file = [r \in Run |-> "absent"]
  /\ age = [r \in Run |-> 0]
  /\ vm = [r \in Run |-> FALSE]
  /\ packer = {}
  /\ beat = [r \in Run |-> "rest"]
  /\ failures = [r \in Run |-> 0]
  /\ lock = Nobody
  /\ todo = {}
  /\ doomed = Nobody
  /\ target = {}
  /\ excused = {}

-----------------------------------------------------------------------------
(* The sweep, shared by admission and prune, under the lease flock.         *)

TakeLock(who, named) ==
  /\ lock = Nobody
  /\ lock' = who
  /\ todo' = {r \in Run : file[r] # "absent"}
  /\ target' = named

DropLock ==
  /\ lock' = Nobody
  /\ todo' = {}
  /\ target' = {}
  /\ UNCHANGED doomed

\* Mutant: the sweep destroys a VM whose record says preserve.
ReapLeaseBodyIgnoresPreserve(r) ==
  /\ file' = [file EXCEPT ![r] = "absent"]
  /\ age' = [age EXCEPT ![r] = 0]
  /\ \/ r \in Held /\ packer' = packer \ {r}
     \/ packer' = packer
  /\ \/ r \in Named /\ vm' = [vm EXCEPT ![r] = FALSE]
     \/ UNCHANGED vm

\* reapLeaseBody: destroy the VM the record names, kill what works in its
\* temp directory, then unlink the record.  Every qm call may fail (|| true) and
\* pkill may miss a session that just starts: the lease is unlinked all the same.
\* A blank file names nothing.
ReapLeaseBody(r) ==
  /\ file' = [file EXCEPT ![r] = "absent"]
  /\ age' = [age EXCEPT ![r] = 0]
  /\ \/ r \in Held /\ packer' = packer \ {r}
     \/ packer' = packer
  /\ \/ /\ r \in Named
        /\ r \notin Preserve
        /\ vm' = [vm EXCEPT ![r] = FALSE]
     \/ UNCHANGED vm

\* Mutant: a lease is stale one heartbeat early.
SweepInspectEarly(r) ==
  /\ lock # Nobody
  /\ doomed = Nobody
  /\ r \in todo
  /\ todo' = todo \ {r}
  /\ doomed' = IF file[r] # "absent" /\ (age[r] >= StaleTicks \/ r \in target)
               THEN r ELSE Nobody
  /\ excused' = IF doomed' = r /\ r \in target THEN excused \cup {r} ELSE excused
  /\ UNCHANGED <<phase, file, age, vm, beat, failures, lock, target, packer>>

\* Mutant: the sweep reaps what it is told to and forgets the stale ones.
SweepInspectNamedOnly(r) ==
  /\ lock # Nobody
  /\ doomed = Nobody
  /\ r \in todo
  /\ todo' = todo \ {r}
  /\ doomed' = IF file[r] # "absent" /\ r \in target THEN r ELSE Nobody
  /\ UNCHANGED <<phase, file, age, vm, beat, failures, lock, target, excused, packer>>

\* The script stats one lease and decides.
SweepInspect(r) ==
  /\ lock # Nobody
  /\ doomed = Nobody
  /\ r \in todo
  /\ todo' = todo \ {r}
  /\ doomed' = IF file[r] # "absent" /\ (age[r] > StaleTicks \/ r \in target)
               THEN r ELSE Nobody
  /\ excused' = IF doomed' = r /\ r \in target THEN excused \cup {r} ELSE excused
  /\ UNCHANGED <<phase, file, age, vm, beat, failures, lock, target, packer>>

SweepReap ==
  /\ doomed # Nobody
  /\ ReapLeaseBody(doomed)
  /\ doomed' = Nobody
  /\ UNCHANGED <<phase, beat, failures, lock, todo, target, excused>>

SwepThrough == lock # Nobody /\ todo = {} /\ doomed = Nobody

-----------------------------------------------------------------------------
(* acquireRunLease                                                           *)

AdmissionBegin(r) ==
  /\ phase[r] = "waiting"
  /\ TakeLock(r, {})
  /\ UNCHANGED <<phase, file, age, vm, beat, failures, doomed, excused, packer>>

\* The budget is the configured one, clamped to what the node has.
EffectiveBudget(res, r) ==
  IF Budget[res][r] <= Capacity[res] THEN Budget[res][r] ELSE Capacity[res]

Oversized(r) ==
  \E res \in Resource : Need[res][r] > EffectiveBudget(res, r)

MustWait(r) ==
  \/ \E s \in Held : Recipe[s] = Recipe[r]
  \/ \E res \in Resource :
       Used(res, Held) + Need[res][r] > EffectiveBudget(res, r)

\* REJECT: acquireRunLease throws.
AdmissionReject(r) ==
  /\ lock = r /\ SwepThrough
  /\ Oversized(r)
  /\ phase' = [phase EXCEPT ![r] = "ended"]
  /\ DropLock
  /\ UNCHANGED <<file, age, vm, beat, failures, excused, packer>>

\* WAIT: the launcher sleeps RETRY_MS and asks again.
AdmissionWait(r) ==
  /\ lock = r /\ SwepThrough
  /\ ~Oversized(r) /\ MustWait(r)
  /\ DropLock
  /\ UNCHANGED <<phase, file, age, vm, beat, failures, excused, packer>>

\* ACQUIRED.  When the launcher died or lost the connection meanwhile, the
\* script has still written the lease and nobody will refresh it.
AdmissionAcquire(r) ==
  /\ lock = r /\ SwepThrough
  /\ ~Oversized(r) /\ ~MustWait(r)
  /\ file' = [file EXCEPT ![r] = "held"]
  /\ age' = [age EXCEPT ![r] = 0]
  /\ phase' = [phase EXCEPT ![r] = IF @ = "waiting" THEN "acquired" ELSE @]
  /\ DropLock
  /\ UNCHANGED <<vm, beat, failures, excused, packer>>

-----------------------------------------------------------------------------
(* The leased work, as the lease sees it (buildPhase, runVerifyLocked).      *)

\* Mutant: the record is written without asking whether it is still there.
UpdateLeaseVmidUnchecked(r) ==
  /\ phase[r] = "acquired"
  /\ lock = Nobody
  /\ phase' = [phase EXCEPT ![r] = "named"]
  /\ file' = [file EXCEPT ![r] = IF @ = "blank" THEN "revived" ELSE "named"]
  /\ age' = [age EXCEPT ![r] = 0]
  /\ UNCHANGED <<vm, packer, beat, failures, sweeping, excused>>

\* setVmid: rewrite the record with the VMID, or fail because it is gone.  A
\* file that is there may be the blank one of a touch after the reap.
UpdateLeaseVmid(r) ==
  /\ phase[r] = "acquired"
  /\ lock = Nobody
  /\ IF file[r] = "absent"
     THEN /\ phase' = [phase EXCEPT ![r] = "closing"]
          /\ UNCHANGED <<file, age>>
     ELSE /\ \E reply \in {"named", "closing"} :
               phase' = [phase EXCEPT ![r] = reply]
          /\ file' = [file EXCEPT ![r] = IF @ \in {"held", "named"} THEN "named" ELSE "revived"]
          /\ age' = [age EXCEPT ![r] = 0]
  /\ UNCHANGED <<vm, packer, beat, failures, sweeping, excused>>

\* Mutant: packer starts before the lease carries the VMID.
StartPackerUnnamed(r) ==
  /\ r \in Builders
  /\ phase[r] \in {"acquired", "named"}
  /\ ~vm[r] /\ r \notin packer
  /\ packer' = packer \cup {r}
  /\ UNCHANGED <<phase, file, age, vm, beat, failures, sweeping, excused>>

\* An attempt starts Packer (a verification, qm create) in a session on the
\* node, which does not depend on the launcher or its connection from then on.
\* Attempts after one that left its VM are BuildRun's.
StartPacker(r) ==
  /\ r \in Builders
  /\ phase[r] = "named"
  /\ ~vm[r] /\ r \notin packer
  /\ packer' = packer \cup {r}
  /\ UNCHANGED <<phase, file, age, vm, beat, failures, sweeping, excused>>

\* The session makes the VM, whatever its launcher does by then.
CreateVm(r) ==
  /\ r \in packer
  /\ vm' = [vm EXCEPT ![r] = TRUE]
  /\ packer' = packer \ {r}
  /\ UNCHANGED <<phase, file, age, beat, failures, sweeping, excused>>

\* The session fails before it has made one.
PackerEnds(r) ==
  /\ r \in packer
  /\ packer' = packer \ {r}
  /\ UNCHANGED <<phase, file, age, vm, beat, failures, sweeping, excused>>

\* The heartbeat interval is cleared: an answer on its way is not heard.
Unheard(r) == [beat EXCEPT ![r] = IF @ \in {"ok", "gone", "failed"} THEN "rest" ELSE @]

\* The work settles, well or badly: control enters the outer finally.  When it
\* settled because the connection broke, the session is still at work.
WorkSettles(r) ==
  /\ phase[r] \in {"acquired", "named"}
  /\ phase' = [phase EXCEPT ![r] = "closing"]
  /\ UNCHANGED <<file, age, vm, beat, failures, sweeping, excused, packer>>

\* The finally destroys the VM over SSH and swallows every error.  A session
\* that is still at work may make another one, and nobody will know.
DestroyVm(r) ==
  /\ phase[r] \in {"closing", "aborting"}
  /\ phase' = [phase EXCEPT ![r] = "releasing"]
  /\ \/ /\ r \notin Preserve
        /\ vm' = [vm EXCEPT ![r] = FALSE]
     \/ UNCHANGED vm
  /\ excused' = IF vm'[r] \/ r \in packer THEN excused \cup {r} ELSE excused
  /\ beat' = Unheard(r)
  /\ UNCHANGED <<file, age, packer, failures, sweeping>>

\* release: rm -f without the lock; a failed rm leaves the lease to go stale.
Release(r) ==
  /\ phase[r] = "releasing"
  /\ phase' = [phase EXCEPT ![r] = "ended"]
  /\ \/ /\ file' = [file EXCEPT ![r] = "absent"]
        /\ age' = [age EXCEPT ![r] = 0]
     \/ UNCHANGED <<file, age>>
  /\ UNCHANGED <<vm, beat, failures, sweeping, excused, packer>>

-----------------------------------------------------------------------------
(* Heartbeats.  The node side runs without the lease lock.                   *)

\* An answer that nobody listens to any more is of no account.
Answer(r, code) == [beat EXCEPT ![r] = IF r \in Listening THEN code ELSE "rest"]

\* runLeaseHeartbeatCommand: test -f ...
HeartbeatTest(r) ==
  /\ beat[r] = "sent"
  /\ beat' = IF file[r] = "absent" THEN Answer(r, "gone")
             ELSE [beat EXCEPT ![r] = "tested"]
  /\ UNCHANGED <<phase, file, age, vm, failures, sweeping, excused, packer>>

\* ... then touch, which creates an empty file if the lease went in between.
HeartbeatTouch(r) ==
  /\ beat[r] = "tested"
  /\ beat' = Answer(r, "ok")
  /\ file' = [file EXCEPT ![r] = IF @ = "absent" THEN "blank" ELSE @]
  /\ age' = [age EXCEPT ![r] = 0]
  /\ UNCHANGED <<phase, vm, failures, sweeping, excused, packer>>

\* SSH exits 255: the request never reached the node, or its answer was lost.
HeartbeatDropped(r) ==
  /\ beat[r] \in {"sent", "ok", "gone"}
  /\ beat' = Answer(r, "failed")
  /\ UNCHANGED <<phase, file, age, vm, failures, sweeping, excused, packer>>

EvaluateHeartbeat(code, count) ==
  CASE code = "ok" -> "alive"
    [] code = "gone" -> "gone"
    [] code = "failed" -> IF count + 1 >= LostAfter THEN "lost" ELSE "failing"

\* The launcher hears the exit status and acts on evaluateHeartbeat's verdict.
\* An abort first kills the session on the node, if it reaches the node.
HeartbeatReply(r) ==
  /\ beat[r] \in {"ok", "gone", "failed"}
  /\ r \in Listening
  /\ beat' = [beat EXCEPT ![r] = "rest"]
  /\ LET verdict == EvaluateHeartbeat(beat[r], failures[r])
         aborts == verdict \in {"gone", "lost"} IN
     /\ failures' = [failures EXCEPT ![r] = IF verdict = "failing" THEN @ + 1 ELSE 0]
     /\ phase' = [phase EXCEPT ![r] = IF aborts THEN "aborting" ELSE @]
     /\ \/ packer' = packer
        \/ aborts /\ packer' = packer \ {r}
  /\ UNCHANGED <<file, age, vm, sweeping, excused>>

\* One heartbeat period passes.  A launcher whose last heartbeat is still in
\* flight skips its tick; the others send the next one at once.
Older(r) == IF file[r] = "absent" \/ age[r] > StaleTicks THEN age[r] ELSE age[r] + 1

Tick ==
  /\ age' = [r \in Run |-> Older(r)]
  /\ beat' = [r \in Run |-> IF r \in Listening /\ beat[r] = "rest"
                            THEN "sent" ELSE beat[r]]
  /\ <<age, beat>>' # <<age, beat>>
  /\ excused' = excused \cup {r \in Run : Older(r) > StaleTicks}
  /\ UNCHANGED <<phase, file, vm, failures, sweeping, packer>>

-----------------------------------------------------------------------------
(* Ends of a launcher, and prune.                                            *)

\* SIGKILL, a dead machine, or (before admission answered) a lost connection.
LauncherDies(r) ==
  /\ r \in Mortal
  /\ phase[r] # "ended"
  /\ phase' = [phase EXCEPT ![r] = "ended"]
  /\ beat' = Unheard(r)
  /\ UNCHANGED <<file, age, vm, failures, sweeping, excused, packer>>

\* SIGINT or SIGTERM: onFatalSignal stops the work and runs the cleanups.
Signal(r) ==
  /\ r \in Mortal
  /\ phase[r] \in {"acquired", "named", "closing", "aborting"}
  /\ phase' = [phase EXCEPT ![r] = "signalled"]
  /\ beat' = Unheard(r)
  /\ UNCHANGED <<file, age, vm, failures, sweeping, excused, packer>>

\* The registered cleanup: reap our own lease under the lock, if it is there
\* and the node can be reached.
SignalCleanup(r) ==
  /\ phase[r] = "signalled"
  /\ lock = Nobody
  /\ phase' = [phase EXCEPT ![r] = "ended"]
  /\ \/ UNCHANGED <<file, age, vm, packer, excused>>
     \/ /\ file[r] # "absent"
        /\ ReapLeaseBody(r)
        /\ excused' = IF vm'[r] \/ r \in packer' THEN excused \cup {r} ELSE excused
  /\ UNCHANGED <<beat, failures, sweeping>>

\* cf prune [--reap-lease prefix]: reap the named leases, sweep the rest.
PruneBegin(named) ==
  /\ TakeLock(Pruner, named)
  /\ UNCHANGED <<phase, file, age, vm, beat, failures, doomed, excused, packer>>

PruneEnd ==
  /\ lock = Pruner /\ SwepThrough
  /\ DropLock
  /\ UNCHANGED <<phase, file, age, vm, beat, failures, excused, packer>>

-----------------------------------------------------------------------------

Launcher(r) ==
  \/ AdmissionBegin(r) \/ AdmissionReject(r) \/ AdmissionWait(r)
  \/ AdmissionAcquire(r)
  \/ UpdateLeaseVmid(r) \/ StartPacker(r) \/ WorkSettles(r) \/ DestroyVm(r)
  \/ Release(r)
  \/ LauncherDies(r) \/ Signal(r) \/ SignalCleanup(r)

Heartbeat(r) ==
  HeartbeatTest(r) \/ HeartbeatTouch(r) \/ HeartbeatDropped(r) \/ HeartbeatReply(r)

Session(r) == CreateVm(r) \/ PackerEnds(r)

Prune ==
  \/ \E named \in Prefixes : PruneBegin(named)
  \/ PruneEnd

Next ==
  \/ \E r \in Run : Launcher(r) \/ Session(r) \/ Heartbeat(r) \/ SweepInspect(r)
  \/ SweepReap
  \/ Prune
  \/ Tick

Spec == Init /\ [][Next]_vars

\* An admission takes whatever turns it needs: the flock queue and the
\* RETRY_MS loop let every asker in again and again.  Leased work settles
\* (packer and the communicator have their own timeouts), the finally runs to
\* its end, a script that holds the lock goes on, and time passes.  Nothing is
\* assumed of the network: heartbeats may be lost for ever.
Fairness ==
  /\ WF_vars(Tick)
  /\ WF_vars(SweepReap)
  /\ \A r \in Run :
       /\ WF_vars(SweepInspect(r))
       /\ SF_vars(AdmissionBegin(r))
       /\ WF_vars(AdmissionReject(r) \/ AdmissionWait(r) \/ AdmissionAcquire(r))
       /\ WF_vars(WorkSettles(r))
       /\ WF_vars(DestroyVm(r))
       /\ WF_vars(Release(r))
  /\ WF_vars(PruneEnd)

FairSpec == Spec /\ Fairness

-----------------------------------------------------------------------------

TypeOK ==
  /\ phase \in [Run -> Phase]
  /\ file \in [Run -> File]
  /\ age \in [Run -> 0 .. StaleTicks + 1]
  /\ vm \in [Run -> BOOLEAN]
  /\ beat \in [Run -> Beat]
  /\ failures \in [Run -> Nat]
  /\ lock \in Run \cup {Nobody, Pruner}
  /\ todo \subseteq Run
  /\ doomed \in Run \cup {Nobody}
  /\ target \subseteq Run
  /\ packer \subseteq Run
  /\ excused \subseteq Run

\* The leases on the node never add up to more memory or cores than it has,
\* however admissions, sweeps, releases, deaths and lost answers interleave
\* (buildLeaseAdmissionScript; docs/setup.md: "the node admits only the
\* combination whose declared recipe resources fit").  Left out are leases that
\* a touch after the reap brought back: their room may have been given away.
CapacityRespected ==
  \A res \in Resource : Used(res, Admitted) <= Capacity[res]

\* Two of these leases never name one recipe, of whatever kind: a build or
\* verification waits for the other run of its recipe (same_recipe).
OneLeasePerRecipe ==
  \A r, s \in Admitted : Recipe[r] = Recipe[s] => r = s

\* A run that still works, whose lease was never silent past the stale window
\* and never reaped by name, still has its lease: no sweep, admission, prune or
\* other run's ending takes it away (the age gate of sweepRunLeasesScript and
\* the touch of runLeaseHeartbeatCommand together).
HealthyRunKeepsLease ==
  \A r \in Listening \ excused : r \in Held

\* A VM on the node is named by a lease that still stands, so that somebody
\* can reap it: setVmid comes before the VM, the VM goes before the lease.
\* Left out are kept VMs and runs the lease no longer covers: silent too long,
\* reaped by name, a qm destroy that failed unseen, and a run whose finally ran
\* while a session cut off from its launcher was still at work.
VmHasLease ==
  \A r \in Run \ (Preserve \cup excused) : vm[r] => file[r] = "named"

\* No lease operation, of any actor, destroys the VM of a --keep-vm run.
PreservedVmSurvives ==
  [][\A r \in Preserve : vm[r] => vm'[r]]_vars

\* Every run that asks is admitted, rejected or dead in the end: leases of
\* dead launchers and lost answers do not block the node for ever.
AdmissionAnswers ==
  \A r \in Run : phase[r] = "waiting" ~> phase[r] # "waiting"

\* The leases, but for those brought back, implement node-wide admission.
AdmissionSpec == Admission!Spec

\* The inductive strengthenings of HealthyRunKeepsLease and VmHasLease.
HealthInv ==
  /\ HealthyRunKeepsLease
  /\ doomed # Nobody => doomed \in excused
  /\ \A r \in Run : age[r] > StaleTicks => r \in excused

VmInv ==
  /\ VmHasLease
  /\ \A r \in Run : file[r] = "revived" => r \in excused
  /\ \A r \in Run \ (Preserve \cup excused) :
       /\ phase[r] = "named" \/ r \in packer => file[r] = "named"
       /\ phase[r] \in {"waiting", "acquired", "releasing"} => ~vm[r] /\ r \notin packer
       /\ lock = r => phase[r] \in {"waiting", "ended"} /\ ~vm[r] /\ r \notin packer

=============================================================================
