------------------------------- MODULE BuildRun -------------------------------
(***************************************************************************)
(* One leased build (src/build/executor.ts from the Packer loop on, with   *)
(* runWithRetries and the signal cleanups): the launcher starts Packer on  *)
(* the node over SSH and watches it.  The Packer session outlives a broken *)
(* connection, and the launcher starts another.  All sessions use one VMID.*)
(***************************************************************************)
EXTENDS Integers, FiniteSets

CONSTANTS
  Attempts,      \* buildAttemptCount
  MaxTransport   \* the length of TRANSPORT_BACKOFF_MS

ASSUME AttemptsType == Attempts \in Nat \ {0}
ASSUME MaxTransportType == MaxTransport \in Nat

Session == 1 .. Attempts + MaxTransport

VARIABLES
  phase,      \* where the launcher is
  attempt,    \* the loop variable of runWithRetries
  transport,  \* transportRetries
  session,    \* Packer sessions launched so far; the last one is watched
  packer,     \* what each session does on the node
  vm,         \* the session that made the VM now at the VMID, 0 if none
  template,   \* that VM has been turned into a template
  slot,       \* the run holds its network slot
  lease,      \* the run's lease is on the node
  result,     \* how buildPhase ended
  missed      \* history: a cleanup command did not get through, its destruction
              \* failed, or a signal skipped it when the lease was gone

launcher == <<phase, attempt, transport, session, result>>
node == <<packer, vm, template>>
claims == <<slot, lease>>
buildVars == <<launcher, node, claims, missed>>

Phase == {"attempt", "launch", "watch", "backoff", "killing", "finally",
          "releaseSlot", "releaseLease", "signalVm", "signalSlot",
          "signalLease", "done"}
Working == {"attempt", "launch", "watch", "backoff"}
Packer == {"none", "starting", "building", "exporting", "ok", "failed", "refused"}
Alive == {n \in Session : packer[n] \in {"starting", "building", "exporting"}}

BuildInit ==
  /\ phase = "attempt"
  /\ attempt = 1
  /\ transport = 0
  /\ session = 0
  /\ packer = [n \in Session |-> "none"]
  /\ vm = 0
  /\ template = FALSE
  /\ slot = TRUE
  /\ lease = TRUE
  /\ result = "none"
  /\ missed = FALSE

DropVm ==
  /\ vm' = 0
  /\ template' = FALSE

\* destroyVmCommand, whose failure nobody hears of.
Destroy ==
  \/ DropVm /\ UNCHANGED missed
  \/ UNCHANGED <<vm, template>> /\ missed' = TRUE

\* pkill -f finds the sessions whose Packer runs, not always one that starts.
KillPackers ==
  \E late \in SUBSET {n \in Session : packer[n] = "starting"} :
    packer' = [n \in Session |-> IF n \in Alive \ late THEN "failed" ELSE packer[n]]

-----------------------------------------------------------------------------
(* Packer on the node.  A session fails at once when a VM that is not a      *)
(* template stands at its VMID; a template it replaces (-force).             *)

PackerStarts(n) ==
  /\ packer[n] = "starting"
  /\ IF vm # 0 /\ ~template
     THEN packer' = [packer EXCEPT ![n] = "refused"] /\ UNCHANGED <<vm, template>>
     ELSE /\ packer' = [packer EXCEPT ![n] = "building"]
          /\ vm' = n /\ template' = FALSE
  /\ UNCHANGED <<launcher, claims, missed>>

PackerTemplates(n) ==
  /\ packer[n] = "building" /\ vm = n
  /\ packer' = [packer EXCEPT ![n] = "exporting"]
  /\ template' = TRUE
  /\ UNCHANGED <<launcher, vm, claims, missed>>

\* The export succeeds; export-and-cleanup.sh destroys the VM as it exits.
PackerExports(n) ==
  /\ packer[n] = "exporting" /\ vm = n
  /\ packer' = [packer EXCEPT ![n] = "ok"]
  /\ DropVm
  /\ UNCHANGED <<launcher, claims, missed>>

\* Any failure: Packer's own cleanup, or the post-processor's trap, destroys
\* whatever stands at the VMID.
PackerFails(n) ==
  /\ n \in Alive
  /\ packer' = [packer EXCEPT ![n] = "failed"]
  /\ IF packer[n] = "starting" THEN UNCHANGED <<vm, template>> ELSE DropVm
  /\ UNCHANGED <<launcher, claims, missed>>

-----------------------------------------------------------------------------
(* runWithRetries.                                                          *)

\* A retry after the first attempt drops what is left of the VM, unless it is
\* a template or the node does not answer.
Relevel ==
  /\ phase = "attempt"
  /\ phase' = "launch"
  /\ \/ /\ attempt > 1 /\ vm # 0 /\ ~template
        /\ DropVm
     \/ UNCHANGED <<vm, template>>
  /\ UNCHANGED <<attempt, transport, session, result, packer, claims, missed>>

\* remoteStreamingScript; without a connection nothing starts.
Launch ==
  /\ phase = "launch"
  /\ phase' = "watch"
  /\ session' = session + 1
  /\ \E start \in {"starting", "none"} :
       packer' = [packer EXCEPT ![session + 1] = start]
  /\ UNCHANGED <<attempt, transport, result, vm, template, claims, missed>>

\* The attempt is spent: go on to the next or give up.
SpendAttempt ==
  IF attempt < Attempts
  THEN /\ attempt' = attempt + 1
       /\ phase' = "attempt"
       /\ UNCHANGED result
  ELSE /\ phase' = "finally"
       /\ result' = "error"
       /\ UNCHANGED attempt

\* The watched session ends and the launcher sees its exit status.
SessionEnds ==
  /\ phase = "watch"
  /\ \/ /\ packer[session] = "ok"
        /\ phase' = "finally" /\ result' = "ok"
        /\ UNCHANGED attempt
     \/ /\ packer[session] \in {"failed", "refused"}
        /\ SpendAttempt
  /\ UNCHANGED <<transport, session, node, claims, missed>>

\* Mutant: the end of the connection goes unnoticed.
TransportFailsUnseen ==
  /\ phase = "watch"
  /\ UNCHANGED buildVars

\* SSH exits 255; the session, if there is one, goes on without a watcher.
TransportFails ==
  /\ phase = "watch"
  /\ IF transport < MaxTransport
     THEN /\ transport' = transport + 1
          /\ phase' = "backoff"
          /\ UNCHANGED <<attempt, result>>
     ELSE /\ SpendAttempt
          /\ UNCHANGED transport
  /\ UNCHANGED <<session, node, claims, missed>>

\* sleep(waitMs), and the same attempt again.
BackoffEnds ==
  /\ phase = "backoff"
  /\ phase' = "attempt"
  /\ UNCHANGED <<attempt, transport, session, result, node, claims, missed>>

-----------------------------------------------------------------------------
(* raceLeasedWork and the outer finally.                                    *)

\* The lease is gone (another run's admission has reaped everything it names)
\* or has not been refreshed for too long.
LeaseLost ==
  /\ phase \in Working
  /\ phase' = "killing"
  /\ result' = "error"
  /\ \/ lease' = FALSE /\ KillPackers /\ Destroy
     \/ UNCHANGED <<lease, node, missed>>
  /\ UNCHANGED <<attempt, transport, session, slot>>

\* terminateRemote, or the settle window runs out.
TerminateRemote ==
  /\ phase = "killing"
  /\ phase' = "finally"
  /\ \/ KillPackers /\ UNCHANGED missed
     \/ UNCHANGED packer /\ missed' = TRUE
  /\ UNCHANGED <<attempt, transport, session, result, vm, template, claims>>

\* Mutant: the VM is left to Packer, which has destroyed it if it ended well.
DestroyNothing ==
  /\ phase = "finally"
  /\ phase' = "releaseSlot"
  /\ UNCHANGED <<attempt, transport, session, result, node, claims, missed>>

\* Each cleanup command may fail, and the next one runs all the same.
DestroyVm ==
  /\ phase = "finally"
  /\ phase' = "releaseSlot"
  /\ Destroy
  /\ UNCHANGED <<attempt, transport, session, result, packer, claims>>

ReleaseSlot ==
  /\ phase \in {"releaseSlot", "signalSlot"}
  /\ phase' = IF phase = "releaseSlot" THEN "releaseLease" ELSE "signalLease"
  /\ \/ slot' = FALSE /\ UNCHANGED missed
     \/ UNCHANGED slot /\ missed' = TRUE
  /\ UNCHANGED <<attempt, transport, session, result, node, lease>>

ReleaseLease ==
  /\ phase = "releaseLease"
  /\ phase' = "done"
  /\ \/ lease' = FALSE /\ UNCHANGED missed
     \/ UNCHANGED lease /\ missed' = TRUE
  /\ UNCHANGED <<attempt, transport, session, result, node, slot>>

-----------------------------------------------------------------------------
(* onFatalSignal: the cleanups, last registered first.                      *)

\* The VM's cleanup is registered while the loop runs (an aborted loop may not
\* have ended), the slot's and the lease's until they are released.  A signal
\* between the two leaves the VM to the lease, and to nobody when that is lost.
Signal ==
  /\ \/ phase \in Working \cup {"killing"} /\ phase' = "signalVm"
     \/ phase \in {"killing", "finally", "releaseSlot"} /\ phase' = "signalSlot"
     \/ phase = "releaseLease" /\ phase' = "signalLease"
  /\ result' = "error"
  /\ missed' = \/ missed
               \/ phase \in {"killing", "finally"} /\ phase' = "signalSlot" /\ ~lease
  /\ UNCHANGED <<attempt, transport, session, node, claims>>

SignalVm ==
  /\ phase = "signalVm"
  /\ phase' = "signalSlot"
  /\ Destroy
  /\ UNCHANGED <<attempt, transport, session, result, packer, claims>>

\* The lease's cleanup: kill the run's processes, then destroy the VM.
SignalLease ==
  /\ phase = "signalLease"
  /\ phase' = "done"
  /\ \/ /\ lease /\ lease' = FALSE
        /\ KillPackers /\ Destroy
     \/ /\ ~lease
        /\ UNCHANGED <<node, lease, missed>>
     \/ /\ missed' = TRUE
        /\ UNCHANGED <<node, lease>>
  /\ UNCHANGED <<attempt, transport, session, result, slot>>

-----------------------------------------------------------------------------

PackerActs(n) ==
  PackerStarts(n) \/ PackerTemplates(n) \/ PackerExports(n) \/ PackerFails(n)

Launcher ==
  \/ Relevel \/ Launch \/ SessionEnds \/ BackoffEnds
  \/ TerminateRemote \/ DestroyVm \/ ReleaseSlot \/ ReleaseLease
  \/ SignalVm \/ SignalLease

BuildNext ==
  \/ Launcher
  \/ TransportFails \/ LeaseLost \/ Signal
  \/ \E n \in Session : PackerActs(n)

BuildSpec == BuildInit /\ [][BuildNext]_buildVars

\* Packer gives up in the end (communicator and API timeouts), a session that
\* never started is a connection that fails, and the launcher goes on.
BuildFairness ==
  /\ WF_buildVars(Launcher)
  /\ WF_buildVars(phase = "watch" /\ packer[session] = "none" /\ TransportFails)
  /\ \A n \in Session : WF_buildVars(PackerActs(n))

FairBuildSpec == BuildSpec /\ BuildFairness

-----------------------------------------------------------------------------

BuildTypeOK ==
  /\ phase \in Phase
  /\ attempt \in 1 .. Attempts
  /\ transport \in 0 .. MaxTransport
  /\ session \in {0} \cup Session
  /\ packer \in [Session -> Packer]
  /\ vm \in {0} \cup Session
  /\ template \in BOOLEAN
  /\ slot \in BOOLEAN
  /\ lease \in BOOLEAN
  /\ result \in {"none", "ok", "error"}
  /\ missed \in BOOLEAN

\* A VM is always in somebody's charge: the run holds its slot, a living Packer
\* session destroys it when it ends, or the lease names it.  So no order of the
\* finally and of the cleanups leaves a VM that nobody will remove, unless one
\* of them failed or a signal after a lost lease skipped it.
VmInCharge ==
  vm # 0 /\ ~missed => slot \/ lease \/ Alive # {}

\* However a build ends, by success, failure, signal or a lost lease, its VM
\* goes, unless a cleanup failed or a signal after a lost lease skipped it.
VmGoesAway == [](phase = "done" => <>(vm = 0 \/ missed))

\* The build ends: attempts are finite, and transport failures, which spend
\* none, are counted (TRANSPORT_BACKOFF_MS).
RunEnds == <>(phase = "done")

=============================================================================
