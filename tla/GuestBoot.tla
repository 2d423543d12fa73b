------------------------------ MODULE GuestBoot ------------------------------
(***************************************************************************)
(* How `cf verify' judges the guest it has restored: it seeds cloud-init,  *)
(* boots the clone, waits until the guest has initialised itself, runs the *)
(* checks of the first boot, reboots the guest from inside, runs those of  *)
(* the second, and on Windows logs on and looks at the desktop.  All it    *)
(* has to go by is an agent that comes and goes, and that answers on       *)
(* boots it should not be asked on.                                        *)
(*                                                                         *)
(* A check is known by its id, and so is the flaw of an image it asserts   *)
(* the absence of: an image has at most one flaw.                          *)
(***************************************************************************)
EXTENDS Integers, Sequences

CONSTANTS
  Recipes,    \* of "debian-13", "windows-server-2022" and "windows-server-2025"
  Levels,     \* of "quick" and "full"
  Shuffles,   \* passwords, as the classes of their characters
  MaxPolls,   \* bound: polls that fit into a timeout
  MaxOutage   \* calls in a row a sound guest's agent may leave unanswered

ASSUME GuestAssumption ==
  /\ Recipes \subseteq {"debian-13", "windows-server-2022", "windows-server-2025"}
  /\ Levels \subseteq {"quick", "full"}
  /\ MaxPolls \in Nat /\ MaxOutage \in Nat
  /\ \A s \in Shuffles : s \in Seq({"alnum", "symbol"}) /\ \E i \in DOMAIN s : s[i] = "alnum"

VARIABLES
  recipe, level,
  flaw,     \* the id of the check the image should fail, or "none"
  seed,     \* what the cloud-init drive holds
  guest,    \* the guest: power, boots so far, initialisation, logon
  silence,  \* calls in a row the agent of a running guest left unanswered
  pc, phase,
  next,     \* the position in the suite from which the phase goes on
  tries,    \* attempts or polls of the current step
  stable,   \* stableBootId of waitForWindowsInit
  before,   \* the boot id read before a reboot
  failed,   \* some result is a failure: warnings change no verdict
  verdict,
  mishaps   \* history: what other than the image stood in the way: "disturbed"
            \* (answers that came late or never), "misread" (an exception taken
            \* for a boot id), "thrown" (one that ended a check), "late" (the
            \* desktop), "blind" (no frame)

judging == <<pc, phase, next, tries, stable, before, failed, verdict>>
guestVars == <<recipe, level, flaw, seed, guest, silence, judging, mishaps>>

-----------------------------------------------------------------------------
(* The suites.                                                             *)

Suite(p, severity, ids) ==
  [i \in DOMAIN ids |-> [id |-> ids[i], phase |-> p, severity |-> severity]]

LinuxInitChecks == Suite("first-boot", "fail",
  <<"cloud-init-done", "cloud-init-no-errors", "hostname-applied",
    "ci-user-exists", "ci-sshkey-injected">>)

LinuxLeftoverChecks == Suite("first-boot", "fail",
  <<"no-foreign-authorized-keys", "no-build-user">>)

LinuxFreshChecks ==
  Suite("first-boot", "fail",
    <<"disk-fully-partitioned", "ssh-host-keys-regenerated", "machine-id-valid">>)
  \o Suite("first-boot", "warn", <<"machine-id-regenerated">>)
  \o Suite("first-boot", "fail", <<"guest-agent-not-disabled">>)

LinuxHealthChecks ==
  Suite("first-boot", "warn", <<"systemd-healthy-first-boot">>)
  \o Suite("post-reboot", "fail", <<"systemd-healthy", "hostname-persists">>)
  \o Suite("post-reboot", "warn", <<"dns-resolves">>)

WindowsInitChecks == Suite("first-boot", "fail",
  <<"generalization-state", "cloudbase-init-completed", "build-profile-removed">>)

WindowsExposureChecks == Suite("first-boot", "fail",
  <<"winrm-not-exposed", "rdp-enabled", "no-plaintext-build-password",
    "guest-agent-automatic">>)

WindowsRestoredChecks ==
  Suite("first-boot", "fail", <<"cipassword-validates", "wu-policy-restored">>)
  \o Suite("first-boot", "warn", <<"pagefile-restored", "rearm-headroom">>)

WindowsRebootChecks ==
  Suite("post-reboot", "fail", <<"hostname-applied", "system-volume-extended">>)
  \o Suite("post-reboot", "warn", <<"no-critical-service-failures">>)

WindowsShellChecks ==
  Suite("post-logon", "fail", <<"shell-no-crashes", "shell-session-present">>)

WingetPresentCheck == Suite("post-logon", "fail", <<"winget-present">>)

LinuxSuite == LinuxInitChecks \o LinuxLeftoverChecks \o LinuxFreshChecks \o LinuxHealthChecks
WindowsSuite ==
  WindowsInitChecks \o WindowsExposureChecks \o WindowsRestoredChecks
  \o WindowsRebootChecks \o WindowsShellChecks

IsWindows(r) == r # "debian-13"
Overrides(r) == IF r = "windows-server-2025" THEN WingetPresentCheck ELSE <<>>

(* An override replaces the check with its id, or is appended.  A suite is *)
(* known by its positions, and its checks run in their order.              *)
MergeChecks(base, overrides) ==
  LET Replacement(c) == {o \in {overrides[i] : i \in DOMAIN overrides} : o.id = c.id}
      Kept(c) == IF Replacement(c) = {} THEN c ELSE CHOOSE o \in Replacement(c) : TRUE
      New == {i \in DOMAIN overrides : \A j \in DOMAIN base : base[j].id # overrides[i].id}
  IN [k \in DOMAIN base \cup {Len(base) + i : i \in New} |->
        IF k \in DOMAIN base THEN Kept(base[k]) ELSE overrides[k - Len(base)]]

Suites ==
  [r \in Recipes |-> MergeChecks(IF IsWindows(r) THEN WindowsSuite ELSE LinuxSuite, Overrides(r))]
SuiteFor(r) == Suites[r]

ChecksForPhase(r, p) == {k \in DOMAIN SuiteFor(r) : SuiteFor(r)[k].phase = p}

(* The console is judged like a check: hard on Windows, advisory on Linux. *)
Console == "console-not-blank"
ScreenSeverity(r) == IF IsWindows(r) THEN "fail" ELSE "warn"

Ids(r) == {SuiteFor(r)[i].id : i \in DOMAIN SuiteFor(r)} \cup {Console}
Severe(r, id) ==
  IF id = Console THEN ScreenSeverity(r) = "fail"
  ELSE \E i \in DOMAIN SuiteFor(r) : SuiteFor(r)[i].id = id /\ SuiteFor(r)[i].severity = "fail"

-----------------------------------------------------------------------------
(* The guest, and what its checks observe.                                 *)

NoSeed == [lead |-> "none", keys |-> FALSE]
Running == guest.power \in {"up", "stopping"}
Configured == seed.lead = "alnum"   \* Proxmox writes the password unquoted

(* Cloud-init never gets anywhere in these images. *)
Stuck == flaw \in {"cloud-init-done", "generalization-state"}

InitStarts ==
  /\ guest.power = "up" /\ guest.init = "waiting" /\ ~Stuck
  /\ guest' = [guest EXCEPT !.init = "running"]
  /\ UNCHANGED <<recipe, level, flaw, seed, silence, judging, mishaps>>

(* On Windows the log says done before the name has taken effect. *)
PluginsDone ==
  /\ guest.power = "up" /\ guest.init = "running"
  /\ guest' = [guest EXCEPT !.init = IF IsWindows(recipe) THEN "marked" ELSE "done",
                            !.initBoot = guest.boot]
  /\ UNCHANGED <<recipe, level, flaw, seed, silence, judging, mishaps>>

RenameReboot ==
  /\ guest.power = "up" /\ guest.init = "marked"
  /\ guest' = [guest EXCEPT !.power = "stopping"]
  /\ UNCHANGED <<recipe, level, flaw, seed, silence, judging, mishaps>>

GoesDown ==
  /\ guest.power = "stopping"
  /\ guest' = [guest EXCEPT !.power = "off", !.session = FALSE]
  /\ UNCHANGED <<recipe, level, flaw, seed, silence, judging, mishaps>>

ComesUp ==
  /\ guest.power = "off" /\ guest.boot > 0
  /\ guest' = [guest EXCEPT !.power = "up", !.boot = @ + 1,
                 !.init = IF @ = "marked" THEN "done" ELSE @,
                 !.initBoot = IF guest.init = "marked" THEN guest.boot + 1 ELSE @]
  /\ silence' = 0
  /\ UNCHANGED <<recipe, level, flaw, seed, judging, mishaps>>

LogsOn ==
  /\ guest.power = "up" /\ guest.armed
  /\ guest.boot > guest.armBoot
  /\ guest' = [guest EXCEPT !.session = TRUE, !.armed = FALSE, !.profile = TRUE]
  /\ UNCHANGED <<recipe, level, flaw, seed, silence, judging, mishaps>>

GuestStep ==
  InitStarts \/ PluginsDone \/ RenameReboot \/ GoesDown \/ ComesUp \/ LogsOn

AppliedByInit ==
  {"cloud-init-done", "cloud-init-no-errors", "hostname-applied", "hostname-persists",
   "disk-fully-partitioned", "machine-id-valid", "system-volume-extended",
   "generalization-state", "cloudbase-init-completed"}
AppliedFromUserData == {"ci-user-exists", "ci-sshkey-injected", "cipassword-validates"}
NewOnThisBoot == {"ssh-host-keys-regenerated", "machine-id-regenerated"}
AfterCleanReboot ==
  {"systemd-healthy", "hostname-persists", "no-critical-service-failures"}

(* What a check finds.  A flaw of a later stage does not show earlier.     *)
Observed(id) ==
  /\ id \in AppliedByInit \cup AppliedFromUserData \cup NewOnThisBoot => guest.init = "done"
  /\ id \in AppliedFromUserData => Configured
  /\ id \in NewOnThisBoot => guest.boot = guest.initBoot
  /\ id = "cloudbase-init-completed" => ~seed.keys   \* the guest has no OpenSSH
  /\ id = "build-profile-removed" => ~guest.profile
  /\ id = "shell-session-present" => guest.session
  /\ id = flaw =>
       CASE id \in AfterCleanReboot -> guest.boot = guest.initBoot
         [] id = "shell-no-crashes" -> ~guest.session
         [] OTHER -> FALSE

-----------------------------------------------------------------------------
(* guestExec: the command runs or not, and its answer arrives or not.  An  *)
(* answer without an exit code is one that took longer than the timeout.   *)

Reply == {"answer", "slow", "lost", "refused"}

Transport(reply) == reply \in {"lost", "refused"}

GuestExec(reply) ==
  /\ reply \in Reply
  /\ reply # "refused" => Running
  /\ silence' = CASE guest.power # "up" -> silence
                  [] Transport(reply) -> IF silence > MaxOutage THEN silence ELSE silence + 1
                  [] OTHER -> 0

(* The agent was away for longer than it should be, or the guest too slow. *)
Disturbed(reply) == reply = "slow" \/ silence' > MaxOutage

(* The boot id, "" if the agent did not say.  The PowerShell wrapper       *)
(* writes what it catches to stdout, so an exception reads like an id.     *)
NoId == 0
Exception == -1
BootIdReplies(reply) ==
  IF reply # "answer" THEN {NoId}
  ELSE {guest.boot} \cup (IF IsWindows(recipe) THEN {Exception} ELSE {})

-----------------------------------------------------------------------------
GuestInit ==
  /\ recipe \in Recipes
  /\ level \in Levels
  /\ flaw \in Ids(recipe) \cup {"none"}
  /\ seed = NoSeed
  /\ guest = [power |-> "off", boot |-> 0, init |-> "waiting", initBoot |-> 0,
              armed |-> FALSE, armBoot |-> 0, session |-> FALSE, profile |-> FALSE]
  /\ silence = 0
  /\ pc = "prepare" /\ phase = "none" /\ next = 1 /\ tries = 0
  /\ stable = NoId /\ before = NoId
  /\ failed = FALSE
  /\ verdict = "none"
  /\ mishaps = {}

Mishap(kind, happened) ==
  mishaps' = IF happened THEN mishaps \cup {kind} ELSE mishaps

Throw ==
  /\ verdict' = "failed" /\ pc' = "ended"
  /\ UNCHANGED <<phase, next, tries, stable, before, failed>>

Proceed(step) ==
  /\ pc' = step /\ tries' = 0
  /\ UNCHANGED <<phase, next, stable, before, failed, verdict>>

StartPhase(p) ==
  /\ pc' = "check" /\ phase' = p /\ next' = 1 /\ tries' = 0
  /\ UNCHANGED <<stable, before, failed, verdict>>

(* A password starts with a letter or a digit, whatever the shuffle did. *)
SentinelPassword(chars) ==
  LET lead == CHOOSE i \in DOMAIN chars :
                /\ chars[i] = "alnum"
                /\ \A j \in 1 .. i - 1 : chars[j] # "alnum"
  IN [chars EXCEPT ![1] = chars[lead], ![lead] = chars[1]]

(* Windows ships no OpenSSH: a key would make a plugin of its init fail. *)
CloudInitSet(password, windows) == [lead |-> password[1], keys |-> ~windows]

PrepareCloudInit ==
  /\ pc = "prepare"
  /\ \/ /\ level = "quick"
        /\ Proceed("start") /\ UNCHANGED <<seed, mishaps>>
     \/ /\ level = "full"
        /\ \E chars \in Shuffles :
             seed' = CloudInitSet(SentinelPassword(chars), IsWindows(recipe))
        /\ Proceed("start") /\ UNCHANGED mishaps
     \/ level = "full" /\ Throw /\ Mishap("disturbed", TRUE) /\ UNCHANGED seed
  /\ UNCHANGED <<recipe, level, flaw, guest, silence>>

QmStart ==
  /\ pc = "start"
  /\ \/ /\ guest' = [guest EXCEPT !.power = "up", !.boot = 1]
        /\ Proceed("ping") /\ UNCHANGED mishaps
     \/ Throw /\ Mishap("disturbed", TRUE) /\ UNCHANGED guest
  /\ UNCHANGED <<recipe, level, flaw, seed, silence>>

(* One more poll, or the timeout: whoever is too slow for it is to blame,  *)
(* unless the image is stuck.                                              *)
\* Mutant: polls are not counted.
PollAgainForever ==
  /\ tries < MaxPolls
  /\ UNCHANGED <<tries, pc, phase, next, before, failed, verdict>>

PollAgain ==
  /\ tries < MaxPolls
  /\ tries' = tries + 1
  /\ UNCHANGED <<pc, phase, next, before, failed, verdict>>

TimesOut == tries >= MaxPolls /\ Throw /\ Mishap("disturbed", TRUE)

PingGuest ==
  /\ pc = "ping"
  /\ \E reply \in Reply \ {"slow"} :
       /\ GuestExec(reply)
       /\ IF reply = "answer"
          THEN /\ IF level = "quick"
                  THEN /\ verdict' = "passed" /\ pc' = "ended"
                       /\ UNCHANGED <<phase, next, tries, stable, before, failed>>
                  ELSE IF IsWindows(recipe) THEN Proceed("idle") ELSE StartPhase("first-boot")
               /\ UNCHANGED mishaps
          ELSE \/ PollAgain /\ UNCHANGED <<stable, mishaps>>
               \/ TimesOut
  /\ UNCHANGED <<recipe, level, flaw, seed, guest>>

(* The service has run and is not running, and the name it gave the guest  *)
(* is the active one, so the reboot for it is behind: never, if the image  *)
(* does not take the name.                                                 *)
\* Mutant: the log marker is enough, before the reboot for the name.
CloudbaseIdleEarly == guest.init \in {"marked", "done"}

CloudbaseIdle == guest.init = "done" /\ flaw # "hostname-applied"

WaitForIdle ==
  /\ pc = "idle"
  /\ \E reply \in Reply, busy \in BOOLEAN :
       /\ GuestExec(reply)
       /\ IF reply = "answer" /\ CloudbaseIdle /\ ~busy
          THEN /\ pc' = "settled"
               /\ UNCHANGED <<phase, next, tries, stable, before, failed, verdict, mishaps>>
          ELSE \/ PollAgain /\ stable' = NoId /\ UNCHANGED mishaps
               \/ TimesOut
  /\ UNCHANGED <<recipe, level, flaw, seed, guest>>

(* The boot id read right after an idle answer: the wait ends when it is   *)
(* that of the idle answer before.                                         *)
WaitForSettled ==
  /\ pc = "settled"
  /\ \E reply \in Reply : \E id \in BootIdReplies(reply) :
       /\ GuestExec(reply)
       /\ IF id # NoId /\ id = stable
          THEN StartPhase("first-boot") /\ UNCHANGED mishaps
          ELSE \/ /\ tries < MaxPolls
                  /\ tries' = tries + 1 /\ pc' = "idle" /\ stable' = id
                  /\ UNCHANGED <<phase, next, before, failed, verdict, mishaps>>
               \/ TimesOut
  /\ UNCHANGED <<recipe, level, flaw, seed, guest>>

-----------------------------------------------------------------------------
TransportAttempts == 4
BootIdAttempts == 4

AfterPhase(p) ==
  CASE p = "first-boot" -> "baseline"
    [] p = "post-reboot" -> IF IsWindows(recipe) THEN "arm" ELSE "frame"
    [] p = "post-logon" -> "frame"

(* cloud-init status --wait blocks until there is something to report. *)
Blocks(id) == id = "cloud-init-done" /\ guest.init # "done" /\ ~Stuck

Evaluate(check, reply) ==
  IF reply = "answer" /\ Observed(check.id) THEN "pass" ELSE check.severity

Report(status) == failed' = (failed \/ status = "fail")

ToRun == {k \in ChecksForPhase(recipe, phase) : k >= next}

(* Only an agent that did not answer is asked again.  A PowerShell check   *)
(* that throws exits 1, like one that found a flaw.                        *)
RunCheck ==
  /\ pc = "check"
  /\ \E k \in ToRun, reply \in Reply, thrown \in BOOLEAN :
       LET check == SuiteFor(recipe)[k] IN
       /\ \A j \in ToRun : k <= j
       /\ GuestExec(reply)
       /\ reply = "answer" => ~Blocks(check.id)
       /\ thrown => reply = "answer" /\ IsWindows(recipe)
       /\ IF Transport(reply) /\ tries + 1 < TransportAttempts
          THEN /\ tries' = tries + 1
               /\ UNCHANGED <<next, failed, mishaps>>
          ELSE /\ Report(IF thrown THEN check.severity ELSE Evaluate(check, reply))
               /\ next' = k + 1 /\ tries' = 0
               /\ IF thrown THEN Mishap("thrown", TRUE)
                  ELSE Mishap("disturbed", Disturbed(reply))
  /\ UNCHANGED <<recipe, level, flaw, seed, guest, pc, phase, stable, before, verdict>>

PhaseEnds ==
  /\ pc = "check" /\ ToRun = {}
  /\ Proceed(AfterPhase(phase))
  /\ UNCHANGED <<recipe, level, flaw, seed, guest, silence, mishaps>>

(* Autologon for the next boot; nobody looks whether it was armed. *)
ArmAutologon ==
  /\ pc = "arm"
  /\ \E reply \in Reply, took \in BOOLEAN :
       /\ GuestExec(reply)
       /\ (reply = "answer" => took) /\ (reply = "refused" => ~took)
       /\ guest' = IF took THEN [guest EXCEPT !.armed = TRUE, !.armBoot = guest.boot] ELSE guest
       /\ Mishap("disturbed", ~took)
  /\ Proceed("baseline")
  /\ UNCHANGED <<recipe, level, flaw, seed>>

ReadBaseline ==
  /\ pc = "baseline"
  /\ \E reply \in Reply : \E id \in BootIdReplies(reply) :
       /\ GuestExec(reply)
       /\ IF id # NoId
          THEN /\ before' = id /\ pc' = "reboot" /\ tries' = 0
               /\ Mishap("misread", id = Exception)
               /\ UNCHANGED <<phase, next, stable, failed, verdict>>
          ELSE /\ Mishap("disturbed", Disturbed(reply))
               /\ IF tries + 1 < BootIdAttempts
                  THEN /\ tries' = tries + 1
                       /\ UNCHANGED <<pc, phase, next, stable, before, failed, verdict>>
                  ELSE Throw
  /\ UNCHANGED <<recipe, level, flaw, seed, guest>>

(* The trigger is sent once and its answer ignored. *)
TriggerReboot ==
  /\ pc = "reboot"
  /\ \E reply \in Reply, took \in BOOLEAN :
       /\ GuestExec(reply)
       /\ (reply = "answer" => took) /\ (reply = "refused" => ~took)
       /\ guest' = IF took THEN [guest EXCEPT !.power = "stopping"] ELSE guest
       /\ Mishap("disturbed", ~took)
  /\ Proceed("confirm")
  /\ UNCHANGED <<recipe, level, flaw, seed>>

\* Mutant: any boot id that can be read counts as a new one.
NewBootAny(id) == id # NoId

NewBoot(id) == id # NoId /\ id # before

ConfirmReboot ==
  /\ pc = "confirm"
  /\ \E reply \in Reply : \E id \in BootIdReplies(reply) :
       /\ GuestExec(reply)
       /\ IF NewBoot(id)
          THEN /\ IF phase = "first-boot" THEN StartPhase("post-reboot") ELSE Proceed("settle")
               /\ Mishap("misread", id = Exception)
          ELSE \/ PollAgain /\ UNCHANGED <<stable, mishaps>>
               \/ TimesOut
  /\ UNCHANGED <<recipe, level, flaw, seed, guest>>

ShellSettles ==
  /\ pc = "settle"
  /\ StartPhase("post-logon")
  /\ Mishap("late", ~guest.session)
  /\ UNCHANGED <<recipe, level, flaw, seed, guest, silence>>

(* A desktop nobody painted, or a Linux console that has blanked itself. *)
Uniform ==
  \/ flaw = Console /\ (IsWindows(recipe) => guest.session)
  \/ guest.power # "up"

CaptureFrame ==
  /\ pc = "frame"
  /\ \/ UNCHANGED failed /\ mishaps' = mishaps \cup {"blind"}   \* no frame, no result
     \/ /\ Report(IF Uniform THEN ScreenSeverity(recipe) ELSE "pass")
        /\ UNCHANGED mishaps
     \/ /\ ~IsWindows(recipe)
        /\ Report("warn") /\ UNCHANGED mishaps
  /\ pc' = "judge"
  /\ UNCHANGED <<recipe, level, flaw, seed, guest, silence, phase, next, tries,
                 stable, before, verdict>>

Summarize ==
  /\ pc = "judge"
  /\ verdict' = IF failed THEN "failed" ELSE "passed"
  /\ pc' = "ended"
  /\ UNCHANGED <<recipe, level, flaw, seed, guest, silence, phase, next, tries,
                 stable, before, failed, mishaps>>

Judge ==
  \/ PrepareCloudInit \/ QmStart \/ PingGuest \/ WaitForIdle \/ WaitForSettled
  \/ RunCheck \/ PhaseEnds \/ ArmAutologon \/ ReadBaseline \/ TriggerReboot
  \/ ConfirmReboot \/ ShellSettles \/ CaptureFrame \/ Summarize

GuestNext == Judge \/ (pc # "ended" /\ GuestStep)

GuestSpec == GuestInit /\ [][GuestNext]_guestVars /\ WF_guestVars(Judge)

-----------------------------------------------------------------------------
(* An image with a flaw that one of its hard checks names is not passed,   *)
(* not one that shows only after a reboot or a logon either: unless a boot *)
(* id was misread, or the desktop came up after it was first looked at or  *)
(* could not be seen.                                                      *)
Overlooked ==
  CASE flaw = Console -> {"misread", "late", "blind"}
    [] flaw = "shell-no-crashes" -> {"misread", "late"}
    [] OTHER -> {"misread"}

FlawsFail ==
  verdict = "passed" /\ level = "full" /\ flaw # "none" /\ Severe(recipe, flaw)
    => mishaps \cap Overlooked # {}

(* A sound image passes, however the guest initialises itself, restarts    *)
(* for its name and lets the agent go silent for a while: a verification   *)
(* that fails one met a node that could not configure or start the VM, an  *)
(* agent away for longer, a lost request to reboot or to log on, a         *)
(* timeout, a desktop that was not up when first looked at, a check that   *)
(* threw, or an exception it took for a boot id.                           *)
SoundImagePasses ==
  verdict = "failed" /\ flaw = "none" => mishaps \ {"blind"} # {}

(* A verification comes to a verdict. *)
VerdictComes == <>(pc = "ended")

(* What guest.ts says of the boot id: the checks that follow a reboot do   *)
(* not run on the boot it was asked for on.                                *)
RebootProven == pc = "check" /\ phase # "first-boot" => guest.boot > before

GuestTypeOK ==
  /\ recipe \in Recipes /\ level \in Levels
  /\ flaw \in Ids(recipe) \cup {"none"}
  /\ seed \in [lead : {"none", "alnum", "symbol"}, keys : BOOLEAN]
  /\ guest \in [power : {"off", "up", "stopping"}, boot : Nat,
                init : {"waiting", "running", "marked", "done"}, initBoot : Nat,
                armed : BOOLEAN, armBoot : Nat, session : BOOLEAN, profile : BOOLEAN]
  /\ silence \in 0 .. MaxOutage + 1
  /\ next \in Nat /\ tries \in Nat
  /\ stable \in Int /\ before \in Int
  /\ failed \in BOOLEAN
  /\ verdict \in {"none", "passed", "failed"}
  /\ mishaps \subseteq {"disturbed", "misread", "thrown", "late", "blind"}
=============================================================================
