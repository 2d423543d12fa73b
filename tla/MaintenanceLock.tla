--------------------------- MODULE MaintenanceLock ---------------------------
(***************************************************************************)
(* The maintenance lock (src/build/maintenance.ts): a flock on the node,   *)
(* held by a remote `cat` for as long as an SSH connection lives.  Builds, *)
(* verifications and prunes share it, a clean excludes them.  The two ends *)
(* of a connection notice its end separately, and what a command started   *)
(* on the node goes on without the command.                                *)
(***************************************************************************)
EXTENDS FiniteSets

CONSTANTS
  Sharers,   \* runs of build, verify and prune
  Cleaners   \* runs of clean

ASSUME DisjointCommands == Sharers \cap Cleaners = {}

Command == Sharers \cup Cleaners

VARIABLES
  local,   \* what the command does
  child,   \* its ssh client
  link,    \* the connection: "cut" by the network, "closed" by a dying command
  holder,  \* flock and its cat on the node
  stage,   \* the command's work on the node; a run lease names Packer's
  unheld   \* history: work ran on the node while the flock was not held

lockVars == <<local, child, link, holder, stage, unheld>>

Local == {"idle", "acquiring", "working", "releasing",
          "abandoned", "ok", "failed", "dead"}
Child == {"none", "running", "exited"}
Link == {"none", "up", "cut", "closed"}
Holder == {"none", "waiting", "holding", "gone"}
Stage == {"none", "leased", "unleased"}

LockTypeOK ==
  /\ local \in [Command -> Local]
  /\ child \in [Command -> Child]
  /\ link \in [Command -> Link]
  /\ holder \in [Command -> Holder]
  /\ stage \in [Command -> Stage]
  /\ unheld \subseteq Command
  /\ \A c \in Command : link[c] = "none" <=> local[c] = "idle"

LockInit ==
  /\ local = [c \in Command |-> "idle"]
  /\ child = [c \in Command |-> "none"]
  /\ link = [c \in Command |-> "none"]
  /\ holder = [c \in Command |-> "none"]
  /\ stage = [c \in Command |-> "none"]
  /\ unheld = {}

Compatible(c, d) == c \in Sharers /\ d \in Sharers

Exposed(c) == IF stage[c] = "none" THEN unheld ELSE unheld \cup {c}

-----------------------------------------------------------------------------
(* acquireRemoteMaintenanceLock.                                            *)

\* spawn('ssh', ... flock -s | -x ...).
Spawn(c) ==
  /\ local[c] = "idle"
  /\ local' = [local EXCEPT ![c] = "acquiring"]
  /\ child' = [child EXCEPT ![c] = "running"]
  /\ link' = [link EXCEPT ![c] = "up"]
  /\ holder' = [holder EXCEPT ![c] = "waiting"]
  /\ UNCHANGED <<stage, unheld>>

\* The kernel grants the flock, to a flock whose connection is gone as well.
Grant(c) ==
  /\ holder[c] = "waiting"
  /\ \A d \in Command \ {c} : holder[d] = "holding" => Compatible(c, d)
  /\ holder' = [holder EXCEPT ![c] = "holding"]
  /\ UNCHANGED <<local, child, link, stage, unheld>>

\* The marker arrives.
Marker(c) ==
  /\ local[c] = "acquiring" /\ child[c] = "running"
  /\ link[c] = "up" /\ holder[c] = "holding"
  /\ local' = [local EXCEPT ![c] = "working"]
  /\ UNCHANGED <<child, link, holder, stage, unheld>>

-----------------------------------------------------------------------------
(* The work.  Losing the lock fails the command and leaves its work going.   *)

\* The next step on the node of a build, a verification or a prune.
StartStage(c) ==
  /\ c \in Sharers
  /\ local[c] \in {"working", "abandoned"} /\ stage[c] = "none"
  /\ \E kind \in {"leased", "unleased"} : stage' = [stage EXCEPT ![c] = kind]
  /\ unheld' = IF holder[c] = "holding" THEN unheld ELSE unheld \cup {c}
  /\ UNCHANGED <<local, child, link, holder>>

\* Mutant: a clean deletes at once.
StartCleanSparing(c) ==
  /\ c \in Cleaners
  /\ local[c] = "working" /\ stage[c] = "none"
  /\ stage' = [stage EXCEPT ![c] = "unleased"]
  /\ unheld' = IF holder[c] = "holding" THEN unheld ELSE unheld \cup {c}
  /\ UNCHANGED <<local, child, link, holder>>

\* A clean kills the processes that leases name, then deletes.
StartClean(c) ==
  /\ c \in Cleaners
  /\ local[c] = "working" /\ stage[c] = "none"
  /\ stage' = [d \in Command |->
                 IF d = c THEN "unleased"
                 ELSE IF stage[d] = "leased" THEN "none" ELSE stage[d]]
  /\ unheld' = IF holder[c] = "holding" THEN unheld ELSE unheld \cup {c}
  /\ UNCHANGED <<local, child, link, holder>>

EndStage(c) ==
  /\ stage[c] # "none"
  /\ stage' = [stage EXCEPT ![c] = "none"]
  /\ UNCHANGED <<local, child, link, holder, unheld>>

-----------------------------------------------------------------------------
(* release, and the ways to lose the lock.                                  *)

\* Mutant: a client that has exited counts as released.
ReleaseUnchecked(c) ==
  /\ local[c] = "working" /\ stage[c] = "none"
  /\ local' = [local EXCEPT ![c] = IF child[c] = "exited" THEN "ok" ELSE "releasing"]
  /\ UNCHANGED <<child, link, holder, stage, unheld>>

\* The work is done: throw if the client has exited, else close its stdin.
Release(c) ==
  /\ local[c] = "working" /\ stage[c] = "none"
  /\ local' = [local EXCEPT ![c] = IF child[c] = "exited" THEN "failed" ELSE "releasing"]
  /\ UNCHANGED <<child, link, holder, stage, unheld>>

\* Mutant: the holder does not read its input, and outlives a dead command.
HolderEndsOnRelease(c) ==
  /\ holder[c] = "holding" /\ local[c] = "releasing"
  /\ holder' = [holder EXCEPT ![c] = "gone"]
  /\ unheld' = Exposed(c)
  /\ UNCHANGED <<local, child, link, stage>>

\* cat reads the end of its input, and flock exits with it.
HolderEnds(c) ==
  /\ holder[c] = "holding"
  /\ \/ link[c] = "up" /\ local[c] = "releasing"
     \/ link[c] \in {"cut", "closed"}
  /\ holder' = [holder EXCEPT ![c] = "gone"]
  /\ unheld' = Exposed(c)
  /\ UNCHANGED <<local, child, link, stage>>

\* The client exits with flock's status, 0.
Released(c) ==
  /\ local[c] = "releasing" /\ child[c] = "running"
  /\ link[c] = "up" /\ holder[c] = "gone"
  /\ local' = [local EXCEPT ![c] = "ok"]
  /\ child' = [child EXCEPT ![c] = "exited"]
  /\ UNCHANGED <<link, holder, stage, unheld>>

Cut(c) ==
  /\ link[c] = "up"
  /\ link' = [link EXCEPT ![c] = "cut"]
  /\ UNCHANGED <<local, child, holder, stage, unheld>>

\* ServerAliveInterval: ssh gives up.
ClientExits(c) ==
  /\ link[c] = "cut" /\ child[c] = "running"
  /\ child' = [child EXCEPT ![c] = "exited"]
  /\ UNCHANGED <<local, link, holder, stage, unheld>>

\* The exit fails the acquisition or the release, or `lost` wins the race.
Lost(c) ==
  /\ child[c] = "exited" /\ local[c] \in {"acquiring", "working", "releasing"}
  /\ local' = [local EXCEPT ![c] = IF local[c] = "working" THEN "abandoned" ELSE "failed"]
  /\ UNCHANGED <<child, link, holder, stage, unheld>>

\* The command is killed, by a crash or a signal.
Die(c) ==
  /\ local[c] \in {"acquiring", "working", "releasing", "abandoned"}
  /\ local' = [local EXCEPT ![c] = "dead"]
  /\ child' = [child EXCEPT ![c] = "exited"]
  /\ link' = [link EXCEPT ![c] = IF link[c] = "up" THEN "closed" ELSE link[c]]
  /\ UNCHANGED <<holder, stage, unheld>>

-----------------------------------------------------------------------------

LockNext ==
  \E c \in Command :
    \/ Spawn(c) \/ Grant(c) \/ Marker(c)
    \/ StartStage(c) \/ StartClean(c) \/ EndStage(c)
    \/ Release(c) \/ HolderEnds(c) \/ Released(c)
    \/ Cut(c) \/ ClientExits(c) \/ Lost(c) \/ Die(c)

LockSpec == LockInit /\ [][LockNext]_lockVars

\* The kernel and both ends of a connection act in the end, steps on the node
\* end, and a command takes finitely many of them before it releases.
LockFairness ==
  \A c \in Command :
    /\ WF_lockVars(Grant(c)) /\ WF_lockVars(Marker(c)) /\ WF_lockVars(EndStage(c))
    /\ WF_lockVars(HolderEnds(c)) /\ WF_lockVars(Released(c))
    /\ WF_lockVars(ClientExits(c)) /\ WF_lockVars(Lost(c))
    /\ SF_lockVars(Release(c))

FairLockSpec == LockSpec /\ LockFairness

-----------------------------------------------------------------------------

Over == {"abandoned", "ok", "failed", "dead"}

\* A command that reports success held the flock from its first to its last
\* step on the node, whichever end of a broken connection noticed first.
OkWasHeld == \A c \in Command : local[c] = "ok" => c \notin unheld

\* A clean that still has its connection runs beside another command's work
\* only if the network cut the other off, or the other died and left work that
\* no lease names.
CleanRunsAlone ==
  \A c \in Cleaners, d \in Command :
    c # d /\ stage[c] # "none" /\ link[c] = "up" /\ stage[d] # "none"
      => link[d] = "cut" \/ (link[d] = "closed" /\ stage[d] = "unleased")

\* No command waits for ever: whoever ends leaves the lock behind for the others.
EveryoneEnds == \A c \in Command : local[c] = "acquiring" ~> local[c] # "acquiring"

=============================================================================
