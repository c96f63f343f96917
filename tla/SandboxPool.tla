---------------------------- MODULE SandboxPool -----------------------------
(***************************************************************************)
(* The Docker sandbox of one conversation (docker-sandbox.ts): the pool    *)
(* entry, the sandbox objects it held and their containers, the turn that  *)
(* holds a sandbox and runs commands in it side by side, the recovery of a *)
(* container that Docker lost, the sweep of idle entries, the replacement  *)
(* when the repositories change, and what a death of the process leaves    *)
(* behind.  A conversation runs one turn at a time.                        *)
(*                                                                         *)
(* Every docker command is a step of its own that may end at any later     *)
(* moment; `removals` are the containers a `docker rm -f` is at work on.   *)
(* Nobody looks how a removal ended: `left` are the containers it left.    *)
(***************************************************************************)
EXTENDS Naturals

CONSTANTS
  Command,        \* commands of a turn
  Repos,          \* sets of repositories the integration may have
  NoRepos,
  MaxBoxes,       \* bound: sandbox objects made
  MaxContainers,  \* bound: containers started
  MaxLosses       \* bound: containers Docker loses or does not remove, deaths, image builds

ASSUME PoolAssumption ==
  /\ NoRepos \notin Repos
  /\ MaxBoxes \in Nat /\ MaxContainers \in Nat /\ MaxLosses \in Nat

VARIABLES
  running,   \* containers that run
  started,   \* containers started so far
  removals,  \* containers being removed
  left,      \* containers that a removal, or the boot, left running
  box,       \* the sandbox objects
  boxes,     \* how many there are
  entry,     \* the pool's entry of the conversation
  ensure,    \* the pool.ensure under way
  turn,      \* sandbox the turn holds
  command,   \* the commands
  enabled,   \* sandboxEnabled
  alive,     \* the process is up and past its boot
  stuck,     \* a replacement failed after the old sandbox was removed
  losses

poolVars == <<running, started, removals, left, box, boxes, entry, ensure, turn, command, enabled,
              alive, stuck, losses>>

Container == 1 .. MaxContainers
NoContainer == 0
Box == 1 .. MaxBoxes
NoBox == 0

\* recovery: #reprovisioning, "clearing" while the old container goes.
Sandbox == [container : Container \cup {NoContainer}, removed : BOOLEAN,
            recovery : {"none", "clearing", "running"}]
NoSandbox == [container |-> NoContainer, removed |-> FALSE, recovery |-> "none"]

NoEntry == [box |-> NoBox, repos |-> NoRepos, idle |-> FALSE]
NoEnsure == [step |-> "none", repos |-> NoRepos, old |-> NoBox]
NoCommand == [step |-> "none", container |-> NoContainer, retry |-> FALSE]

PoolTypeOK ==
  /\ running \subseteq Container /\ removals \subseteq Container /\ left \subseteq running
  /\ started \in 0 .. MaxContainers
  /\ box \in [Box -> Sandbox] /\ boxes \in 0 .. MaxBoxes
  /\ entry \in [box : Box, repos : Repos, idle : BOOLEAN] \cup {NoEntry}
  /\ ensure \in [step : {"removing", "starting"}, repos : Repos, old : Box \cup {NoBox}] \cup {NoEnsure}
  /\ turn \in Box \cup {NoBox}
  /\ command \in [Command -> [step : {"none", "exec", "recovering"},
                              container : Container \cup {NoContainer}, retry : BOOLEAN]]
  /\ enabled \in BOOLEAN /\ alive \in BOOLEAN /\ stuck \in BOOLEAN
  /\ losses \in 0 .. MaxLosses

PoolInit ==
  /\ running = {} /\ started = 0 /\ removals = {} /\ left = {}
  /\ box = [b \in Box |-> NoSandbox] /\ boxes = 0
  /\ entry = NoEntry /\ ensure = NoEnsure /\ turn = NoBox
  /\ command = [e \in Command |-> NoCommand]
  /\ enabled = FALSE /\ alive = FALSE /\ stuck = FALSE
  /\ losses = 0

docker == <<running, started, removals, left>>
phases == <<enabled, alive, losses>>

-----------------------------------------------------------------------------
(* Docker.                                                                 *)

Removing(c) == removals' = removals \cup ({c} \ {NoContainer})

\* The container is gone, or still there.
Removed(c) == running' = running \ {c} /\ left' = left \ {c} /\ UNCHANGED losses
NotRemoved(c) ==
  /\ c \in running /\ losses < MaxLosses
  /\ losses' = losses + 1
  /\ left' = left \cup {c}
  /\ UNCHANGED running

\* docker rm -f ends, well or not, and whoever awaits it goes on.
Gone(c) ==
  /\ c \in removals
  /\ removals' = removals \ {c}
  /\ Removed(c) \/ NotRemoved(c)
  /\ UNCHANGED <<started, box, boxes, entry, ensure, turn, command, enabled, alive, stuck>>

\* docker run ends well.
RunsNew ==
  /\ started < MaxContainers
  /\ started' = started + 1
  /\ running' = running \cup {started + 1}

\* The daemon restarts, a container runs out of memory, someone removes it.
Lost(c) ==
  /\ c \in running /\ losses < MaxLosses
  /\ losses' = losses + 1
  /\ running' = running \ {c} /\ left' = left \ {c}
  /\ UNCHANGED <<started, removals, box, boxes, entry, ensure, turn, command, enabled, alive, stuck>>

-----------------------------------------------------------------------------
(* The pool.                                                               *)

IsHeld == entry # NoEntry
Used == [entry EXCEPT !.idle = FALSE]

\* Sets the sandbox aside; its container is removed.
SetAside(b) ==
  /\ box' = [box EXCEPT ![b].removed = TRUE]
  /\ Removing(box[b].container)

CanEnsure == alive /\ enabled /\ turn = NoBox /\ ensure = NoEnsure

EnsureReuses(repos) ==
  /\ CanEnsure /\ IsHeld /\ entry.repos = repos
  /\ entry' = Used
  /\ turn' = entry.box
  /\ UNCHANGED <<docker, box, boxes, ensure, command, phases, stuck>>

EnsureReplaces(repos) ==
  /\ CanEnsure /\ IsHeld /\ entry.repos # repos
  /\ SetAside(entry.box)
  /\ ensure' = [step |-> "removing", repos |-> repos, old |-> entry.box]
  /\ UNCHANGED <<running, started, left, boxes, entry, turn, command, phases, stuck>>

EnsureStarts(repos) ==
  /\ CanEnsure /\ ~IsHeld
  /\ ensure' = [step |-> "starting", repos |-> repos, old |-> NoBox]
  /\ UNCHANGED <<docker, box, boxes, entry, turn, command, phases, stuck>>

\* The old container is gone.
EnsureGoesOn ==
  /\ ensure.step = "removing"
  /\ box[ensure.old].container \notin removals
  /\ ensure' = [ensure EXCEPT !.step = "starting", !.old = NoBox]
  /\ UNCHANGED <<docker, box, boxes, entry, turn, command, phases, stuck>>

EnsureEnds ==
  /\ ensure.step = "starting" /\ boxes < MaxBoxes
  /\ RunsNew
  /\ boxes' = boxes + 1
  /\ box' = [box EXCEPT ![boxes + 1] = [NoSandbox EXCEPT !.container = started + 1]]
  /\ entry' = [box |-> boxes + 1, repos |-> ensure.repos, idle |-> FALSE]
  /\ turn' = boxes + 1
  /\ ensure' = NoEnsure
  /\ stuck' = FALSE
  /\ UNCHANGED <<removals, left, command, phases>>

\* A mirror cannot be fetched, docker run fails: an entry that was to be replaced stays.
EnsureFails ==
  /\ ensure.step = "starting"
  /\ ensure' = NoEnsure
  /\ stuck' = IsHeld
  /\ UNCHANGED <<docker, box, boxes, entry, turn, command, phases>>

Idles ==
  /\ IsHeld /\ ~entry.idle
  /\ entry' = [entry EXCEPT !.idle = TRUE]
  /\ UNCHANGED <<docker, box, boxes, ensure, turn, command, phases, stuck>>

\* Mutant: the entry stays.
ReapKeeps ==
  /\ alive /\ IsHeld /\ entry.idle
  /\ SetAside(entry.box)
  /\ UNCHANGED <<running, started, left, boxes, entry, ensure, turn, command, phases, stuck>>

Reap ==
  /\ alive /\ IsHeld /\ entry.idle
  /\ entry' = NoEntry /\ stuck' = FALSE
  /\ SetAside(entry.box)
  /\ UNCHANGED <<running, started, left, boxes, ensure, turn, command, phases>>

-----------------------------------------------------------------------------
(* The turn and its commands.                                              *)

Step(e, step) == command' = [command EXCEPT ![e].step = step]

TurnIsOver ==
  /\ turn # NoBox /\ \A e \in Command : command[e] = NoCommand
  /\ turn' = NoBox
  /\ UNCHANGED <<docker, box, boxes, entry, ensure, command, phases, stuck>>

\* Using a sandbox that is still the entry's keeps it from being idle.
Exec(e) ==
  /\ turn # NoBox /\ command[e] = NoCommand
  /\ command' = [command EXCEPT ![e] = [step |-> "exec", container |-> box[turn].container,
                                        retry |-> FALSE]]
  /\ entry' = IF entry.box = turn THEN Used ELSE entry
  /\ UNCHANGED <<docker, box, boxes, ensure, turn, phases, stuck>>

\* It ran, timed out, or was cut off when its container went.
ExecReturns(e) ==
  /\ command[e].step = "exec"
  /\ command' = [command EXCEPT ![e] = NoCommand]
  /\ UNCHANGED <<docker, box, boxes, entry, ensure, turn, phases, stuck>>

\* The answer says that there is no such container, or that it is not running, in the
\* command's own words maybe: a sandbox that was not removed is recovered, by one for all;
\* after the second try, or when it was removed, the command fails.
Unavailable(e) == command[e].step = "exec"

Recovers(b) ==
  IF box[b].recovery = "none"
  THEN box' = [box EXCEPT ![b].recovery = "clearing"] /\ Removing(box[b].container)
  ELSE UNCHANGED <<box, removals>>

ExecRecovers(e) ==
  /\ Unavailable(e) /\ ~command[e].retry /\ ~box[turn].removed
  /\ Recovers(turn)
  /\ Step(e, "recovering")
  /\ UNCHANGED <<running, started, left, boxes, entry, ensure, turn, phases, stuck>>

InRecovery(b) == {e \in Command : command[e].step = "recovering" /\ turn = b}

\* What became of a recovery: its commands are tried once more, or fail.
Recovered(b, ok) ==
  command' = [e \in Command |->
    IF e \notin InRecovery(b) THEN command[e]
    ELSE IF ok THEN [step |-> "exec", container |-> box'[b].container, retry |-> TRUE]
    ELSE NoCommand]

\* #provision looks first whether the sandbox was removed meanwhile.
RecoveryGoesOn(b) ==
  /\ box[b].recovery = "clearing" /\ box[b].container \notin removals
  /\ box' = [box EXCEPT ![b].recovery = IF box[b].removed THEN "none" ELSE "running"]
  /\ IF box[b].removed THEN Recovered(b, FALSE) ELSE UNCHANGED command
  /\ UNCHANGED <<docker, boxes, entry, ensure, turn, phases, stuck>>

\* Mutant: only the first look is taken.
RecoveryEndsBlind(b) ==
  /\ box[b].recovery = "running"
  /\ RunsNew
  /\ box' = [box EXCEPT ![b].recovery = "none", ![b].container = started + 1]
  /\ Recovered(b, TRUE)
  /\ UNCHANGED <<removals, left, boxes, entry, ensure, turn, phases, stuck>>

\* ... and again after docker run, when the new container has to go as well.
RecoveryEnds(b) ==
  /\ box[b].recovery = "running"
  /\ RunsNew
  /\ IF box[b].removed
     THEN /\ box' = [box EXCEPT ![b].recovery = "none"]
          /\ Removing(started + 1)
     ELSE /\ box' = [box EXCEPT ![b].recovery = "none", ![b].container = started + 1]
          /\ UNCHANGED removals
  /\ Recovered(b, ~box[b].removed)
  /\ UNCHANGED <<left, boxes, entry, ensure, turn, phases, stuck>>

\* Mutant: the promise of a failed recovery stays, and nobody who awaits it hears.
RecoveryFailsMute(b) ==
  /\ box[b].recovery = "running"
  /\ box' = [box EXCEPT ![b].recovery = "none"]
  /\ UNCHANGED <<docker, boxes, entry, ensure, turn, command, phases, stuck>>

RecoveryFails(b) ==
  /\ box[b].recovery = "running"
  /\ box' = [box EXCEPT ![b].recovery = "none"]
  /\ Recovered(b, FALSE)
  /\ UNCHANGED <<docker, boxes, entry, ensure, turn, phases, stuck>>

-----------------------------------------------------------------------------
(* The process and the image.                                              *)

\* initDockerSandbox, before the server serves: all labelled containers are removed, those
\* that docker lists and can remove.
Boots(ok) ==
  /\ ~alive
  /\ alive' = TRUE /\ enabled' = ok
  /\ \E rest \in SUBSET running :
       (~ok => rest = running) /\ running' = rest /\ left' = rest
  /\ UNCHANGED <<started, removals, box, boxes, entry, ensure, turn, command, stuck, losses>>

\* The same after an image was built, in a process that serves: docker lists what runs, or
\* fails to.
ImageBuilt ==
  /\ alive /\ losses < MaxLosses
  /\ losses' = losses + 1
  /\ \E ok \in BOOLEAN :
       /\ enabled' = ok
       /\ \E found \in {running, {}} :
            (~ok => found = {}) /\ removals' = removals \cup found
  /\ UNCHANGED <<running, started, left, box, boxes, entry, ensure, turn, command, alive, stuck>>

PoolDies ==
  /\ alive /\ losses < MaxLosses
  /\ losses' = losses + 1
  /\ removals' = {} /\ left' = {}
  /\ box' = [b \in Box |-> NoSandbox] /\ boxes' = 0
  /\ entry' = NoEntry /\ ensure' = NoEnsure /\ turn' = NoBox
  /\ command' = [e \in Command |-> NoCommand]
  /\ enabled' = FALSE /\ alive' = FALSE /\ stuck' = FALSE
  /\ UNCHANGED <<running, started>>

Ensures == \E repos \in Repos : EnsureReuses(repos) \/ EnsureReplaces(repos) \/ EnsureStarts(repos)

CommandStep(e) == ExecReturns(e) \/ ExecRecovers(e)
RecoveryStep(b) == RecoveryGoesOn(b) \/ RecoveryEnds(b) \/ RecoveryFails(b)

PoolNext ==
  \/ Ensures \/ EnsureGoesOn \/ EnsureEnds \/ EnsureFails
  \/ Idles \/ Reap \/ TurnIsOver
  \/ \E e \in Command : Exec(e) \/ CommandStep(e)
  \/ \E b \in Box : RecoveryStep(b)
  \/ \E c \in Container : Gone(c) \/ Lost(c)
  \/ (\E ok \in BOOLEAN : Boots(ok)) \/ ImageBuilt \/ PoolDies

PoolSpec == PoolInit /\ [][PoolNext]_poolVars

\* Docker commands end, well or not; the ones of a turn have a timeout.
PoolFairness ==
  /\ \A e \in Command : WF_poolVars(CommandStep(e))
  /\ \A b \in Box : WF_poolVars(RecoveryStep(b))
  /\ \A c \in Container : WF_poolVars(Gone(c))

FairPoolSpec == PoolSpec /\ PoolFairness

-----------------------------------------------------------------------------
(* Properties.                                                             *)

Pooled == IF IsHeld /\ ~box[entry.box].removed THEN {box[entry.box].container} ELSE {}

\* No container outlives its conversation's entry unless Docker failed to remove it: what
\* runs is the container of the entry, is being removed, or was left by a removal, also
\* when a sandbox is reaped or replaced in the middle of its recovery (the second look of
\* #provision).
NothingLeaks == alive => running \subseteq Pooled \cup removals \cup left

\* The pool hands out sandboxes that can run commands: the entry is of a sandbox that was
\* not removed, but while it is replaced, or after that failed.
PooledIsUsable ==
  IsHeld /\ box[entry.box].removed => ensure # NoEnsure \/ stuck

\* A command comes back, recovered or not, whatever happens to its container.
CommandsReturn ==
  \A e \in Command : command[e] # NoCommand ~> command[e] = NoCommand
=============================================================================
