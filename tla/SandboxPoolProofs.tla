------------------------- MODULE SandboxPoolProofs -------------------------
(***************************************************************************)
(* Proofs about the Docker sandbox of a conversation, for any number of    *)
(* sandboxes, containers, commands and losses: no container leaks but one  *)
(* Docker failed to remove, and the pool does not keep a sandbox that was  *)
(* removed.                                                                *)
(***************************************************************************)
EXTENDS SandboxPool, TLAPS

USE PoolAssumption DEF Container, NoContainer, Box, NoBox

\* Sandboxes and containers are made in order, and what is in hand has been made.
MadeInv ==
  /\ \A b \in Box : b > boxes => box[b] = NoSandbox
  /\ \A b \in Box : box[b].container <= started
  /\ \A c \in running : c <= started
  /\ IsHeld => entry.box <= boxes
  /\ turn <= boxes
  /\ \A e \in Command : command[e] # NoCommand => turn # NoBox

\* A sandbox that was not removed is the entry's, and the container of one in recovery
\* is gone or going, or Docker left it.
BoxInv ==
  /\ \A b \in Box : b <= boxes /\ ~box[b].removed => IsHeld /\ entry.box = b
  /\ \A b \in Box : box[b].recovery # "none" => box[b].container \notin running \ (removals \cup left)
  /\ ensure # NoEnsure => ~IsHeld \/ box[entry.box].removed

PoolInv == PoolTypeOK /\ MadeInv /\ BoxInv /\ NothingLeaks /\ PooledIsUsable

CommandRecord == [step : {"none", "exec", "recovering"}, container : Container \cup {NoContainer},
                  retry : BOOLEAN]

LEMMA PoolTyped ==
  ASSUME PoolTypeOK
  PROVE  /\ running \subseteq Container /\ removals \subseteq Container /\ left \subseteq running
         /\ started \in Nat /\ started <= MaxContainers /\ boxes \in Nat /\ boxes <= MaxBoxes
         /\ IsHeld => entry.box \in Box /\ entry \in [box : Box, repos : Repos, idle : BOOLEAN]
         /\ ~IsHeld => entry = NoEntry
         /\ box \in [Box -> Sandbox]
         /\ \A b \in Box : /\ box[b] \in Sandbox
                           /\ box[b].container \in Container \cup {NoContainer}
                           /\ box[b].removed \in BOOLEAN
                           /\ box[b].recovery \in {"none", "clearing", "running"}
         /\ turn \in Box \cup {NoBox}
         /\ command \in [Command -> CommandRecord]
  BY DEF PoolTypeOK, Sandbox, IsHeld, CommandRecord

LEMMA UsedIsTyped ==
  ASSUME PoolTypeOK, IsHeld
  PROVE  /\ Used \in [box : Box, repos : Repos, idle : BOOLEAN]
         /\ Used.box = entry.box /\ Used # NoEntry
  <1>1. entry \in [box : Box, repos : Repos, idle : BOOLEAN]
    BY PoolTyped
  <1>2. Used = [box |-> entry.box, repos |-> entry.repos, idle |-> FALSE]
    <2>1. Used = [entry EXCEPT !.idle = FALSE]
      BY DEF Used
    <2> QED
      BY ONLY <2>1, <1>1
  <1>3. entry.box \in Box /\ entry.repos \in Repos
    BY <1>1
  <1>4. NoEntry.box = 0
    BY DEF NoEntry
  <1>5. Used.box = entry.box /\ Used \in [box : Box, repos : Repos, idle : BOOLEAN]
    BY <1>2, <1>3
  <1>6. entry.box # 0
    BY <1>3
  <1> QED
    BY <1>4, <1>5, <1>6

-----------------------------------------------------------------------------
(* Steps, by what they change.                                             *)

LEMMA PoolStart == PoolInit => PoolInv
  <1> SUFFICES ASSUME PoolInit PROVE PoolInv
    OBVIOUS
  <1> USE DEF PoolInit
  <1>1. PoolTypeOK
    <2>1. box \in [Box -> Sandbox]
      BY DEF Sandbox, NoSandbox
    <2>2. command \in [Command -> CommandRecord]
      BY DEF CommandRecord, NoCommand
    <2>3. /\ started \in 0 .. MaxContainers /\ boxes \in 0 .. MaxBoxes /\ losses \in 0 .. MaxLosses
          /\ turn \in Box \cup {NoBox}
          /\ running \subseteq Container /\ removals \subseteq Container /\ left \subseteq running
      OBVIOUS
    <2> QED
      BY <2>1, <2>2, <2>3 DEF PoolTypeOK, CommandRecord
  <1>2. MadeInv
    BY DEF MadeInv, NoSandbox, NoCommand, IsHeld
  <1>3. BoxInv /\ NothingLeaks /\ PooledIsUsable
    BY DEF BoxInv, NoSandbox, IsHeld, NothingLeaks, PooledIsUsable
  <1> QED
    BY <1>1, <1>2, <1>3 DEF PoolInv

\* Commands and their turn, while the sandboxes and Docker rest.
LEMMA CommandKeeps ==
  ASSUME PoolInv, UNCHANGED <<docker, box, boxes, ensure, phases, stuck>>,
         \/ UNCHANGED entry
         \/ IsHeld /\ entry' = Used
         \/ IsHeld /\ entry' = [entry EXCEPT !.idle = TRUE],
         turn' \in Box \cup {NoBox}, turn' <= boxes,
         command' \in [Command -> CommandRecord],
         \A e \in Command : command'[e] # NoCommand => turn' # NoBox
  PROVE  PoolInv'
  <1>t. PoolTypeOK
    BY DEF PoolInv
  <1>1. UNCHANGED <<running, started, removals, left, enabled, alive, losses>>
    BY DEF docker, phases
  <1>2. /\ IsHeld' <=> IsHeld
        /\ IsHeld => entry'.box = entry.box
        /\ entry' \in [box : Box, repos : Repos, idle : BOOLEAN] \cup {NoEntry}
    <2>1. CASE IsHeld /\ entry' = Used
      BY <1>t, <2>1, UsedIsTyped DEF IsHeld
    <2>2. CASE IsHeld /\ entry' = [entry EXCEPT !.idle = TRUE]
      <3>1. entry \in [box : Box, repos : Repos, idle : BOOLEAN]
        BY <1>t, <2>2, PoolTyped
      <3>2. entry' = [box |-> entry.box, repos |-> entry.repos, idle |-> TRUE]
        BY <2>2, <3>1
      <3>3. entry.box \in Box /\ entry.repos \in Repos
        BY <3>1
      <3>4. entry' \in [box : Box, repos : Repos, idle : BOOLEAN] /\ entry'.box = entry.box
        BY <3>2, <3>3
      <3>5. NoEntry.box = 0 /\ entry.box # 0
        BY <3>3 DEF NoEntry
      <3> QED
        BY <2>2, <3>4, <3>5 DEF IsHeld
    <2>3. CASE UNCHANGED entry
      BY <1>t, <2>3 DEF IsHeld, PoolTypeOK
    <2> QED
      BY <2>1, <2>2, <2>3
  <1>3. PoolTypeOK'
    BY <1>t, <1>1, <1>2 DEF PoolTypeOK, CommandRecord
  <1>4. MadeInv'
    BY <1>1, <1>2 DEF PoolInv, MadeInv
  <1>5. BoxInv'
    BY <1>1, <1>2 DEF PoolInv, BoxInv
  <1>6. NothingLeaks'
    BY <1>1, <1>2 DEF PoolInv, NothingLeaks, Pooled
  <1>7. PooledIsUsable'
    BY <1>2 DEF PoolInv, PooledIsUsable
  <1> QED
    BY <1>3, <1>4, <1>5, <1>6, <1>7 DEF PoolInv

\* Containers that go, are on their way to, or are left.
LEMMA ContainersGo ==
  ASSUME PoolInv, UNCHANGED <<started, box, boxes, entry, ensure, turn, command, stuck>>,
         running' \subseteq running, removals' \subseteq Container, left' \subseteq running',
         \A c \in running' : c \in removals \cup left => c \in removals' \cup left',
         \/ UNCHANGED alive
         \/ alive' = TRUE /\ running' \subseteq left',
         enabled' \in BOOLEAN, losses' \in 0 .. MaxLosses
  PROVE  PoolInv'
  <1>1. PoolTypeOK'
    BY DEF PoolInv, PoolTypeOK
  <1>2. MadeInv'
    BY DEF PoolInv, MadeInv, IsHeld
  <1>3. BoxInv'
    BY DEF PoolInv, BoxInv, IsHeld
  <1>4. NothingLeaks'
    BY DEF PoolInv, NothingLeaks, Pooled, IsHeld
  <1>5. PooledIsUsable'
    BY DEF PoolInv, PooledIsUsable, IsHeld
  <1> QED
    BY <1>1, <1>2, <1>3, <1>4, <1>5 DEF PoolInv

\* The entry's sandbox is set aside, to be replaced or because it was idle.
LEMMA AsideKeeps ==
  ASSUME PoolInv, IsHeld, SetAside(entry.box),
         \/ /\ UNCHANGED <<entry, stuck>>
            /\ ensure' \in [step : {"removing"}, repos : Repos, old : {entry.box}]
         \/ entry' = NoEntry /\ stuck' = FALSE /\ UNCHANGED ensure,
         UNCHANGED <<running, started, left, boxes, turn, command, phases>>
  PROVE  PoolInv'
  <1> DEFINE b == entry.box
  <1>t. PoolTypeOK /\ b \in Box /\ b <= boxes
    BY PoolTyped DEF PoolInv, MadeInv
  <1>1. /\ box' = [box EXCEPT ![b] = [box[b] EXCEPT !.removed = TRUE]]
        /\ removals' = removals \cup ({box[b].container} \ {NoContainer})
        /\ UNCHANGED <<enabled, alive, losses>>
    BY <1>t, PoolTyped DEF SetAside, Removing, phases
  <1>2. /\ box'[b] \in Sandbox /\ box'[b].removed /\ box'[b].container = box[b].container
        /\ box'[b].recovery = box[b].recovery
        /\ \A d \in Box : d # b => box'[d] = box[d]
        /\ box' \in [Box -> Sandbox]
    <2>1. [box[b] EXCEPT !.removed = TRUE] \in Sandbox
      <3>1. box[b] \in Sandbox
        BY <1>t, PoolTyped
      <3> QED
        BY ONLY <3>1 DEF Sandbox
    <2> QED
      BY <1>t, <1>1, <2>1, PoolTyped DEF Sandbox
  <1>3. removals' \subseteq Container /\ removals \subseteq removals'
    BY <1>t, <1>1, PoolTyped
  <1>4. \/ UNCHANGED <<entry, stuck>> /\ ensure' # NoEnsure
        \/ entry' = NoEntry /\ stuck' = FALSE /\ UNCHANGED ensure
    BY DEF NoEnsure
  <1>5. PoolTypeOK'
    BY <1>t, <1>1, <1>2, <1>3 DEF PoolTypeOK
  <1>6. MadeInv'
    <2>1. \A d \in Box : d > boxes => box'[d] = NoSandbox
      BY <1>t, <1>2, PoolTyped DEF PoolInv, MadeInv
    <2>2. \A d \in Box : box'[d].container <= started
      BY <1>2 DEF PoolInv, MadeInv
    <2> QED
      BY <2>1, <2>2, <1>4 DEF PoolInv, MadeInv, IsHeld
  <1>7. BoxInv'
    <2>1. \A d \in Box : d <= boxes => box'[d].removed
      BY <1>2 DEF PoolInv, BoxInv
    <2>2. \A d \in Box : box'[d].recovery # "none" => box'[d].container \notin running \ (removals' \cup left)
      BY <1>2, <1>3 DEF PoolInv, BoxInv
    <2>3. IsHeld' => entry'.box = b
      BY <1>4 DEF IsHeld
    <2> QED
      BY <2>1, <2>2, <2>3, <1>2 DEF BoxInv
  <1>8. NothingLeaks'
    BY <1>1, <1>t, PoolTyped DEF PoolInv, NothingLeaks, Pooled
  <1>9. PooledIsUsable'
    BY <1>4 DEF PooledIsUsable, IsHeld
  <1> QED
    BY <1>5, <1>6, <1>7, <1>8, <1>9 DEF PoolInv

\* The ensure under way, without effect on the sandboxes.
LEMMA EnsureKeeps ==
  ASSUME PoolInv, UNCHANGED <<docker, box, boxes, entry, turn, command, phases>>,
         \/ /\ ensure' \in [step : {"starting"}, repos : Repos, old : {NoBox}]
            /\ ~IsHeld \/ box[entry.box].removed
            /\ UNCHANGED stuck
         \/ ensure' = NoEnsure /\ stuck' = IsHeld
  PROVE  PoolInv'
  <1>1. UNCHANGED <<running, started, removals, left, enabled, alive, losses>>
    BY DEF docker, phases
  <1>2. PoolTypeOK'
    BY <1>1 DEF PoolInv, PoolTypeOK, IsHeld
  <1>3. MadeInv' /\ NothingLeaks'
    BY <1>1 DEF PoolInv, MadeInv, NothingLeaks, Pooled, IsHeld
  <1>4. BoxInv'
    BY <1>1 DEF PoolInv, BoxInv, IsHeld
  <1>5. PooledIsUsable'
    <2>1. ensure' \in [step : {"starting"}, repos : Repos, old : {NoBox}] => ensure' # NoEnsure
      BY DEF NoEnsure
    <2>2. UNCHANGED <<entry, box>>
      OBVIOUS
    <2> QED
      BY <2>1, <2>2 DEF PoolInv, PooledIsUsable, IsHeld
  <1> QED
    BY <1>2, <1>3, <1>4, <1>5 DEF PoolInv

\* A new sandbox takes the entry, which was free or has one that was removed.
LEMMA EnsureEndsKeeps == PoolInv /\ EnsureEnds => PoolInv'
  <1> SUFFICES ASSUME PoolInv, EnsureEnds PROVE PoolInv'
    OBVIOUS
  <1> DEFINE b == boxes + 1
             c == started + 1
             new == [NoSandbox EXCEPT !.container = c]
  <1>t. PoolTypeOK
    BY DEF PoolInv
  <1>1. /\ ensure.step = "starting" /\ b \in Box /\ c \in Container
        /\ started' = c /\ running' = running \cup {c} /\ boxes' = b
        /\ box' = [box EXCEPT ![b] = new]
        /\ entry' = [box |-> b, repos |-> ensure.repos, idle |-> FALSE]
        /\ turn' = b /\ ensure' = NoEnsure /\ stuck' = FALSE
        /\ UNCHANGED <<removals, left, command, enabled, alive, losses>>
    BY <1>t, PoolTyped DEF EnsureEnds, RunsNew, phases
  <1>2. new \in Sandbox /\ new.container = c /\ ~new.removed /\ new.recovery = "none"
    <2>1. NoSandbox \in Sandbox /\ ~NoSandbox.removed /\ NoSandbox.recovery = "none"
      BY DEF NoSandbox, Sandbox
    <2> QED
      BY <1>1, <2>1 DEF Sandbox
  <1>3. /\ new \in Sandbox /\ box'[b] = new /\ box' \in [Box -> Sandbox]
        /\ \A d \in Box : d # b => box'[d] = box[d]
    <2>1. new \in Sandbox
      BY <1>2
    <2> QED
      BY <1>1, <2>1, <1>t, PoolTyped
  <1>4. ensure.repos \in Repos /\ ensure # NoEnsure
    BY <1>t, <1>1 DEF PoolTypeOK, NoEnsure
  <1>5. IsHeld' /\ entry'.box = b /\ entry' \in [box : Box, repos : Repos, idle : BOOLEAN]
    <2>1. NoEntry.box = 0 /\ b # 0
      BY <1>1 DEF NoEntry
    <2> QED
      BY <1>1, <1>4, <2>1 DEF IsHeld
  <1>6. \A d \in Box : d <= boxes => box[d].removed
    BY <1>4 DEF PoolInv, BoxInv, MadeInv
  <1>7. PoolTypeOK'
    <2>1. running' \subseteq Container /\ started' \in 0 .. MaxContainers /\ boxes' \in 0 .. MaxBoxes
      BY <1>t, <1>1, PoolTyped
    <2> QED
      BY <1>t, <1>1, <1>3, <1>5, <2>1 DEF PoolTypeOK
  <1>8. MadeInv'
    <2>1. \A d \in Box : d > boxes' => box'[d] = NoSandbox
      BY <1>t, <1>1, <1>3, PoolTyped DEF PoolInv, MadeInv
    <2>2. \A d \in Box : box'[d].container <= started'
      BY <1>t, <1>1, <1>2, <1>3, PoolTyped DEF PoolInv, MadeInv
    <2>3. \A k \in running' : k <= started'
      BY <1>t, <1>1, PoolTyped DEF PoolInv, MadeInv
    <2>4. \A e \in Command : command'[e] # NoCommand => turn' # NoBox
      BY <1>1
    <2> QED
      BY <2>1, <2>2, <2>3, <2>4, <1>t, <1>1, <1>5, PoolTyped DEF MadeInv
  <1>9. BoxInv'
    <2>1. ASSUME NEW d \in Box, d <= boxes', ~box'[d].removed PROVE entry'.box = d
      BY <2>1, <1>1, <1>3, <1>5, <1>6, <1>t, PoolTyped
    <2>2. ASSUME NEW d \in Box, box'[d].recovery # "none"
          PROVE  box'[d].container \notin running' \ (removals' \cup left')
      <3>1. d # b
        BY <2>2, <1>2, <1>3
      <3>2. box[d].container <= started /\ box[d].container # c
        BY <1>t, <1>1, PoolTyped DEF PoolInv, MadeInv
      <3> QED
        BY <2>2, <3>1, <3>2, <1>1, <1>3 DEF PoolInv, BoxInv
    <2> QED
      BY <2>1, <2>2, <1>1, <1>5 DEF BoxInv
  <1>10. NothingLeaks'
    <2> SUFFICES ASSUME alive PROVE running' \subseteq Pooled' \cup removals' \cup left'
      BY <1>1 DEF NothingLeaks
    <2>1. running \subseteq removals \cup left
      BY <1>4, <1>6 DEF PoolInv, BoxInv, NothingLeaks, Pooled
    <2>2. Pooled' = {c}
      BY <1>2, <1>3, <1>5 DEF Pooled
    <2> QED
      BY <2>1, <2>2, <1>1
  <1>11. PooledIsUsable'
    BY <1>2, <1>3, <1>5 DEF PooledIsUsable
  <1> QED
    BY <1>7, <1>8, <1>9, <1>10, <1>11 DEF PoolInv

-----------------------------------------------------------------------------
(* Recovery.                                                               *)

\* A recovery begins, goes on or fails: the sandbox keeps its container, which is gone or
\* going.
LEMMA RecoveryKeeps ==
  ASSUME PoolInv, NEW b \in Box, b <= boxes,
         NEW phase \in {"none", "clearing", "running"},
         box' = [box EXCEPT ![b].recovery = phase],
         removals \subseteq removals', removals' \subseteq Container,
         phase # "none" => box[b].container \notin running \ (removals' \cup left),
         command' \in [Command -> CommandRecord],
         \A e \in Command : command'[e] # NoCommand => turn # NoBox,
         UNCHANGED <<running, started, left, boxes, entry, ensure, turn, phases, stuck>>
  PROVE  PoolInv'
  <1>t. PoolTypeOK
    BY DEF PoolInv
  <1>1. /\ box'[b].removed = box[b].removed /\ box'[b].container = box[b].container
        /\ box'[b].recovery = phase
        /\ box' \in [Box -> Sandbox]
        /\ \A d \in Box : d # b => box'[d] = box[d]
    <2>1. box[b] \in Sandbox
      BY <1>t, PoolTyped
    <2>2. box' = [box EXCEPT ![b] = [box[b] EXCEPT !.recovery = phase]]
      BY <1>t, PoolTyped
    <2>3. /\ [box[b] EXCEPT !.recovery = phase] \in Sandbox
          /\ [box[b] EXCEPT !.recovery = phase].removed = box[b].removed
          /\ [box[b] EXCEPT !.recovery = phase].container = box[b].container
          /\ [box[b] EXCEPT !.recovery = phase].recovery = phase
      BY <2>1 DEF Sandbox
    <2> QED
      BY <2>2, <2>3, <1>t, PoolTyped
  <1>2. UNCHANGED <<enabled, alive, losses>>
    BY DEF phases
  <1>3. \A d \in Box : box'[d].removed = box[d].removed /\ box'[d].container = box[d].container
    BY <1>1
  <1>4. PoolTypeOK'
    BY <1>t, <1>1, <1>2 DEF PoolTypeOK, CommandRecord
  <1>5. MadeInv'
    <2>1. \A d \in Box : d > boxes => d # b
      BY <1>t, PoolTyped
    <2> QED
      BY <2>1, <1>1, <1>3 DEF PoolInv, MadeInv, IsHeld
  <1>6. IsHeld => entry.box \in Box
    BY <1>t, PoolTyped
  <1>7. BoxInv'
    <2>1. \A d \in Box : box'[d].recovery # "none" => box'[d].container \notin running \ (removals' \cup left)
      BY <1>1, <1>3 DEF PoolInv, BoxInv
    <2> QED
      BY <2>1, <1>3, <1>6 DEF PoolInv, BoxInv, IsHeld
  <1>8. NothingLeaks'
    BY <1>2, <1>3, <1>6 DEF PoolInv, NothingLeaks, Pooled, IsHeld
  <1>9. PooledIsUsable'
    BY <1>3, <1>6 DEF PoolInv, PooledIsUsable, IsHeld
  <1> QED
    BY <1>4, <1>5, <1>7, <1>8, <1>9 DEF PoolInv

\* The commands of a recovery that is over.
LEMMA RecoveredCommands ==
  ASSUME PoolInv, NEW b \in Box, NEW ok \in BOOLEAN, Recovered(b, ok),
         box'[b].container \in Container \cup {NoContainer}
  PROVE  /\ command' \in [Command -> CommandRecord]
         /\ \A e \in Command : command'[e] # NoCommand => turn # NoBox
  <1>1. command \in [Command -> CommandRecord]
    BY PoolTyped DEF PoolInv
  <1>2. /\ [step |-> "exec", container |-> box'[b].container, retry |-> TRUE] \in CommandRecord
        /\ NoCommand \in CommandRecord
    BY DEF CommandRecord, NoCommand
  <1>3. ASSUME NEW e \in Command
        PROVE  command'[e] \in CommandRecord /\ (command'[e] # NoCommand => turn # NoBox)
    <2>1. command[e] # NoCommand => turn # NoBox
      BY DEF PoolInv, MadeInv
    <2>2. CASE e \notin InRecovery(b)
      BY <2>1, <2>2, <1>1 DEF Recovered
    <2>3. CASE e \in InRecovery(b)
      <3>1. turn = b
        BY <2>3 DEF InRecovery
      <3> QED
        BY <2>3, <3>1, <1>2 DEF Recovered
    <2> QED
      BY <2>2, <2>3
  <1>4. command' = [e \in Command |-> command'[e]]
    BY DEF Recovered
  <1> QED
    BY <1>3, <1>4

\* The new container runs: it is the sandbox's, or has to go because the sandbox went.
LEMMA RecoveryEndsKeeps ==
  ASSUME PoolInv, NEW b \in Box, RecoveryEnds(b) PROVE PoolInv'
  <1> DEFINE c == started + 1
             ok == ~box[b].removed
  <1>t. PoolTypeOK
    BY DEF PoolInv
  <1>1. /\ box[b].recovery = "running" /\ c \in Container
        /\ started' = c /\ running' = running \cup {c}
        /\ box' = [box EXCEPT ![b] = [box[b] EXCEPT !.recovery = "none",
                                        !.container = IF ok THEN c ELSE box[b].container]]
        /\ removals' = IF ok THEN removals ELSE removals \cup {c}
        /\ Recovered(b, ok)
        /\ UNCHANGED <<left, boxes, entry, ensure, turn, enabled, alive, losses, stuck>>
    <2>1. box[b] \in Sandbox /\ box \in [Box -> Sandbox]
      BY <1>t, PoolTyped
    <2>2. [box[b] EXCEPT !.recovery = "none"]
            = [box[b] EXCEPT !.recovery = "none", !.container = box[b].container]
      BY <2>1 DEF Sandbox
    <2>3. c \in Container /\ started' = c /\ running' = running \cup {c}
      BY <1>t, PoolTyped DEF RecoveryEnds, RunsNew
    <2>4. CASE ok
      BY <2>1, <2>3, <2>4 DEF RecoveryEnds, phases
    <2>5. CASE ~ok
      <3>1. box' = [box EXCEPT ![b] = [box[b] EXCEPT !.recovery = "none"]]
        BY <2>1, <2>5 DEF RecoveryEnds
      <3>2. removals' = removals \cup {c}
        BY <2>3, <2>5 DEF RecoveryEnds, Removing
      <3> QED
        BY <2>2, <2>3, <2>5, <3>1, <3>2 DEF RecoveryEnds, phases
    <2> QED
      BY <2>4, <2>5
  <1>2. /\ box'[b].removed = box[b].removed /\ box'[b].recovery = "none"
        /\ box'[b].container = IF ok THEN c ELSE box[b].container
        /\ box' \in [Box -> Sandbox]
        /\ \A d \in Box : d # b => box'[d] = box[d]
    <2>1. box[b] \in Sandbox /\ box \in [Box -> Sandbox]
      BY <1>t, PoolTyped
    <2>2. PICK k \in Container \cup {NoContainer} : k = IF ok THEN c ELSE box[b].container
      BY <1>1, <1>t, PoolTyped
    <2>3. PICK moved : moved = [box[b] EXCEPT !.recovery = "none", !.container = k]
      OBVIOUS
    <2>4. /\ moved \in Sandbox /\ moved.removed = box[b].removed
          /\ moved.recovery = "none" /\ moved.container = k
      BY <2>1, <2>3 DEF Sandbox
    <2>5. box' = [box EXCEPT ![b] = moved]
      BY <2>2, <2>3, <1>1
    <2> QED
      BY <2>1, <2>2, <2>4, <2>5
  <1>3. b <= boxes /\ boxes \in Nat
    BY <1>t, <1>1, PoolTyped DEF PoolInv, MadeInv, NoSandbox
  <1>4. /\ command' \in [Command -> CommandRecord]
        /\ \A e \in Command : command'[e] # NoCommand => turn # NoBox
    <2>1. box'[b].container \in Container \cup {NoContainer}
      BY <1>1, <1>2, <1>t, PoolTyped
    <2> QED
      BY <1>1, <2>1, RecoveredCommands
  <1>5. PoolTypeOK'
    <2>1. /\ running' \subseteq Container /\ removals' \subseteq Container
          /\ started' \in 0 .. MaxContainers
      BY <1>t, <1>1, PoolTyped
    <2> QED
      BY <1>t, <1>1, <1>2, <1>4, <2>1 DEF PoolTypeOK, CommandRecord
  <1>6. MadeInv'
    <2>1. \A d \in Box : d > boxes => box'[d] = NoSandbox
      BY <1>2, <1>3 DEF PoolInv, MadeInv
    <2>2. \A d \in Box : box'[d].container <= started'
      BY <1>t, <1>1, <1>2, PoolTyped DEF PoolInv, MadeInv
    <2>3. \A k \in running' : k <= started'
      BY <1>t, <1>1, PoolTyped DEF PoolInv, MadeInv
    <2> QED
      BY <2>1, <2>2, <2>3, <1>1, <1>4 DEF PoolInv, MadeInv, IsHeld
  <1>7. \A d \in Box : box'[d].removed = box[d].removed
    BY <1>2
  <1>8. IsHeld => entry.box \in Box
    BY <1>t, PoolTyped
  <1>9. BoxInv'
    <2>1. ASSUME NEW d \in Box, box'[d].recovery # "none"
          PROVE  box'[d].container \notin running' \ (removals' \cup left')
      <3>1. d # b /\ box'[d] = box[d]
        BY <2>1, <1>2
      <3>2. box[d].container # c
        BY <1>t, <1>1, PoolTyped DEF PoolInv, MadeInv
      <3>3. box[d].container \notin running \ (removals \cup left)
        BY <2>1, <3>1 DEF PoolInv, BoxInv
      <3> QED
        BY <3>1, <3>2, <3>3, <1>1
    <2> QED
      BY <2>1, <1>1, <1>7, <1>8 DEF PoolInv, BoxInv, IsHeld
  <1>10. NothingLeaks'
    <2> SUFFICES ASSUME alive PROVE running' \subseteq Pooled' \cup removals' \cup left'
      BY <1>1 DEF NothingLeaks
    <2>1. CASE ok
      <3>1. IsHeld /\ entry.box = b
        BY <2>1, <1>3 DEF PoolInv, BoxInv
      <3>2. running \subseteq {box[b].container} \cup removals \cup left
        BY <2>1, <3>1 DEF PoolInv, NothingLeaks, Pooled
      <3>3. box[b].container \notin running \ (removals \cup left)
        BY <1>1 DEF PoolInv, BoxInv
      <3>4. Pooled' = {c}
        BY <2>1, <3>1, <1>1, <1>2 DEF Pooled, IsHeld
      <3> QED
        BY <2>1, <3>2, <3>3, <3>4, <1>1
    <2>2. CASE ~ok
      <3>1. Pooled' = Pooled
        BY <2>2, <1>1, <1>2, <1>8 DEF Pooled, IsHeld
      <3> QED
        BY <2>2, <3>1, <1>1 DEF PoolInv, NothingLeaks
    <2> QED
      BY <2>1, <2>2
  <1>11. PooledIsUsable'
    BY <1>1, <1>7, <1>8 DEF PoolInv, PooledIsUsable, IsHeld
  <1> QED
    BY <1>5, <1>6, <1>9, <1>10, <1>11 DEF PoolInv

LEMMA RecoveryStepKeeps ==
  ASSUME PoolInv, NEW b \in Box, RecoveryStep(b) PROVE PoolInv'
  <1>t. PoolTypeOK
    BY DEF PoolInv
  <1>1. box[b].recovery # "none" /\ b <= boxes
    <2>1. box[b].recovery # "none"
      BY DEF RecoveryStep, RecoveryGoesOn, RecoveryEnds, RecoveryFails
    <2>2. box[b] # NoSandbox
      BY <2>1 DEF NoSandbox
    <2> QED
      BY <2>1, <2>2, <1>t, PoolTyped DEF PoolInv, MadeInv
  <1>2. box[b].container \notin running \ (removals \cup left)
    BY <1>1 DEF PoolInv, BoxInv
  <1>3. ASSUME UNCHANGED docker,
               NEW phase \in {"none", "clearing", "running"},
               box' = [box EXCEPT ![b].recovery = phase],
               Recovered(b, FALSE) \/ UNCHANGED command,
               UNCHANGED <<boxes, entry, ensure, turn, phases, stuck>>
        PROVE  PoolInv'
    <2>1. UNCHANGED <<running, started, removals, left>> /\ removals \subseteq Container
      BY <1>3, <1>t, PoolTyped DEF docker
    <2>2. box'[b].container = box[b].container
      BY <1>3, <1>t, PoolTyped DEF Sandbox
    <2>3. box'[b].container \in Container \cup {NoContainer}
      BY <2>2, <1>t, PoolTyped
    <2>4. /\ command' \in [Command -> CommandRecord]
          /\ \A e \in Command : command'[e] # NoCommand => turn # NoBox
      <3>1. CASE Recovered(b, FALSE)
        BY <3>1, <2>3, RecoveredCommands
      <3>2. CASE UNCHANGED command
        BY <3>2, <1>t, PoolTyped DEF PoolInv, MadeInv
      <3> QED
        BY <1>3, <3>1, <3>2
    <2> QED
      BY <1>1, <1>2, <1>3, <2>1, <2>4, RecoveryKeeps
  <1>4. CASE RecoveryGoesOn(b)
    <2>1. CASE box[b].removed
      BY <1>4, <2>1, <1>3 DEF RecoveryGoesOn
    <2>2. CASE ~box[b].removed
      BY <1>4, <2>2, <1>3 DEF RecoveryGoesOn
    <2> QED
      BY <2>1, <2>2
  <1>5. CASE RecoveryFails(b)
    BY <1>5, <1>3 DEF RecoveryFails
  <1> QED
    BY <1>4, <1>5, RecoveryEndsKeeps DEF RecoveryStep

LEMMA ExecRecoversKeeps ==
  ASSUME PoolInv, NEW e \in Command, ExecRecovers(e) PROVE PoolInv'
  <1>t. PoolTypeOK
    BY DEF PoolInv
  <1>1. /\ command[e] # NoCommand /\ command' = [command EXCEPT ![e].step = "recovering"]
        /\ UNCHANGED <<running, started, left, boxes, entry, ensure, turn, phases, stuck>>
    BY DEF ExecRecovers, Unavailable, Step, NoCommand
  <1>2. turn \in Box /\ turn <= boxes
    BY <1>t, <1>1, PoolTyped DEF PoolInv, MadeInv
  <1>3. /\ command' \in [Command -> CommandRecord]
        /\ \A f \in Command : command'[f] # NoCommand => turn # NoBox
    <2>1. command \in [Command -> CommandRecord]
      BY <1>t, PoolTyped
    <2>2. command' = [command EXCEPT ![e] = [command[e] EXCEPT !.step = "recovering"]]
      BY <1>1, <2>1
    <2>3. [command[e] EXCEPT !.step = "recovering"] \in CommandRecord
      BY <2>1 DEF CommandRecord
    <2> QED
      BY <2>1, <2>2, <2>3, <1>2
  <1>4. CASE box[turn].recovery = "none"
    <2>1. /\ box' = [box EXCEPT ![turn].recovery = "clearing"]
          /\ removals' = removals \cup ({box[turn].container} \ {NoContainer})
      BY <1>4 DEF ExecRecovers, Recovers, Removing
    <2>2. /\ removals' \subseteq Container
          /\ box[turn].container \notin running \ (removals' \cup left)
      BY <2>1, <1>t, <1>2, PoolTyped
    <2> QED
      BY <1>1, <1>2, <1>3, <2>1, <2>2, RecoveryKeeps
  <1>5. CASE box[turn].recovery # "none"
    <2>1. UNCHANGED <<docker, box, boxes, ensure, phases, stuck, entry, turn>>
      BY <1>1, <1>5 DEF ExecRecovers, Recovers, docker
    <2> QED
      BY <1>2, <1>3, <2>1, CommandKeeps
  <1> QED
    BY <1>4, <1>5

-----------------------------------------------------------------------------
(* The invariant.                                                          *)

LEMMA DieKeepsPool == PoolInv /\ PoolDies => PoolInv'
  <1> SUFFICES ASSUME PoolInv, PoolDies PROVE PoolInv'
    OBVIOUS
  <1>1. /\ removals' = {} /\ left' = {} /\ boxes' = 0 /\ entry' = NoEntry /\ ensure' = NoEnsure
        /\ turn' = NoBox /\ alive' = FALSE /\ enabled' = FALSE /\ stuck' = FALSE
        /\ losses' \in 0 .. MaxLosses /\ UNCHANGED <<running, started>>
    BY DEF PoolDies, PoolInv, PoolTypeOK
  <1>2. box' = [b \in Box |-> NoSandbox] /\ command' = [e \in Command |-> NoCommand]
    BY DEF PoolDies
  <1>3. box' \in [Box -> Sandbox] /\ command' \in [Command -> CommandRecord]
    <2>1. NoSandbox \in Sandbox /\ NoCommand \in CommandRecord
      BY DEF NoSandbox, Sandbox, NoCommand, CommandRecord
    <2> QED
      BY ONLY <1>2, <2>1
  <1>4. \A b \in Box : box'[b] = NoSandbox
    BY <1>2
  <1>5. \A b \in Box : box'[b].container = 0 /\ box'[b].recovery = "none"
    BY <1>4 DEF NoSandbox
  <1>6. PoolTypeOK'
    <2>1. 0 \in 0 .. MaxBoxes
      OBVIOUS
    <2> QED
      BY <1>1, <1>3, <2>1 DEF PoolInv, PoolTypeOK, CommandRecord
  <1>7. MadeInv'
    <2>1. started \in Nat
      BY PoolTyped DEF PoolInv
    <2> QED
      BY <1>1, <1>2, <1>4, <1>5, <2>1 DEF PoolInv, MadeInv, IsHeld
  <1>8. BoxInv' /\ NothingLeaks' /\ PooledIsUsable'
    BY <1>1, <1>5 DEF BoxInv, NothingLeaks, PooledIsUsable, IsHeld
  <1> QED
    BY <1>6, <1>7, <1>8 DEF PoolInv

LEMMA EnsureStep == PoolInv /\ (Ensures \/ EnsureGoesOn \/ EnsureFails) => PoolInv'
  <1> SUFFICES ASSUME PoolInv, Ensures \/ EnsureGoesOn \/ EnsureFails PROVE PoolInv'
    OBVIOUS
  <1>t. PoolTypeOK
    BY DEF PoolInv
  <1>c. /\ command \in [Command -> CommandRecord]
        /\ \A e \in Command : command[e] # NoCommand => turn # NoBox
    BY <1>t, PoolTyped DEF PoolInv, MadeInv
  <1>1. ASSUME NEW repos \in Repos, EnsureReuses(repos) PROVE PoolInv'
    <2>1. IsHeld /\ entry' = Used /\ turn' = entry.box
      BY <1>1 DEF EnsureReuses
    <2>2. entry.box \in Box /\ entry.box <= boxes /\ entry.box # NoBox
      BY <1>t, <2>1, PoolTyped DEF PoolInv, MadeInv
    <2>3. UNCHANGED <<docker, box, boxes, ensure, command, phases, stuck>>
      BY <1>1 DEF EnsureReuses
    <2> QED
      BY <1>c, <2>1, <2>2, <2>3, CommandKeeps
  <1>2. ASSUME NEW repos \in Repos, EnsureReplaces(repos) PROVE PoolInv'
    <2>1. ensure' \in [step : {"removing"}, repos : Repos, old : {entry.box}]
      BY <1>2 DEF EnsureReplaces
    <2> QED
      BY <1>2, <2>1, AsideKeeps DEF EnsureReplaces
  <1>3. ASSUME NEW repos \in Repos, EnsureStarts(repos) PROVE PoolInv'
    <2>1. ensure' \in [step : {"starting"}, repos : Repos, old : {NoBox}] /\ ~IsHeld
      BY <1>3 DEF EnsureStarts
    <2> QED
      BY <1>3, <2>1, EnsureKeeps DEF EnsureStarts
  <1>4. CASE EnsureGoesOn
    <2>1. ensure.step = "removing" /\ ensure # NoEnsure
      BY <1>4 DEF EnsureGoesOn, NoEnsure
    <2>2. ensure \in [step : {"removing", "starting"}, repos : Repos, old : Box \cup {NoBox}]
      BY <1>t, <2>1 DEF PoolTypeOK
    <2>3. ensure' = [ensure EXCEPT !.step = "starting", !.old = NoBox]
      BY <1>4 DEF EnsureGoesOn
    <2>4. ensure' \in [step : {"starting"}, repos : Repos, old : {NoBox}]
      BY ONLY <2>2, <2>3
    <2>5. ~IsHeld \/ box[entry.box].removed
      BY <2>1 DEF PoolInv, BoxInv
    <2> QED
      BY <1>4, <2>4, <2>5, EnsureKeeps DEF EnsureGoesOn
  <1>5. CASE EnsureFails
    BY <1>5, EnsureKeeps DEF EnsureFails
  <1> QED
    BY <1>1, <1>2, <1>3, <1>4, <1>5 DEF Ensures

LEMMA TurnKeeps ==
  ASSUME PoolInv,
         \/ TurnIsOver \/ Idles \/ UNCHANGED poolVars
         \/ \E e \in Command : Exec(e) \/ ExecReturns(e)
  PROVE  PoolInv'
  <1>t. PoolTypeOK
    BY DEF PoolInv
  <1>c. /\ command \in [Command -> CommandRecord]
        /\ turn \in Box \cup {NoBox} /\ turn <= boxes /\ boxes \in Nat
        /\ \A e \in Command : command[e] # NoCommand => turn # NoBox
        /\ NoCommand \in CommandRecord
    BY <1>t, PoolTyped DEF PoolInv, MadeInv, NoCommand, CommandRecord
  <1>1. CASE TurnIsOver
    BY <1>1, <1>c, CommandKeeps DEF TurnIsOver
  <1>2. CASE Idles
    BY <1>2, <1>c, CommandKeeps DEF Idles
  <1>3. ASSUME NEW e \in Command, Exec(e) PROVE PoolInv'
    <2>1. turn \in Box /\ turn # NoBox
      BY <1>3, <1>c DEF Exec
    <2>2. [step |-> "exec", container |-> box[turn].container, retry |-> FALSE] \in CommandRecord
      BY <1>t, <2>1, PoolTyped DEF CommandRecord
    <2>3. command' \in [Command -> CommandRecord]
      BY <1>3, <1>c, <2>2 DEF Exec
    <2>4. UNCHANGED entry \/ (IsHeld /\ entry' = Used)
      <3>1. NoEntry.box = NoBox
        BY DEF NoEntry
      <3> QED
        BY <1>3, <2>1, <3>1 DEF Exec, IsHeld
    <2>5. UNCHANGED <<docker, box, boxes, ensure, turn, phases, stuck>>
      BY <1>3 DEF Exec
    <2> QED
      BY <1>c, <2>1, <2>3, <2>4, <2>5, CommandKeeps
  <1>4. ASSUME NEW e \in Command, ExecReturns(e) PROVE PoolInv'
    <2>1. command' = [command EXCEPT ![e] = NoCommand]
      BY <1>4 DEF ExecReturns
    <2>2. /\ command' \in [Command -> CommandRecord]
          /\ \A f \in Command : command'[f] # NoCommand => turn # NoBox
      BY <1>c, <2>1
    <2> QED
      BY <1>4, <1>c, <2>2, CommandKeeps DEF ExecReturns
  <1>5. CASE UNCHANGED poolVars
    BY <1>5, <1>c, CommandKeeps DEF poolVars, docker, phases
  <1> QED
    BY <1>1, <1>2, <1>3, <1>4, <1>5

LEMMA DockerStep ==
  ASSUME PoolInv,
         \/ \E c \in Container : Gone(c) \/ Lost(c)
         \/ \E ok \in BOOLEAN : Boots(ok)
         \/ ImageBuilt
  PROVE  PoolInv'
  <1>t. PoolTypeOK /\ losses \in 0 .. MaxLosses /\ enabled \in BOOLEAN
    BY DEF PoolInv, PoolTypeOK
  <1>c. running \subseteq Container /\ removals \subseteq Container /\ left \subseteq running
    BY <1>t, PoolTyped
  <1>1. ASSUME NEW c \in Container, Gone(c) PROVE PoolInv'
    <2>1. losses' \in 0 .. MaxLosses
      BY <1>1, <1>t DEF Gone, Removed, NotRemoved
    <2>2. /\ removals' = removals \ {c}
          /\ UNCHANGED <<started, box, boxes, entry, ensure, turn, command, enabled, alive, stuck>>
      BY <1>1 DEF Gone
    <2>3. /\ running' \subseteq running /\ left' \subseteq running' /\ left \ {c} \subseteq left'
          /\ c \notin running' \/ c \in left'
      BY <1>1, <1>c DEF Gone, Removed, NotRemoved
    <2> QED
      BY <2>1, <2>2, <2>3, <1>t, <1>c, ContainersGo
  <1>2. ASSUME NEW c \in Container, Lost(c) PROVE PoolInv'
    BY <1>2, <1>t, <1>c, ContainersGo DEF Lost
  <1>3. ASSUME NEW ok \in BOOLEAN, Boots(ok) PROVE PoolInv'
    BY <1>3, <1>t, <1>c, ContainersGo DEF Boots
  <1>4. CASE ImageBuilt
    <2>1. losses' \in 0 .. MaxLosses
      BY <1>4, <1>t DEF ImageBuilt
    <2>2. /\ removals' \subseteq Container /\ removals \subseteq removals'
          /\ running' = running /\ left' = left
      BY <1>4, <1>c DEF ImageBuilt
    <2>3. enabled' \in BOOLEAN /\ UNCHANGED alive
      BY <1>4 DEF ImageBuilt
    <2>4. UNCHANGED <<started, box, boxes, entry, ensure, turn, command, stuck>>
      BY <1>4 DEF ImageBuilt
    <2> QED
      BY <1>c, <2>1, <2>2, <2>3, <2>4, ContainersGo
  <1> QED
    BY <1>1, <1>2, <1>3, <1>4

LEMMA PoolStep == PoolInv /\ [PoolNext]_poolVars => PoolInv'
  <1> SUFFICES ASSUME PoolInv, [PoolNext]_poolVars PROVE PoolInv'
    OBVIOUS
  <1>1. CASE Reap
    BY <1>1, AsideKeeps DEF Reap
  <1> QED
    BY <1>1, EnsureStep, EnsureEndsKeeps, TurnKeeps, ExecRecoversKeeps, RecoveryStepKeeps, DockerStep,
       DieKeepsPool
       DEF PoolNext, CommandStep

THEOREM PoolKeepsInv == PoolSpec => []PoolInv
  BY PoolStart, PoolStep, PTL DEF PoolSpec

-----------------------------------------------------------------------------
(* What follows.                                                           *)

\* The pool's variables keep to their types.
THEOREM PoolIsTyped == PoolSpec => []PoolTypeOK
  <1>1. PoolInv => PoolTypeOK
    BY DEF PoolInv
  <1> QED
    BY <1>1, PoolKeepsInv, PTL

\* Every container that runs is the pooled sandbox's, on its way out, or one that Docker
\* failed to remove (docker-sandbox.ts).
THEOREM NoContainerLeaks == PoolSpec => []NothingLeaks
  <1>1. PoolInv => NothingLeaks
    BY DEF PoolInv
  <1> QED
    BY <1>1, PoolKeepsInv, PTL

\* The pool keeps no sandbox that was removed, unless a replacement is under way or failed.
THEOREM PooledStaysUsable == PoolSpec => []PooledIsUsable
  <1>1. PoolInv => PooledIsUsable
    BY DEF PoolInv
  <1> QED
    BY <1>1, PoolKeepsInv, PTL

-----------------------------------------------------------------------------
(* Commands that wait for a recovery.                                      *)

\* A command that waits has its turn's sandbox in recovery: the promise it awaits is one
\* that somebody still settles, well or not, also when the sandbox was reaped or replaced
\* meanwhile (#reprovisioning, docker-sandbox.ts).
WaitersAreHeard ==
  \A e \in Command : command[e].step = "recovering" =>
    turn # NoBox /\ box[turn].recovery # "none"

\* The pool is asked for a sandbox before the turn's first command.
EnsureIsFirst == ensure # NoEnsure => turn = NoBox

HeardInv == EnsureIsFirst /\ WaitersAreHeard

\* A recovery that is over has told its commands.
LEMMA RecoveredHears ==
  ASSUME PoolInv, HeardInv, NEW b \in Box, NEW ok, Recovered(b, ok),
         UNCHANGED <<ensure, turn>>, \A d \in Box \ {b} : box'[d] = box[d]
  PROVE  HeardInv'
  <1>1. EnsureIsFirst'
    BY DEF HeardInv, EnsureIsFirst
  <1>2. ASSUME NEW e \in Command, command'[e].step = "recovering"
        PROVE  turn # NoBox /\ box'[turn].recovery # "none"
    <2>1. e \notin InRecovery(b) /\ command[e].step = "recovering"
      BY <1>2 DEF Recovered, NoCommand
    <2>2. turn # NoBox /\ turn \in Box /\ turn # b
      BY <2>1, PoolTyped DEF InRecovery, HeardInv, WaitersAreHeard, PoolInv
    <2> QED
      BY <2>1, <2>2 DEF HeardInv, WaitersAreHeard
  <1> QED
    BY <1>1, <1>2 DEF HeardInv, WaitersAreHeard

\* A step that gives no turn a sandbox to recover and ends no recovery.
LEMMA RestHears ==
  ASSUME HeardInv,
         \A e \in Command : command'[e].step = "recovering" => command[e].step = "recovering",
         \/ turn' = turn
         \/ \A e \in Command : command'[e].step # "recovering",
         turn # NoBox => box'[turn].recovery = box[turn].recovery,
         EnsureIsFirst'
  PROVE  HeardInv'
  BY DEF HeardInv, WaitersAreHeard

LEMMA HeardStep == PoolInv /\ HeardInv /\ [PoolNext]_poolVars => HeardInv'
  <1> SUFFICES ASSUME PoolInv, HeardInv, [PoolNext]_poolVars PROVE HeardInv'
    OBVIOUS
  <1>t. /\ PoolTypeOK /\ MadeInv /\ EnsureIsFirst
        /\ box \in [Box -> Sandbox] /\ turn \in Box \cup {NoBox}
        /\ command \in [Command -> CommandRecord]
        /\ IsHeld => entry.box \in Box
    BY PoolTyped DEF PoolInv, HeardInv
  <1>n. \A e \in Command : turn = NoBox => command[e].step = "none"
    BY <1>t DEF MadeInv, NoCommand
  \* Setting a sandbox aside leaves its recovery to itself.
  <1>s. ASSUME NEW b \in Box, SetAside(b)
        PROVE  \A d \in Box : box'[d].recovery = box[d].recovery
    BY <1>t, <1>s DEF SetAside, Sandbox
  <1>1. CASE Ensures
    <2>1. ASSUME NEW repos \in Repos, EnsureReuses(repos)
          PROVE  HeardInv'
      BY <1>t, <1>n, <2>1 DEF EnsureReuses, CanEnsure, HeardInv, EnsureIsFirst, WaitersAreHeard
    <2>2. ASSUME NEW repos \in Repos, EnsureReplaces(repos) \/ EnsureStarts(repos)
          PROVE  HeardInv'
      BY <1>t, <1>n, <2>2
         DEF EnsureReplaces, EnsureStarts, CanEnsure, HeardInv, EnsureIsFirst, WaitersAreHeard
    <2> QED
      BY <1>1, <2>1, <2>2 DEF Ensures
  <1>2. CASE EnsureGoesOn \/ EnsureFails
    BY <1>2, RestHears, <1>t DEF EnsureGoesOn, EnsureFails, EnsureIsFirst, NoEnsure
  <1>3. CASE EnsureEnds
    <2>1. turn = NoBox
      BY <1>t, <1>3 DEF EnsureEnds, EnsureIsFirst, NoEnsure
    <2>2. UNCHANGED command /\ ensure' = NoEnsure
      BY <1>3 DEF EnsureEnds
    <2> QED
      BY <1>n, <2>1, <2>2 DEF HeardInv, EnsureIsFirst, WaitersAreHeard
  <1>4. CASE Idles
    BY <1>4, RestHears, <1>t DEF Idles, EnsureIsFirst
  <1>5. CASE Reap
    <2>1. entry.box \in Box /\ SetAside(entry.box) /\ UNCHANGED <<ensure, turn, command>>
      BY <1>5, <1>t DEF Reap
    <2> QED
      BY <1>s, <1>t, <2>1, RestHears DEF EnsureIsFirst
  <1>6. CASE TurnIsOver
    BY <1>6, <1>t DEF TurnIsOver, HeardInv, EnsureIsFirst, WaitersAreHeard, NoCommand
  <1>7. ASSUME NEW e \in Command, Exec(e) \/ ExecReturns(e)
        PROVE  HeardInv'
    <2>1. \A d \in Command : command'[d].step = "recovering" => command[d].step = "recovering"
      BY <1>7, <1>t DEF Exec, ExecReturns, NoCommand
    <2> QED
      BY <1>7, <1>t, <2>1, RestHears DEF Exec, ExecReturns, EnsureIsFirst
  <1>8. ASSUME NEW e \in Command, ExecRecovers(e)
        PROVE  HeardInv'
    <2>1. turn # NoBox /\ turn \in Box
      BY <1>8, <1>n, <1>t DEF ExecRecovers, Unavailable
    <2>2. box'[turn].recovery # "none" /\ UNCHANGED <<ensure, turn>>
      BY <1>8, <1>t, <2>1 DEF ExecRecovers, Recovers, Sandbox
    <2> QED
      BY <1>t, <2>1, <2>2 DEF HeardInv, EnsureIsFirst, WaitersAreHeard
  <1>9. ASSUME NEW b \in Box, RecoveryGoesOn(b)
        PROVE  HeardInv'
    <2>1. \A d \in Box \ {b} : box'[d] = box[d]
      BY <1>9, <1>t DEF RecoveryGoesOn
    <2>2. CASE box[b].removed
      BY <1>9, <2>1, <2>2, RecoveredHears DEF RecoveryGoesOn
    <2>3. CASE ~box[b].removed
      <3>1. box'[b].recovery = "running" /\ UNCHANGED <<ensure, turn, command>>
        BY <1>9, <1>t, <2>3 DEF RecoveryGoesOn, Sandbox
      <3> QED
        BY <1>t, <2>1, <3>1 DEF HeardInv, EnsureIsFirst, WaitersAreHeard
    <2> QED
      BY <2>2, <2>3
  <1>10. ASSUME NEW b \in Box, RecoveryEnds(b) \/ RecoveryFails(b)
         PROVE  HeardInv'
    <2>1. UNCHANGED <<ensure, turn>> /\ \A d \in Box \ {b} : box'[d] = box[d]
      BY <1>10, <1>t DEF RecoveryEnds, RecoveryFails
    <2>2. \E ok : Recovered(b, ok)
      BY <1>10 DEF RecoveryEnds, RecoveryFails
    <2> QED
      BY <2>1, <2>2, RecoveredHears
  <1>11. ASSUME UNCHANGED <<box, ensure, turn, command>>
         PROVE  HeardInv'
    BY <1>11 DEF HeardInv, EnsureIsFirst, WaitersAreHeard
  <1>12. ASSUME NEW c \in Container, Gone(c) \/ Lost(c)
         PROVE  HeardInv'
    BY <1>11, <1>12 DEF Gone, Lost
  <1>13. (\E ok \in BOOLEAN : Boots(ok)) \/ ImageBuilt \/ UNCHANGED poolVars => HeardInv'
    BY <1>11 DEF Boots, ImageBuilt, poolVars
  <1>14. CASE PoolDies
    BY <1>14 DEF PoolDies, HeardInv, EnsureIsFirst, WaitersAreHeard, NoCommand
  <1> QED
    BY <1>1, <1>2, <1>3, <1>4, <1>5, <1>6, <1>7, <1>8, <1>9, <1>10, <1>12, <1>13, <1>14
       DEF PoolNext, CommandStep, RecoveryStep

\* The safety half of CommandsReturn: no command waits for a recovery nobody ends.
THEOREM NoCommandIsForgotten == PoolSpec => []WaitersAreHeard
  <1>1. PoolInit => HeardInv
    BY DEF PoolInit, HeardInv, EnsureIsFirst, WaitersAreHeard, NoCommand
  <1>2. HeardInv => WaitersAreHeard
    BY DEF HeardInv
  <1> QED
    BY <1>1, <1>2, HeardStep, PoolKeepsInv, PTL DEF PoolSpec
=============================================================================
