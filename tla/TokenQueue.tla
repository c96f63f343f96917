----------------------------- MODULE TokenQueue -----------------------------
(***************************************************************************)
(* What the refresh lock of one credential promises (refresh-lock.ts): the *)
(* work of its callers runs one at a time, in the order in which they      *)
(* asked, and a caller that finds nobody before it starts at once.         *)
(***************************************************************************)
EXTENDS Sequences

CONSTANTS Member  \* who may ask

VARIABLES
  line,     \* those who asked and are not done, in order
  serving   \* the one whose work runs

queueVars == <<line, serving>>

Waiting == {line[i] : i \in DOMAIN line}

QueueInit == line = <<>> /\ serving = {}

Join(m) ==
  /\ m \notin Waiting
  /\ line' = Append(line, m)
  /\ serving' = IF line = <<>> THEN {m} ELSE serving

Serve ==
  /\ serving = {} /\ line # <<>>
  /\ serving' = {Head(line)}
  /\ UNCHANGED line

Leave ==
  /\ line # <<>> /\ serving = {Head(line)}
  /\ line' = Tail(line)
  /\ serving' = {}

\* The process dies.
Clear == line' = <<>> /\ serving' = {}

QueueNext == (\E m \in Member : Join(m)) \/ Serve \/ Leave \/ Clear

QueueSpec == QueueInit /\ [][QueueNext]_queueVars
=============================================================================
