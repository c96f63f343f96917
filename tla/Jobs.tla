-------------------------------- MODULE Jobs --------------------------------
(***************************************************************************)
(* The jobs coordinator (server/src/coordinator/jobs.ts) of one tenant: a  *)
(* tree of jobs, each assigned to a staff member, and the operations that  *)
(* agents (through tools), the operator (through routes), the recovery     *)
(* observer and the scheduler's sweep perform on it.                       *)
(*                                                                         *)
(* The store is synchronous, so an operation runs to its end before any    *)
(* other JavaScript does and is one action here.  Two things break that:   *)
(* stop() awaits the abort of the live turn between its guard and its      *)
(* writes (StopBegin, StopFinish), and the process can die between two     *)
(* statements of an operation, which are separate commits (the CrashIn...  *)
(* actions).  Dispatches into sessions are added in JobRuns.               *)
(***************************************************************************)
EXTENDS Integers, FiniteSets

CONSTANTS
  Agent,      \* the staff members jobs can be assigned to
  NoAgent,    \* the assignee of a row that does not exist yet
  MaxJobs,    \* bound: how many jobs are ever opened
  MaxDepth,   \* MAX_DEPTH: how deep the tree may nest
  MaxOpen,    \* MAX_OPEN_PER_AGENT: open jobs one agent may hold
  Overrun     \* the on_overrun policies in use: notify, fail

ASSUME AgentAssumption   == NoAgent \notin Agent
ASSUME BoundAssumption   == MaxJobs \in Nat /\ MaxDepth \in Nat /\ MaxOpen \in Nat
ASSUME OverrunAssumption == Overrun \subseteq {"notify", "fail"}

JobId    == 1 .. MaxJobs
NoParent == 0

Terminal  == {"done", "failed", "cancelled"}
Open      == {"assigned", "working", "waiting_children", "paused"}
Sweepable == {"assigned", "working", "waiting_children"}

VARIABLES
  \* The jobs table, a function per column.  A row not inserted has state "none".
  state, assignee,
  parent, depth, awaited,
  deadline,   \* deadline_at against the clock: none, ahead or past
  overrun,    \* on_overrun
  escalated,  \* escalated_at is set
  \* The coordinator's memory.
  stopping,   \* jobs whose stop() is awaiting the abort of the live turn
  \* History.
  silent,     \* children that settled without their parent being checked
  revived,    \* jobs that were terminal and came back through a spawn
  told        \* overrun messages sent for the job's current deadline

family == <<parent, depth, awaited>>
clock  == <<deadline, overrun, escalated, told>>
vars   == <<state, assignee, family, clock, stopping, silent, revived>>

TypeOK ==
  /\ state \in [JobId -> Open \cup Terminal \cup {"none"}]
  /\ assignee \in [JobId -> Agent \cup {NoAgent}]
  /\ parent \in [JobId -> JobId \cup {NoParent}]
  /\ depth \in [JobId -> Nat]
  /\ awaited \in [JobId -> BOOLEAN]
  /\ deadline \in [JobId -> {"none", "ahead", "past"}]
  /\ overrun \in [JobId -> {"none", "notify", "fail"}]
  /\ escalated \in [JobId -> BOOLEAN]
  /\ told \in [JobId -> Nat]
  /\ stopping \subseteq JobId
  /\ silent \subseteq JobId
  /\ revived \subseteq JobId

Init ==
  /\ state = [j \in JobId |-> "none"]
  /\ assignee = [j \in JobId |-> NoAgent]
  /\ parent = [j \in JobId |-> NoParent]
  /\ depth = [j \in JobId |-> 0]
  /\ awaited = [j \in JobId |-> FALSE]
  /\ deadline = [j \in JobId |-> "none"]
  /\ overrun = [j \in JobId |-> "none"]
  /\ escalated = [j \in JobId |-> FALSE]
  /\ told = [j \in JobId |-> 0]
  /\ stopping = {}
  /\ silent = {}
  /\ revived = {}

-----------------------------------------------------------------------------
(* Reading the table.                                                      *)

Exists(j)     == state[j] # "none"
IsOpen(j)     == state[j] \in Open
IsTerminal(j) == state[j] \in Terminal

\* The id an insert gets: rows are numbered in the order they are created.
Fresh(j) == ~Exists(j) /\ \A i \in JobId : i < j => Exists(i)

Held(a) == {j \in JobId : IsOpen(j) /\ assignee[j] = a}

\* Mutant: one job too many.
HasCapacityOffByOne(a) == Cardinality(Held(a)) <= MaxOpen

HasCapacity(a) == Cardinality(Held(a)) < MaxOpen

\* Mutants: a child that did not succeed counts as open; anybody's child counts.
HasUnfinishedAwaitedChild(st, p) ==
  \E c \in JobId : parent[c] = p /\ awaited[c] /\ st[c] \notin {"none", "done"}
AnyOpenAwaitedChild(st, p) ==
  \E c \in JobId : awaited[c] /\ st[c] \in Open

HasOpenAwaitedChild(st, p) ==
  \E c \in JobId : parent[c] = p /\ awaited[c] /\ st[c] \in Open

\* Mutant: a state that is not one.
ResumeParentMisspelt(st, p) ==
  IF p # NoParent /\ st[p] = "waiting_children" /\ ~HasOpenAwaitedChild(st, p)
    THEN [st EXCEPT ![p] = "resumed"]
    ELSE st

\* #resumeParentIfReady, on the states a settling operation has just written.
ResumeParentIfReady(st, p) ==
  IF p # NoParent /\ st[p] = "waiting_children" /\ ~HasOpenAwaitedChild(st, p)
    THEN [st EXCEPT ![p] = "working"]
    ELSE st

\* The jobs still unheard of once the parent of j has been checked.
Unheard(j) == {c \in silent : parent[c] # parent[j]}

-----------------------------------------------------------------------------
(* Operations.                                                             *)

\* Mutant: a child at the depth of its parent.
DepthFlat(p) == IF p = NoParent THEN 0 ELSE depth[p]

DepthUnder(p) == IF p = NoParent THEN 0 ELSE depth[p] + 1

CanCreate(j, a, p) ==
  /\ Fresh(j)
  /\ p # NoParent => Exists(p)
  /\ DepthUnder(p) <= MaxDepth
  /\ HasCapacity(a)

\* The insert; policy is the on_overrun of a job with a deadline, or "none".
Insert(j, a, p, awaits, policy) ==
  /\ assignee' = [assignee EXCEPT ![j] = a]
  /\ parent' = [parent EXCEPT ![j] = p]
  /\ depth' = [depth EXCEPT ![j] = DepthUnder(p)]
  /\ awaited' = [awaited EXCEPT ![j] = awaits]
  /\ deadline' = [deadline EXCEPT ![j] = IF policy = "none" THEN "none" ELSE "ahead"]
  /\ overrun' = [overrun EXCEPT ![j] = policy]
  /\ UNCHANGED <<escalated, told>>

\* The state of the parent is not looked at: an awaited spawn makes it wait
\* whatever it was, a terminal parent included.
Create(j, a, p, awaits, policy) ==
  LET inserted == [state EXCEPT ![j] = "assigned"] IN
  /\ CanCreate(j, a, p)
  /\ awaits => p # NoParent
  /\ Insert(j, a, p, awaits, policy)
  /\ state' = IF awaits THEN [inserted EXCEPT ![p] = "waiting_children"] ELSE inserted
  /\ revived' = IF awaits /\ IsTerminal(p) THEN revived \cup {p} ELSE revived
  /\ UNCHANGED <<stopping, silent>>

\* Mutant: whatever state the job is in.
MarkWorkingAlways(j) ==
  /\ Exists(j)
  /\ state' = [state EXCEPT ![j] = "working"]
  /\ UNCHANGED <<assignee, family, clock, stopping, silent, revived>>

MarkWorking(j) ==
  /\ state[j] = "assigned"
  /\ state' = [state EXCEPT ![j] = "working"]
  /\ UNCHANGED <<assignee, family, clock, stopping, silent, revived>>

\* A handoff takes any open job back to assigned, paused and waiting ones too,
\* and counts the job itself against a receiver that already holds it.
Handoff(j, to) ==
  /\ IsOpen(j)
  /\ HasCapacity(to)
  /\ assignee' = [assignee EXCEPT ![j] = to]
  /\ state' = [state EXCEPT ![j] = "assigned"]
  /\ revived' = revived \ {j}
  /\ UNCHANGED <<family, clock, stopping, silent>>

\* What close, fail and #markCancelled share: the final state is written, then
\* the parent is resumed if that was the last awaited child.
Settle(j, final) ==
  /\ state' = ResumeParentIfReady([state EXCEPT ![j] = final], parent[j])
  /\ silent' = Unheard(j)
  /\ revived' = revived \ {j}
  /\ UNCHANGED <<assignee, family, clock>>

Close(j) == IsOpen(j) /\ Settle(j, "done") /\ UNCHANGED stopping

Fail(j) == IsOpen(j) /\ Settle(j, "failed") /\ UNCHANGED stopping

Restart(j) ==
  /\ state[j] \in {"failed", "assigned"}
  /\ HasCapacity(assignee[j])
  /\ state' = [state EXCEPT ![j] = "assigned"]
  /\ silent' = silent \ {j}
  /\ revived' = revived \ {j}
  /\ UNCHANGED <<assignee, family, clock, stopping>>

Pause(j) ==
  /\ IsOpen(j)
  /\ state' = [state EXCEPT ![j] = "paused"]
  /\ UNCHANGED <<assignee, family, clock, stopping, silent, revived>>

Resume(j) ==
  /\ state[j] = "paused"
  /\ state' = [state EXCEPT ![j] = "working"]
  /\ UNCHANGED <<assignee, family, clock, stopping, silent, revived>>

\* stop() checks that the job is open, then awaits the abort ...
StopBegin(j) ==
  /\ IsOpen(j)
  /\ stopping' = stopping \cup {j}
  /\ UNCHANGED <<state, assignee, family, clock, silent, revived>>

\* ... and then writes "cancelled" over whatever the job has become.
StopFinish(j) ==
  /\ j \in stopping
  /\ Settle(j, "cancelled")
  /\ stopping' = stopping \ {j}

\* recordStop, for a caller that has aborted the turn itself.
RecordStop(j) == IsOpen(j) /\ Settle(j, "cancelled") /\ UNCHANGED stopping

Cancel(j) ==
  /\ state[j] \in {"paused", "failed"}
  /\ Settle(j, "cancelled")
  /\ UNCHANGED stopping

-----------------------------------------------------------------------------
(* Deadlines.  Instants are compared with the clock only.                  *)

NewDeadline(j, when, policy) ==
  /\ IsOpen(j)
  /\ deadline' = [deadline EXCEPT ![j] = when]
  /\ overrun' = [overrun EXCEPT ![j] = policy]
  /\ escalated' = [escalated EXCEPT ![j] = FALSE]
  /\ told' = [told EXCEPT ![j] = 0]
  /\ UNCHANGED <<state, assignee, family, stopping, silent, revived>>

SetDeadline(j, policy) == NewDeadline(j, "ahead", policy)
ClearDeadline(j)       == NewDeadline(j, "none", "none")

DeadlinePasses(j) ==
  /\ deadline[j] = "ahead"
  /\ deadline' = [deadline EXCEPT ![j] = "past"]
  /\ UNCHANGED <<state, assignee, family, overrun, escalated, told, stopping, silent, revived>>

\* Mutant: escalated_at not looked at.
DueAgain == {j \in JobId : deadline[j] = "past" /\ state[j] \in Sweepable}

Due == {j \in JobId : deadline[j] = "past" /\ ~escalated[j] /\ state[j] \in Sweepable}

\* #escalate: the rows of marked get their escalated_at; those of swept, among
\* them, also get what follows it, a message to the originator or, with the
\* policy fail, the state failed.  The parent of a job failed here is not checked.
Escalate(marked, swept) ==
  LET failing == {j \in swept : overrun[j] = "fail"} IN
  /\ escalated' = [j \in JobId |-> j \in marked \/ escalated[j]]
  /\ state' = [j \in JobId |-> IF j \in failing THEN "failed" ELSE state[j]]
  /\ told' = [j \in JobId |-> IF j \in swept \ failing THEN told[j] + 1 ELSE told[j]]
  /\ silent' = silent \cup failing
  /\ revived' = revived \ failing
  /\ UNCHANGED <<assignee, family, deadline, overrun>>

SweepDeadlines == Due # {} /\ Escalate(Due, Due) /\ UNCHANGED stopping

-----------------------------------------------------------------------------
(* The process dies and comes back: awaiting stop() calls are gone and an  *)
(* operation cut short leaves the statements it had committed.             *)

Crash ==
  /\ stopping # {}
  /\ stopping' = {}
  /\ UNCHANGED <<state, assignee, family, clock, silent, revived>>

\* create: the row is inserted, the parent is not made to wait for it.
CrashInCreate(j, a, p, policy) ==
  /\ CanCreate(j, a, p)
  /\ Insert(j, a, p, TRUE, policy)
  /\ state' = [state EXCEPT ![j] = "assigned"]
  /\ stopping' = {}
  /\ UNCHANGED <<silent, revived>>

\* close, fail, stop, cancel: the state is written, the parent is not checked.
CrashInSettle(j, final) ==
  /\ IsOpen(j) \/ (final = "cancelled" /\ (j \in stopping \/ state[j] = "failed"))
  /\ state' = [state EXCEPT ![j] = final]
  /\ silent' = silent \cup {j}
  /\ revived' = revived \ {j}
  /\ stopping' = {}
  /\ UNCHANGED <<assignee, family, clock>>

\* sweepDeadlines: the rows in swept are done with, k is marked and no more.
CrashInSweep(k, swept) ==
  /\ k \in Due
  /\ swept \subseteq Due \ {k}
  /\ Escalate(swept \cup {k}, swept)
  /\ stopping' = {}

-----------------------------------------------------------------------------

\* What agents do through the job tools.
AgentStep ==
  \/ \E j \in JobId, a \in Agent, p \in JobId \cup {NoParent},
        awaits \in BOOLEAN, policy \in Overrun \cup {"none"} :
       Create(j, a, p, awaits, policy)
  \/ \E j \in JobId : MarkWorking(j) \/ Close(j)
  \/ \E j \in JobId, to \in Agent : Handoff(j, to)

\* What the operator does through the job routes.
OperatorStep ==
  \E j \in JobId :
    \/ Restart(j)
    \/ Pause(j)
    \/ Resume(j)
    \/ StopBegin(j)
    \/ StopFinish(j)
    \/ RecordStop(j)
    \/ Cancel(j)
    \/ \E policy \in Overrun : SetDeadline(j, policy)
    \/ ClearDeadline(j)

\* What the recovery observer, the clock and the scheduler do.
SystemStep ==
  \/ \E j \in JobId : Fail(j) \/ DeadlinePasses(j)
  \/ SweepDeadlines

CrashStep ==
  \/ Crash
  \/ \E j \in JobId, a \in Agent, p \in JobId, policy \in Overrun \cup {"none"} :
       CrashInCreate(j, a, p, policy)
  \/ \E j \in JobId, final \in Terminal : CrashInSettle(j, final)
  \/ \E k \in JobId, swept \in SUBSET JobId : CrashInSweep(k, swept)

Next == AgentStep \/ OperatorStep \/ SystemStep \/ CrashStep

Spec == Init /\ [][Next]_vars

\* The same program in a process that never dies.
UncrashedSpec == Init /\ [][AgentStep \/ OperatorStep \/ SystemStep]_vars

-----------------------------------------------------------------------------
(* Properties.                                                             *)

\* The tree is well founded and no deeper than the cap: ids are given in order,
\* and a parent was opened before its child, one level above it (create, jobs.ts).
TreeInv ==
  \A j \in JobId :
    IF Exists(j)
      THEN /\ \A i \in JobId : i < j => Exists(i)
           /\ depth[j] <= MaxDepth
           /\ IF parent[j] = NoParent
                THEN depth[j] = 0 /\ ~awaited[j]
                ELSE /\ parent[j] < j
                     /\ Exists(parent[j])
                     /\ depth[j] = depth[parent[j]] + 1
      ELSE parent[j] = NoParent /\ ~awaited[j] /\ ~escalated[j] /\ told[j] = 0

\* No agent holds more open jobs than the cap, whatever is opened, handed off
\* or restarted; only a job that a late spawn brought back from a terminal
\* state escapes the count (#assertOpenCapacity, jobs.ts).
OpenCap == \A a \in Agent : Cardinality(Held(a) \ revived) <= MaxOpen

WaitingOn(p, c) == parent[c] = p /\ awaited[c]

\* A parent in waiting_children has somebody to wait for: an awaited child that
\* is open, or one that settled without the parent being checked, which takes a
\* crash inside the settling or an overrun policy of fail
\* (#resumeParentIfReady, jobs.ts).
WaitingHasReason ==
  \A p \in JobId : state[p] = "waiting_children" =>
    \E c \in JobId : WaitingOn(p, c) /\ (IsOpen(c) \/ c \in silent)

\* Jobs never all wait on each other: when one is waiting, some open job is not,
\* unless a child it waits for settled without its parent being checked.
NoWaitDeadlock ==
  \A p \in JobId : state[p] = "waiting_children" =>
    \/ \E j \in JobId : IsOpen(j) /\ state[j] # "waiting_children"
    \/ \E c \in silent, q \in JobId : WaitingOn(q, c) /\ state[q] = "waiting_children"

\* The originator hears of a missed deadline at most once per deadline, even
\* when the process dies in the middle of a sweep (#escalate, jobs.ts).
OverrunToldOnce == \A j \in JobId : told[j] <= 1 /\ (told[j] = 1 => escalated[j])

\* A job that ended becomes open again in two ways only: the operator restarts
\* a failed one, or a turn still running in it spawns an awaited child.
EndedComesBackOnlyBy ==
  [][\A j \in JobId : IsTerminal(j) /\ IsOpen(j)' =>
       \/ state[j] = "failed" /\ state'[j] = "assigned"
       \/ state'[j] = "waiting_children" /\ j \in revived']_vars

\* stop() refuses a terminal job (jobs.test.ts, "refuses to stop a job that is
\* already terminal"): a job that is done is never turned into a cancelled one.
DoneIsNotCancelled ==
  [][\A j \in JobId : state[j] = "done" => state'[j] # "cancelled"]_vars

\* "refuses to change a terminal job" (jobs.test.ts): only a restart takes a
\* terminal job back into the working set.
TerminalStaysOut ==
  [][\A j \in JobId : IsTerminal(j) /\ IsOpen(j)' => state[j] = "failed"]_vars
=============================================================================
