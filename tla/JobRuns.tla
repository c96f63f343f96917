------------------------------ MODULE JobRuns ------------------------------
(***************************************************************************)
(* The jobs of Jobs.tla driven through agent sessions: what the dispatcher *)
(* and the aborter of app.ts, the recovery observer (recovery.ts), the     *)
(* render of an agent (staff-agent.ts) and the first sweep after a boot do *)
(* between the jobs table and Flue, the durable runtime the turns run in.  *)
(*                                                                         *)
(* A job runs in a session of its own for each agent that held it.  The    *)
(* coordinator posts a message to the session; the promise is kept or      *)
(* broken by Flue later, in memory.  An admitted message is durable and a  *)
(* turn answers it: the turn can act on the job, and settles.  The timers  *)
(* of recovery are in memory.  Jobs here have no deadline.                 *)
(***************************************************************************)
EXTENDS Jobs

CONSTANTS
  Chat,         \* where a job opened outside any job session came from
  MaxAttempts,  \* MAX_RECOVERY_ATTEMPTS
  MaxTimers,    \* bound: backoff timers of one job running at once
  MaxUpsets     \* bound: operator interventions and crashes, together

ASSUME AttemptsAssumption == MaxAttempts \in Nat
ASSUME UpsetsAssumption   == MaxTimers \in Nat /\ MaxUpsets \in Nat

VARIABLES
  origin,    \* originator_session of each job
  attempts,  \* the jobs table's attempts column
  posting,   \* sessions with a dispatch Flue has not answered yet
  inbox,     \* sessions with an admitted message no turn has taken up
  running,   \* sessions with a live turn
  aborting,  \* sessions whose abort was asked for and has not landed
  timers,    \* how many backoff timers run for each job
  swept,     \* assignedRecovered: this process has done its first sweep
  down,      \* the model provider is out for good
  upsets     \* operator interventions and crashes so far

tables   == <<origin, attempts>>
flue     == <<posting, inbox, running>>
process  == <<timers, swept>>
runsVars == <<vars, tables, flue, aborting, process, down, upsets>>

Session == JobId \X Agent
JobOf(s) == s[1]

RunsTypeOK ==
  /\ TypeOK
  /\ origin \in [JobId -> Session \cup {Chat}]
  /\ attempts \in [JobId -> Nat]
  /\ posting \subseteq Session
  /\ inbox \subseteq Session
  /\ running \subseteq Session
  /\ aborting \subseteq Session
  /\ timers \in [JobId -> 0 .. MaxTimers]
  /\ swept \in BOOLEAN
  /\ down \in BOOLEAN
  /\ upsets \in 0 .. MaxUpsets

RunsInit ==
  /\ Init
  /\ origin = [j \in JobId |-> Chat]
  /\ attempts = [j \in JobId |-> 0]
  /\ posting = {} /\ inbox = {} /\ running = {} /\ aborting = {}
  /\ timers = [j \in JobId |-> 0]
  /\ swept = FALSE
  /\ down = FALSE
  /\ upsets = 0

SessionOf(j) == <<j, assignee[j]>>

\* The parents this step takes out of waiting_children are told to go on.
Woken == {SessionOf(p) : p \in {q \in JobId : state[q] = "waiting_children"
                                              /\ state'[q] = "working"}}

-----------------------------------------------------------------------------
(* Turns, and the tools an agent calls in one.                             *)

\* job_create, in a chat (origin Chat) or in a job session.
OpenJob(o, j, a) ==
  /\ o \in running \cup {Chat}
  /\ Create(j, a, NoParent, FALSE, "none")
  /\ origin' = [origin EXCEPT ![j] = o]
  /\ posting' = posting \cup {<<j, a>>}
  /\ UNCHANGED <<attempts, inbox, running, aborting, process, down, upsets>>

\* job_spawn.
Spawn(s, j, a, awaits) ==
  /\ s \in running
  /\ Create(j, a, JobOf(s), awaits, "none")
  /\ origin' = [origin EXCEPT ![j] = s]
  /\ posting' = posting \cup {<<j, a>>}
  /\ UNCHANGED <<attempts, inbox, running, aborting, process, down, upsets>>

\* job_handoff: the turn goes on in a session the job has left.
HandOver(s, to) ==
  /\ s \in running
  /\ Handoff(JobOf(s), to)
  /\ posting' = posting \cup {<<JobOf(s), to>>}
  /\ UNCHANGED <<tables, inbox, running, aborting, process, down, upsets>>

\* job_close; the originator is told or not (reportMode, report).
CloseJob(s, report) ==
  LET told_ == IF report THEN {origin[JobOf(s)]} \ {Chat} ELSE {} IN
  /\ s \in running
  /\ Close(JobOf(s))
  /\ posting' = posting \cup told_ \cup Woken
  /\ UNCHANGED <<tables, inbox, running, aborting, process, down, upsets>>

\* Mutant: any job that is not working is marked working.
TurnStartsAll(s) ==
  /\ s \in inbox \ running
  /\ inbox' = inbox \ {s}
  /\ running' = running \cup {s}
  /\ state' = [state EXCEPT ![JobOf(s)] = "working"]
  /\ UNCHANGED <<assignee, family, clock, stopping, silent, revived>>
  /\ UNCHANGED <<tables, posting, aborting, process, down, upsets>>

\* The render resolves a model: useAgentStart marks the job started, whoever
\* the session's agent is by now to the job.
TurnStarts(s) ==
  /\ s \in inbox \ running
  /\ inbox' = inbox \ {s}
  /\ running' = running \cup {s}
  /\ IF state[JobOf(s)] = "assigned" THEN MarkWorking(JobOf(s)) ELSE UNCHANGED vars
  /\ UNCHANGED <<tables, posting, aborting, process, down, upsets>>

\* fail(), which leaves a terminal job as it is; answered is the session whose
\* dispatch has just been answered, if that is what failed.
FailJob(j, answered) ==
  /\ IF IsOpen(j) THEN Fail(j) ELSE UNCHANGED vars
  /\ posting' = (posting \ answered) \cup Woken

\* The render finds no member or no credential for the session.
TurnRefused(s) ==
  /\ s \in inbox \ running
  /\ inbox' = inbox \ {s}
  /\ FailJob(JobOf(s), {})
  /\ UNCHANGED <<tables, running, aborting, process, down, upsets>>

\* Mutant: once the attempts have run out nothing is done.
RetryOrForget(j, answered) ==
  /\ posting' = posting \ answered
  /\ IF attempts[j] < MaxAttempts
       THEN timers[j] < MaxTimers /\ timers' = [timers EXCEPT ![j] = @ + 1]
       ELSE UNCHANGED timers
  /\ UNCHANGED vars

\* What a transient failure leads to, in the observer and in the dispatcher.
RetryOrGiveUp(j, answered) ==
  IF attempts[j] < MaxAttempts
    THEN /\ timers[j] < MaxTimers
         /\ timers' = [timers EXCEPT ![j] = @ + 1]
         /\ posting' = posting \ answered
         /\ UNCHANGED vars
    ELSE /\ FailJob(j, answered)
         /\ UNCHANGED timers

TurnCompletes(s) ==
  /\ s \in running
  /\ ~down
  /\ running' = running \ {s}
  /\ attempts' = [attempts EXCEPT ![JobOf(s)] = 0]
  /\ UNCHANGED <<vars, origin, posting, inbox, aborting, process, down, upsets>>

TurnFails(s) ==
  /\ s \in running
  /\ running' = running \ {s}
  /\ FailJob(JobOf(s), {})
  /\ UNCHANGED <<tables, inbox, aborting, process, down, upsets>>

TurnDrops(s) ==
  /\ s \in running
  /\ running' = running \ {s}
  /\ RetryOrGiveUp(JobOf(s), {})
  /\ UNCHANGED <<tables, inbox, aborting, swept, down, upsets>>

-----------------------------------------------------------------------------
(* Dispatches, timers and the first sweep.                                 *)

Admitted(s) ==
  /\ s \in posting
  /\ posting' = posting \ {s}
  /\ inbox' = inbox \cup {s}
  /\ UNCHANGED <<vars, tables, running, aborting, process, down, upsets>>

Rejected(s) ==
  /\ s \in posting
  /\ FailJob(JobOf(s), {s})
  /\ UNCHANGED <<tables, inbox, running, aborting, process, down, upsets>>

RejectedForNow(s) ==
  /\ s \in posting
  /\ RetryOrGiveUp(JobOf(s), {s})
  /\ UNCHANGED <<tables, inbox, running, aborting, swept, down, upsets>>

\* Mutant: the attempt is not counted.
TimerFiresUncounted(j) ==
  /\ timers[j] > 0
  /\ timers' = [timers EXCEPT ![j] = @ - 1]
  /\ posting' = IF IsOpen(j) THEN posting \cup {SessionOf(j)} ELSE posting
  /\ UNCHANGED <<vars, tables, inbox, running, aborting, swept, down, upsets>>

\* recover(): an open job is dispatched again, to whoever holds it now.
TimerFires(j) ==
  /\ timers[j] > 0
  /\ timers' = [timers EXCEPT ![j] = @ - 1]
  /\ IF IsOpen(j)
       THEN /\ attempts' = [attempts EXCEPT ![j] = @ + 1]
            /\ posting' = posting \cup {SessionOf(j)}
       ELSE UNCHANGED <<attempts, posting>>
  /\ UNCHANGED <<vars, origin, inbox, running, aborting, swept, down, upsets>>

\* Mutant: the sweep re-dispatches nothing.
FirstSweepOnly ==
  /\ ~swept
  /\ swept' = TRUE
  /\ UNCHANGED <<vars, tables, flue, aborting, timers, down, upsets>>

\* redispatchAssigned, on the first tick of the sweep after a boot.
FirstSweep ==
  /\ ~swept
  /\ swept' = TRUE
  /\ posting' = posting \cup {SessionOf(j) : j \in {i \in JobId : state[i] = "assigned"}}
  /\ UNCHANGED <<vars, tables, inbox, running, aborting, timers, down, upsets>>

ProviderGoesDown ==
  /\ ~down
  /\ down' = TRUE
  /\ UNCHANGED <<vars, tables, flue, aborting, process, upsets>>

-----------------------------------------------------------------------------
(* The operator.                                                           *)

Upset == upsets < MaxUpsets /\ upsets' = upsets + 1

PostTo(j) == posting' = posting \cup {SessionOf(j)}

OpPause(j) ==
  /\ Upset
  /\ Pause(j)
  /\ UNCHANGED <<tables, flue, aborting, process, down>>

OpResume(j) ==
  /\ Upset
  /\ Resume(j)
  /\ PostTo(j)
  /\ UNCHANGED <<tables, inbox, running, aborting, process, down>>

OpRestart(j) ==
  /\ Upset
  /\ Restart(j)
  /\ PostTo(j)
  /\ attempts' = [attempts EXCEPT ![j] = 0]
  /\ UNCHANGED <<origin, inbox, running, aborting, process, down>>

OpSteer(j) ==
  /\ Upset
  /\ IsOpen(j)
  /\ PostTo(j)
  /\ UNCHANGED <<vars, tables, inbox, running, aborting, process, down>>

\* One stop() of a job at a time.
OpStop(j) ==
  /\ Upset
  /\ j \notin stopping
  /\ StopBegin(j)
  /\ aborting' = aborting \cup {SessionOf(j)}
  /\ UNCHANGED <<tables, flue, process, down>>

\* The live turn ends, with what was queued behind it.
AbortLands(s) ==
  /\ s \in aborting
  /\ aborting' = aborting \ {s}
  /\ running' = running \ {s}
  /\ inbox' = inbox \ {s}
  /\ UNCHANGED <<vars, tables, posting, process, down, upsets>>

\* The abort resolved; when it did not land it had failed, which app.ts swallows.
StopEnds(j) ==
  /\ StopFinish(j)
  /\ aborting' = {s \in aborting : JobOf(s) # j}
  /\ posting' = posting \cup Woken
  /\ UNCHANGED <<tables, inbox, running, process, down, upsets>>

OpCancel(j) ==
  /\ Upset
  /\ Cancel(j)
  /\ posting' = posting \cup Woken
  /\ UNCHANGED <<tables, inbox, running, aborting, process, down>>

-----------------------------------------------------------------------------
(* Crashes.  Flue takes up the turns it had under way again; dispatches it *)
(* had not answered, timers, and aborts asked for are gone.                *)

Reboot ==
  /\ Upset
  /\ posting' = {}
  /\ running' = {}
  /\ aborting' = {}
  /\ timers' = [j \in JobId |-> 0]
  /\ swept' = FALSE
  /\ UNCHANGED <<attempts, down>>

Requeued == inbox \cup running

Dies ==
  /\ Reboot
  /\ inbox' = Requeued
  /\ IF stopping # {} THEN Crash ELSE UNCHANGED vars
  /\ UNCHANGED origin

DiesInSpawn(s, j, a) ==
  /\ s \in running
  /\ CrashInCreate(j, a, JobOf(s), "none")
  /\ Reboot
  /\ inbox' = Requeued
  /\ origin' = [origin EXCEPT ![j] = s]

DiesInClose(s) ==
  /\ s \in running
  /\ CrashInSettle(JobOf(s), "done")
  /\ Reboot
  /\ inbox' = Requeued
  /\ UNCHANGED origin

\* A fail() cut short: the turn that failed had settled or is taken up again.
DiesInFail(s) ==
  /\ s \in posting \cup inbox \cup running
  /\ CrashInSettle(JobOf(s), "failed")
  /\ Reboot
  /\ inbox' \in {Requeued, Requeued \ {s}}
  /\ UNCHANGED origin

DiesInCancel(j) ==
  /\ j \in stopping \/ state[j] \in {"paused", "failed"}
  /\ CrashInSettle(j, "cancelled")
  /\ Reboot
  /\ inbox' = Requeued
  /\ UNCHANGED origin

-----------------------------------------------------------------------------

TurnEnds(s) == TurnCompletes(s) \/ TurnFails(s) \/ TurnDrops(s)
TurnBegins(s) == TurnStarts(s) \/ TurnRefused(s)
Answered(s) == Admitted(s) \/ Rejected(s) \/ RejectedForNow(s)

ToolStep ==
  \/ \E o \in running \cup {Chat}, j \in JobId, a \in Agent : OpenJob(o, j, a)
  \/ \E s \in running :
       \/ \E j \in JobId, a \in Agent, awaits \in BOOLEAN : Spawn(s, j, a, awaits)
       \/ \E to \in Agent : HandOver(s, to)
       \/ \E report \in BOOLEAN : CloseJob(s, report)

FlueStep ==
  \E s \in Session : TurnBegins(s) \/ TurnEnds(s) \/ Answered(s) \/ AbortLands(s)

ProcessStep == FirstSweep \/ \E j \in JobId : TimerFires(j) \/ StopEnds(j)

RouteStep ==
  \E j \in JobId :
    OpPause(j) \/ OpResume(j) \/ OpRestart(j) \/ OpSteer(j) \/ OpStop(j) \/ OpCancel(j)

DeathStep ==
  \/ Dies
  \/ \E s \in Session, j \in JobId, a \in Agent : DiesInSpawn(s, j, a)
  \/ \E s \in Session : DiesInClose(s) \/ DiesInFail(s)
  \/ \E j \in JobId : DiesInCancel(j)

RunsNext ==
  ToolStep \/ FlueStep \/ ProcessStep \/ RouteStep \/ DeathStep \/ ProviderGoesDown

RunsSpec == RunsInit /\ [][RunsNext]_runsVars

\* A dispatch is answered, an admitted message gets its turn, a turn settles (Flue
\* gives it an hour), timers fire, the sweep ticks and an abort resolves.  Nothing
\* is asked of agents, of the operator or of the provider.
RunsFairness ==
  /\ \A s \in Session : WF_runsVars(Answered(s)) /\ WF_runsVars(TurnBegins(s))
                        /\ WF_runsVars(TurnEnds(s))
  /\ \A j \in JobId : WF_runsVars(TimerFires(j)) /\ WF_runsVars(StopEnds(j))
  /\ WF_runsVars(FirstSweep)

FairRunsSpec == RunsSpec /\ RunsFairness

-----------------------------------------------------------------------------
(* Properties.                                                             *)

Kicked(j) == \E s \in posting \cup inbox : s = SessionOf(j)

\* A job still assigned has something that will start it: a message on its way to
\* the session of the agent that holds it now, a timer, the first sweep of this
\* process, or a stop under way that will cancel it (redispatchAssigned, jobs.ts).
AssignedHasKick ==
  \A j \in JobId : state[j] = "assigned" =>
    Kicked(j) \/ timers[j] > 0 \/ ~swept \/ j \in stopping

\* ... so it leaves assigned, through crashes, handoffs and refused dispatches.
AssignedIsDriven ==
  \A j \in JobId : state[j] = "assigned" ~> state[j] # "assigned"

\* A paused job is open for work again only when the operator resumes it, or when a turn of
\* the job that goes on hands it off or spawns a child to wait for: no message, retry, timer,
\* sweep, ending child or restart of the process takes it up (pause, jobs.ts).
PauseHolds ==
  [][\A j \in JobId :
       state[j] = "paused" /\ state'[j] \in Open \ {"paused"} =>
         \/ OpResume(j)
         \/ /\ state'[j] \in {"assigned", "waiting_children"}
            /\ \E a \in Agent : <<j, a>> \in running /\ <<j, a>> \in running']_runsVars

Quiet(j) == timers[j] = 0 /\ \A s \in posting \cup inbox \cup running : JobOf(s) # j

\* While the provider is out, a job is not driven again and again for ever: the
\* attempts run out (MAX_RECOVERY_ATTEMPTS, jobs.ts; handleEvent, recovery.ts).
RetriesRunOut == \A j \in JobId : down ~> Quiet(j)

\* A job being worked whose turn died of a transient failure is driven again or
\* failed ("This tap is the missing half", recovery.ts).
RetryIsKept ==
  \A j \in JobId :
    state[j] = "working" /\ timers[j] > 0 ~>
      state[j] # "working" \/ \E s \in posting \cup inbox \cup running : JobOf(s) = j
=============================================================================
