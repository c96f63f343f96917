--------------------------- MODULE JobRunsProofs ---------------------------
(***************************************************************************)
(* Proofs about jobs driven through sessions: every step is one of the     *)
(* coordinator's or leaves it alone, so that what is proved of Jobs holds  *)
(* here too, a paused job is taken up by nobody but the operator and its   *)
(* own turns, and a job still assigned has something that will start it.   *)
(***************************************************************************)
EXTENDS JobRuns, JobsProofs

USE AttemptsAssumption, UpsetsAssumption

-----------------------------------------------------------------------------
(* Sessions are of rows that exist, so their agents are known.             *)

\* A row has an assignee from its insert on.
HolderKnown == \A j \in JobId : Exists(j) => assignee[j] \in Agent

LEMMA HolderStep ==
  ASSUME TypeOK, StoppingExist, HolderKnown, [Next]_vars
  PROVE  HolderKnown'
  <1>1. ASSUME UNCHANGED assignee, \A i \in JobId : Exists(i)' => Exists(i)
        PROVE  HolderKnown'
    BY <1>1 DEF HolderKnown
  <1>2. ASSUME NEW j \in JobId, NEW a \in Agent, NEW p \in JobId \cup {NoParent},
               NEW awaits \in BOOLEAN, NEW policy, Create(j, a, p, awaits, policy)
        PROVE  HolderKnown'
    <2>1. assignee'[j] = a /\ \A i \in JobId \ {j} : assignee'[i] = assignee[i]
      BY <1>2 DEF Create, Insert, TypeOK
    <2>2. \A i \in JobId \ {j} : Exists(i)' => Exists(i)
      BY <1>2 DEF Create, CanCreate, Exists, TypeOK
    <2> QED
      BY <2>1, <2>2 DEF HolderKnown
  <1>3. ASSUME NEW j \in JobId, NEW a \in Agent, NEW p, NEW policy, CrashInCreate(j, a, p, policy)
        PROVE  HolderKnown'
    <2>1. assignee'[j] = a /\ \A i \in JobId \ {j} : assignee'[i] = assignee[i]
      BY <1>3 DEF CrashInCreate, Insert, TypeOK
    <2>2. \A i \in JobId \ {j} : Exists(i)' => Exists(i)
      BY <1>3 DEF CrashInCreate, Exists, TypeOK
    <2> QED
      BY <2>1, <2>2 DEF HolderKnown
  <1>4. ASSUME NEW j \in JobId, NEW to \in Agent, Handoff(j, to)
        PROVE  HolderKnown'
    BY <1>4 DEF Handoff, HolderKnown, Exists, TypeOK
  <1>5. ASSUME NEW j \in JobId, Restart(j) \/ MarkWorking(j) \/ Pause(j) \/ Resume(j)
        PROVE  HolderKnown'
    BY <1>5 DEF Restart, MarkWorking, Pause, Resume, IsOpen, Open, HolderKnown, Exists, TypeOK
  <1>6. ASSUME NEW j \in JobId, Close(j) \/ Fail(j) \/ StopFinish(j) \/ RecordStop(j) \/ Cancel(j)
        PROVE  HolderKnown'
    <2>1. PICK final \in Terminal : Settle(j, final)
      BY <1>6 DEF Close, Fail, StopFinish, RecordStop, Cancel, Terminal
    <2>2. Exists(j)
      BY <1>6 DEF Close, Fail, StopFinish, RecordStop, Cancel, IsOpen, Open, Exists, StoppingExist
    <2> QED
      BY <1>1, <2>1, <2>2, SettleRows DEF Settle
  <1>7. ASSUME UNCHANGED <<state, assignee>>
        PROVE  HolderKnown'
    BY <1>1, <1>7 DEF Exists
  <1>8. ASSUME NEW marked, NEW swept_ \in SUBSET Due, Escalate(marked, swept_)
        PROVE  HolderKnown'
    BY <1>1, <1>8 DEF Escalate, Due, Sweepable, Exists
  <1>9. ASSUME NEW j \in JobId, NEW final \in Terminal, CrashInSettle(j, final)
        PROVE  HolderKnown'
    <2>1. Exists(j)
      BY <1>9 DEF CrashInSettle, IsOpen, Open, Exists, StoppingExist
    <2> QED
      BY <1>1, <1>9, <2>1 DEF CrashInSettle, Exists, TypeOK
  <1>10. SweepDeadlines \/ (\E k \in JobId, s \in SUBSET JobId : CrashInSweep(k, s)) => HolderKnown'
    BY <1>8 DEF SweepDeadlines, CrashInSweep
  <1>11. ASSUME NEW j \in JobId, StopBegin(j) \/ DeadlinePasses(j)
         PROVE  HolderKnown'
    BY <1>7, <1>11 DEF StopBegin, DeadlinePasses
  <1>12. ASSUME NEW j \in JobId, NEW when, NEW policy, NewDeadline(j, when, policy)
         PROVE  HolderKnown'
    BY <1>7, <1>12 DEF NewDeadline
  <1>13. Crash \/ UNCHANGED vars => HolderKnown'
    BY <1>7 DEF Crash, vars
  <1> QED
    BY <1>2, <1>3, <1>4, <1>5, <1>6, <1>9, <1>10, <1>11, <1>12, <1>13
       DEF Next, AgentStep, OperatorStep, SystemStep, CrashStep, SetDeadline, ClearDeadline

-----------------------------------------------------------------------------
(* Refinement.                                                             *)

LEMMA JobOfSession == \A s \in Session : JobOf(s) \in JobId
  BY DEF Session, JobOf

\* What the runs do to the coordinator is a step of it, or nothing.
LEMMA RunsStep ==
  ASSUME RunsTypeOK, [RunsNext]_runsVars
  PROVE  [Next]_vars
  <1>1. \A s \in running : JobOf(s) \in JobId
    BY JobOfSession DEF RunsTypeOK
  <1>2. ASSUME NEW j \in JobId, IsOpen(j), Fail(j)
        PROVE  [Next]_vars
    BY <1>2 DEF Next, SystemStep
  <1>3. ASSUME NEW s \in Session, NEW answered, FailJob(JobOf(s), answered)
        PROVE  [Next]_vars
    BY <1>2, <1>3, JobOfSession DEF FailJob
  <1>4. ASSUME NEW s \in Session, NEW answered, RetryOrGiveUp(JobOf(s), answered)
        PROVE  [Next]_vars
    BY <1>3, <1>4 DEF RetryOrGiveUp
  <1>5. CASE ToolStep
    <2>1. /\ "none" \in Overrun \cup {"none"}
          /\ NoParent \in JobId \cup {NoParent} /\ FALSE \in BOOLEAN
      OBVIOUS
    <2>2. ASSUME NEW o, NEW j \in JobId, NEW a \in Agent, OpenJob(o, j, a)
          PROVE  AgentStep
      BY <2>1, <2>2 DEF OpenJob, AgentStep
    <2>3. ASSUME NEW s \in running, NEW j \in JobId, NEW a \in Agent, NEW awaits \in BOOLEAN,
                 Spawn(s, j, a, awaits)
          PROVE  AgentStep
      BY <1>1, <2>1, <2>3 DEF Spawn, AgentStep
    <2>4. ASSUME NEW s \in running, NEW to \in Agent, HandOver(s, to)
          PROVE  AgentStep
      BY <1>1, <2>4 DEF HandOver, AgentStep
    <2>5. ASSUME NEW s \in running, NEW report, CloseJob(s, report)
          PROVE  AgentStep
      BY <1>1, <2>5 DEF CloseJob, AgentStep
    <2> QED
      BY <1>5, <2>2, <2>3, <2>4, <2>5 DEF ToolStep, Next
  <1>6. CASE FlueStep
    <2>1. ASSUME NEW s \in Session, TurnStarts(s)
          PROVE  [Next]_vars
      BY <2>1, JobOfSession DEF TurnStarts, Next, AgentStep
    <2>2. ASSUME NEW s \in Session, TurnRefused(s) \/ TurnFails(s) \/ Rejected(s)
          PROVE  [Next]_vars
      BY <1>3, <2>2 DEF TurnRefused, TurnFails, Rejected
    <2>3. ASSUME NEW s \in Session, TurnDrops(s) \/ RejectedForNow(s)
          PROVE  [Next]_vars
      BY <1>4, <2>3 DEF TurnDrops, RejectedForNow
    <2>4. ASSUME NEW s \in Session, TurnCompletes(s) \/ Admitted(s) \/ AbortLands(s)
          PROVE  [Next]_vars
      BY <2>4 DEF TurnCompletes, Admitted, AbortLands
    <2> QED
      BY <1>6, <2>1, <2>2, <2>3, <2>4 DEF FlueStep, TurnBegins, TurnEnds, Answered
  <1>7. CASE ProcessStep
    BY <1>7 DEF ProcessStep, FirstSweep, TimerFires, StopEnds, Next, OperatorStep
  <1>8. CASE RouteStep
    BY <1>8 DEF RouteStep, OpPause, OpResume, OpRestart, OpSteer, OpStop, OpCancel, Next,
                OperatorStep
  <1>9. CASE DeathStep
    <2>1. {"done", "failed", "cancelled"} \subseteq Terminal /\ "none" \in Overrun \cup {"none"}
      BY DEF Terminal
    <2>2. ASSUME NEW j \in JobId, NEW final \in Terminal, CrashInSettle(j, final)
          PROVE  CrashStep
      BY <2>2 DEF CrashStep
    <2>3. Dies => [Next]_vars
      BY DEF Dies, Next, CrashStep
    <2>4. ASSUME NEW s \in Session, NEW j \in JobId, NEW a \in Agent, DiesInSpawn(s, j, a)
          PROVE  CrashStep
      BY <1>1, <2>1, <2>4 DEF DiesInSpawn, CrashStep
    <2>5. ASSUME NEW s \in Session, DiesInClose(s) \/ DiesInFail(s)
          PROVE  CrashStep
      BY <2>1, <2>2, <2>5, JobOfSession DEF DiesInClose, DiesInFail
    <2>6. ASSUME NEW j \in JobId, DiesInCancel(j)
          PROVE  CrashStep
      BY <2>1, <2>2, <2>6 DEF DiesInCancel
    <2> QED
      BY <1>9, <2>3, <2>4, <2>5, <2>6 DEF DeathStep, Next
  <1>10. CASE ProviderGoesDown \/ UNCHANGED runsVars
    BY <1>10 DEF ProviderGoesDown, runsVars
  <1> QED
    BY <1>5, <1>6, <1>7, <1>8, <1>9, <1>10 DEF RunsNext

-----------------------------------------------------------------------------
(* Types.                                                                  *)

RunsIInv == RunsTypeOK /\ StoppingExist /\ TreeInv /\ HolderKnown

LEMMA SessionsOfRows ==
  ASSUME HolderKnown
  PROVE  \A j \in JobId : Exists(j) => SessionOf(j) \in Session
  BY DEF HolderKnown, SessionOf, Session

LEMMA WokenSessions ==
  ASSUME HolderKnown
  PROVE  Woken \subseteq Session
  BY SessionsOfRows DEF Woken, Exists

LEMMA NoTimers == [j \in JobId |-> 0] \in [JobId -> 0 .. MaxTimers]
  <1>1. 0 \in 0 .. MaxTimers
    OBVIOUS
  <1> QED
    BY <1>1

\* What failing a job, or trying it again, does to the dispatches and the timers.
LEMMA FailTypes ==
  ASSUME RunsTypeOK, HolderKnown, NEW j \in JobId, NEW answered, FailJob(j, answered)
  PROVE  posting' \subseteq Session
  BY WokenSessions DEF FailJob, RunsTypeOK

LEMMA RetryTypes ==
  ASSUME RunsTypeOK, HolderKnown, NEW j \in JobId, NEW answered, RetryOrGiveUp(j, answered)
  PROVE  posting' \subseteq Session /\ timers' \in [JobId -> 0 .. MaxTimers]
  <1>1. CASE attempts[j] < MaxAttempts
    <2>1. timers[j] + 1 \in 0 .. MaxTimers
      BY <1>1 DEF RetryOrGiveUp, RunsTypeOK
    <2> QED
      BY <1>1, <2>1 DEF RetryOrGiveUp, RunsTypeOK
  <1>2. CASE ~ (attempts[j] < MaxAttempts)
    BY <1>2, FailTypes DEF RetryOrGiveUp, RunsTypeOK
  <1> QED
    BY <1>1, <1>2

LEMMA RunsTypeStep ==
  ASSUME RunsIInv, [RunsNext]_runsVars
  PROVE  RunsTypeOK'
  <1>1. TypeOK'
    BY RunsStep, TypeStep DEF RunsIInv, RunsTypeOK
  <1> USE DEF RunsIInv
  <1>2. \A s \in Session : JobOf(s) \in JobId
    BY JobOfSession
  <1>3. \A j \in JobId, a \in Agent : <<j, a>> \in Session
    BY DEF Session
  <1>4. CASE ToolStep
    <2>1. ASSUME NEW o \in running \cup {Chat}, NEW j \in JobId, NEW a \in Agent, OpenJob(o, j, a)
          PROVE  RunsTypeOK'
      BY <1>1, <1>3, <2>1 DEF OpenJob, process, RunsTypeOK
    <2>2. ASSUME NEW s \in running, NEW j \in JobId, NEW a \in Agent, NEW awaits,
                 Spawn(s, j, a, awaits)
          PROVE  RunsTypeOK'
      BY <1>1, <1>3, <2>2 DEF Spawn, process, RunsTypeOK
    <2>3. ASSUME NEW s \in running, NEW to \in Agent, HandOver(s, to)
          PROVE  RunsTypeOK'
      BY <1>1, <1>2, <1>3, <2>3 DEF HandOver, process, tables, RunsTypeOK
    <2>4. ASSUME NEW s \in running, NEW report, CloseJob(s, report)
          PROVE  RunsTypeOK'
      <3>1. origin[JobOf(s)] \in Session \cup {Chat}
        BY <1>2 DEF RunsTypeOK
      <3> QED
        BY <1>1, <2>4, <3>1, WokenSessions DEF CloseJob, process, tables, RunsTypeOK
    <2> QED
      BY <1>4, <2>1, <2>2, <2>3, <2>4 DEF ToolStep
  <1>5. ASSUME NEW s \in Session, TurnStarts(s) \/ Admitted(s) \/ AbortLands(s)
        PROVE  RunsTypeOK'
    BY <1>1, <1>5 DEF TurnStarts, Admitted, AbortLands, process, tables, RunsTypeOK
  <1>6. ASSUME NEW s \in Session, TurnCompletes(s)
        PROVE  RunsTypeOK'
    BY <1>1, <1>2, <1>6 DEF TurnCompletes, process, vars, RunsTypeOK
  <1>7. ASSUME NEW s \in Session, TurnRefused(s) \/ TurnFails(s) \/ Rejected(s)
        PROVE  RunsTypeOK'
    <2>1. posting' \subseteq Session
      BY <1>2, <1>7, FailTypes DEF TurnRefused, TurnFails, Rejected
    <2> QED
      BY <1>1, <1>7, <2>1 DEF TurnRefused, TurnFails, Rejected, process, tables, RunsTypeOK
  <1>8. ASSUME NEW s \in Session, TurnDrops(s) \/ RejectedForNow(s)
        PROVE  RunsTypeOK'
    <2>1. posting' \subseteq Session /\ timers' \in [JobId -> 0 .. MaxTimers]
      BY <1>2, <1>8, RetryTypes DEF TurnDrops, RejectedForNow
    <2> QED
      BY <1>1, <1>8, <2>1 DEF TurnDrops, RejectedForNow, tables, RunsTypeOK
  <1>9. FlueStep => RunsTypeOK'
    BY <1>5, <1>6, <1>7, <1>8 DEF FlueStep, TurnBegins, TurnEnds, Answered
  <1>10. CASE FirstSweep
    <2>1. {SessionOf(j) : j \in {i \in JobId : state[i] = "assigned"}} \subseteq Session
      BY SessionsOfRows DEF Exists
    <2> QED
      BY <1>1, <1>10, <2>1 DEF FirstSweep, tables, RunsTypeOK
  <1>11. ASSUME NEW j \in JobId, TimerFires(j)
         PROVE  RunsTypeOK'
    <2>1. timers[j] - 1 \in 0 .. MaxTimers
      BY <1>11 DEF TimerFires, RunsTypeOK
    <2>2. timers' \in [JobId -> 0 .. MaxTimers]
      BY <1>11, <2>1 DEF TimerFires, RunsTypeOK
    <2>3. posting' \subseteq Session
      BY <1>11, SessionsOfRows DEF TimerFires, IsOpen, Open, Exists, RunsTypeOK
    <2>4. attempts' \in [JobId -> Nat]
      BY <1>11 DEF TimerFires, RunsTypeOK
    <2> QED
      BY <1>1, <1>11, <2>2, <2>3, <2>4 DEF TimerFires, RunsTypeOK
  <1>12. ASSUME NEW j \in JobId, StopEnds(j) \/ OpCancel(j)
         PROVE  RunsTypeOK'
    BY <1>1, <1>12, WokenSessions DEF StopEnds, OpCancel, Upset, process, tables, RunsTypeOK
  <1>13. ASSUME NEW j \in JobId, OpPause(j)
         PROVE  RunsTypeOK'
    BY <1>1, <1>13 DEF OpPause, Upset, process, flue, tables, RunsTypeOK
  <1>14. ASSUME NEW j \in JobId, OpResume(j) \/ OpRestart(j) \/ OpSteer(j)
         PROVE  RunsTypeOK'
    <2>1. Exists(j)
      BY <1>14 DEF OpResume, OpRestart, OpSteer, Resume, Restart, IsOpen, Open, Exists
    <2>2. posting' \subseteq Session
      BY <1>14, <2>1, SessionsOfRows DEF OpResume, OpRestart, OpSteer, PostTo, RunsTypeOK
    <2>3. attempts' \in [JobId -> Nat]
      BY <1>14 DEF OpResume, OpRestart, OpSteer, tables, RunsTypeOK
    <2> QED
      BY <1>1, <1>14, <2>2, <2>3
         DEF OpResume, OpRestart, OpSteer, Upset, process, tables, RunsTypeOK
  <1>15. ASSUME NEW j \in JobId, OpStop(j)
         PROVE  RunsTypeOK'
    <2>1. SessionOf(j) \in Session
      BY <1>15, SessionsOfRows DEF OpStop, StopBegin, IsOpen, Open, Exists
    <2> QED
      BY <1>1, <1>15, <2>1 DEF OpStop, Upset, process, flue, tables, RunsTypeOK
  <1>16. CASE DeathStep
    <2>1. ASSUME Reboot, inbox' \subseteq Session, origin' \in [JobId -> Session \cup {Chat}]
          PROVE  RunsTypeOK'
      <3>1. timers' \in [JobId -> 0 .. MaxTimers]
        BY <2>1, NoTimers DEF Reboot
      <3>2. upsets' \in 0 .. MaxUpsets
        BY <2>1 DEF Reboot, Upset, RunsTypeOK
      <3> QED
        BY <1>1, <2>1, <3>1, <3>2 DEF Reboot, RunsTypeOK
    <2>2. Requeued \subseteq Session
      BY DEF Requeued, RunsTypeOK
    <2>3. ASSUME NEW s \in Session, NEW j \in JobId, NEW a \in Agent, DiesInSpawn(s, j, a)
          PROVE  RunsTypeOK'
      <3>1. origin' \in [JobId -> Session \cup {Chat}]
        BY <2>3 DEF DiesInSpawn, RunsTypeOK
      <3> QED
        BY <2>1, <2>2, <2>3, <3>1 DEF DiesInSpawn
    <2>4. ASSUME UNCHANGED origin, Reboot, inbox' \subseteq Requeued
          PROVE  RunsTypeOK'
      BY <2>1, <2>2, <2>4 DEF RunsTypeOK
    <2> QED
      BY <1>16, <2>3, <2>4 DEF DeathStep, Dies, DiesInClose, DiesInFail, DiesInCancel
  <1>17. CASE ProviderGoesDown \/ UNCHANGED runsVars
    BY <1>1, <1>17 DEF ProviderGoesDown, runsVars, process, flue, tables, RunsTypeOK
  <1> QED
    BY <1>4, <1>9, <1>10, <1>11, <1>12, <1>13, <1>14, <1>15, <1>16, <1>17
       DEF RunsNext, ProcessStep, RouteStep

LEMMA RunsInvInit == RunsInit => RunsIInv
  <1> SUFFICES ASSUME RunsInit PROVE RunsIInv
    OBVIOUS
  <1>1. TypeOK /\ StoppingExist /\ TreeInv
    BY InvInit DEF RunsInit, IInv
  <1>2. HolderKnown
    BY DEF RunsInit, Init, HolderKnown, Exists
  <1>3. RunsTypeOK
    <2>1. timers \in [JobId -> 0 .. MaxTimers] /\ upsets \in 0 .. MaxUpsets
      BY NoTimers DEF RunsInit
    <2> QED
      BY <1>1, <2>1 DEF RunsInit, RunsTypeOK
  <1> QED
    BY <1>1, <1>2, <1>3 DEF RunsIInv

LEMMA RunsInvStep == RunsIInv /\ [RunsNext]_runsVars => RunsIInv'
  BY RunsTypeStep, RunsStep, TreeStep, HolderStep DEF RunsIInv, RunsTypeOK

LEMMA RunsInvariance == RunsSpec => []RunsIInv
  BY RunsInvInit, RunsInvStep, PTL DEF RunsSpec

\* Dispatches, turns and aborts are of sessions that exist, and no timer is counted
\* below none (app.ts, recovery.ts).
THEOREM RunsTypeCorrect == RunsSpec => []RunsTypeOK
  BY RunsInvariance, PTL DEF RunsIInv

\* Every step of the runs is one of the coordinator or leaves it alone, so what is proved of
\* Spec holds of RunsSpec too (app.ts, recovery.ts, job-tools.ts).
LEMMA RunsImplementJobs == RunsSpec => Spec
  <1>1. RunsInit => Init
    BY DEF RunsInit
  <1>2. RunsIInv /\ [RunsNext]_runsVars => [Next]_vars
    BY RunsStep DEF RunsIInv
  <1> QED
    BY <1>1, <1>2, RunsInvariance, PTL DEF RunsSpec, Spec

-----------------------------------------------------------------------------
(* Paused jobs.                                                            *)

\* The step does not open job i for work again.
StaysPaused(i) == state[i] = "paused" => state'[i] \notin Open \ {"paused"}

\* Settling a job resumes no parent that is paused.
LEMMA SettlePaused ==
  ASSUME TypeOK, NEW j \in JobId, NEW final \in Terminal,
         \/ Settle(j, final)
         \/ state' = [state EXCEPT ![j] = final],
         NEW i \in JobId
  PROVE  StaysPaused(i)
  <1> DEFINE st == [state EXCEPT ![j] = final]
  <1>1. \A k \in JobId : st[k] = IF k = j THEN final ELSE state[k]
    BY DEF TypeOK
  <1>2. st \in [JobId -> Open \cup Terminal \cup {"none"}]
    BY DEF TypeOK
  <1>3. state' = ResumeParentIfReady(st, parent[j]) \/ state' = st
    BY DEF Settle
  <1> HIDE DEF st
  <1>4. state'[i] = st[i] \/ st[i] = "waiting_children"
    BY <1>2, <1>3 DEF ResumeParentIfReady
  <1> QED
    BY <1>1, <1>4 DEF StaysPaused, Terminal, Open

LEMMA FailPaused ==
  ASSUME TypeOK, NEW j \in JobId, NEW answered, FailJob(j, answered), NEW i \in JobId
  PROVE  StaysPaused(i)
  BY SettlePaused DEF FailJob, Fail, vars, StaysPaused, Terminal

\* What no tool and no operator does takes up no paused job.
LEMMA UntouchedPaused ==
  ASSUME RunsTypeOK, FlueStep \/ ProcessStep \/ DeathStep \/ ProviderGoesDown, NEW i \in JobId
  PROVE  StaysPaused(i)
  <1>t. TypeOK /\ \A s \in Session : JobOf(s) \in JobId
    BY JobOfSession DEF RunsTypeOK
  <1>1. ASSUME UNCHANGED state PROVE StaysPaused(i)
    BY <1>1 DEF StaysPaused
  <1>2. ASSUME NEW s \in Session, TurnStarts(s) PROVE StaysPaused(i)
    BY <1>t, <1>1, <1>2 DEF TurnStarts, MarkWorking, TypeOK, StaysPaused, vars
  <1>3. ASSUME NEW s \in Session, TurnRefused(s) \/ TurnFails(s) \/ Rejected(s) PROVE StaysPaused(i)
    BY <1>t, <1>3, FailPaused DEF TurnRefused, TurnFails, Rejected
  <1>4. ASSUME NEW s \in Session, TurnDrops(s) \/ RejectedForNow(s) PROVE StaysPaused(i)
    BY <1>t, <1>1, <1>4, FailPaused DEF TurnDrops, RejectedForNow, RetryOrGiveUp, vars
  <1>5. ASSUME NEW s \in Session, TurnCompletes(s) \/ Admitted(s) \/ AbortLands(s)
        PROVE  StaysPaused(i)
    BY <1>1, <1>5 DEF TurnCompletes, Admitted, AbortLands, vars
  <1>6. CASE FlueStep
    BY <1>6, <1>2, <1>3, <1>4, <1>5 DEF FlueStep, TurnBegins, TurnEnds, Answered
  <1>7. CASE ProcessStep
    BY <1>t, <1>1, <1>7, SettlePaused
       DEF ProcessStep, FirstSweep, TimerFires, StopEnds, StopFinish, Terminal, vars
  <1>8. CASE DeathStep
    <2>1. ASSUME NEW j \in JobId, NEW final \in Terminal, CrashInSettle(j, final)
          PROVE  StaysPaused(i)
      BY <1>t, <2>1, SettlePaused DEF CrashInSettle
    <2>2. ASSUME NEW s \in Session, NEW j \in JobId, NEW a \in Agent, DiesInSpawn(s, j, a)
          PROVE  StaysPaused(i)
      BY <1>t, <2>2 DEF DiesInSpawn, CrashInCreate, CanCreate, Fresh, Exists, TypeOK, StaysPaused
    <2> QED
      BY <1>t, <1>1, <1>8, <2>1, <2>2
         DEF DeathStep, Dies, DiesInClose, DiesInFail, DiesInCancel, Crash, Terminal, vars
  <1> QED
    BY <1>1, <1>6, <1>7, <1>8 DEF ProviderGoesDown, vars

\* What a turn takes up again, it takes up while it runs: by a handoff or a spawn.
LEMMA ToolPaused ==
  ASSUME RunsTypeOK, ToolStep, NEW i \in JobId,
         state[i] = "paused", state'[i] \in Open \ {"paused"}
  PROVE  /\ state'[i] \in {"assigned", "waiting_children"}
         /\ \E a \in Agent : <<i, a>> \in running /\ <<i, a>> \in running'
  <1>t. TypeOK /\ running \subseteq Session /\ \A s \in Session : JobOf(s) \in JobId
    BY JobOfSession DEF RunsTypeOK
  <1>1. ASSUME NEW s \in running, JobOf(s) = i, running' = running,
               state'[i] \in {"assigned", "waiting_children"}
        PROVE  /\ state'[i] \in {"assigned", "waiting_children"}
               /\ \E a \in Agent : <<i, a>> \in running /\ <<i, a>> \in running'
    <2>1. PICK a \in Agent : s = <<i, a>>
      BY <1>t, <1>1 DEF Session, JobOf
    <2> QED
      BY <1>1, <2>1
  <1>2. ASSUME NEW o, NEW j \in JobId, NEW a \in Agent, OpenJob(o, j, a) PROVE FALSE
    BY <1>t, <1>2 DEF OpenJob, Create, CanCreate, Fresh, Exists, TypeOK, Open
  <1>3. ASSUME NEW s \in running, NEW j \in JobId, NEW a \in Agent, NEW awaits \in BOOLEAN,
               Spawn(s, j, a, awaits)
        PROVE  JobOf(s) = i /\ running' = running /\ state'[i] = "waiting_children"
    <2>1. JobOf(s) \in JobId /\ running' = running /\ j # i
      BY <1>t, <1>3 DEF Spawn, Create, CanCreate, Fresh, Exists
    <2> QED
      BY <1>t, <1>3, <2>1 DEF Spawn, Create, TypeOK
  <1>4. ASSUME NEW s \in running, NEW to \in Agent, HandOver(s, to)
        PROVE  JobOf(s) = i /\ running' = running /\ state'[i] = "assigned"
    BY <1>t, <1>4 DEF HandOver, Handoff, TypeOK
  <1>5. ASSUME NEW s \in running, NEW report, CloseJob(s, report) PROVE FALSE
    BY <1>t, <1>5, SettlePaused DEF CloseJob, Close, StaysPaused, Terminal
  <1> QED
    BY <1>1, <1>2, <1>3, <1>4, <1>5 DEF ToolStep

\* A paused job is taken up again by the operator, or by a turn of its own that goes on and
\* hands it off or awaits a child, and by nothing else (pause, jobs.ts).
THEOREM PausesHold == RunsSpec => PauseHolds
  <1> DEFINE Holds ==
        \A j \in JobId :
          state[j] = "paused" /\ state'[j] \in Open \ {"paused"} =>
            \/ OpResume(j)
            \/ /\ state'[j] \in {"assigned", "waiting_children"}
               /\ \E a \in Agent : <<j, a>> \in running /\ <<j, a>> \in running'
  <1>1. RunsIInv /\ [RunsNext]_runsVars => [Holds]_runsVars
    <2> SUFFICES ASSUME RunsIInv, RunsNext, NEW i \in JobId,
                        state[i] = "paused", state'[i] \in Open \ {"paused"}, ~OpResume(i)
                 PROVE  /\ state'[i] \in {"assigned", "waiting_children"}
                        /\ \E a \in Agent : <<i, a>> \in running /\ <<i, a>> \in running'
      OBVIOUS
    <2>t. RunsTypeOK /\ TypeOK
      BY DEF RunsIInv, RunsTypeOK
    <2>1. CASE ToolStep
      BY <2>t, <2>1, ToolPaused
    <2>2. ~(FlueStep \/ ProcessStep \/ DeathStep \/ ProviderGoesDown)
      BY <2>t, UntouchedPaused DEF StaysPaused
    <2>3. ASSUME NEW j \in JobId, OpPause(j) \/ OpSteer(j) \/ OpStop(j) PROVE FALSE
      BY <2>t, <2>3 DEF OpPause, Pause, OpSteer, OpStop, StopBegin, vars, TypeOK, Open
    <2>4. ASSUME NEW j \in JobId, OpResume(j) PROVE FALSE
      BY <2>t, <2>4 DEF OpResume, Resume, TypeOK, Open
    <2>5. ASSUME NEW j \in JobId, OpRestart(j) PROVE FALSE
      BY <2>t, <2>5 DEF OpRestart, Restart, TypeOK, Open
    <2>6. ASSUME NEW j \in JobId, OpCancel(j) PROVE FALSE
      BY <2>t, <2>6, SettlePaused DEF OpCancel, Cancel, StaysPaused, Terminal
    <2> QED
      BY <2>1, <2>2, <2>3, <2>4, <2>5, <2>6 DEF RunsNext, RouteStep
  <1> QED
    BY <1>1, RunsInvariance, PTL DEF RunsSpec, PauseHolds

-----------------------------------------------------------------------------
(* Assigned jobs.                                                          *)

\* An abort is asked for by a stop that is still waiting for it: without it, an
\* abort could drop the message that would have started a job nobody stops.
AbortIsStop == \A s \in aborting : JobOf(s) \in stopping

\* What will start job j, or take it out of assigned.
Driven(j) == Kicked(j) \/ timers[j] > 0 \/ ~swept \/ j \in stopping

\* A step that leaves an assigned job with its agent, and takes none of its
\* drives away, leaves it driven.
LEMMA DriveKept ==
  ASSUME NEW j \in JobId, Driven(j), assignee'[j] = assignee[j],
         posting \cup inbox \subseteq posting' \cup inbox',
         timers'[j] = timers[j], swept' = swept, j \in stopping => j \in stopping'
  PROVE  Driven(j)'
  BY DEF Driven, Kicked, SessionOf

\* Settling a job leaves the others assigned that were, and it is not assigned.
LEMMA SettleAssigned ==
  ASSUME TypeOK, NEW j \in JobId, NEW final \in Terminal, Settle(j, final),
         NEW i \in JobId, state'[i] = "assigned"
  PROVE  i # j /\ state[i] = "assigned" /\ assignee'[i] = assignee[i]
  <1> DEFINE st == [state EXCEPT ![j] = final]
  <1>1. \A k \in JobId : st[k] = IF k = j THEN final ELSE state[k]
    BY DEF TypeOK
  <1>2. st \in [JobId -> Open \cup Terminal \cup {"none"}]
    BY DEF TypeOK
  <1>3. state' = ResumeParentIfReady(st, parent[j]) /\ assignee' = assignee
    BY DEF Settle
  <1> HIDE DEF st
  <1>4. state'[i] = st[i]
    BY <1>2, <1>3 DEF ResumeParentIfReady
  <1> QED
    BY <1>1, <1>3, <1>4 DEF Terminal

LEMMA FailDrive ==
  ASSUME TypeOK, AssignedHasKick, NEW j \in JobId, NEW answered,
         answered \in SUBSET {s \in Session : JobOf(s) = j}, FailJob(j, answered),
         inbox \ {s \in Session : JobOf(s) = j} \subseteq inbox',
         UNCHANGED <<timers, swept>>,
         NEW i \in JobId, state'[i] = "assigned"
  PROVE  Driven(i)'
  <1>1. i # j /\ state[i] = "assigned" /\ assignee'[i] = assignee[i] /\ stopping' = stopping
    <2>1. CASE IsOpen(j)
      BY <2>1, SettleAssigned DEF FailJob, Fail, Terminal
    <2>2. CASE ~IsOpen(j)
      BY <2>2 DEF FailJob, vars, IsOpen, Open
    <2> QED
      BY <2>1, <2>2
  <1>2. Driven(i)
    BY <1>1 DEF AssignedHasKick, Driven
  <1>3. \A s \in posting \cup inbox : s = SessionOf(i) => s \in posting' \cup inbox'
    BY <1>1 DEF FailJob, SessionOf, JobOf
  <1> QED
    BY <1>1, <1>2, <1>3 DEF Driven, Kicked, SessionOf

LEMMA RetryDrive ==
  ASSUME RunsTypeOK, AssignedHasKick, NEW j \in JobId, NEW answered,
         answered \in SUBSET {s \in Session : JobOf(s) = j}, RetryOrGiveUp(j, answered),
         UNCHANGED <<inbox, swept>>,
         NEW i \in JobId, state'[i] = "assigned"
  PROVE  Driven(i)'
  <1>1. CASE attempts[j] < MaxAttempts
    <2>1. timers'[i] = IF i = j THEN timers[i] + 1 ELSE timers[i]
      BY <1>1 DEF RetryOrGiveUp, RunsTypeOK
    <2>2. UNCHANGED <<state, assignee, stopping>> /\ posting' = posting \ answered
      BY <1>1 DEF RetryOrGiveUp, vars
    <2>3. CASE i = j
      BY <2>1, <2>3 DEF Driven, RunsTypeOK
    <2>4. CASE i # j
      <3>1. Driven(i)
        BY <2>2 DEF AssignedHasKick, Driven
      <3>2. SessionOf(i) \notin answered
        BY <2>4 DEF SessionOf, JobOf
      <3> QED
        BY <2>1, <2>2, <2>4, <3>1, <3>2 DEF Driven, Kicked, SessionOf
    <2> QED
      BY <2>3, <2>4
  <1>2. CASE ~ (attempts[j] < MaxAttempts)
    BY <1>2, FailDrive DEF RetryOrGiveUp, RunsTypeOK
  <1> QED
    BY <1>1, <1>2

LEMMA KickStep ==
  ASSUME RunsTypeOK, HolderKnown, AbortIsStop, AssignedHasKick, [RunsNext]_runsVars,
         NEW i \in JobId, state'[i] = "assigned"
  PROVE  Driven(i)'
  <1>0. state[i] = "assigned" => Driven(i)
    BY DEF AssignedHasKick, Driven
  <1> USE DEF RunsTypeOK
  \* The job was assigned and still is, and nothing of what drives it went away.
  <1>1. ASSUME state[i] = "assigned", assignee'[i] = assignee[i],
               posting \cup inbox \subseteq posting' \cup inbox',
               UNCHANGED <<timers, swept>>, i \in stopping => i \in stopping'
        PROVE  Driven(i)'
    BY <1>0, <1>1, DriveKept
  <1>2. \A s \in Session : JobOf(s) \in JobId /\ (s = SessionOf(i) => JobOf(s) = i)
    BY JobOfSession DEF SessionOf, JobOf
  <1>3. ASSUME NEW j \in JobId, NEW a \in Agent, NEW p, NEW awaits, Create(j, a, p, awaits, "none"),
               posting' = posting \cup {<<j, a>>}, UNCHANGED <<inbox, timers, swept>>
        PROVE  Driven(i)'
    <2>1. assignee' = [assignee EXCEPT ![j] = a] /\ stopping' = stopping
      BY <1>3 DEF Create, Insert
    <2>2. CASE i = j
      BY <1>3, <2>1, <2>2 DEF Driven, Kicked, SessionOf, TypeOK
    <2>3. CASE i # j
      <3>1. state[i] = "assigned" /\ assignee'[i] = assignee[i]
        BY <1>3, <2>1, <2>3 DEF Create, TypeOK
      <3> QED
        BY <1>1, <1>3, <2>1, <3>1
    <2> QED
      BY <2>2, <2>3
  <1>4. ASSUME NEW s, NEW j \in JobId, NEW a \in Agent, NEW awaits,
               OpenJob(s, j, a) \/ Spawn(s, j, a, awaits)
        PROVE  Driven(i)'
    BY <1>3, <1>4 DEF OpenJob, Spawn, process
  <1>5. ASSUME NEW s \in running, NEW to \in Agent, HandOver(s, to)
        PROVE  Driven(i)'
    <2>1. JobOf(s) \in JobId
      BY <1>2
    <2>2. CASE i = JobOf(s)
      BY <1>5, <2>1, <2>2 DEF HandOver, Handoff, Driven, Kicked, SessionOf, TypeOK
    <2>3. CASE i # JobOf(s)
      <3>1. state[i] = "assigned" /\ assignee'[i] = assignee[i] /\ stopping' = stopping
        BY <1>5, <2>1, <2>3 DEF HandOver, Handoff, TypeOK
      <3> QED
        BY <1>1, <1>5, <3>1 DEF HandOver, process
    <2> QED
      BY <2>2, <2>3
  <1>6. ASSUME NEW s \in running, NEW report, CloseJob(s, report)
        PROVE  Driven(i)'
    <2>1. state[i] = "assigned" /\ assignee'[i] = assignee[i] /\ stopping' = stopping
      BY <1>2, <1>6, SettleAssigned DEF CloseJob, Close, Terminal
    <2> QED
      BY <1>1, <1>6, <2>1 DEF CloseJob, process
  <1>7. ASSUME NEW s \in Session, TurnStarts(s)
        PROVE  Driven(i)'
    <2>1. i # JobOf(s) /\ state[i] = "assigned" /\ UNCHANGED <<assignee, stopping>>
      BY <1>2, <1>7 DEF TurnStarts, MarkWorking, vars, TypeOK
    <2>2. s # SessionOf(i)
      BY <1>2, <2>1
    <2> QED
      BY <1>0, <1>7, <2>1, <2>2 DEF TurnStarts, process, Driven, Kicked, SessionOf
  <1>8. ASSUME NEW s \in Session, TurnRefused(s) \/ TurnFails(s) \/ Rejected(s)
        PROVE  Driven(i)'
    <2>1. PICK answered \in {{}, {s}} : FailJob(JobOf(s), answered)
      BY <1>8 DEF TurnRefused, TurnFails, Rejected
    <2>2. inbox \ {t \in Session : JobOf(t) = JobOf(s)} \subseteq inbox'
      BY <1>8 DEF TurnRefused, TurnFails, Rejected
    <2>3. answered \in SUBSET {t \in Session : JobOf(t) = JobOf(s)}
      OBVIOUS
    <2>4. UNCHANGED <<timers, swept>>
      BY <1>8 DEF TurnRefused, TurnFails, Rejected, process
    <2> QED
      BY <1>2, <2>1, <2>2, <2>3, <2>4, FailDrive
  <1>9. ASSUME NEW s \in Session, TurnDrops(s) \/ RejectedForNow(s)
        PROVE  Driven(i)'
    <2>1. PICK answered \in {{}, {s}} : RetryOrGiveUp(JobOf(s), answered)
      BY <1>9 DEF TurnDrops, RejectedForNow
    <2>2. answered \in SUBSET {t \in Session : JobOf(t) = JobOf(s)}
      OBVIOUS
    <2>3. UNCHANGED <<inbox, swept>>
      BY <1>9 DEF TurnDrops, RejectedForNow
    <2> QED
      BY <1>2, <2>1, <2>2, <2>3, RetryDrive
  <1>10. ASSUME NEW s \in Session, TurnCompletes(s) \/ Admitted(s)
         PROVE  Driven(i)'
    BY <1>1, <1>10 DEF TurnCompletes, Admitted, process, vars
  <1>11. ASSUME NEW s \in Session, AbortLands(s)
         PROVE  Driven(i)'
    <2>1. state[i] = "assigned" /\ UNCHANGED <<assignee, stopping, timers, swept, posting>>
      BY <1>11 DEF AbortLands, vars, process
    <2>2. CASE s = SessionOf(i)
      BY <1>2, <1>11, <2>1, <2>2 DEF AbortLands, AbortIsStop, Driven
    <2>3. CASE s # SessionOf(i)
      BY <1>0, <1>11, <2>1, <2>3 DEF AbortLands, Driven, Kicked, SessionOf
    <2> QED
      BY <2>2, <2>3
  <1>12. CASE FirstSweep
    <2>1. state[i] = "assigned" /\ SessionOf(i) \in posting' /\ UNCHANGED assignee
      BY <1>12 DEF FirstSweep, vars
    <2> QED
      BY <2>1 DEF Driven, Kicked, SessionOf
  <1>13. ASSUME NEW j \in JobId, TimerFires(j)
         PROVE  Driven(i)'
    <2>1. state[i] = "assigned" /\ UNCHANGED <<assignee, stopping, swept, inbox>>
      BY <1>13 DEF TimerFires, vars
    <2>2. CASE i = j
      <3>1. SessionOf(i) \in posting'
        BY <1>13, <2>1, <2>2 DEF TimerFires, IsOpen, Open
      <3> QED
        BY <2>1, <3>1 DEF Driven, Kicked, SessionOf
    <2>3. CASE i # j
      <3>1. timers'[i] = timers[i] /\ posting \subseteq posting'
        BY <1>13, <2>3 DEF TimerFires
      <3> QED
        BY <1>0, <2>1, <3>1, DriveKept
    <2> QED
      BY <2>2, <2>3
  <1>14. ASSUME NEW j \in JobId, StopEnds(j) \/ OpCancel(j)
         PROVE  Driven(i)'
    <2>1. Settle(j, "cancelled") /\ "cancelled" \in Terminal
      BY <1>14 DEF StopEnds, OpCancel, StopFinish, Cancel, Terminal
    <2>2. i # j /\ state[i] = "assigned" /\ assignee'[i] = assignee[i]
      BY <2>1, SettleAssigned
    <2>3. i \in stopping => i \in stopping'
      BY <1>14, <2>2 DEF StopEnds, OpCancel, StopFinish, Cancel
    <2> QED
      BY <1>1, <1>14, <2>2, <2>3 DEF StopEnds, OpCancel, process
  <1>15. ASSUME NEW j \in JobId, OpPause(j) \/ OpResume(j) \/ OpSteer(j) \/ OpStop(j)
         PROVE  Driven(i)'
    <2>1. state[i] = "assigned" /\ assignee' = assignee /\ stopping \subseteq stopping'
      BY <1>15 DEF OpPause, OpResume, OpSteer, OpStop, Pause, Resume, StopBegin, vars, TypeOK
    <2>2. posting \subseteq posting' /\ UNCHANGED <<inbox, timers, swept>>
      BY <1>15 DEF OpPause, OpResume, OpSteer, OpStop, PostTo, process, flue
    <2> QED
      BY <1>1, <2>1, <2>2
  <1>16. ASSUME NEW j \in JobId, OpRestart(j)
         PROVE  Driven(i)'
    <2>1. UNCHANGED <<assignee, stopping, inbox, timers, swept>>
      BY <1>16 DEF OpRestart, Restart, process
    <2>2. posting' = posting \cup {SessionOf(j)}
      BY <1>16 DEF OpRestart, PostTo
    <2>3. CASE i = j
      BY <2>1, <2>2, <2>3 DEF Driven, Kicked, SessionOf
    <2>4. CASE i # j
      <3>1. state[i] = "assigned"
        BY <1>16, <2>4 DEF OpRestart, Restart, TypeOK
      <3> QED
        BY <1>1, <2>1, <2>2, <3>1
    <2> QED
      BY <2>3, <2>4
  <1>17. CASE DeathStep
    BY <1>17 DEF DeathStep, Dies, DiesInSpawn, DiesInClose, DiesInFail, DiesInCancel, Reboot, Driven
  <1>18. CASE ProviderGoesDown \/ UNCHANGED runsVars
    BY <1>1, <1>18 DEF ProviderGoesDown, runsVars, vars, process, flue
  <1> QED
    BY <1>4, <1>5, <1>6, <1>7, <1>8, <1>9, <1>10, <1>11, <1>12, <1>13, <1>14, <1>15, <1>16,
       <1>17, <1>18
       DEF RunsNext, ToolStep, FlueStep, TurnBegins, TurnEnds, Answered, ProcessStep, RouteStep

LEMMA AbortStep ==
  ASSUME RunsTypeOK, AbortIsStop, [RunsNext]_runsVars
  PROVE  AbortIsStop'
  <1>1. ASSUME UNCHANGED <<aborting, stopping>>
        PROVE  AbortIsStop'
    BY <1>1 DEF AbortIsStop
  <1>2. ASSUME NEW j \in JobId, NEW answered, FailJob(j, answered) \/ RetryOrGiveUp(j, answered)
        PROVE  stopping' = stopping
    BY <1>2 DEF FailJob, RetryOrGiveUp, Fail, vars
  <1>3. \A s \in running : JobOf(s) \in JobId
    BY JobOfSession DEF RunsTypeOK
  <1>4. ToolStep => UNCHANGED <<aborting, stopping>>
    BY DEF ToolStep, OpenJob, Spawn, HandOver, CloseJob, Create, Handoff, Close
  <1>5. ASSUME NEW s \in Session, TurnBegins(s) \/ TurnEnds(s) \/ Answered(s)
        PROVE  UNCHANGED <<aborting, stopping>>
    BY <1>2, <1>5, JobOfSession
       DEF TurnBegins, TurnEnds, Answered, TurnStarts, TurnRefused, TurnCompletes, TurnFails,
           TurnDrops, Admitted, Rejected, RejectedForNow, MarkWorking, vars
  <1>6. ASSUME NEW s \in Session, AbortLands(s)
        PROVE  AbortIsStop'
    BY <1>6 DEF AbortLands, AbortIsStop, vars
  <1>7. ASSUME NEW j \in JobId, StopEnds(j)
        PROVE  AbortIsStop'
    BY <1>7 DEF StopEnds, StopFinish, AbortIsStop
  <1>8. ASSUME NEW j \in JobId, OpStop(j)
        PROVE  AbortIsStop'
    <2>1. JobOf(SessionOf(j)) = j
      BY DEF JobOf, SessionOf
    <2> QED
      BY <1>8, <2>1 DEF OpStop, StopBegin, AbortIsStop
  <1>9. ASSUME NEW j \in JobId,
               OpPause(j) \/ OpResume(j) \/ OpRestart(j) \/ OpSteer(j) \/ OpCancel(j)
                 \/ TimerFires(j)
        PROVE  UNCHANGED <<aborting, stopping>>
    BY <1>9 DEF OpPause, OpResume, OpRestart, OpSteer, OpCancel, TimerFires, Pause, Resume,
                Restart, Cancel, vars
  <1>10. DeathStep => AbortIsStop'
    BY DEF DeathStep, Dies, DiesInSpawn, DiesInClose, DiesInFail, DiesInCancel, Reboot, AbortIsStop
  <1>11. FirstSweep \/ ProviderGoesDown \/ UNCHANGED runsVars => UNCHANGED <<aborting, stopping>>
    BY DEF FirstSweep, ProviderGoesDown, runsVars, vars
  <1> QED
    BY <1>1, <1>4, <1>5, <1>6, <1>7, <1>8, <1>9, <1>10, <1>11
       DEF RunsNext, FlueStep, ProcessStep, RouteStep

\* A job is never left assigned with nothing to start it: no dispatch, no timer, no
\* sweep to come and no stop under way (redispatchAssigned, jobs.ts; app.ts).
THEOREM AssignedAlwaysHasKick == RunsSpec => []AssignedHasKick
  <1>1. RunsInit => AbortIsStop /\ AssignedHasKick
    BY DEF RunsInit, AbortIsStop, AssignedHasKick
  <1>2. RunsIInv /\ AbortIsStop /\ AssignedHasKick /\ [RunsNext]_runsVars
          => AbortIsStop' /\ AssignedHasKick'
    <2> SUFFICES ASSUME RunsIInv, AbortIsStop, AssignedHasKick, [RunsNext]_runsVars
                 PROVE  AbortIsStop' /\ AssignedHasKick'
      OBVIOUS
    <2>1. AbortIsStop'
      BY AbortStep DEF RunsIInv
    <2>2. \A i \in JobId : state'[i] = "assigned" => Driven(i)'
      BY KickStep DEF RunsIInv
    <2> QED
      BY <2>1, <2>2 DEF AssignedHasKick, Driven
  <1> QED
    BY <1>1, <1>2, RunsInvariance, PTL DEF RunsSpec

-----------------------------------------------------------------------------
(* Retries.  Several backoff timers of a job can run at once, each started *)
(* before the attempts ran out.                                            *)

\* Every timer that runs was started while an attempt was left.
RetriesInv ==
  \A j \in JobId :
    \/ attempts[j] = 0 /\ timers[j] = 0
    \/ attempts[j] + timers[j] <= MaxAttempts + MaxTimers - 1

\* The attempts of a job pass MAX_RECOVERY_ATTEMPTS by less than the timers it has at
\* once; one at a time, they never pass it (jobs.ts; handleEvent, recovery.ts).
AttemptsAreBounded ==
  \A j \in JobId : attempts[j] > 0 => attempts[j] <= MaxAttempts + MaxTimers - 1

\* What a step does to the attempts and timers of one job.
PaidStep(j) ==
  /\ attempts'[j] >= attempts[j]
  /\ timers'[j] < timers[j] /\ IsOpen(j) => attempts'[j] + timers'[j] = attempts[j] + timers[j]

\* While the provider is out nothing but an operator's step or a death gives a job its
\* attempts back, and a timer that is used up costs an open job one (recover, recovery.ts).
\* With AttemptsAreBounded, so many timers fire between two such steps and no more.
OutageIsPaid == [][down /\ upsets' = upsets => \A j \in JobId : PaidStep(j)]_runsVars

\* A step that neither starts a timer nor counts an attempt keeps the bound.
LEMMA RetriesFall ==
  ASSUME RunsTypeOK, RunsTypeOK', RetriesInv,
         \A j \in JobId : timers'[j] <= timers[j]
                          /\ (attempts'[j] = attempts[j] \/ attempts'[j] = 0)
  PROVE  RetriesInv'
  <1> SUFFICES ASSUME NEW j \in JobId
               PROVE  \/ attempts'[j] = 0 /\ timers'[j] = 0
                      \/ attempts'[j] + timers'[j] <= MaxAttempts + MaxTimers - 1
    BY DEF RetriesInv
  <1>1. /\ attempts[j] \in Nat /\ attempts'[j] \in Nat
        /\ timers[j] \in 0 .. MaxTimers /\ timers'[j] \in 0 .. MaxTimers
    BY DEF RunsTypeOK
  <1>2. attempts'[j] <= attempts[j] /\ timers'[j] <= timers[j]
    BY <1>1
  <1>3. \/ attempts[j] = 0 /\ timers[j] = 0
        \/ attempts[j] + timers[j] <= MaxAttempts + MaxTimers - 1
    BY DEF RetriesInv
  <1> QED
    BY <1>1, <1>2, <1>3

\* Starting a timer.
LEMMA RetryCounts ==
  ASSUME RunsTypeOK, NEW j \in JobId, NEW answered, RetryOrGiveUp(j, answered)
  PROVE  /\ \A i \in JobId \ {j} : timers'[i] = timers[i]
         /\ \/ timers' = timers
            \/ attempts[j] + timers'[j] <= MaxAttempts + MaxTimers - 1 /\ timers'[j] >= timers[j]
  <1>1. CASE attempts[j] < MaxAttempts
    <2>1. timers[j] < MaxTimers /\ timers' = [timers EXCEPT ![j] = @ + 1]
      BY <1>1 DEF RetryOrGiveUp
    <2>2. attempts[j] \in Nat /\ timers[j] \in Nat
      BY DEF RunsTypeOK
    <2>3. timers'[j] = timers[j] + 1
      BY <2>1 DEF RunsTypeOK
    <2>4. attempts[j] + timers'[j] <= MaxAttempts + MaxTimers - 1 /\ timers'[j] >= timers[j]
      BY <1>1, <2>1, <2>2, <2>3
    <2> QED
      BY <2>1, <2>4 DEF RunsTypeOK
  <1>2. CASE ~ (attempts[j] < MaxAttempts)
    BY <1>2 DEF RetryOrGiveUp
  <1> QED
    BY <1>1, <1>2

\* A timer that fires turns into an attempt, or is dropped with the job it was of.
LEMMA FireCounts ==
  ASSUME RunsTypeOK, NEW j \in JobId, TimerFires(j)
  PROVE  /\ \A i \in JobId \ {j} : timers'[i] = timers[i] /\ attempts'[i] = attempts[i]
         /\ timers'[j] = timers[j] - 1
         /\ attempts'[j] = IF IsOpen(j) THEN attempts[j] + 1 ELSE attempts[j]
  BY DEF TimerFires, RunsTypeOK

\* Every other step, by what it does to attempts and timers.
Recounts ==
  \/ UNCHANGED <<attempts, timers>>
  \/ /\ UNCHANGED timers
     /\ down => upsets' # upsets
     /\ \E j \in JobId : attempts' = [attempts EXCEPT ![j] = 0]
  \/ UNCHANGED attempts /\ upsets' # upsets /\ timers' = [j \in JobId |-> 0]

LEMMA CountsStep ==
  ASSUME RunsTypeOK, [RunsNext]_runsVars
  PROVE  \/ Recounts
         \/ \E j \in JobId : TimerFires(j)
         \/ UNCHANGED attempts /\ \E j \in JobId : \E answered : RetryOrGiveUp(j, answered)
  <1>1. upsets \in Nat
    BY DEF RunsTypeOK
  <1>2. ToolStep => UNCHANGED <<attempts, timers>>
    BY DEF ToolStep, OpenJob, Spawn, HandOver, CloseJob, tables, process
  <1>3. ASSUME NEW s \in Session, TurnBegins(s) \/ TurnFails(s) \/ Admitted(s) \/ Rejected(s)
                                  \/ AbortLands(s)
        PROVE  UNCHANGED <<attempts, timers>>
    BY <1>3 DEF TurnBegins, TurnStarts, TurnRefused, TurnFails, Admitted, Rejected, AbortLands,
                tables, process
  <1>4. ASSUME NEW s \in Session, TurnCompletes(s)
        PROVE  Recounts
    <2>1. JobOf(s) \in JobId
      BY JobOfSession
    <2>2. attempts' = [attempts EXCEPT ![JobOf(s)] = 0] /\ ~down /\ UNCHANGED timers
      BY <1>4 DEF TurnCompletes, process
    <2> QED
      BY <2>1, <2>2, Zenon DEF Recounts
  <1>5. ASSUME NEW s \in Session, TurnDrops(s) \/ RejectedForNow(s)
        PROVE  UNCHANGED attempts /\ \E j \in JobId : \E answered : RetryOrGiveUp(j, answered)
    BY <1>5, JobOfSession DEF TurnDrops, RejectedForNow, tables
  <1>6. ASSUME NEW j \in JobId, OpRestart(j)
        PROVE  Recounts
    <2>1. attempts' = [attempts EXCEPT ![j] = 0] /\ UNCHANGED timers
      BY <1>6 DEF OpRestart, process
    <2>2. upsets' # upsets
      BY <1>1, <1>6 DEF OpRestart, Upset
    <2> QED
      BY <2>1, <2>2, Zenon DEF Recounts
  <1>7. ASSUME NEW j \in JobId,
               OpPause(j) \/ OpResume(j) \/ OpSteer(j) \/ OpStop(j) \/ OpCancel(j) \/ StopEnds(j)
        PROVE  UNCHANGED <<attempts, timers>>
    BY <1>7 DEF OpPause, OpResume, OpSteer, OpStop, OpCancel, StopEnds, tables, process
  <1>8. DeathStep => Recounts
    BY <1>1 DEF DeathStep, Dies, DiesInSpawn, DiesInClose, DiesInFail, DiesInCancel, Reboot,
                Upset, Recounts
  <1>9. FirstSweep \/ ProviderGoesDown \/ UNCHANGED runsVars => UNCHANGED <<attempts, timers>>
    BY DEF FirstSweep, ProviderGoesDown, runsVars, tables, process
  <1>10. UNCHANGED <<attempts, timers>> => Recounts
    BY DEF Recounts
  <1> QED
    BY <1>2, <1>3, <1>4, <1>5, <1>6, <1>7, <1>8, <1>9, <1>10
       DEF RunsNext, FlueStep, TurnEnds, Answered, ProcessStep, RouteStep

LEMMA RetriesStep ==
  ASSUME RunsTypeOK, RunsTypeOK', RetriesInv, [RunsNext]_runsVars
  PROVE  RetriesInv'
  <1>1. CASE Recounts
    <2>1. \A j \in JobId : timers'[j] <= timers[j]
                           /\ (attempts'[j] = attempts[j] \/ attempts'[j] = 0)
      BY <1>1 DEF Recounts, RunsTypeOK
    <2> QED
      BY <2>1, RetriesFall
  <1>2. ASSUME NEW j \in JobId, TimerFires(j)
        PROVE  RetriesInv'
    <2> SUFFICES ASSUME NEW i \in JobId
                 PROVE  \/ attempts'[i] = 0 /\ timers'[i] = 0
                        \/ attempts'[i] + timers'[i] <= MaxAttempts + MaxTimers - 1
      BY DEF RetriesInv
    <2>1. /\ attempts[i] \in Nat /\ timers[i] \in 0 .. MaxTimers
          /\ timers[j] > 0
      BY <1>2 DEF TimerFires, RunsTypeOK
    <2>2. \/ attempts[i] = 0 /\ timers[i] = 0
          \/ attempts[i] + timers[i] <= MaxAttempts + MaxTimers - 1
      BY DEF RetriesInv
    <2>3. CASE i = j
      BY <1>2, <2>1, <2>2, <2>3, FireCounts
    <2>4. CASE i # j
      BY <1>2, <2>2, <2>4, FireCounts
    <2> QED
      BY <2>3, <2>4
  <1>3. ASSUME NEW j \in JobId, NEW answered, RetryOrGiveUp(j, answered), UNCHANGED attempts
        PROVE  RetriesInv'
    BY <1>3, RetryCounts DEF RetriesInv
  <1> QED
    BY <1>1, <1>2, <1>3, CountsStep

LEMMA RetriesInvariance == RunsSpec => []RetriesInv
  <1>1. RunsInit => RetriesInv
    BY DEF RunsInit, RetriesInv
  <1>2. RunsIInv /\ RunsIInv' /\ RetriesInv /\ [RunsNext]_runsVars => RetriesInv'
    BY RetriesStep DEF RunsIInv
  <1> QED
    BY <1>1, <1>2, RunsInvariance, PTL DEF RunsSpec

\* The attempts of a job pass their maximum by less than the timers it has at once.
THEOREM RetriesAreBounded == RunsSpec => []AttemptsAreBounded
  <1>1. RunsIInv /\ RetriesInv => AttemptsAreBounded
    <2> SUFFICES ASSUME RunsIInv, RetriesInv, NEW j \in JobId, attempts[j] > 0
                 PROVE  attempts[j] <= MaxAttempts + MaxTimers - 1
      BY DEF AttemptsAreBounded
    <2>1. attempts[j] \in Nat /\ timers[j] \in 0 .. MaxTimers
      BY DEF RunsIInv, RunsTypeOK
    <2>2. \/ attempts[j] = 0 /\ timers[j] = 0
          \/ attempts[j] + timers[j] <= MaxAttempts + MaxTimers - 1
      BY DEF RetriesInv
    <2> QED
      BY <2>1, <2>2
  <1> QED
    BY <1>1, RunsInvariance, RetriesInvariance, PTL

\* In an outage every retry of an open job is paid for with an attempt that only an
\* operator or a death gives back: what keeps RetriesRunOut from failing by a long
\* sequence of retries.
THEOREM OutageUsesUp == RunsSpec => OutageIsPaid
  <1>1. RunsIInv /\ [RunsNext]_runsVars
          => (down /\ upsets' = upsets => \A j \in JobId : PaidStep(j))
    <2> SUFFICES ASSUME RunsIInv, [RunsNext]_runsVars, down, upsets' = upsets, NEW j \in JobId
                 PROVE  PaidStep(j)
      OBVIOUS
    <2>1. RunsTypeOK /\ attempts[j] \in Nat /\ timers[j] \in 0 .. MaxTimers
      BY DEF RunsIInv, RunsTypeOK
    <2>2. CASE Recounts
      BY <2>1, <2>2 DEF Recounts, PaidStep
    <2>3. ASSUME NEW i \in JobId, TimerFires(i)
          PROVE  PaidStep(j)
      <3>1. CASE i = j
        BY <2>1, <2>3, <3>1, FireCounts DEF PaidStep
      <3>2. CASE i # j
        BY <2>1, <2>3, <3>2, FireCounts DEF PaidStep
      <3> QED
        BY <3>1, <3>2
    <2>4. ASSUME NEW i \in JobId, NEW answered, RetryOrGiveUp(i, answered), UNCHANGED attempts
          PROVE  PaidStep(j)
      <3>1. attempts'[j] = attempts[j] /\ timers'[j] >= timers[j]
        <4>1. CASE i = j
          BY <2>1, <2>4, <4>1, RetryCounts
        <4>2. CASE i # j
          BY <2>1, <2>4, <4>2, RetryCounts
        <4> QED
          BY <4>1, <4>2
      <3>2. timers'[j] \in 0 .. MaxTimers
        BY RunsTypeStep DEF RunsIInv, RunsTypeOK
      <3> QED
        BY <2>1, <3>1, <3>2 DEF PaidStep
    <2> QED
      BY <2>1, <2>2, <2>3, <2>4, CountsStep
  <1> QED
    BY <1>1, RunsInvariance, PTL DEF RunsSpec, OutageIsPaid

=============================================================================
