----------------------------- MODULE Scheduler -----------------------------
(***************************************************************************)
(* The schedules of one agent: their rows (schedules-store.ts), the timers *)
(* the process keeps for them (scheduler.ts), the event a timer publishes  *)
(* and the job it opens (event-bus.ts), and the edits of the operator and  *)
(* of the agent, each followed by a reload that drops every timer, arms    *)
(* them again and catches up what was missed.  A cron expression that does *)
(* not parse ends the reload at its row; the rows of other agents and      *)
(* tenants are in the same list, and matter to this agent only by that.    *)
(*                                                                         *)
(* Time is relative: a row knows how far its one-off is ahead and how long *)
(* ago it last fired, a timer how long it has to run, and the wall clock   *)
(* of the cron expressions is the position in their period.  A reload is   *)
(* one turn of the event loop, so only a death of the process cuts it.     *)
(***************************************************************************)
EXTENDS Integers

CONSTANTS
  MaxSchedules,  \* rows, identified by 1 .. MaxSchedules in order of creation
  Every,         \* length of an interval
  Period,        \* length of the period of a cron expression
  Ahead,         \* bound: how far ahead a one-off can be set
  MaxOpenJobs,   \* open jobs the agent may hold
  MaxEdits,      \* bound: edits of schedules
  MaxDeaths      \* bound: deaths of the process

ASSUME SchedAssumption ==
  /\ MaxSchedules \in Nat /\ MaxOpenJobs \in Nat /\ MaxEdits \in Nat /\ MaxDeaths \in Nat
  /\ Every \in Nat \ {0} /\ Period \in Nat \ {0} /\ Ahead \in Nat \ {0}

VARIABLES
  row,      \* the schedules table
  timer,    \* #timers: time left, or NoTimer
  open,     \* open jobs of the agent
  fired,    \* jobs opened for the timing a row has now, counted to two
  refused,  \* the last fire for that timing was refused a job
  cut,      \* a death came between the job of that timing and its mark
  clock,    \* position of the wall clock in the period
  up,       \* the process runs and its scheduler has started
  edits,
  deaths

schedVars == <<row, timer, open, fired, refused, cut, clock, up, edits, deaths>>

ScheduleId == 1 .. MaxSchedules
NoTimer == -1
Never   == -1                    \* last_fired_at is null
Oldest  == 2 * Every + Period    \* ages beyond are not told apart

\* "invalid": a cron expression croner does not take.
Timing == [kind : {"cron", "interval", "invalid"}, left : {0}] \cup [kind : {"once"}, left : 0 .. Ahead]
Row == [timing : Timing, catchUp : BOOLEAN, enabled : BOOLEAN,
        age : Never .. Oldest, completed : BOOLEAN]
NoRow == [timing |-> [kind |-> "none", left |-> 0], catchUp |-> FALSE, enabled |-> FALSE,
          age |-> Never, completed |-> FALSE]

SchedTypeOK ==
  /\ row \in [ScheduleId -> Row \cup {NoRow}]
  /\ timer \in [ScheduleId -> NoTimer .. Every + Period + Ahead]
  /\ open \in 0 .. MaxOpenJobs
  /\ fired \in [ScheduleId -> 0 .. 2]
  /\ refused \in [ScheduleId -> BOOLEAN]
  /\ cut \in [ScheduleId -> BOOLEAN]
  /\ clock \in 0 .. Period - 1
  /\ up \in BOOLEAN
  /\ edits \in 0 .. MaxEdits
  /\ deaths \in 0 .. MaxDeaths

SchedInit ==
  /\ row = [s \in ScheduleId |-> NoRow]
  /\ timer = [s \in ScheduleId |-> NoTimer]
  /\ open = 0
  /\ fired = [s \in ScheduleId |-> 0]
  /\ refused = [s \in ScheduleId |-> FALSE]
  /\ cut = [s \in ScheduleId |-> FALSE]
  /\ clock = 0
  /\ up = FALSE
  /\ edits = 0
  /\ deaths = 0

-----------------------------------------------------------------------------
(* What a turn of the event loop makes of the rows, the timers and the     *)
(* agent's jobs, as a function of a record of the three.                   *)

Now == [row |-> row, timer |-> timer, open |-> open, fired |-> fired, refused |-> refused]

Becomes(st) ==
  /\ row' = st.row
  /\ timer' = st.timer
  /\ open' = st.open
  /\ fired' = st.fired
  /\ refused' = st.refused

IsActive(r) == r.enabled /\ ~r.completed
Once(r) == r.timing.kind = "once"

\* new Cron throws, and takes the reload with it: a row is reached if none up to it throws.
Throws(r) == IsActive(r) /\ r.timing.kind = "invalid"
Reached(rows, s) == \A b \in ScheduleId : b <= s => ~Throws(rows[b])

\* The one subscription schedule.fired can match, that of its own row, while the
\* row is enabled and not completed.
Subscribed(st, s) == IsActive(st.row[s])

\* Mutant: one job too many.
RefusesLate(st, s) == Subscribed(st, s) /\ st.open > MaxOpenJobs

\* publish: the matching subscription opens a job, which the open-job cap may refuse
\* with an exception.
Refuses(st, s) == Subscribed(st, s) /\ st.open = MaxOpenJobs

Published(st, s) ==
  IF Subscribed(st, s)
  THEN [st EXCEPT !.open = @ + 1, !.fired[s] = IF @ = 2 THEN 2 ELSE @ + 1, !.refused[s] = FALSE]
  ELSE st

\* markCompleted and markFired.
Marked(st, s) ==
  IF Once(st.row[s]) THEN [st EXCEPT !.row[s].completed = TRUE] ELSE [st EXCEPT !.row[s].age = 0]

\* Mutant: the cursor is not written.
FireUnmarked(st, s) ==
  IF Refuses(st, s) THEN [st EXCEPT !.refused[s] = TRUE] ELSE Published(st, s)

Fire(st, s) ==
  IF Refuses(st, s) THEN [st EXCEPT !.refused[s] = TRUE] ELSE Marked(Published(st, s), s)

\* How long a fresh timer runs.
Runs(r) ==
  CASE r.timing.kind = "interval" -> Every
    [] r.timing.kind = "cron"     -> Period - clock
    [] OTHER                      -> r.timing.left

\* Has a run been missed?  `known`: what the fresh cron job answers for its previous
\* run, which croner may not know.
Missed(r, known) ==
  CASE r.timing.kind = "interval" -> r.age > Every
    [] r.timing.kind = "cron"     -> known /\ r.age > clock
    [] OTHER                      -> r.timing.left = 0

\* A one-off that is past has no timer any more, and is completed if not caught up.
Armed(st, s) ==
  IF Once(st.row[s]) /\ st.row[s].timing.left = 0
  THEN st ELSE [st EXCEPT !.timer[s] = Runs(st.row[s])]

\* Mutant: a missed run is not made up for.
ScheduleNoCatchUp(st, s, known) ==
  LET r == st.row[s] IN
  IF Once(r) /\ Missed(r, known) /\ ~r.catchUp THEN Marked(st, s) ELSE Armed(st, s)

Schedule(st, s, known) ==
  LET r == st.row[s] IN
  IF ~Missed(r, known) THEN Armed(st, s)
  ELSE IF r.catchUp THEN Fire(Armed(st, s), s)
  ELSE IF Once(r) THEN Marked(st, s) ELSE Armed(st, s)

\* #clearTimers.
Cleared(st) == [st EXCEPT !.timer = [s \in ScheduleId |-> NoTimer]]

\* Mutant: the timers of the rows that are left out keep running.
ScheduledOver(st, n, known) ==
  LET after[i \in 0 .. MaxSchedules] ==
        IF i = 0 THEN st
        ELSE IF IsActive(after[i - 1].row[i]) /\ Reached(st.row, i)
        THEN Schedule(after[i - 1], i, known)
        ELSE after[i - 1]
  IN after[n]

\* #scheduleAll, up to the n-th row.  What it does to the rows lets none of them throw
\* or stop throwing.
Scheduled(st, n, known) ==
  LET after[i \in 0 .. MaxSchedules] ==
        IF i = 0 THEN Cleared(st)
        ELSE IF IsActive(after[i - 1].row[i]) /\ Reached(st.row, i)
        THEN Schedule(after[i - 1], i, known)
        ELSE after[i - 1]
  IN after[n]

-----------------------------------------------------------------------------
(* Edits.  Each writes the row and, in the same turn, reloads; the row     *)
(* stays when the reload throws and the caller is told of an error.        *)

Reload(st) ==
  \E known \in BOOLEAN :
    /\ Becomes(IF up THEN Scheduled(st, MaxSchedules, known) ELSE st)
    /\ UNCHANGED <<clock, up, deaths>>

\* The row gets a timing: what happened under the old one is no longer counted.
Retimed(st, s, r) ==
  [st EXCEPT !.row[s] = r, !.fired[s] = 0, !.refused[s] = FALSE]

Edit(s, st) ==
  /\ edits < MaxEdits
  /\ edits' = edits + 1
  /\ cut' = [cut EXCEPT ![s] = @ /\ st.row[s].timing = row[s].timing]
  /\ Reload(st)

\* The list is in order of creation.
Create(s, timing, catchUp) ==
  /\ \A t \in ScheduleId : t >= s => row[t] = NoRow
  /\ Edit(s, Retimed(Now, s, [timing |-> timing, catchUp |-> catchUp, enabled |-> TRUE,
                              age |-> Never, completed |-> FALSE]))

\* update keeps the cursor and the completion of the row, whatever it changes.
Retime(s, timing) ==
  /\ row[s] # NoRow
  /\ row[s].timing # timing
  /\ Edit(s, Retimed(Now, s, [row[s] EXCEPT !.timing = timing]))

Adjust(s, catchUp, enabled) ==
  /\ row[s] # NoRow
  /\ Edit(s, [Now EXCEPT !.row[s].catchUp = catchUp, !.row[s].enabled = enabled])

Remove(s) ==
  /\ row[s] # NoRow
  /\ Edit(s, Retimed(Now, s, NoRow))

\* The operator's routes take any timing, one in the past or an expression that does not
\* parse too, and any row.
OperatorEdits ==
  \E s \in ScheduleId :
    \/ \E timing \in Timing :
         Retime(s, timing) \/ \E catchUp \in BOOLEAN : Create(s, timing, catchUp)
    \/ \E catchUp, enabled \in BOOLEAN : Adjust(s, catchUp, enabled)
    \/ Remove(s)

\* The agent's tools find a row by its title, refuse a time that is past and an
\* expression that does not parse, and leave a completed row alone, except to remove it.
IsTaken(timing) == timing.kind # "invalid" /\ (timing.kind = "once" => timing.left > 0)

AgentEdits ==
  \E s \in ScheduleId :
    \/ \E timing \in Timing :
         /\ IsTaken(timing)
         /\ \/ ~row[s].completed /\ Retime(s, timing)
            \/ \E catchUp \in BOOLEAN : Create(s, timing, catchUp)
    \/ \E catchUp, enabled \in BOOLEAN : ~row[s].completed /\ Adjust(s, catchUp, enabled)
    \/ Remove(s)

-----------------------------------------------------------------------------
(* The clock, the timers, the jobs and the process.                        *)

Older(r) == [r EXCEPT !.age = IF @ \in {Never, Oldest} THEN @ ELSE @ + 1,
                      !.timing.left = IF @ = 0 THEN 0 ELSE @ - 1]

\* Time passes once the timers that are due have fired.
Tick ==
  /\ \A s \in ScheduleId : timer[s] # 0
  /\ row' = [s \in ScheduleId |-> Older(row[s])]
  /\ timer' = [s \in ScheduleId |-> IF timer[s] = NoTimer THEN NoTimer ELSE timer[s] - 1]
  /\ clock' = (clock + 1) % Period
  /\ UNCHANGED <<open, fired, refused, cut, up, edits, deaths>>

\* Mutant: an interval is a single shot.
RearmedOnce(st, s) == [st EXCEPT !.timer[s] = NoTimer]

Rearmed(st, s) ==
  [st EXCEPT !.timer[s] = CASE row[s].timing.kind = "interval" -> Every
                            [] row[s].timing.kind = "cron"     -> Period
                            [] OTHER                           -> NoTimer]

TimerDue(s) ==
  /\ timer[s] = 0
  /\ Becomes(Rearmed(Fire(Now, s), s))
  /\ UNCHANGED <<cut, clock, up, edits, deaths>>

JobOpens == open < MaxOpenJobs /\ open' = open + 1 /\ UNCHANGED <<row, timer, fired, refused>>
JobEnds  == open > 0 /\ open' = open - 1 /\ UNCHANGED <<row, timer, fired, refused>>

OtherJob ==
  /\ JobOpens \/ JobEnds
  /\ UNCHANGED <<cut, clock, up, edits, deaths>>

\* A reload gets through.
Loads == Reached(row, MaxSchedules)

\* A throw fails the evaluation of app.ts.  The built server dies of it; the one for
\* development evaluates app.ts again, finds the scheduler started, and serves.
Start ==
  /\ ~up
  /\ \E known \in BOOLEAN :
       LET st == Scheduled(Now, MaxSchedules, known) IN
         \/ up' = TRUE /\ Becomes(st)
         \/ ~Loads /\ up' = FALSE /\ Becomes(Cleared(st))
  /\ UNCHANGED <<cut, clock, edits, deaths>>

Die(st) ==
  /\ deaths < MaxDeaths
  /\ deaths' = deaths + 1
  /\ up' = FALSE
  /\ Becomes(Cleared(st))
  /\ UNCHANGED <<clock, edits>>

Dies == up /\ Die(Now) /\ UNCHANGED cut

\* #fire: the job is opened, and the process dies before the row is marked.
DiesInFire(st, s) ==
  /\ Subscribed(st, s) /\ ~Refuses(st, s)
  /\ Die(Published(st, s))
  /\ cut' = [cut EXCEPT ![s] = TRUE]

DiesInTimer(s) == timer[s] = 0 /\ DiesInFire(Now, s)

\* ... while the rows are caught up one after the other.
DiesInStart(s) ==
  /\ ~up
  /\ \E known \in BOOLEAN :
       LET st == Scheduled(Now, s - 1, known) IN
         /\ Reached(row, s)
         /\ IsActive(row[s]) /\ Missed(row[s], known) /\ row[s].catchUp
         /\ DiesInFire(st, s)

SchedStep ==
  \/ OperatorEdits \/ AgentEdits
  \/ Tick \/ OtherJob \/ Start
  \/ \E s \in ScheduleId : TimerDue(s)

SchedDeath == Dies \/ \E s \in ScheduleId : DiesInTimer(s) \/ DiesInStart(s)

SchedNext == SchedStep \/ SchedDeath

SchedSpec == SchedInit /\ [][SchedNext]_schedVars

\* Time goes on, a due timer fires and a dead process is started again, unless a row fails
\* its start.  Nothing is asked of jobs, agents and operators.
SchedFairness ==
  /\ WF_schedVars(Loads /\ Start)
  /\ WF_schedVars((Tick \/ \E s \in ScheduleId : TimerDue(s)))

FairSchedSpec == SchedSpec /\ SchedFairness

-----------------------------------------------------------------------------
(* Properties.                                                             *)

Pending(s) == Once(row[s]) /\ IsActive(row[s])
HasRun(s)  == row[s].timing.kind = "interval" /\ IsActive(row[s]) /\ row[s].age # Never

\* The timers of a running process are those of the rows: every active row has the
\* timer its timing asks for, whatever edits, fires and reloads came before, except a
\* one-off whose job was refused and the rows listed from an expression on that does not
\* parse; and no other row has one (#scheduleAll, scheduler.ts).
TimersMatchRows ==
  up => \A s \in ScheduleId :
    /\ timer[s] # NoTimer => IsActive(row[s]) /\ Reached(row, s)
    /\ IsActive(row[s]) /\ Reached(row, s) /\ timer[s] = NoTimer => Once(row[s]) /\ refused[s]
    /\ timer[s] # NoTimer =>
         CASE row[s].timing.kind = "once" -> timer[s] = row[s].timing.left
           [] row[s].timing.kind = "cron" -> (timer[s] + clock) % Period = 0
           [] OTHER                       -> timer[s] <= Every

\* "A one-off fires a single time" (scheduler.ts): it opens one job for the time it was
\* set to, through reloads and restarts, unless a death came between the job and the mark.
OneOffFiresOnce ==
  \A s \in ScheduleId : Once(row[s]) /\ fired[s] > 1 => cut[s]

\* A routine that has fired and catches up is never later than two intervals in a running
\* process, though every reload starts its timer again, as long as its jobs are not refused
\* and the reloads get to it.  One that has never fired is not caught up
\* (#catchUpIfMissed), and reloads can put its first run off for ever.
RoutineIsNotLate ==
  up => \A s \in ScheduleId :
    HasRun(s) /\ Reached(row, s) /\ row[s].catchUp /\ ~refused[s] => row[s].age <= 2 * Every

\* A routine goes on firing, through restarts and finitely many edits, or the agent
\* has no room for its jobs, or some row does not let a reload through.
RoutineRuns ==
  \A s \in ScheduleId :
    []<>(Loads /\ IsActive(row[s]) /\ ~Once(row[s]) => row[s].age = 0 \/ open = MaxOpenJobs)

\* A one-off is over one day: fired, skipped, disabled, or refused its job, or some row
\* does not let a reload through.
OneOffSettles ==
  \A s \in ScheduleId : Pending(s) ~> ~Pending(s) \/ refused[s] \/ ~Loads
=============================================================================
