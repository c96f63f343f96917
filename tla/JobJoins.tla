------------------------------ MODULE JobJoins ------------------------------
(***************************************************************************)
(* The join behind job_await (waitForJobs, jobs.ts) over the coordinator   *)
(* of Jobs.tla.  A turn that awaits jobs subscribes to the coordinator's   *)
(* change pulse and looks at them again on every pulse; a timer ends what  *)
(* no pulse does.  Operations pulse when they are done, and not all of     *)
(* them do; a process that dies takes the joins of its turns with it.      *)
(*                                                                         *)
(* A join is the set of jobs it is for: two joins of the same jobs end     *)
(* together, or one of them by its timer.                                  *)
(***************************************************************************)
EXTENDS Jobs

VARIABLE joins   \* the jobs each turn that awaits some was asked to wait for

joinVars == <<vars, joins>>

StillOpen(ids) == {j \in ids : IsOpen(j)}

\* job_await takes any ids, its own job and ids of no job among them, or by default the
\* open children of its job; the join is over at once when none of them is open.
AwaitJobs(ids) ==
  /\ StillOpen(ids) # {}
  /\ joins' = joins \cup {ids}
  /\ UNCHANGED vars

AwaitTimesOut(ids) ==
  /\ ids \in joins
  /\ joins' = joins \ {ids}
  /\ UNCHANGED vars

\* #publish: every join looks at its jobs.
Pulse == joins' = {ids \in joins : StillOpen(ids)' # {}}

\* The operations that end in #publish, themselves or through #setState.
Pulsing ==
  \/ AgentStep
  \/ SweepDeadlines
  \/ \E j \in JobId :
       Fail(j) \/ Restart(j) \/ Pause(j) \/ Resume(j) \/ StopFinish(j) \/ RecordStop(j) \/ Cancel(j)

\* Mutant: a sweep acts on the overdue jobs and does not say so.
UnheardSweeping ==
  \/ SweepDeadlines
  \/ \E j \in JobId : DeadlinePasses(j)

\* Those that do not, and the clock.
Unannounced ==
  \E j \in JobId :
    \/ StopBegin(j)
    \/ \E policy \in Overrun : SetDeadline(j, policy)
    \/ ClearDeadline(j)
    \/ DeadlinePasses(j)

JoinInit == Init /\ joins = {}

JoinNext ==
  \/ Pulsing /\ Pulse
  \/ Unannounced /\ UNCHANGED joins
  \/ CrashStep /\ joins' = {}
  \/ \E ids \in SUBSET JobId : AwaitJobs(ids) \/ AwaitTimesOut(ids)

JoinSpec == JoinInit /\ [][JoinNext]_joinVars

-----------------------------------------------------------------------------
(* Properties.                                                             *)

\* "A stuck child can never hang the parent" (waitForJobs): a turn that still waits has an
\* open job to wait for, whoever ended the others and in whatever order, jobs that failed
\* in a sweep, were cancelled or came back among them.
JoinsHaveOpen == \A ids \in joins : StillOpen(ids) # {}
=============================================================================
