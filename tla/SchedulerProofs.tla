--------------------------- MODULE SchedulerProofs ---------------------------
(***************************************************************************)
(* Proofs about the schedules of an agent, for any number of rows, any     *)
(* interval and period, any cap on open jobs and any number of edits and   *)
(* deaths.  The three safety properties rest on one invariant, which says  *)
(* of every row what its timer and its count of fires may be.  A reload    *)
(* goes over the rows one after the other (#scheduleAll), so it needs an   *)
(* induction of its own, over the rows: as a lemma about the sets that     *)
(* hold 0 and, with a number, the next one.                                *)
(***************************************************************************)
EXTENDS Scheduler, FiniteSetTheorems, WellFoundedInduction, TLAPS

USE SchedAssumption

\* The timer `t` of row `r`, whose last fire was refused if `ref`, when the wall clock is
\* at `k` and a reload gets to the row if `hit`.  A timer of a cron job ends with the
\* period.  The age of an interval and the time its timer has to run add up to two
\* intervals at most: this is what makes RoutineIsNotLate inductive, since every reload
\* starts the timer again.
TimerOK(r, t, ref, k, hit) ==
  /\ t # NoTimer => IsActive(r) /\ hit
  /\ IsActive(r) /\ hit /\ t = NoTimer => Once(r) /\ ref
  /\ t # NoTimer /\ Once(r) => t = r.timing.left
  /\ t # NoTimer /\ r.timing.kind = "cron" => t + k \in {0, Period}
  /\ t # NoTimer /\ r.timing.kind = "interval" =>
       t <= Every /\ (r.catchUp /\ ~ref => r.age + t <= 2 * Every)

\* The fires `f` counted for row `r`, and whether a death cut one of them off, `c`: a
\* one-off that has fired is completed, unless a death came before its mark.
FiredOK(r, f, c) == Once(r) => (f > 0 => r.completed \/ c) /\ (f > 1 => c)

SchedInv ==
  /\ SchedTypeOK
  /\ \A s \in ScheduleId : FiredOK(row[s], fired[s], cut[s])
  /\ up => \A s \in ScheduleId :
             TimerOK(row[s], timer[s], refused[s], clock, Reached(row, s))
  /\ ~up => \A s \in ScheduleId : timer[s] = NoTimer

\* The records a turn of the event loop works on.
SchedState == [row     : [ScheduleId -> Row \cup {NoRow}],
               timer   : [ScheduleId -> NoTimer .. Every + Period + Ahead],
               open    : 0 .. MaxOpenJobs,
               fired   : [ScheduleId -> 0 .. 2],
               refused : [ScheduleId -> BOOLEAN]]

\* Row s of such a record is as the invariant wants it, `c` being the rows cut off and
\* `rows` those the reload started from.
RowOK(rows, st, s, c) ==
  /\ TimerOK(st.row[s], st.timer[s], st.refused[s], clock, Reached(rows, s))
  /\ FiredOK(st.row[s], st.fired[s], c[s])

\* From `st` to `to` nothing changes but what belongs to row s.
Only(s, st, to) ==
  \A i \in ScheduleId \ {s} : /\ to.row[i] = st.row[i]
                              /\ to.timer[i] = st.timer[i]
                              /\ to.fired[i] = st.fired[i]
                              /\ to.refused[i] = st.refused[i]

\* ... and of row s neither the row nor its count.
SameCursor(s, st, to) == to.row[s] = st.row[s] /\ to.fired[s] = st.fired[s]

-----------------------------------------------------------------------------
(* Induction over the rows, and the equation of #scheduleAll.              *)

\* Of the numbers missing from S one is least: of the sets of numbers below them one is
\* minimal.
LEMMA UpTo ==
  ASSUME NEW n \in Nat, NEW S, 0 \in S, \A i \in 1 .. n : i - 1 \in S => i \in S
  PROVE  \A i \in 0 .. n : i \in S
  <1> DEFINE Below(q) == {i \in 0 .. n : i < q}
             W == {i \in 0 .. n : i \notin S}
             T == {Below(q) : q \in W}
  <1> SUFFICES ASSUME W # {} PROVE FALSE
    OBVIOUS
  <1>1. T \subseteq FiniteSubsetsOf(0 .. n) /\ T # {}
    <2>1. \A q \in W : Below(q) \in SUBSET (0 .. n)
      OBVIOUS
    <2> HIDE DEF Below
    <2>2. IsFiniteSet(0 .. n)
      BY FS_Interval
    <2>3. \A q \in W : Below(q) \in FiniteSubsetsOf(0 .. n)
      BY <2>1, <2>2, FS_Subset DEF FiniteSubsetsOf
    <2> QED
      BY <2>3
  <1>2. IsWellFoundedOn(StrictSubsetOrdering(0 .. n), FiniteSubsetsOf(0 .. n))
    BY FS_StrictSubsetOrderingWellFounded
  <1> HIDE DEF T
  <1>3. PICK A \in T : \A B \in T : ~ (<<B, A>> \in StrictSubsetOrdering(0 .. n))
    BY <1>1, <1>2, WFMin
  <1>4. PICK m \in W : A = Below(m)
    BY DEF T
  <1>5. m - 1 \in W /\ m \in 1 .. n
    OBVIOUS
  <1>6. Below(m - 1) \in T
    BY <1>5 DEF T
  <1>7. Below(m - 1) \subseteq Below(m) /\ m - 1 \in Below(m) /\ m - 1 \notin Below(m - 1)
    BY <1>5
  <1> QED
    BY <1>3, <1>4, <1>6, <1>7 DEF StrictSubsetOrdering

\* What #scheduleAll makes of the next row.
RowScheduled(rows, st, i, known) ==
  IF IsActive(st.row[i]) /\ Reached(rows, i) THEN Schedule(st, i, known) ELSE st

\* A recursive function is known by a choice only: one that satisfies the equation exists
\* on every initial segment, since it can be extended by one row.
LEMMA ScheduledRec ==
  ASSUME NEW st, NEW known
  PROVE  /\ Scheduled(st, 0, known) = Cleared(st)
         /\ \A n \in 1 .. MaxSchedules :
              Scheduled(st, n, known) = RowScheduled(st.row, Scheduled(st, n - 1, known), n, known)
  <1> DEFINE after == CHOOSE f : f = [i \in 0 .. MaxSchedules |->
                       IF i = 0 THEN Cleared(st) ELSE RowScheduled(st.row, f[i-1], i, known)]
             Is(f, n) == f = [i \in 0 .. n |->
                IF i = 0 THEN Cleared(st) ELSE RowScheduled(st.row, f[i-1], i, known)]
             S == {n \in 0 .. MaxSchedules : \E f : Is(f, n)}
  <1>1. 0 \in S
    <2> DEFINE f == [i \in 0 .. 0 |-> IF i = 0 THEN Cleared(st) ELSE Cleared(st)]
    <2>1. Is(f, 0)
      OBVIOUS
    <2>2. \E g : Is(g, 0)
      BY <2>1
    <2> QED
      BY <2>2
  <1>2. ASSUME NEW n \in 1 .. MaxSchedules, n - 1 \in S
        PROVE  n \in S
    <2>1. PICK g : Is(g, n - 1)
      BY <1>2
    <2> DEFINE h == [i \in 0 .. n |-> IF i < n THEN g[i] ELSE RowScheduled(st.row, g[n-1], n, known)]
    <2>2. \A i \in 0 .. n : h[i] = IF i = 0 THEN Cleared(st) ELSE RowScheduled(st.row, h[i-1], i, known)
      <3> TAKE i \in 0 .. n
      <3>1. CASE i = n
        <4> HIDE DEF Is
        <4>1. h[n] = RowScheduled(st.row, g[n-1], n, known) /\ h[n - 1] = g[n-1]
          OBVIOUS
        <4> QED BY <3>1, <4>1
      <3>2. CASE i # n /\ i # 0
        <4>1. g[i] = RowScheduled(st.row, g[i-1], i, known)
          BY <2>1, <3>2
        <4> HIDE DEF Is
        <4>2. h[i] = g[i] /\ h[i - 1] = g[i-1]
          BY <3>2
        <4> QED BY <3>2, <4>1, <4>2
      <3>3. CASE i = 0
        BY <2>1, <3>3
      <3> QED BY <3>1, <3>2, <3>3
    <2> HIDE DEF h
    <2>3. h = [i \in 0 .. n |-> h[i]]
      BY DEF h
    <2>4. Is(h, n)
      BY <2>2, <2>3
    <2> QED
      BY <2>4
  <1> HIDE DEF S
  <1>3. MaxSchedules \in S
    BY <1>1, <1>2, UpTo
  <1> USE DEF S
  <1>4. PICK f : Is(f, MaxSchedules)
    BY <1>3
  <1>5. Is(after, MaxSchedules)
    BY <1>4
  <1>6. \A n : Scheduled(st, n, known) = after[n]
    BY Zenon DEF Scheduled, RowScheduled, Cleared
  <1> HIDE DEF after
  <1>7. \A i \in 0 .. MaxSchedules :
           after[i] = IF i = 0 THEN Cleared(st) ELSE RowScheduled(st.row, after[i-1], i, known)
    BY <1>5
  <1> QED
    BY <1>6, <1>7

-----------------------------------------------------------------------------
(* One row: what a fire, a mark and a fresh timer do to it.                *)

\* Only a row that exists is active.
LEMMA ActiveRow ==
  ASSUME NEW r \in Row \cup {NoRow}, IsActive(r)
  PROVE  /\ r \in Row /\ r.timing \in Timing
         /\ ~Throws(r) => r.timing.kind \in {"cron", "interval", "once"}
         /\ ~Once(r) => r.timing.left = 0
         /\ r.timing.left \in 0 .. Ahead
         /\ r.age \in Never .. Oldest
         /\ ~r.completed
  BY DEF Row, NoRow, IsActive, Timing, Once, Throws

\* What moves a row's cursor lets no reload throw.
LEMMA MarkThrows ==
  ASSUME NEW r \in Row, ~Throws(r)
  PROVE  ~Throws([r EXCEPT !.completed = TRUE]) /\ ~Throws([r EXCEPT !.age = 0])
  BY DEF Throws, IsActive, Row

\* Rows that throw alike are reached alike.
LEMMA SameReach ==
  ASSUME NEW a, NEW b, \A i \in ScheduleId : Throws(a[i]) <=> Throws(b[i])
  PROVE  \A i \in ScheduleId : Reached(a, i) = Reached(b, i)
  BY DEF Reached

LEMMA ReachedRow ==
  ASSUME NEW a, NEW i \in ScheduleId, Reached(a, i)
  PROVE  ~Throws(a[i])
  BY DEF Reached, ScheduleId

LEMMA ClearedFacts ==
  ASSUME NEW st \in SchedState
  PROVE  /\ Cleared(st) \in SchedState /\ Cleared(st).row = st.row
         /\ Cleared(st).fired = st.fired /\ Cleared(st).refused = st.refused
         /\ \A s \in ScheduleId : Cleared(st).timer[s] = NoTimer
  BY DEF Cleared, SchedState, NoTimer

LEMMA MarkFacts ==
  ASSUME NEW st \in SchedState, NEW s \in ScheduleId, IsActive(st.row[s])
  PROVE  /\ Marked(st, s) \in SchedState
         /\ Only(s, st, Marked(st, s))
         /\ Marked(st, s).open = st.open
         /\ Marked(st, s).timer[s] = st.timer[s]
         /\ Marked(st, s).fired[s] = st.fired[s]
         /\ Marked(st, s).refused[s] = st.refused[s]
         /\ Marked(st, s).row[s] = IF Once(st.row[s]) THEN [st.row[s] EXCEPT !.completed = TRUE]
                                   ELSE [st.row[s] EXCEPT !.age = 0]
  <1>1. st.row[s] \in Row
    BY ActiveRow DEF SchedState
  <1>2. ASSUME NEW q \in Row
        PROVE  [q EXCEPT !.completed = TRUE] \in Row /\ [q EXCEPT !.age = 0] \in Row
    <2>1. 0 \in Never .. Oldest
      BY DEF Never, Oldest
    <2> QED
      BY <2>1 DEF Row
  <1> DEFINE r == IF Once(st.row[s]) THEN [st.row[s] EXCEPT !.completed = TRUE]
                                   ELSE [st.row[s] EXCEPT !.age = 0]
  <1>3. Marked(st, s) = [st EXCEPT !.row[s] = r]
    BY DEF Marked
  <1>4. r \in Row
    BY <1>1, <1>2
  <1> HIDE DEF r
  <1>5. [st EXCEPT !.row[s] = r] \in SchedState /\ Only(s, st, [st EXCEPT !.row[s] = r])
    BY <1>4 DEF SchedState, Only
  <1> QED
    BY <1>3, <1>5 DEF SchedState, r

LEMMA PublishFacts ==
  ASSUME NEW st \in SchedState, NEW s \in ScheduleId, IsActive(st.row[s]), ~Refuses(st, s)
  PROVE  /\ Published(st, s) \in SchedState
         /\ Only(s, st, Published(st, s))
         /\ Published(st, s).row = st.row
         /\ Published(st, s).timer = st.timer
         /\ Published(st, s).fired[s] = IF st.fired[s] = 2 THEN 2 ELSE st.fired[s] + 1
         /\ ~Published(st, s).refused[s]
  <1>1. st.open + 1 \in 0 .. MaxOpenJobs
    BY DEF Refuses, Subscribed, SchedState
  <1>2. Published(st, s) = [st EXCEPT !.open = @ + 1, !.fired[s] = IF @ = 2 THEN 2 ELSE @ + 1,
                            !.refused[s] = FALSE]
    BY DEF Published, Subscribed
  <1> DEFINE o == st.open + 1
             f == IF st.fired[s] = 2 THEN 2 ELSE st.fired[s] + 1
  <1>3. Published(st, s) = [st EXCEPT !.open = o, !.fired[s] = f, !.refused[s] = FALSE]
    BY <1>2 DEF SchedState
  <1>4. f \in 0 .. 2 /\ o \in 0 .. MaxOpenJobs
    BY <1>1 DEF SchedState
  <1> HIDE DEF o
  <1>5. Published(st, s) = [row |-> st.row, timer |-> st.timer, open |-> o,
                            fired |-> [st.fired EXCEPT ![s] = f],
                            refused |-> [st.refused EXCEPT ![s] = FALSE]]
    BY <1>3 DEF SchedState
  <1> HIDE DEF f
  <1>6. Published(st, s).fired[s] = f /\ ~Published(st, s).refused[s]
    BY <1>5 DEF SchedState
  <1> QED
    BY <1>4, <1>5, <1>6 DEF SchedState, Only, f

\* A fire is refused and only noted, or opens a job and moves the row's cursor.
LEMMA FireFacts ==
  ASSUME NEW st \in SchedState, NEW s \in ScheduleId, IsActive(st.row[s])
  PROVE  /\ Fire(st, s) \in SchedState
         /\ Only(s, st, Fire(st, s))
         /\ Fire(st, s).timer[s] = st.timer[s]
         /\ \/ /\ Fire(st, s).row[s] = st.row[s]
               /\ Fire(st, s).fired[s] = st.fired[s]
               /\ Fire(st, s).refused[s]
            \/ /\ Fire(st, s).row[s] = IF Once(st.row[s])
                                        THEN [st.row[s] EXCEPT !.completed = TRUE]
                                        ELSE [st.row[s] EXCEPT !.age = 0]
               /\ Fire(st, s).fired[s] = IF st.fired[s] = 2 THEN 2 ELSE st.fired[s] + 1
               /\ ~Fire(st, s).refused[s]
  <1>1. CASE Refuses(st, s)
    BY <1>1 DEF Fire, SchedState, Only
  <1>2. CASE ~Refuses(st, s)
    <2>1. Fire(st, s) = Marked(Published(st, s), s)
      BY <1>2 DEF Fire
    <2>2. IsActive(Published(st, s).row[s]) /\ Published(st, s) \in SchedState
      BY <1>2, PublishFacts
    <2> QED
      BY <1>2, <2>1, <2>2, PublishFacts, MarkFacts DEF Only
  <1> QED
    BY <1>1, <1>2

LEMMA ArmFacts ==
  ASSUME SchedTypeOK, NEW st \in SchedState, NEW s \in ScheduleId, IsActive(st.row[s]),
         st.timer[s] = NoTimer
  PROVE  /\ Armed(st, s) \in SchedState
         /\ Only(s, st, Armed(st, s))
         /\ Armed(st, s).row = st.row
         /\ Armed(st, s).fired = st.fired
         /\ Armed(st, s).refused = st.refused
         /\ Armed(st, s).timer[s] = IF Once(st.row[s]) /\ st.row[s].timing.left = 0 THEN NoTimer
                                    ELSE Runs(st.row[s])
  <1>1. Runs(st.row[s]) \in NoTimer .. Every + Period + Ahead
    <2>1. st.row[s].timing.left \in 0 .. Ahead
      BY ActiveRow DEF SchedState
    <2> QED
      BY <2>1 DEF Runs, SchedTypeOK, NoTimer
  <1> QED
    BY <1>1 DEF Armed, SchedState, Only

\* The main step of the induction: a row without a timer comes out of #schedule as the
\* invariant wants it, armed, caught up, or completed.
LEMMA ScheduleFacts ==
  ASSUME SchedTypeOK, NEW st \in SchedState, NEW s \in ScheduleId, NEW known \in BOOLEAN,
         IsActive(st.row[s]), ~Throws(st.row[s]), st.timer[s] = NoTimer,
         NEW c \in [ScheduleId -> BOOLEAN], FiredOK(st.row[s], st.fired[s], c[s]),
         NEW rows, Reached(rows, s)
  PROVE  /\ Schedule(st, s, known) \in SchedState
         /\ Only(s, st, Schedule(st, s, known))
         /\ RowOK(rows, Schedule(st, s, known), s, c)
         /\ ~Throws(Schedule(st, s, known).row[s])
  <1> DEFINE r == st.row[s]
             a == Armed(st, s)
  <1>1. /\ r \in Row /\ r.timing \in Timing
        /\ r.timing.kind \in {"cron", "interval", "once"}
        /\ r.timing.left \in 0 .. Ahead
        /\ r.age \in Never .. Oldest
        /\ ~r.completed
    BY ActiveRow DEF SchedState
  <1>2. CASE ~Missed(r, known)
    <2>1. Schedule(st, s, known) = a
      BY <1>2 DEF Schedule
    <2>2. TimerOK(r, a.timer[s], st.refused[s], clock, Reached(rows, s))
      BY <1>1, <1>2, ArmFacts DEF TimerOK, Missed, Runs, Once, SchedTypeOK, NoTimer, Never
    <2>3. /\ a \in SchedState /\ Only(s, st, a)
          /\ a.row[s] = r /\ a.fired[s] = st.fired[s] /\ a.refused[s] = st.refused[s]
      BY ArmFacts
    <2> HIDE DEF a
    <2>4. RowOK(rows, a, s, c)
      BY <2>2, <2>3 DEF RowOK
    <2> QED
      BY <2>1, <2>3, <2>4
  <1>3. CASE Missed(r, known) /\ r.catchUp
    <2> DEFINE f == Fire(a, s)
    <2>1. Schedule(st, s, known) = f
      BY <1>3 DEF Schedule
    <2>2. a \in SchedState /\ a.row[s] = r /\ a.fired[s] = st.fired[s] /\ Only(s, st, a)
      BY ArmFacts
    <2>3. a.timer[s] = IF Once(r) THEN NoTimer ELSE Runs(r)
      BY <1>3, ArmFacts DEF Missed, Once
    <2> HIDE DEF a
    <2>4. /\ f \in SchedState
          /\ Only(s, a, f)
          /\ f.timer[s] = a.timer[s]
          /\ \/ /\ f.row[s] = r
                /\ f.fired[s] = st.fired[s]
                /\ f.refused[s]
             \/ /\ f.row[s] = IF Once(r) THEN [r EXCEPT !.completed = TRUE]
                                         ELSE [r EXCEPT !.age = 0]
                /\ f.fired[s] = IF st.fired[s] = 2 THEN 2 ELSE st.fired[s] + 1
                /\ ~f.refused[s]
      BY <2>2, FireFacts
    <2> HIDE DEF f, r
    <2>7. Only(s, st, f)
      BY <2>2, <2>4 DEF Only
    <2> SUFFICES RowOK(rows, f, s, c) /\ ~Throws(f.row[s])
      BY <2>1, <2>4, <2>7
    <2>5. CASE f.row[s] = r /\ f.fired[s] = st.fired[s] /\ f.refused[s]
      <3>1. TimerOK(r, f.timer[s], TRUE, clock, Reached(rows, s))
        BY <1>1, <2>3, <2>4, <2>5 DEF TimerOK, Runs, Once, SchedTypeOK, NoTimer, r
      <3> QED
        BY <1>1, <2>5, <3>1 DEF RowOK, r
    <2>6. CASE /\ f.row[s] = IF Once(r) THEN [r EXCEPT !.completed = TRUE]
                                        ELSE [r EXCEPT !.age = 0]
               /\ f.fired[s] = IF st.fired[s] = 2 THEN 2 ELSE st.fired[s] + 1
               /\ ~f.refused[s]
      <3>1. CASE Once(r)
        <4>1. f.row[s].completed /\ Once(f.row[s]) /\ f.timer[s] = NoTimer
          BY <1>1, <2>3, <2>4, <2>6, <3>1 DEF Once, Row
        <4>2. f.fired[s] > 1 => c[s]
          BY <1>1, <2>6, <3>1 DEF FiredOK, SchedState, r
        <4> QED
          BY <4>1, <4>2 DEF RowOK, TimerOK, FiredOK, IsActive, NoTimer, Throws
      <3>2. CASE ~Once(r)
        <4>1. /\ f.row[s].age = 0 /\ f.row[s].timing = r.timing /\ IsActive(f.row[s])
              /\ ~Once(f.row[s])
          BY <1>1, <2>6, <3>2 DEF Once, Row, IsActive, r
        <4>2. f.timer[s] = Runs(r)
          BY <2>3, <2>4, <3>2
        <4>3. ~Throws(f.row[s])
          BY <1>1, <4>1 DEF Throws
        <4> QED
          BY <1>1, <4>1, <4>2, <4>3 DEF RowOK, TimerOK, FiredOK, Runs, SchedTypeOK, NoTimer, Once
      <3> QED
        BY <3>1, <3>2
    <2> QED
      BY <2>4, <2>5, <2>6
  <1>4. CASE Missed(r, known) /\ ~r.catchUp /\ Once(r)
    <2>1. Schedule(st, s, known) = Marked(st, s)
      BY <1>4 DEF Schedule
    <2>2. Marked(st, s).row[s].completed /\ Marked(st, s).timer[s] = NoTimer
          /\ Marked(st, s).fired[s] = st.fired[s]
      BY <1>1, <1>4, MarkFacts DEF Row
    <2>3. RowOK(rows, Marked(st, s), s, c)
      BY <1>1, <1>4, <2>2 DEF RowOK, TimerOK, FiredOK, IsActive, NoTimer
    <2>4. ~Throws(Marked(st, s).row[s])
      BY <2>2 DEF Throws, IsActive
    <2> QED
      BY <2>1, <2>3, <2>4, MarkFacts
  <1>5. CASE Missed(r, known) /\ ~r.catchUp /\ ~Once(r)
    <2>1. Schedule(st, s, known) = a
      BY <1>5 DEF Schedule
    <2>2. TimerOK(r, a.timer[s], st.refused[s], clock, Reached(rows, s))
      BY <1>1, <1>5, ArmFacts DEF TimerOK, Runs, Once, SchedTypeOK, NoTimer
    <2>3. /\ a \in SchedState /\ Only(s, st, a)
          /\ a.row[s] = r /\ a.fired[s] = st.fired[s] /\ a.refused[s] = st.refused[s]
      BY ArmFacts
    <2> HIDE DEF a
    <2>4. RowOK(rows, a, s, c)
      BY <2>2, <2>3 DEF RowOK
    <2> QED
      BY <2>1, <2>3, <2>4
  <1> QED
    BY <1>2, <1>3, <1>4, <1>5

\* #scheduleAll has put the first n rows right and not yet touched the others.
LEMMA ScheduledFacts ==
  ASSUME SchedTypeOK, NEW st \in SchedState, NEW known \in BOOLEAN,
         NEW c \in [ScheduleId -> BOOLEAN],
         \A s \in ScheduleId : FiredOK(st.row[s], st.fired[s], c[s])
  PROVE  \A n \in 0 .. MaxSchedules :
           /\ Scheduled(st, n, known) \in SchedState
           /\ \A s \in ScheduleId : RowOK(st.row, Scheduled(st, n, known), s, c) \/ s > n
           /\ \A s \in ScheduleId : s > n =>
                 /\ Scheduled(st, n, known).timer[s] = NoTimer
                 /\ Scheduled(st, n, known).row[s] = st.row[s]
                 /\ FiredOK(Scheduled(st, n, known).row[s], Scheduled(st, n, known).fired[s], c[s])
           /\ \A s \in ScheduleId :
                /\ ~IsActive(st.row[s]) => SameCursor(s, st, Scheduled(st, n, known))
                /\ Throws(Scheduled(st, n, known).row[s]) <=> Throws(st.row[s])
  <1> DEFINE at(n) == Scheduled(st, n, known)
             Holds(n) == /\ at(n) \in SchedState
                         /\ \A s \in ScheduleId : RowOK(st.row, at(n), s, c) \/ s > n
                         /\ \A s \in ScheduleId : s > n =>
                               /\ at(n).timer[s] = NoTimer
                               /\ at(n).row[s] = st.row[s]
                               /\ FiredOK(at(n).row[s], at(n).fired[s], c[s])
                         /\ \A s \in ScheduleId : ~IsActive(st.row[s]) => SameCursor(s, st, at(n))
                         /\ \A s \in ScheduleId : Throws(at(n).row[s]) <=> Throws(st.row[s])
             S == {n \in 0 .. MaxSchedules : Holds(n)}
  <1>1. 0 \in S
    <2>1. at(0) = Cleared(st)
      BY ScheduledRec
    <2>2. Cleared(st) \in SchedState /\ Cleared(st).row = st.row /\ Cleared(st).fired = st.fired
          /\ \A s \in ScheduleId : Cleared(st).timer[s] = NoTimer
      BY ClearedFacts
    <2> HIDE DEF at
    <2>3. \A s \in ScheduleId : s > 0
      BY DEF ScheduleId
    <2>4. Holds(0)
      BY <2>1, <2>2, <2>3 DEF SameCursor
    <2> QED
      BY <2>4
  <1>2. ASSUME NEW n \in 1 .. MaxSchedules, n - 1 \in S
        PROVE  n \in S
    <2>1. Holds(n - 1) /\ n \in ScheduleId
      BY <1>2 DEF ScheduleId
    <2>2. at(n) = RowScheduled(st.row, at(n - 1), n, known)
      BY ScheduledRec
    <2> HIDE DEF at
    <2>3. /\ at(n - 1).timer[n] = NoTimer /\ at(n - 1).row[n] = st.row[n]
          /\ FiredOK(at(n - 1).row[n], at(n - 1).fired[n], c[n])
      BY <2>1
    <2>4. /\ at(n) \in SchedState
          /\ Only(n, at(n - 1), at(n))
          /\ RowOK(st.row, at(n), n, c)
          /\ Throws(at(n).row[n]) <=> Throws(st.row[n])
      <3>1. CASE IsActive(at(n - 1).row[n]) /\ Reached(st.row, n)
        <4>1. ~Throws(st.row[n])
          BY <2>1, <3>1, ReachedRow
        <4>2. at(n) = Schedule(at(n - 1), n, known)
          BY <2>2, <3>1 DEF RowScheduled
        <4> QED
          BY <2>1, <2>3, <3>1, <4>1, <4>2, ScheduleFacts
      <3>2. CASE ~ (IsActive(at(n - 1).row[n]) /\ Reached(st.row, n))
        <4>1. at(n) = at(n - 1)
          BY <2>2, <3>2 DEF RowScheduled
        <4> QED
          BY <2>1, <2>3, <3>2, <4>1 DEF Only, RowOK, TimerOK
      <3> QED
        BY <3>1, <3>2
    <2>5. ASSUME NEW s \in ScheduleId, s < n
          PROVE  RowOK(st.row, at(n), s, c)
      BY <2>1, <2>4, <2>5 DEF Only, RowOK, ScheduleId
    <2>6. ASSUME NEW s \in ScheduleId, s > n
          PROVE  /\ at(n).timer[s] = NoTimer
                 /\ at(n).row[s] = st.row[s]
                 /\ FiredOK(at(n).row[s], at(n).fired[s], c[s])
      BY <2>1, <2>4, <2>6 DEF Only, ScheduleId
    <2>7. ASSUME NEW s \in ScheduleId, ~IsActive(st.row[s])
          PROVE  SameCursor(s, st, at(n))
      <3>1. SameCursor(s, st, at(n - 1))
        BY <2>1, <2>7
      <3>2. CASE s = n
        BY <2>2, <2>7, <3>1, <3>2 DEF RowScheduled, SameCursor
      <3>3. CASE s # n
        BY <2>4, <3>1, <3>3 DEF Only, SameCursor
      <3> QED
        BY <3>2, <3>3
    <2>8. ASSUME NEW s \in ScheduleId
          PROVE  Throws(at(n).row[s]) <=> Throws(st.row[s])
      BY <2>1, <2>4 DEF Only
    <2>9. Holds(n)
      BY <2>4, <2>5, <2>6, <2>7, <2>8 DEF ScheduleId
    <2> QED
      BY <2>9
  <1> HIDE DEF Holds
  <1>3. \A n \in 0 .. MaxSchedules : n \in S
    BY <1>1, <1>2, UpTo
  <1> QED
    BY <1>3 DEF Holds

-----------------------------------------------------------------------------
(* The steps.                                                              *)

LEMMA NowState == SchedTypeOK => Now \in SchedState
  BY DEF SchedTypeOK, SchedState, Now

LEMMA BecomesTypes ==
  ASSUME NEW st \in SchedState, Becomes(st)
  PROVE  /\ row' \in [ScheduleId -> Row \cup {NoRow}]
         /\ timer' \in [ScheduleId -> NoTimer .. Every + Period + Ahead]
         /\ open' \in 0 .. MaxOpenJobs
         /\ fired' \in [ScheduleId -> 0 .. 2]
         /\ refused' \in [ScheduleId -> BOOLEAN]
  BY DEF Becomes, SchedState

\* A reload restores the invariant from any rows, if the counts of fires are right.
LEMMA ReloadKeeps ==
  ASSUME SchedInv, NEW st \in SchedState, NEW known \in BOOLEAN,
         cut' \in [ScheduleId -> BOOLEAN], edits' \in 0 .. MaxEdits,
         UNCHANGED <<clock, deaths>>, up' \in BOOLEAN,
         \A s \in ScheduleId : FiredOK(st.row[s], st.fired[s], cut'[s]),
         \/ up' /\ Becomes(Scheduled(st, MaxSchedules, known))
         \/ ~up /\ ~up' /\ st.timer = timer /\ Becomes(st)
  PROVE  SchedInv'
  <1>1. CASE up' /\ Becomes(Scheduled(st, MaxSchedules, known))
    <2> DEFINE to == Scheduled(st, MaxSchedules, known)
    <2>1. SchedTypeOK
      BY DEF SchedInv
    <2>2. /\ to \in SchedState
          /\ \A s \in ScheduleId : RowOK(st.row, to, s, cut')
          /\ \A s \in ScheduleId : Throws(to.row[s]) <=> Throws(st.row[s])
      <3>1. /\ to \in SchedState
            /\ \A s \in ScheduleId : RowOK(st.row, to, s, cut') \/ s > MaxSchedules
            /\ \A s \in ScheduleId : Throws(to.row[s]) <=> Throws(st.row[s])
        <4>1. MaxSchedules \in 0 .. MaxSchedules
          OBVIOUS
        <4> HIDE DEF SchedInv
        <4> QED
          BY <2>1, <4>1, ScheduledFacts
      <3> QED
        BY <3>1 DEF ScheduleId
    <2> HIDE DEF to
    <2>3. Becomes(to)
      BY <1>1 DEF to
    <2>4. SchedTypeOK'
      BY <2>1, <2>2, <2>3, BecomesTypes DEF SchedTypeOK
    <2>6. \A s \in ScheduleId : Reached(st.row, s) = Reached(to.row, s)
      BY <2>2, SameReach
    <2>7. \A s \in ScheduleId : Reached(st.row, s) = Reached(row', s)
      BY <2>3, <2>6 DEF Becomes
    <2>5. \A s \in ScheduleId :
             /\ TimerOK(row'[s], timer'[s], refused'[s], clock', Reached(row', s))
             /\ FiredOK(row'[s], fired'[s], cut'[s])
      BY <2>2, <2>3, <2>7 DEF RowOK, Becomes
    <2> QED
      BY <1>1, <2>4, <2>5 DEF SchedInv
  <1>2. CASE ~up /\ ~up' /\ st.timer = timer /\ Becomes(st)
    <2>1. SchedTypeOK'
      BY <1>2, BecomesTypes DEF SchedTypeOK, SchedInv
    <2> QED
      BY <1>2, <2>1 DEF SchedInv, Becomes
  <1> QED
    BY <1>1, <1>2

\* An edit counts a row's fires from zero, or leaves its timing and its counts alone.
LEMMA EditKeeps ==
  ASSUME SchedInv, NEW s \in ScheduleId, NEW st \in SchedState, Edit(s, st),
         st.timer = timer,
         \A i \in ScheduleId \ {s} : st.row[i] = row[i] /\ st.fired[i] = fired[i],
         \/ st.fired[s] = 0
         \/ /\ st.fired[s] = fired[s] /\ st.row[s].completed = row[s].completed
            /\ st.row[s].timing = row[s].timing
  PROVE  SchedInv'
  <1>1. /\ cut' \in [ScheduleId -> BOOLEAN]
        /\ \A i \in ScheduleId \ {s} : cut'[i] = cut[i]
        /\ cut'[s] <=> cut[s] /\ st.row[s].timing = row[s].timing
    <2>1. cut \in [ScheduleId -> BOOLEAN]
      BY DEF SchedInv, SchedTypeOK
    <2> DEFINE b == cut[s] /\ st.row[s].timing = row[s].timing
    <2>2. cut' = [cut EXCEPT ![s] = b] /\ b \in BOOLEAN
      BY <2>1 DEF Edit
    <2> HIDE DEF b
    <2>3. /\ cut' \in [ScheduleId -> BOOLEAN] /\ cut'[s] = b
          /\ \A i \in ScheduleId \ {s} : cut'[i] = cut[i]
      BY <2>1, <2>2
    <2> QED
      BY <2>3 DEF b
  <1>2. ASSUME NEW i \in ScheduleId PROVE FiredOK(st.row[i], st.fired[i], cut'[i])
    <2>1. FiredOK(row[i], fired[i], cut[i])
      BY DEF SchedInv
    <2>2. CASE i # s
      BY <1>1, <2>1, <2>2
    <2>3. CASE i = s /\ st.fired[s] = 0
      BY <2>3 DEF FiredOK
    <2>4. CASE i = s /\ st.fired[s] # 0
      BY <1>1, <2>1, <2>4 DEF FiredOK, Once
    <2> QED
      BY <2>2, <2>3, <2>4
  <1>3. edits' \in 0 .. MaxEdits /\ up \in BOOLEAN
    BY DEF Edit, SchedInv, SchedTypeOK
  <1>4. PICK known \in BOOLEAN :
          /\ Becomes(IF up THEN Scheduled(st, MaxSchedules, known) ELSE st)
          /\ UNCHANGED <<clock, up, deaths>>
    BY DEF Edit, Reload
  <1>5. \/ up' /\ Becomes(Scheduled(st, MaxSchedules, known))
        \/ ~up /\ ~up' /\ st.timer = timer /\ Becomes(st)
    BY <1>3, <1>4
  <1> QED
    BY <1>1, <1>2, <1>3, <1>4, <1>5, ReloadKeeps

LEMMA RetimedState ==
  ASSUME SchedTypeOK, NEW s \in ScheduleId, NEW r \in Row \cup {NoRow}
  PROVE  /\ Retimed(Now, s, r) \in SchedState
         /\ Retimed(Now, s, r).timer = timer
         /\ \A i \in ScheduleId \ {s} : /\ Retimed(Now, s, r).row[i] = row[i]
                                        /\ Retimed(Now, s, r).fired[i] = fired[i]
         /\ Retimed(Now, s, r).fired[s] = 0
         /\ Retimed(Now, s, r).row[s] = r
  <1>1. ASSUME NEW st \in SchedState
        PROVE  Retimed(st, s, r) = [row |-> [st.row EXCEPT ![s] = r], timer |-> st.timer,
                               open |-> st.open, fired |-> [st.fired EXCEPT ![s] = 0],
                               refused |-> [st.refused EXCEPT ![s] = FALSE]]
    <2>1. Retimed(st, s, r) = [st EXCEPT !.row[s] = r, !.fired[s] = 0, !.refused[s] = FALSE]
      BY DEF Retimed
    <2> QED
      BY <2>1 DEF SchedState
  <1>2. Retimed(Now, s, r) = [row |-> [row EXCEPT ![s] = r], timer |-> timer,
                              open |-> open, fired |-> [fired EXCEPT ![s] = 0],
                              refused |-> [refused EXCEPT ![s] = FALSE]]
    BY <1>1, NowState DEF Now
  <1> QED
    BY <1>2 DEF SchedTypeOK, SchedState

\* An edit of row i, as what it makes of the records before the reload.
IsEdit(i, st) ==
  /\ Edit(i, st)
  /\ st.timer = timer
  /\ \A k \in ScheduleId \ {i} : st.row[k] = row[k] /\ st.fired[k] = fired[k]
  /\ \/ st.fired[i] = 0
     \/ /\ st.fired[i] = fired[i] /\ st.row[i].completed = row[i].completed
        /\ st.row[i].timing = row[i].timing
  /\ row[i].completed => st.row[i].completed \/ st.row[i] = NoRow

LEMMA EditForm ==
  ASSUME SchedTypeOK, OperatorEdits \/ AgentEdits
  PROVE  \E i \in ScheduleId, st \in SchedState : IsEdit(i, st)
  <1>2. ASSUME NEW s \in ScheduleId, NEW r \in Row \cup {NoRow}, Edit(s, Retimed(Now, s, r)),
               row[s].completed => r.completed \/ r = NoRow
        PROVE  \E i \in ScheduleId, st \in SchedState : IsEdit(i, st)
    <2>1. IsEdit(s, Retimed(Now, s, r)) /\ Retimed(Now, s, r) \in SchedState
      BY <1>2, RetimedState DEF IsEdit
    <2> QED
      BY <2>1
  <1>3. ASSUME NEW s \in ScheduleId, NEW timing \in Timing, NEW catchUp \in BOOLEAN,
               Create(s, timing, catchUp)
        PROVE  \E i \in ScheduleId, st \in SchedState : IsEdit(i, st)
    <2>1. [timing |-> timing, catchUp |-> catchUp, enabled |-> TRUE, age |-> Never,
           completed |-> FALSE] \in Row
      BY DEF Row, Never, Oldest
    <2>2. ~row[s].completed
      BY <1>3 DEF Create, NoRow, ScheduleId
    <2> QED
      BY <1>2, <1>3, <2>1, <2>2 DEF Create
  <1>4. ASSUME NEW s \in ScheduleId, NEW timing \in Timing, Retime(s, timing)
        PROVE  \E i \in ScheduleId, st \in SchedState : IsEdit(i, st)
    <2>1. row[s] \in Row
      BY <1>4 DEF Retime, SchedTypeOK
    <2>2. /\ [row[s] EXCEPT !.timing = timing] \in Row
          /\ [row[s] EXCEPT !.timing = timing].completed = row[s].completed
      BY <2>1 DEF Row
    <2> QED
      BY <1>2, <1>4, <2>2 DEF Retime
  <1>5. ASSUME NEW s \in ScheduleId, Remove(s)
        PROVE  \E i \in ScheduleId, st \in SchedState : IsEdit(i, st)
    BY <1>2, <1>5 DEF Remove
  <1>6. ASSUME NEW s \in ScheduleId, NEW catchUp \in BOOLEAN, NEW enabled \in BOOLEAN,
               Adjust(s, catchUp, enabled)
        PROVE  \E i \in ScheduleId, st \in SchedState : IsEdit(i, st)
    <2>1. row[s] \in Row
      BY <1>6 DEF Adjust, SchedTypeOK
    <2> DEFINE r == [row[s] EXCEPT !.catchUp = catchUp, !.enabled = enabled]
               st == [Now EXCEPT !.row[s] = r]
    <2>2. r \in Row /\ r.timing = row[s].timing /\ r.completed = row[s].completed
      BY <2>1 DEF Row
    <2>3. [Now EXCEPT !.row[s].catchUp = catchUp, !.row[s].enabled = enabled] = st
      BY <2>1 DEF Now, SchedTypeOK, Row
    <2> HIDE DEF r
    <2>4. /\ st \in SchedState /\ st.timer = timer /\ st.row[s] = r /\ st.fired = fired
          /\ \A i \in ScheduleId \ {s} : st.row[i] = row[i]
      BY <2>2 DEF Now, SchedTypeOK, SchedState
    <2>5. Edit(s, st)
      BY <1>6, <2>3 DEF Adjust
    <2> HIDE DEF st
    <2>6. IsEdit(s, st)
      BY <2>2, <2>4, <2>5 DEF IsEdit
    <2> QED
      BY <2>4, <2>6
  <1> QED
    BY <1>3, <1>4, <1>5, <1>6 DEF OperatorEdits, AgentEdits

LEMMA EditStep ==
  ASSUME SchedInv, OperatorEdits \/ AgentEdits
  PROVE  SchedInv'
  <1>1. SchedTypeOK
    BY DEF SchedInv
  <1>2. PICK i \in ScheduleId, st \in SchedState : IsEdit(i, st)
    BY <1>1, EditForm
  <1> QED
    BY <1>2, EditKeeps DEF IsEdit

\* The wall clock ends a period or goes on in it.
LEMMA Wraps ==
  ASSUME NEW k \in 0 .. Period - 1
  PROVE  (k + 1) % Period = IF k + 1 = Period THEN 0 ELSE k + 1
  BY Z3

LEMMA TickStep ==
  ASSUME SchedInv, Tick
  PROVE  SchedInv'
  <1>1. SchedTypeOK /\ \A s \in ScheduleId : timer[s] # 0
    BY DEF SchedInv, Tick
  <1>2. clock' = IF clock + 1 = Period THEN 0 ELSE clock + 1
    BY <1>1, Wraps DEF Tick, SchedTypeOK
  <1>3. ASSUME NEW s \in ScheduleId
        PROVE  /\ row'[s] \in Row \cup {NoRow}
               /\ timer'[s] \in NoTimer .. Every + Period + Ahead
               /\ FiredOK(row'[s], fired'[s], cut'[s])
               /\ up => TimerOK(row'[s], timer'[s], refused'[s], clock', Reached(row, s))
               /\ Throws(row'[s]) <=> Throws(row[s])
               /\ ~up => timer'[s] = NoTimer
    <2>1. /\ row'[s] = Older(row[s])
          /\ timer'[s] = IF timer[s] = NoTimer THEN NoTimer ELSE timer[s] - 1
          /\ timer[s] \in NoTimer .. Every + Period + Ahead /\ timer[s] # 0
          /\ row[s] \in Row \cup {NoRow}
          /\ UNCHANGED <<fired, refused, cut, up>>
      BY <1>1 DEF Tick, SchedTypeOK
    <2>2. timer'[s] \in NoTimer .. Every + Period + Ahead
      BY <2>1 DEF NoTimer
    <2>3. CASE row[s] = NoRow
      <3>1. Older(row[s]) = NoRow
        <4> DEFINE Blank == [timing : [kind : {"none"}, left : {0}], catchUp : {FALSE},
                             enabled : {FALSE}, age : {Never}, completed : {FALSE}]
        <4>1. \A q \in Blank : Older(q) \in Blank
          BY DEF Older
        <4>2. NoRow \in Blank
          BY DEF NoRow
        <4>3. \A q \in Blank : q = NoRow
          <5>1. \A n \in [kind : {"none"}, left : {0}] : n = [kind |-> "none", left |-> 0]
            OBVIOUS
          <5> TAKE q \in Blank
          <5>2. q = [timing |-> q.timing, catchUp |-> q.catchUp, enabled |-> q.enabled,
                     age |-> q.age, completed |-> q.completed]
            OBVIOUS
          <5>3. q.timing = [kind |-> "none", left |-> 0] /\ q.catchUp = FALSE
                /\ q.enabled = FALSE /\ q.age = Never /\ q.completed = FALSE
            BY <5>1
          <5> QED
            BY <5>2, <5>3 DEF NoRow
        <4> QED
          BY <2>3, <4>1, <4>2, <4>3
      <3> QED
        BY <2>1, <2>2, <2>3, <3>1 DEF SchedInv, TimerOK, FiredOK, NoRow, IsActive, Once, Throws
    <2>4. CASE row[s] \in Row
      <3> DEFINE r == row[s]
                 q == row'[s]
      <3>1. /\ r.timing \in Timing /\ r.age \in Never .. Oldest
            /\ q = [timing |-> [kind |-> r.timing.kind,
                                left |-> IF r.timing.left = 0 THEN 0 ELSE r.timing.left - 1],
                    catchUp |-> r.catchUp, enabled |-> r.enabled,
                    age |-> IF r.age \in {Never, Oldest} THEN r.age ELSE r.age + 1,
                    completed |-> r.completed]
        BY <2>1, <2>4 DEF Older, Row, Timing
      <3>2. r.timing.kind \in {"cron", "interval", "invalid", "once"} /\ r.timing.left \in 0 .. Ahead
            /\ (r.timing.kind # "once" => r.timing.left = 0)
        BY <3>1 DEF Timing
      <3>3. q.timing \in Timing
        BY <3>1, <3>2 DEF Timing
      <3>4. q.age \in Never .. Oldest
        BY <3>1 DEF Never, Oldest
      <3>5. q \in Row
        BY <2>4, <3>1, <3>3, <3>4 DEF Row
      <3>6. FiredOK(q, fired[s], cut[s])
        BY <3>1 DEF SchedInv, FiredOK, Once
      <3>7. ASSUME up PROVE TimerOK(q, timer'[s], refused[s], clock', Reached(row, s))
        <4>1. TimerOK(r, timer[s], refused[s], clock, Reached(row, s)) /\ clock \in 0 .. Period - 1
          BY <3>7 DEF SchedInv, SchedTypeOK
        <4>2. q.age <= r.age + 1
          BY <3>1 DEF Never, Oldest
        <4>3. q.timing.kind = r.timing.kind /\ q.catchUp = r.catchUp
              /\ (IsActive(q) <=> IsActive(r)) /\ (Once(q) <=> Once(r))
              /\ q.timing.left = IF r.timing.left = 0 THEN 0 ELSE r.timing.left - 1
          BY <3>1 DEF IsActive, Once
        <4>4. q.age \in Int /\ r.age \in Int
          BY <3>1, <3>4 DEF Never, Oldest
        <4> HIDE DEF q, r
        <4> QED
          BY <1>2, <2>1, <3>2, <4>1, <4>2, <4>3, <4>4 DEF TimerOK, NoTimer
      <3>8. ~up => timer'[s] = NoTimer
        BY <2>1 DEF SchedInv
      <3>9. Throws(q) <=> Throws(r)
        BY <3>1 DEF Throws, IsActive
      <3> QED
        BY <2>1, <2>2, <3>5, <3>6, <3>7, <3>8, <3>9
    <2> QED
      BY <2>1, <2>3, <2>4
  <1>4. row' \in [ScheduleId -> Row \cup {NoRow}]
        /\ timer' \in [ScheduleId -> NoTimer .. Every + Period + Ahead]
    BY <1>3 DEF Tick
  <1>5. SchedTypeOK'
    BY <1>1, <1>2, <1>4 DEF Tick, SchedTypeOK
  <1>6. \A s \in ScheduleId : Reached(row', s) = Reached(row, s)
    BY <1>3, SameReach
  <1>7. UNCHANGED up
    BY DEF Tick
  <1>8. up' => \A s \in ScheduleId :
                 TimerOK(row'[s], timer'[s], refused'[s], clock', Reached(row', s))
    BY <1>3, <1>6, <1>7
  <1> QED
    BY <1>3, <1>5, <1>7, <1>8 DEF SchedInv

LEMMA TimerDueStep ==
  ASSUME SchedInv, NEW s \in ScheduleId, TimerDue(s)
  PROVE  SchedInv'
  <1> DEFINE f == Fire(Now, s)
             to == Rearmed(f, s)
             r == row[s]
             again == CASE r.timing.kind = "interval" -> Every
                        [] r.timing.kind = "cron"     -> Period
                        [] OTHER                      -> NoTimer
  <1>1. SchedTypeOK /\ Now \in SchedState
    BY NowState DEF SchedInv
  <1>2. up /\ timer[s] = 0 /\ TimerOK(r, 0, refused[s], clock, Reached(row, s))
        /\ FiredOK(r, fired[s], cut[s])
    BY DEF TimerDue, SchedInv, NoTimer
  <1>3. IsActive(r) /\ Now.row[s] = r /\ Now.fired[s] = fired[s] /\ Now.timer[s] = 0
        /\ Reached(row, s)
    BY <1>2 DEF TimerOK, NoTimer, Now
  <1>14. ~Throws(r)
    BY <1>3, ReachedRow
  <1>4. /\ r \in Row /\ r.timing \in Timing
        /\ r.timing.kind \in {"cron", "interval", "once"}
        /\ r.timing.left \in 0 .. Ahead
        /\ r.age \in Never .. Oldest
        /\ ~r.completed
    BY <1>1, <1>3, <1>14, ActiveRow DEF SchedTypeOK
  <1>5. /\ f \in SchedState
        /\ Only(s, Now, f)
        /\ \/ f.row[s] = r /\ f.fired[s] = fired[s] /\ f.refused[s]
           \/ /\ f.row[s] = IF Once(r) THEN [r EXCEPT !.completed = TRUE]
                                       ELSE [r EXCEPT !.age = 0]
              /\ f.fired[s] = IF fired[s] = 2 THEN 2 ELSE fired[s] + 1
              /\ ~f.refused[s]
    BY <1>1, <1>3, FireFacts
  <1>6. to = [f EXCEPT !.timer[s] = again]
    BY DEF Rearmed
  <1>7. again \in NoTimer .. Every + Period + Ahead
    BY DEF NoTimer
  <1> HIDE DEF f
  <1>8. /\ to \in SchedState /\ to.row = f.row /\ to.fired = f.fired /\ to.refused = f.refused
        /\ to.timer[s] = again
        /\ \A i \in ScheduleId \ {s} : to.timer[i] = f.timer[i]
    <2> HIDE DEF again
    <2> QED
      BY <1>5, <1>6, <1>7 DEF SchedState
  <1>9. Becomes(to) /\ UNCHANGED <<cut, clock, up, edits, deaths>>
    BY DEF TimerDue, f
  <1> HIDE DEF to
  <1>10. SchedTypeOK'
    BY <1>1, <1>8, <1>9, BecomesTypes DEF SchedTypeOK
  <1>11. ASSUME NEW i \in ScheduleId \ {s}
         PROVE  /\ TimerOK(row'[i], timer'[i], refused'[i], clock', Reached(row, i))
                /\ FiredOK(row'[i], fired'[i], cut'[i])
                /\ row'[i] = row[i]
    <2>1. /\ row'[i] = row[i] /\ timer'[i] = timer[i]
          /\ refused'[i] = refused[i] /\ fired'[i] = fired[i]
      BY <1>5, <1>8, <1>9 DEF Only, Now, Becomes
    <2> QED
      BY <1>2, <1>9, <2>1 DEF SchedInv
  <1>13. clock \in 0 .. Period - 1
    BY <1>1 DEF SchedTypeOK
  <1>12. /\ TimerOK(row'[s], timer'[s], refused'[s], clock', Reached(row, s))
         /\ FiredOK(row'[s], fired'[s], cut'[s])
    <2>1. row'[s] = f.row[s] /\ timer'[s] = again /\ refused'[s] = f.refused[s]
          /\ fired'[s] = f.fired[s] /\ clock' = clock /\ cut' = cut
      BY <1>8, <1>9 DEF Becomes
    <2>2. CASE f.row[s] = r /\ f.fired[s] = fired[s] /\ f.refused[s]
      BY <1>2, <1>3, <1>4, <1>13, <2>1, <2>2 DEF TimerOK, Once, NoTimer
    <2>3. CASE /\ f.row[s] = IF Once(r) THEN [r EXCEPT !.completed = TRUE]
                                       ELSE [r EXCEPT !.age = 0]
               /\ f.fired[s] = IF fired[s] = 2 THEN 2 ELSE fired[s] + 1
               /\ ~f.refused[s]
      <3>1. CASE Once(r)
        <4>1. row'[s].completed /\ timer'[s] = NoTimer
          BY <1>4, <2>1, <2>3, <3>1 DEF Once, Row
        <4>2. fired'[s] > 1 => cut'[s]
          BY <1>1, <1>2, <1>4, <2>1, <2>3, <3>1 DEF FiredOK, SchedTypeOK
        <4> QED
          BY <4>1, <4>2 DEF TimerOK, FiredOK, IsActive, NoTimer
      <3>2. CASE ~Once(r)
        <4>1. /\ row'[s].age = 0 /\ row'[s].timing = r.timing /\ IsActive(row'[s])
              /\ ~Once(row'[s])
          BY <1>3, <1>4, <2>1, <2>3, <3>2 DEF Once, Row, IsActive
        <4> QED
          BY <1>2, <1>4, <1>13, <2>1, <4>1 DEF TimerOK, FiredOK, NoTimer, Once
      <3> QED
        BY <3>1, <3>2
    <2> QED
      BY <1>5, <2>2, <2>3
  <1>15. ~Throws(row'[s])
    <2>1. f.row[s] \in {r, [r EXCEPT !.completed = TRUE], [r EXCEPT !.age = 0]}
      BY <1>5
    <2>2. ~Throws(f.row[s])
      BY <1>4, <1>14, <2>1, MarkThrows
    <2> QED
      BY <1>8, <1>9, <2>2 DEF Becomes
  <1>16. \A i \in ScheduleId : Throws(row'[i]) <=> Throws(row[i])
    BY <1>11, <1>14, <1>15
  <1>17. \A i \in ScheduleId : Reached(row', i) = Reached(row, i)
    BY <1>16, SameReach
  <1>18. \A i \in ScheduleId : /\ TimerOK(row'[i], timer'[i], refused'[i], clock', Reached(row', i))
                               /\ FiredOK(row'[i], fired'[i], cut'[i])
    BY <1>11, <1>12, <1>17
  <1> QED
    BY <1>2, <1>9, <1>10, <1>18 DEF SchedInv

\* A process that is down has no timers, and needs only the counts of fires to be right.
LEMMA Stopped ==
  ASSUME NEW st \in SchedState, Becomes(Cleared(st)), up' = FALSE,
         cut' \in [ScheduleId -> BOOLEAN], clock' \in 0 .. Period - 1,
         edits' \in 0 .. MaxEdits, deaths' \in 0 .. MaxDeaths,
         \A s \in ScheduleId : FiredOK(st.row[s], st.fired[s], cut'[s])
  PROVE  SchedInv'
  <1> DEFINE to == Cleared(st)
  <1>1. /\ to \in SchedState /\ to.row = st.row /\ to.fired = st.fired
        /\ \A s \in ScheduleId : to.timer[s] = NoTimer
    BY ClearedFacts
  <1>2. Becomes(to)
    OBVIOUS
  <1> HIDE DEF to
  <1>3. SchedTypeOK'
    BY <1>1, <1>2, BecomesTypes DEF SchedTypeOK
  <1> QED
    BY <1>1, <1>2, <1>3 DEF SchedInv, Becomes

LEMMA StartKeeps ==
  ASSUME SchedInv, Start
  PROVE  SchedInv'
  <1>1. SchedTypeOK /\ Now \in SchedState
    BY NowState DEF SchedInv
  <1>2. PICK known \in BOOLEAN :
          LET st == Scheduled(Now, MaxSchedules, known) IN
            \/ up' = TRUE /\ Becomes(st)
            \/ up' = FALSE /\ Becomes(Cleared(st))
    BY DEF Start
  <1> DEFINE st == Scheduled(Now, MaxSchedules, known)
  <1>3. UNCHANGED <<cut, clock, edits, deaths>>
    BY DEF Start
  <1>4. cut' \in [ScheduleId -> BOOLEAN] /\ edits' \in 0 .. MaxEdits
    BY <1>1, <1>3 DEF SchedTypeOK
  <1>5. \A s \in ScheduleId : FiredOK(Now.row[s], Now.fired[s], cut'[s])
    BY <1>3 DEF SchedInv, Now
  <1>6. CASE up' = TRUE /\ Becomes(st)
    BY <1>1, <1>3, <1>4, <1>5, <1>6, ReloadKeeps
  <1>7. CASE up' = FALSE /\ Becomes(Cleared(st))
    <2>1. st \in SchedState /\ \A s \in ScheduleId : FiredOK(st.row[s], st.fired[s], cut'[s])
      <3>1. /\ Scheduled(Now, MaxSchedules, known) \in SchedState
            /\ \A s \in ScheduleId :
                 \/ RowOK(Now.row, Scheduled(Now, MaxSchedules, known), s, cut')
                 \/ s > MaxSchedules
        <4>1. MaxSchedules \in 0 .. MaxSchedules
          OBVIOUS
        <4> HIDE DEF SchedInv
        <4> QED
          BY <1>1, <1>4, <1>5, <4>1, ScheduledFacts
      <3> QED
        BY <3>1 DEF ScheduleId, RowOK
    <2> HIDE DEF st
    <2> QED
      BY <1>3, <1>4, <1>7, <2>1, Stopped DEF SchedInv, SchedTypeOK
  <1> QED
    BY <1>2, <1>6, <1>7

LEMMA DieKeeps ==
  ASSUME SchedInv, NEW st \in SchedState, Die(st), cut' \in [ScheduleId -> BOOLEAN],
         \A s \in ScheduleId : FiredOK(st.row[s], st.fired[s], cut'[s])
  PROVE  SchedInv'
  <1>1. /\ Becomes(Cleared(st)) /\ up' = FALSE /\ UNCHANGED <<clock, edits>>
        /\ deaths' \in 0 .. MaxDeaths
    BY DEF Die, SchedInv, SchedTypeOK
  <1> QED
    BY <1>1, Stopped DEF SchedInv, SchedTypeOK

\* A death between the job and the mark is what `cut` remembers.
LEMMA DiesInFireKeeps ==
  ASSUME SchedInv, NEW st \in SchedState, NEW s \in ScheduleId, DiesInFire(st, s),
         \A i \in ScheduleId : FiredOK(st.row[i], st.fired[i], cut[i])
  PROVE  SchedInv'
  <1> DEFINE p == Published(st, s)
  <1>1. IsActive(st.row[s]) /\ ~Refuses(st, s) /\ Die(p) /\ cut' = [cut EXCEPT ![s] = TRUE]
    BY DEF DiesInFire, Subscribed
  <1>2. p \in SchedState /\ Only(s, st, p)
    BY <1>1, PublishFacts
  <1>3. /\ cut' \in [ScheduleId -> BOOLEAN] /\ cut'[s]
        /\ \A i \in ScheduleId \ {s} : cut'[i] = cut[i]
    BY <1>1 DEF SchedInv, SchedTypeOK
  <1> HIDE DEF p
  <1>4. ASSUME NEW i \in ScheduleId PROVE FiredOK(p.row[i], p.fired[i], cut'[i])
    <2>1. CASE i = s
      BY <1>3, <2>1 DEF FiredOK
    <2>2. CASE i # s
      BY <1>2, <1>3, <2>2 DEF Only
    <2> QED
      BY <2>1, <2>2
  <1> QED
    BY <1>1, <1>2, <1>3, <1>4, DieKeeps

LEMMA DeathStep ==
  ASSUME SchedInv, SchedDeath
  PROVE  SchedInv'
  <1>1. SchedTypeOK /\ Now \in SchedState
    BY NowState DEF SchedInv
  <1>2. \A s \in ScheduleId : FiredOK(Now.row[s], Now.fired[s], cut[s])
    BY DEF SchedInv, Now
  <1>3. CASE Dies
    <2>1. Die(Now) /\ cut' = cut
      BY <1>3 DEF Dies
    <2>2. cut' \in [ScheduleId -> BOOLEAN]
      BY <1>1, <2>1 DEF SchedTypeOK
    <2> QED
      BY <1>1, <1>2, <2>1, <2>2, DieKeeps
  <1>4. ASSUME NEW s \in ScheduleId, DiesInTimer(s)
        PROVE  SchedInv'
    BY <1>1, <1>2, <1>4, DiesInFireKeeps DEF DiesInTimer
  <1>5. ASSUME NEW s \in ScheduleId, DiesInStart(s)
        PROVE  SchedInv'
    <2>1. PICK known \in BOOLEAN : DiesInFire(Scheduled(Now, s - 1, known), s)
      BY <1>5 DEF DiesInStart
    <2> DEFINE st == Scheduled(Now, s - 1, known)
    <2>2. s - 1 \in 0 .. MaxSchedules
      BY DEF ScheduleId
    <2>3. cut \in [ScheduleId -> BOOLEAN]
      BY <1>1 DEF SchedTypeOK
    <2>4. /\ st \in SchedState
          /\ \A i \in ScheduleId : RowOK(Now.row, st, i, cut) \/ i > s - 1
          /\ \A i \in ScheduleId : i > s - 1 => FiredOK(st.row[i], st.fired[i], cut[i])
      <3> HIDE DEF st
      <3>1. st = Scheduled(Now, s - 1, known)
        BY DEF st
      <3> QED
        BY <1>1, <1>2, <2>2, <2>3, <3>1, ScheduledFacts
    <2> HIDE DEF st
    <2>5. \A i \in ScheduleId : FiredOK(st.row[i], st.fired[i], cut[i])
      BY <2>4 DEF RowOK
    <2>6. DiesInFire(st, s)
      BY <2>1 DEF st
    <2> QED
      BY <2>4, <2>5, <2>6, DiesInFireKeeps
  <1> QED
    BY <1>3, <1>4, <1>5 DEF SchedDeath

-----------------------------------------------------------------------------
(* The theorems.                                                           *)

LEMMA SchedInvInit == SchedInit => SchedInv
  <1> SUFFICES ASSUME SchedInit PROVE SchedInv
    OBVIOUS
  <1>1. SchedTypeOK
    <2>1. row \in [ScheduleId -> Row \cup {NoRow}]
      BY DEF SchedInit
    <2>2. timer \in [ScheduleId -> NoTimer .. Every + Period + Ahead]
      BY DEF SchedInit, NoTimer
    <2>3. fired \in [ScheduleId -> 0 .. 2] /\ open \in 0 .. MaxOpenJobs
      BY DEF SchedInit
    <2>4. refused \in [ScheduleId -> BOOLEAN] /\ cut \in [ScheduleId -> BOOLEAN]
      BY DEF SchedInit
    <2>5. /\ clock \in 0 .. Period - 1 /\ up \in BOOLEAN
          /\ edits \in 0 .. MaxEdits /\ deaths \in 0 .. MaxDeaths
      <3>1. clock = 0 /\ edits = 0 /\ deaths = 0 /\ up = FALSE
        BY DEF SchedInit
      <3>2. clock \in 0 .. Period - 1 /\ edits \in 0 .. MaxEdits /\ deaths \in 0 .. MaxDeaths
        BY <3>1
      <3>3. up \in BOOLEAN
        BY <3>1, Zenon
      <3> QED
        BY <3>2, <3>3
    <2> QED
      BY <2>1, <2>2, <2>3, <2>4, <2>5 DEF SchedTypeOK
  <1>2. ~Once(NoRow)
    BY DEF Once, NoRow
  <1> QED
    BY <1>1, <1>2 DEF SchedInit, SchedInv, FiredOK

LEMMA SchedInvStep == SchedInv /\ [SchedNext]_schedVars => SchedInv'
  <1> SUFFICES ASSUME SchedInv, [SchedNext]_schedVars PROVE SchedInv'
    OBVIOUS
  <1>1. CASE OtherJob
    <2>1. UNCHANGED <<row, timer, fired, refused, cut, clock, up, edits, deaths>>
          /\ (open \in 0 .. MaxOpenJobs => open' \in 0 .. MaxOpenJobs)
      BY <1>1 DEF OtherJob, JobOpens, JobEnds
    <2> QED
      BY <2>1 DEF SchedInv, SchedTypeOK
  <1>2. CASE UNCHANGED schedVars
    BY <1>2 DEF schedVars, SchedInv, SchedTypeOK
  <1> QED
    BY <1>1, <1>2, EditStep, TickStep, StartKeeps, TimerDueStep, DeathStep
       DEF SchedNext, SchedStep

\* Reload after reload, fire after fire, rows, timers and counts stay in step.
THEOREM SchedInvariant == SchedSpec => []SchedInv
  BY SchedInvInit, SchedInvStep, PTL DEF SchedSpec

LEMMA AtPeriod ==
  ASSUME NEW n \in {0, Period}
  PROVE  n % Period = 0
  BY Z3

LEMMA SchedInvImplies == SchedInv => TimersMatchRows /\ OneOffFiresOnce /\ RoutineIsNotLate
  <1> SUFFICES ASSUME SchedInv PROVE TimersMatchRows /\ OneOffFiresOnce /\ RoutineIsNotLate
    OBVIOUS
  <1>1. OneOffFiresOnce
    BY DEF SchedInv, OneOffFiresOnce, FiredOK
  <1>2. ASSUME up, NEW s \in ScheduleId
        PROVE  /\ timer[s] # NoTimer => IsActive(row[s]) /\ Reached(row, s)
               /\ IsActive(row[s]) /\ Reached(row, s) /\ timer[s] = NoTimer =>
                    Once(row[s]) /\ refused[s]
               /\ timer[s] # NoTimer =>
                    CASE row[s].timing.kind = "once" -> timer[s] = row[s].timing.left
                      [] row[s].timing.kind = "cron" -> (timer[s] + clock) % Period = 0
                      [] OTHER                       -> timer[s] <= Every
               /\ HasRun(s) /\ Reached(row, s) /\ row[s].catchUp /\ ~refused[s] =>
                    row[s].age <= 2 * Every
    <2>1. TimerOK(row[s], timer[s], refused[s], clock, Reached(row, s))
      BY <1>2 DEF SchedInv
    <2>2. /\ row[s] \in Row \cup {NoRow}
          /\ timer[s] \in NoTimer .. Every + Period + Ahead
      BY DEF SchedInv, SchedTypeOK
    <2>3. CASE timer[s] = NoTimer
      BY <2>1, <2>3 DEF TimerOK, Once, HasRun
    <2>4. CASE timer[s] # NoTimer
      <3>1. IsActive(row[s]) /\ Reached(row, s) /\ timer[s] >= 0
        BY <2>1, <2>2, <2>4 DEF TimerOK, NoTimer
      <3>2. row[s].timing.kind \in {"cron", "interval", "once"} /\ row[s].age \in Never .. Oldest
        BY <2>2, <3>1, ActiveRow, ReachedRow
      <3>3. row[s].timing.kind = "cron" => (timer[s] + clock) % Period = 0
        BY <2>1, <2>4, AtPeriod DEF TimerOK
      <3>4. CASE row[s].timing.kind = "once"
        BY <2>1, <2>4, <3>1, <3>4 DEF TimerOK, Once, HasRun
      <3>5. CASE row[s].timing.kind = "cron"
        BY <2>4, <3>1, <3>3, <3>5 DEF HasRun
      <3>6. CASE row[s].timing.kind = "interval"
        <4>1. /\ timer[s] <= Every
              /\ row[s].catchUp /\ ~refused[s] => row[s].age + timer[s] <= 2 * Every
          BY <2>1, <2>4, <3>6 DEF TimerOK
        <4>2. row[s].catchUp /\ ~refused[s] => row[s].age <= 2 * Every
          BY <2>2, <3>1, <3>2, <4>1 DEF Never, Oldest, NoTimer
        <4> QED
          BY <2>4, <3>1, <3>6, <4>1, <4>2
      <3> QED
        BY <3>2, <3>4, <3>5, <3>6
    <2> QED
      BY <2>3, <2>4
  <1> QED
    BY <1>1, <1>2 DEF TimersMatchRows, RoutineIsNotLate

\* Every value the scheduler and its store ever hold has its type: a row no kind of timing
\* it was not given, a timer no time beyond its timing, the agent no job beyond the cap.
THEOREM SchedIsTyped == SchedSpec => []SchedTypeOK
  <1>1. SchedInv => SchedTypeOK
    BY DEF SchedInv
  <1> QED
    BY SchedInvariant, <1>1, PTL

\* Whatever edits, fires, reloads and deaths came before, the timers of a running process
\* are those its rows ask for, up to the first whose expression does not parse, and those
\* listed after it have none (#scheduleAll, scheduler.ts).
THEOREM TimersAreTheRows == SchedSpec => []TimersMatchRows
  BY SchedInvariant, SchedInvImplies, PTL

\* A one-off opens one job for the time it was set to, unless a death came between the job
\* and its mark (#fire and #scheduleOnce, scheduler.ts).
THEOREM OneOffsFireOnce == SchedSpec => []OneOffFiresOnce
  BY SchedInvariant, SchedInvImplies, PTL

\* A routine that has fired and catches up is two intervals late at most, though every
\* reload starts its timer again, as long as reloads get to its row (#schedule and
\* #catchUpIfMissed, scheduler.ts).  Of one that has never fired it says nothing.
THEOREM RoutinesAreNotLate == SchedSpec => []RoutineIsNotLate
  BY SchedInvariant, SchedInvImplies, PTL

-----------------------------------------------------------------------------
(* What is over stays over.                                                *)

\* A reload leaves alone what is not active.
LEMMA ReloadSkips ==
  ASSUME SchedInv, NEW st \in SchedState, NEW known \in BOOLEAN, NEW n \in 0 .. MaxSchedules,
         NEW s \in ScheduleId, ~IsActive(st.row[s]),
         NEW c \in [ScheduleId -> BOOLEAN],
         \A i \in ScheduleId : FiredOK(st.row[i], st.fired[i], c[i])
  PROVE  Scheduled(st, n, known) \in SchedState /\ SameCursor(s, st, Scheduled(st, n, known))
  <1>1. SchedTypeOK
    BY DEF SchedInv
  <1> HIDE DEF SchedInv
  <1> QED
    BY <1>1, ScheduledFacts

\* A completed row is left as it is, or edited: it stays completed until it is removed, and
\* its count goes back to zero at most.
StaysOver(s) ==
  /\ row'[s].completed \/ row'[s] = NoRow
  /\ fired'[s] \in {0, fired[s]}

LEMMA EditLeavesOver ==
  ASSUME SchedInv, NEW i \in ScheduleId, NEW st \in SchedState, Edit(i, st),
         \A k \in ScheduleId : FiredOK(st.row[k], st.fired[k], cut[k] \/ st.fired[k] = 0),
         NEW s \in ScheduleId, ~IsActive(st.row[s]),
         st.row[s].completed \/ st.row[s] = NoRow, st.fired[s] \in {0, fired[s]}
  PROVE  StaysOver(s)
  <1>1. PICK known \in BOOLEAN : Becomes(IF up THEN Scheduled(st, MaxSchedules, known) ELSE st)
    BY DEF Edit, Reload
  <1>2. CASE ~up
    BY <1>1, <1>2 DEF Becomes, StaysOver
  <1>3. CASE up
    <2> DEFINE c == [k \in ScheduleId |-> cut[k] \/ st.fired[k] = 0]
    <2>1. /\ c \in [ScheduleId -> BOOLEAN]
          /\ \A k \in ScheduleId : FiredOK(st.row[k], st.fired[k], c[k])
      BY DEF SchedInv, SchedTypeOK
    <2> HIDE DEF c
    <2>2. SameCursor(s, st, Scheduled(st, MaxSchedules, known))
      BY <2>1, ReloadSkips
    <2> QED
      BY <1>1, <1>3, <2>2 DEF Becomes, StaysOver, SameCursor
  <1> QED
    BY <1>2, <1>3

\* What is completed has fired for the last time: whatever edits, reloads, timers, restarts
\* and deaths come, its row stays completed until it is removed and opens no further job
\* (markCompleted, schedules-store.ts; #scheduleAll, scheduler.ts).
CompletedIsFinal ==
  [][\A s \in ScheduleId : row[s].completed => StaysOver(s)]_schedVars

LEMMA OverStep ==
  ASSUME SchedInv, [SchedNext]_schedVars, NEW s \in ScheduleId, row[s].completed
  PROVE  StaysOver(s)
  <1>1. SchedTypeOK /\ Now \in SchedState /\ row[s] \in Row \cup {NoRow}
    BY NowState DEF SchedInv, SchedTypeOK
  <1>2. ~IsActive(row[s]) /\ row[s] \in Row
    BY <1>1 DEF IsActive, NoRow
  <1>3. /\ Now.row = row /\ Now.fired = fired /\ cut \in [ScheduleId -> BOOLEAN]
        /\ \A k \in ScheduleId : FiredOK(Now.row[k], Now.fired[k], cut[k])
    BY <1>1 DEF Now, SchedInv, SchedTypeOK
  <1>4. CASE OperatorEdits \/ AgentEdits
    <2>1. PICK i \in ScheduleId, st \in SchedState : IsEdit(i, st)
      BY <1>1, <1>4, EditForm
    <2>2. ASSUME NEW k \in ScheduleId
          PROVE  FiredOK(st.row[k], st.fired[k], cut[k] \/ st.fired[k] = 0)
      <3>1. FiredOK(row[k], fired[k], cut[k])
        BY <1>3
      <3> QED
        BY <2>1, <3>1 DEF IsEdit, FiredOK, Once
    <2>3. /\ st.row[s].completed \/ st.row[s] = NoRow
          /\ st.fired[s] \in {0, fired[s]}
      BY <2>1 DEF IsEdit
    <2>4. ~IsActive(st.row[s])
      BY <2>3 DEF IsActive, NoRow
    <2> QED
      BY <2>1, <2>2, <2>3, <2>4, EditLeavesOver DEF IsEdit
  <1>5. CASE Tick
    <2>1. row'[s] = Older(row[s]) /\ fired' = fired
      BY <1>5 DEF Tick
    <2> QED
      BY <1>2, <2>1 DEF Older, Row, StaysOver
  <1>6. ASSUME NEW i \in ScheduleId, TimerDue(i)
        PROVE  StaysOver(s)
    <2>1. TimerOK(row[i], 0, refused[i], clock, Reached(row, i))
      BY <1>6 DEF SchedInv, TimerDue, NoTimer
    <2>2. IsActive(Now.row[i]) /\ i # s
      BY <1>2, <1>3, <2>1 DEF TimerOK, NoTimer
    <2>3. Fire(Now, i) \in SchedState /\ SameCursor(s, Now, Fire(Now, i))
      <3>1. Fire(Now, i) \in SchedState /\ Only(i, Now, Fire(Now, i))
        BY <1>1, <2>2, FireFacts
      <3> QED
        BY <2>2, <3>1 DEF Only, SameCursor
    <2>4. SameCursor(s, Now, Rearmed(Fire(Now, i), i))
      BY <2>3 DEF Rearmed, SameCursor, SchedState
    <2> QED
      BY <1>3, <1>6, <2>4, <1>2 DEF TimerDue, Becomes, SameCursor, StaysOver
  <1>7. CASE Start
    <2>1. PICK known \in BOOLEAN :
            LET st == Scheduled(Now, MaxSchedules, known) IN
              Becomes(st) \/ Becomes(Cleared(st))
      BY <1>7 DEF Start
    <2>2. /\ Scheduled(Now, MaxSchedules, known) \in SchedState
          /\ SameCursor(s, Now, Scheduled(Now, MaxSchedules, known))
      BY <1>1, <1>2, <1>3, ReloadSkips
    <2> QED
      BY <1>2, <1>3, <2>1, <2>2, ClearedFacts DEF Becomes, SameCursor, StaysOver
  <1>8. ASSUME NEW i \in ScheduleId, NEW st \in SchedState, SameCursor(s, Now, st),
               DiesInFire(st, i)
        PROVE  StaysOver(s)
    <2>1. IsActive(st.row[i]) /\ ~Refuses(st, i) /\ Die(Published(st, i))
      BY <1>8 DEF DiesInFire, Subscribed
    <2>2. i # s
      BY <1>2, <1>3, <1>8, <2>1 DEF SameCursor
    <2>3. Published(st, i) \in SchedState /\ SameCursor(s, st, Published(st, i))
      BY <2>1, <2>2, PublishFacts DEF Only, SameCursor
    <2> QED
      BY <1>2, <1>3, <1>8, <2>1, <2>3 DEF Die, Becomes, SameCursor, StaysOver, SchedState, Cleared
  <1>9. CASE Dies
    BY <1>2, <1>3, <1>9 DEF Dies, Die, Becomes, StaysOver, Now, Cleared
  <1>10. ASSUME NEW i \in ScheduleId, DiesInTimer(i)
         PROVE  StaysOver(s)
    BY <1>1, <1>8, <1>10 DEF DiesInTimer, SameCursor
  <1>11. ASSUME NEW i \in ScheduleId, DiesInStart(i)
         PROVE  StaysOver(s)
    <2>1. PICK known \in BOOLEAN : DiesInFire(Scheduled(Now, i - 1, known), i)
      BY <1>11 DEF DiesInStart
    <2>2. i - 1 \in 0 .. MaxSchedules
      BY DEF ScheduleId
    <2>3. /\ Scheduled(Now, i - 1, known) \in SchedState
          /\ SameCursor(s, Now, Scheduled(Now, i - 1, known))
      BY <1>1, <1>2, <1>3, <2>2, ReloadSkips
    <2> QED
      BY <1>8, <2>1, <2>3
  <1>12. CASE OtherJob
    BY <1>2, <1>12 DEF OtherJob, JobOpens, JobEnds, StaysOver
  <1>13. CASE UNCHANGED schedVars
    BY <1>2, <1>13 DEF schedVars, StaysOver
  <1> QED
    BY <1>4, <1>5, <1>6, <1>7, <1>9, <1>10, <1>11, <1>12, <1>13
       DEF SchedNext, SchedStep, SchedDeath

\* What is completed has fired for the last time (CompletedIsFinal).
THEOREM CompletedStaysOver == SchedSpec => CompletedIsFinal
  <1>1. SchedInv /\ [SchedNext]_schedVars =>
          [\A s \in ScheduleId : row[s].completed => StaysOver(s)]_schedVars
    BY OverStep
  <1> QED
    BY <1>1, SchedInvariant, PTL DEF SchedSpec, CompletedIsFinal
=============================================================================
