----------------------------- MODULE JobsProofs -----------------------------
(***************************************************************************)
(* Proofs about the jobs coordinator, for every staff, every bound and     *)
(* every set of overrun policies.                                          *)
(***************************************************************************)
EXTENDS JobJoins, FiniteSetTheorems, WellFoundedInduction, TLAPS

USE AgentAssumption, BoundAssumption, OverrunAssumption

-----------------------------------------------------------------------------
(* Types.                                                                  *)

\* #resumeParentIfReady moves at most one job, from waiting_children to working.
LEMMA ResumeTypes ==
  ASSUME NEW st \in [JobId -> Open \cup Terminal \cup {"none"}],
         NEW p \in JobId \cup {NoParent}
  PROVE  ResumeParentIfReady(st, p) \in [JobId -> Open \cup Terminal \cup {"none"}]
  BY DEF ResumeParentIfReady, Open

LEMMA SettleTypes ==
  ASSUME TypeOK, NEW j \in JobId, NEW final \in Terminal, Settle(j, final),
         stopping' \subseteq JobId
  PROVE  TypeOK'
  <1>1. [state EXCEPT ![j] = final] \in [JobId -> Open \cup Terminal \cup {"none"}]
    BY DEF TypeOK
  <1>2. parent[j] \in JobId \cup {NoParent}
    BY DEF TypeOK
  <1> QED
    BY <1>1, <1>2, ResumeTypes DEF Settle, Unheard, TypeOK, family, clock

LEMMA InsertTypes ==
  ASSUME TypeOK, NEW j \in JobId, NEW a \in Agent, NEW p \in JobId \cup {NoParent},
         NEW awaits \in BOOLEAN, NEW policy \in Overrun \cup {"none"},
         Insert(j, a, p, awaits, policy)
  PROVE  /\ assignee' \in [JobId -> Agent \cup {NoAgent}]
         /\ parent' \in [JobId -> JobId \cup {NoParent}]
         /\ depth' \in [JobId -> Nat]
         /\ awaited' \in [JobId -> BOOLEAN]
         /\ deadline' \in [JobId -> {"none", "ahead", "past"}]
         /\ overrun' \in [JobId -> {"none", "notify", "fail"}]
         /\ UNCHANGED <<escalated, told>>
  <1>1. DepthUnder(p) \in Nat
    BY DEF DepthUnder, TypeOK
  <1> QED
    BY <1>1 DEF Insert, TypeOK

LEMMA EscalateTypes ==
  ASSUME TypeOK, NEW marked \in SUBSET JobId, NEW swept \in SUBSET JobId,
         Escalate(marked, swept), stopping' \subseteq JobId
  PROVE  TypeOK'
  BY DEF Escalate, TypeOK, Terminal, family

LEMMA TypeInit == Init => TypeOK
  BY DEF Init, TypeOK, NoParent

LEMMA TypeStep == TypeOK /\ [Next]_vars => TypeOK'
  <1> SUFFICES ASSUME TypeOK, [Next]_vars PROVE TypeOK'
    OBVIOUS
  <1>1. ASSUME NEW j \in JobId, NEW a \in Agent, NEW p \in JobId \cup {NoParent},
               NEW awaits \in BOOLEAN, NEW policy \in Overrun \cup {"none"},
               Create(j, a, p, awaits, policy)
        PROVE  TypeOK'
    <2>1. state' \in [JobId -> Open \cup Terminal \cup {"none"}]
      BY <1>1 DEF Create, TypeOK, Open
    <2>2. revived' \subseteq JobId
      BY <1>1 DEF Create, TypeOK, NoParent
    <2>3. Insert(j, a, p, awaits, policy)
      BY <1>1 DEF Create
    <2>4. stopping' \subseteq JobId /\ silent' \subseteq JobId
      BY <1>1 DEF Create, TypeOK
    <2>5. /\ assignee' \in [JobId -> Agent \cup {NoAgent}]
          /\ parent' \in [JobId -> JobId \cup {NoParent}]
          /\ depth' \in [JobId -> Nat]
          /\ awaited' \in [JobId -> BOOLEAN]
          /\ deadline' \in [JobId -> {"none", "ahead", "past"}]
          /\ overrun' \in [JobId -> {"none", "notify", "fail"}]
          /\ UNCHANGED <<escalated, told>>
      BY <2>3, InsertTypes
    <2> QED
      BY <2>1, <2>2, <2>4, <2>5 DEF TypeOK
  <1>2. ASSUME NEW j \in JobId, MarkWorking(j) \/ Pause(j) \/ Resume(j) \/ StopBegin(j)
        PROVE  TypeOK'
    BY <1>2 DEF MarkWorking, Pause, Resume, StopBegin, TypeOK, Open, family, clock
  <1>3. ASSUME NEW j \in JobId, NEW to \in Agent, Handoff(j, to)
        PROVE  TypeOK'
    BY <1>3 DEF Handoff, TypeOK, Open, family, clock
  <1>4. ASSUME NEW j \in JobId, Restart(j)
        PROVE  TypeOK'
    BY <1>4 DEF Restart, TypeOK, Open, family, clock
  <1>5. ASSUME NEW j \in JobId, Close(j) \/ Fail(j) \/ StopFinish(j) \/ RecordStop(j) \/ Cancel(j)
        PROVE  TypeOK'
    BY <1>5, SettleTypes DEF Close, Fail, StopFinish, RecordStop, Cancel, TypeOK, Terminal
  <1>6. ASSUME NEW j \in JobId, NEW when \in {"none", "ahead"},
               NEW policy \in Overrun \cup {"none"}, NewDeadline(j, when, policy)
        PROVE  TypeOK'
    BY <1>6 DEF NewDeadline, TypeOK, family
  <1>7. ASSUME NEW j \in JobId, DeadlinePasses(j)
        PROVE  TypeOK'
    BY <1>7 DEF DeadlinePasses, TypeOK, family
  <1>8. CASE SweepDeadlines
    <2>1. Due \in SUBSET JobId
      BY DEF Due
    <2>2. Escalate(Due, Due) /\ stopping' \subseteq JobId
      BY <1>8 DEF SweepDeadlines, TypeOK
    <2> QED
      BY <2>1, <2>2, EscalateTypes
  <1>9. CASE Crash
    BY <1>9 DEF Crash, TypeOK, family, clock
  <1>10. ASSUME NEW j \in JobId, NEW a \in Agent, NEW p \in JobId,
                NEW policy \in Overrun \cup {"none"}, CrashInCreate(j, a, p, policy)
         PROVE  TypeOK'
    BY <1>10, InsertTypes DEF CrashInCreate, TypeOK, Open
  <1>11. ASSUME NEW j \in JobId, NEW final \in Terminal, CrashInSettle(j, final)
         PROVE  TypeOK'
    BY <1>11 DEF CrashInSettle, TypeOK, family, clock
  <1>12. ASSUME NEW k \in JobId, NEW swept \in SUBSET JobId, CrashInSweep(k, swept)
         PROVE  TypeOK'
    BY <1>12, EscalateTypes DEF CrashInSweep
  <1>13. CASE UNCHANGED vars
    BY <1>13 DEF vars, family, clock, TypeOK
  <1> QED
    BY <1>1, <1>2, <1>3, <1>4, <1>5, <1>6, <1>7, <1>8, <1>9, <1>10, <1>11, <1>12, <1>13
       DEF Next, AgentStep, OperatorStep, SystemStep, CrashStep, SetDeadline, ClearDeadline

\* Every value the coordinator ever writes has its column's type (jobs.ts).
THEOREM TypeCorrect == Spec => []TypeOK
  BY TypeInit, TypeStep, PTL DEF Spec

-----------------------------------------------------------------------------
(* The tree.                                                               *)

\* A stop under way is the stop of a row that exists: without it, StopFinish
\* could write a state into a row that was never inserted.
StoppingExist == \A j \in stopping : Exists(j)

\* Rows are never deleted; settling one adds none.
LEMMA SettleRows ==
  ASSUME TypeOK, NEW j \in JobId, NEW final \in Terminal, Exists(j), Settle(j, final)
  PROVE  \A i \in JobId : Exists(i)' <=> Exists(i)
  <1> DEFINE st == [state EXCEPT ![j] = final]
  <1>1. \A i \in JobId : st[i] # "none" <=> state[i] # "none"
    BY DEF Exists, Terminal, TypeOK
  <1>2. st \in [JobId -> Open \cup Terminal \cup {"none"}]
    BY DEF TypeOK
  <1>3. state' = ResumeParentIfReady(st, parent[j])
    BY DEF Settle
  <1> HIDE DEF st
  <1>4. parent[j] \in JobId \cup {NoParent}
    BY DEF TypeOK
  <1> QED
    BY <1>1, <1>2, <1>3, <1>4 DEF ResumeParentIfReady, Exists

\* A step that leaves the family alone and adds no row keeps the tree.
LEMMA TreeKept ==
  ASSUME TypeOK, TreeInv, UNCHANGED family, \A i \in JobId : Exists(i)' <=> Exists(i),
         \A i \in JobId : ~Exists(i) => escalated'[i] = escalated[i] /\ told'[i] = told[i]
  PROVE  TreeInv'
  BY DEF TreeInv, family, Exists, TypeOK

\* An insert under an existing parent keeps it.
LEMMA TreeInsert ==
  ASSUME TypeOK, TreeInv, NEW j \in JobId, NEW a \in Agent,
         NEW p \in JobId \cup {NoParent}, NEW awaits \in BOOLEAN,
         NEW policy \in Overrun \cup {"none"},
         CanCreate(j, a, p), Insert(j, a, p, awaits, policy), awaits => p # NoParent,
         \A i \in JobId : state'[i] # "none" <=> state[i] # "none" \/ i = j
  PROVE  TreeInv'
  <1>1. ~Exists(j) /\ (\A i \in JobId : i < j => Exists(i)) /\ (p # NoParent => Exists(p))
    BY DEF CanCreate, Fresh
  <1>2. p # NoParent => p \in JobId /\ p < j
    BY <1>1 DEF Exists, TreeInv, JobId, NoParent
  <1> QED
    BY <1>1, <1>2 DEF TreeInv, Insert, CanCreate, DepthUnder, Exists, TypeOK

LEMMA TreeStep ==
  ASSUME TypeOK, StoppingExist, TreeInv, [Next]_vars
  PROVE  StoppingExist' /\ TreeInv'
  <1>1. ASSUME NEW j \in JobId, NEW a \in Agent, NEW p \in JobId \cup {NoParent},
               NEW awaits \in BOOLEAN, NEW policy \in Overrun \cup {"none"},
               Create(j, a, p, awaits, policy)
        PROVE  StoppingExist' /\ TreeInv'
    <2>1. \A i \in JobId : state'[i] # "none" <=> state[i] # "none" \/ i = j
      BY <1>1 DEF Create, CanCreate, Exists, TypeOK, NoParent
    <2>2. StoppingExist'
      BY <1>1, <2>1 DEF Create, StoppingExist, Exists, TypeOK
    <2> QED
      BY <1>1, <2>1, <2>2, TreeInsert DEF Create
  <1>2. ASSUME NEW j \in JobId, NEW a \in Agent, NEW p \in JobId,
               NEW policy \in Overrun \cup {"none"}, CrashInCreate(j, a, p, policy)
        PROVE  StoppingExist' /\ TreeInv'
    <2>1. \A i \in JobId : state'[i] # "none" <=> state[i] # "none" \/ i = j
      BY <1>2 DEF CrashInCreate, TypeOK
    <2>2. CanCreate(j, a, p) /\ Insert(j, a, p, TRUE, policy) /\ StoppingExist'
      BY <1>2 DEF CrashInCreate, StoppingExist
    <2>3. p \in JobId \cup {NoParent} /\ p # NoParent
      BY DEF JobId, NoParent
    <2>4. TreeInv'
      BY <2>1, <2>2, <2>3, TreeInsert
    <2> QED
      BY <2>2, <2>4
  <1>3. ASSUME NEW j \in JobId,
               MarkWorking(j) \/ (\E to \in Agent : Handoff(j, to)) \/ Restart(j)
                 \/ Pause(j) \/ Resume(j) \/ StopBegin(j) \/ DeadlinePasses(j)
        PROVE  StoppingExist' /\ TreeInv'
    <2>1. UNCHANGED family /\ UNCHANGED <<escalated, told>>
      BY <1>3 DEF MarkWorking, Handoff, Restart, Pause, Resume, StopBegin, DeadlinePasses, clock
    <2>2. \A i \in JobId : Exists(i)' <=> Exists(i)
      BY <1>3 DEF MarkWorking, Handoff, Restart, Pause, Resume, StopBegin, DeadlinePasses,
                  Exists, IsOpen, Open, TypeOK
    <2>3. stopping' \subseteq stopping \cup {i \in JobId : Exists(i)}
      BY <1>3 DEF MarkWorking, Handoff, Restart, Pause, Resume, StopBegin, DeadlinePasses,
                  Exists, IsOpen, Open
    <2> QED
      BY <2>1, <2>2, <2>3, TreeKept DEF StoppingExist, TypeOK
  <1>4. ASSUME NEW j \in JobId, Close(j) \/ Fail(j) \/ StopFinish(j) \/ RecordStop(j) \/ Cancel(j)
        PROVE  StoppingExist' /\ TreeInv'
    <2>1. Exists(j)
      BY <1>4 DEF Close, Fail, StopFinish, RecordStop, Cancel, IsOpen, Open, Exists, StoppingExist
    <2>2. PICK final \in Terminal : Settle(j, final)
      BY <1>4 DEF Close, Fail, StopFinish, RecordStop, Cancel, Terminal
    <2>3. stopping' \subseteq stopping
      BY <1>4 DEF Close, Fail, StopFinish, RecordStop, Cancel
    <2>4. \A i \in JobId : Exists(i)' <=> Exists(i)
      BY <2>1, <2>2, SettleRows
    <2>5. UNCHANGED family /\ UNCHANGED <<escalated, told>>
      BY <2>2 DEF Settle, clock
    <2> QED
      BY <2>3, <2>4, <2>5, TreeKept DEF StoppingExist, TypeOK
  <1>5. ASSUME NEW j \in JobId, NEW when \in {"none", "ahead"},
               NEW policy \in Overrun \cup {"none"}, NewDeadline(j, when, policy)
        PROVE  StoppingExist' /\ TreeInv'
    <2>1. \A i \in JobId : ~Exists(i) => escalated'[i] = escalated[i] /\ told'[i] = told[i]
      BY <1>5 DEF NewDeadline, IsOpen, Open, Exists, TypeOK
    <2> QED
      BY <1>5, <2>1, TreeKept DEF NewDeadline, StoppingExist, Exists
  <1>6. ASSUME NEW marked \in SUBSET Due, NEW swept \in SUBSET Due, Escalate(marked, swept),
               stopping' \subseteq stopping
        PROVE  StoppingExist' /\ TreeInv'
    <2>1. \A i \in Due : Exists(i)
      BY DEF Due, Sweepable, Exists
    <2>2. \A i \in JobId : Exists(i)' <=> Exists(i)
      BY <1>6, <2>1 DEF Escalate, Exists
    <2>3. \A i \in JobId : ~Exists(i) => escalated'[i] = escalated[i] /\ told'[i] = told[i]
      BY <1>6, <2>1 DEF Escalate, TypeOK
    <2> QED
      BY <1>6, <2>2, <2>3, TreeKept DEF Escalate, StoppingExist, TypeOK
  <1>7. ASSUME NEW j \in JobId, NEW final \in Terminal, CrashInSettle(j, final)
        PROVE  StoppingExist' /\ TreeInv'
    <2>1. Exists(j)
      BY <1>7 DEF CrashInSettle, IsOpen, Open, Exists, StoppingExist
    <2>2. \A i \in JobId : Exists(i)' <=> Exists(i)
      BY <1>7, <2>1 DEF CrashInSettle, Exists, Terminal, TypeOK
    <2> QED
      BY <1>7, <2>2, TreeKept DEF CrashInSettle, clock, StoppingExist
  <1>8. CASE Crash
    BY <1>8, TreeKept DEF Crash, clock, StoppingExist, Exists
  <1>9. CASE UNCHANGED vars
    BY <1>9, TreeKept DEF vars, clock, StoppingExist, Exists
  <1>10. SweepDeadlines => StoppingExist' /\ TreeInv'
    BY <1>6 DEF SweepDeadlines
  <1>11. ASSUME NEW k \in JobId, NEW swept \in SUBSET JobId, CrashInSweep(k, swept)
         PROVE  StoppingExist' /\ TreeInv'
    <2>1. swept \cup {k} \in SUBSET Due /\ swept \in SUBSET Due
      BY <1>11 DEF CrashInSweep
    <2> QED
      BY <1>11, <2>1, <1>6 DEF CrashInSweep
  <1> QED
    BY <1>1, <1>2, <1>3, <1>4, <1>5, <1>7, <1>8, <1>9, <1>10, <1>11
       DEF Next, AgentStep, OperatorStep, SystemStep, CrashStep, SetDeadline, ClearDeadline

\* The tree of jobs is well founded and no deeper than the cap, whatever is opened
\* under which parent, and wherever the process dies (create, jobs.ts).
THEOREM TreeAlways == Spec => []TreeInv
  <1>1. Init => StoppingExist /\ TreeInv
    BY DEF Init, StoppingExist, TreeInv, Exists
  <1>2. TypeOK /\ StoppingExist /\ TreeInv /\ [Next]_vars => StoppingExist' /\ TreeInv'
    BY TreeStep
  <1> QED
    BY <1>1, <1>2, TypeInit, TypeStep, PTL DEF Spec

-----------------------------------------------------------------------------
(* Waiting.                                                                *)

\* While a parent waits, its reason to wait survives a step that leaves the tree
\* alone, sets no other job waiting, and forgets nobody it may be waiting for.
LEMMA ReasonKept ==
  ASSUME WaitingHasReason, UNCHANGED family,
         \A q \in JobId : state'[q] = "waiting_children" =>
           /\ state[q] = "waiting_children"
           /\ \A c \in JobId : WaitingOn(q, c) /\ (IsOpen(c) \/ c \in silent) =>
                IsOpen(c)' \/ c \in silent'
  PROVE  WaitingHasReason'
  BY DEF WaitingHasReason, WaitingOn, family

\* Settling a job: a parent left waiting has another open awaited child, and any
\* other job that waits does not wait for this one.
LEMMA SettleReason ==
  ASSUME TypeOK, WaitingHasReason, NEW j \in JobId, NEW final \in Terminal, Settle(j, final)
  PROVE  WaitingHasReason'
  <1> DEFINE st == [state EXCEPT ![j] = final]
  <1>1. \A i \in JobId : st[i] = IF i = j THEN final ELSE state[i]
    BY DEF TypeOK
  <1>2. st \in [JobId -> Open \cup Terminal \cup {"none"}]
    BY DEF TypeOK
  <1>3. state' = ResumeParentIfReady(st, parent[j]) /\ UNCHANGED family /\ silent' = Unheard(j)
    BY DEF Settle
  <1> HIDE DEF st
  <1>4. ASSUME NEW q \in JobId, state'[q] = "waiting_children"
        PROVE  \E c \in JobId : WaitingOn(q, c)' /\ (IsOpen(c)' \/ c \in silent')
    <2>1. st[q] = "waiting_children" /\ q # j /\ state[q] = "waiting_children"
      BY <1>1, <1>2, <1>3, <1>4 DEF ResumeParentIfReady, Terminal
    <2>2. CASE q = parent[j]
      <3>1. HasOpenAwaitedChild(st, q)
        BY <1>2, <1>3, <1>4, <2>1, <2>2 DEF ResumeParentIfReady, JobId, NoParent
      <3>2. state' = st
        BY <1>3, <2>2, <3>1 DEF ResumeParentIfReady
      <3> QED
        BY <1>3, <3>1, <3>2 DEF HasOpenAwaitedChild, WaitingOn, IsOpen, family
    <2>3. CASE q # parent[j]
      <3>1. PICK c \in JobId : WaitingOn(q, c) /\ (IsOpen(c) \/ c \in silent)
        BY <2>1 DEF WaitingHasReason
      <3>2. c # j
        BY <2>3, <3>1 DEF WaitingOn
      <3>3. IsOpen(c) => IsOpen(c)'
        BY <1>1, <1>2, <1>3, <3>2 DEF ResumeParentIfReady, IsOpen, Open
      <3>4. c \in silent => c \in silent'
        BY <1>3, <2>3, <3>1 DEF Unheard, WaitingOn
      <3> QED
        BY <1>3, <3>1, <3>3, <3>4 DEF WaitingOn, family
    <2> QED
      BY <2>2, <2>3
  <1> QED
    BY <1>4 DEF WaitingHasReason

\* An insert: a new job waits for nobody, and nobody loses a child to it.
LEMMA InsertReason ==
  ASSUME TypeOK, TreeInv, WaitingHasReason, NEW j \in JobId, NEW a \in Agent,
         NEW p \in JobId \cup {NoParent}, NEW awaits \in BOOLEAN,
         NEW policy \in Overrun \cup {"none"},
         CanCreate(j, a, p), Insert(j, a, p, awaits, policy), silent' = silent,
         state'[j] = "assigned",
         \A q \in JobId \ {j} :
           \/ state'[q] = state[q]
           \/ q = p /\ awaits /\ state'[q] = "waiting_children"
  PROVE  WaitingHasReason'
  <1>1. ~Exists(j)
    BY DEF CanCreate, Fresh
  <1>2. \A c \in JobId : parent[c] \in JobId => c # j
    BY <1>1 DEF TreeInv, JobId, NoParent
  <1>3. \A c, q \in JobId : WaitingOn(q, c) => c # j /\ WaitingOn(q, c)'
    BY <1>2 DEF WaitingOn, Insert, TypeOK
  <1>4. \A c \in JobId : IsOpen(c) => IsOpen(c)'
    BY DEF IsOpen, Open
  <1>5. ASSUME NEW q \in JobId, state'[q] = "waiting_children"
        PROVE  \E c \in JobId : WaitingOn(q, c)' /\ (IsOpen(c)' \/ c \in silent')
    <2>1. CASE state[q] = "waiting_children"
      BY <1>3, <1>4, <2>1 DEF WaitingHasReason
    <2>2. CASE state[q] # "waiting_children"
      <3>1. q = p /\ awaits
        BY <1>5, <2>2
      <3>2. WaitingOn(q, j)'
        BY <3>1 DEF WaitingOn, Insert, TypeOK
      <3> QED
        BY <3>2 DEF IsOpen, Open
    <2> QED
      BY <2>1, <2>2
  <1> QED
    BY <1>5 DEF WaitingHasReason

LEMMA ReasonStep ==
  ASSUME TypeOK, TreeInv, WaitingHasReason, [Next]_vars
  PROVE  WaitingHasReason'
  <1>1. ASSUME NEW j \in JobId, NEW a \in Agent, NEW p \in JobId \cup {NoParent},
               NEW awaits \in BOOLEAN, NEW policy \in Overrun \cup {"none"},
               Create(j, a, p, awaits, policy)
        PROVE  WaitingHasReason'
    <2>1. p # j
      BY <1>1 DEF Create, CanCreate, Fresh, JobId, NoParent
    <2>2. /\ state'[j] = "assigned"
          /\ \A q \in JobId \ {j} :
               \/ state'[q] = state[q]
               \/ q = p /\ awaits /\ state'[q] = "waiting_children"
      BY <1>1, <2>1 DEF Create, TypeOK
    <2>3. CanCreate(j, a, p) /\ Insert(j, a, p, awaits, policy) /\ silent' = silent
      BY <1>1 DEF Create
    <2> QED
      BY <2>2, <2>3, InsertReason
  <1>2. ASSUME NEW j \in JobId, NEW a \in Agent, NEW p \in JobId,
               NEW policy \in Overrun \cup {"none"}, CrashInCreate(j, a, p, policy)
        PROVE  WaitingHasReason'
    <2>1. state'[j] = "assigned" /\ \A q \in JobId \ {j} : state'[q] = state[q]
      BY <1>2 DEF CrashInCreate, TypeOK
    <2>2. CanCreate(j, a, p) /\ Insert(j, a, p, TRUE, policy) /\ silent' = silent
      BY <1>2 DEF CrashInCreate
    <2>3. p \in JobId \cup {NoParent}
      OBVIOUS
    <2> QED
      BY <2>1, <2>2, <2>3, InsertReason
  <1>3. ASSUME NEW j \in JobId,
               MarkWorking(j) \/ (\E to \in Agent : Handoff(j, to)) \/ Restart(j)
                 \/ Pause(j) \/ Resume(j)
        PROVE  WaitingHasReason'
    <2>1. \A i \in JobId \ {j} : state'[i] = state[i]
      BY <1>3 DEF MarkWorking, Handoff, Restart, Pause, Resume, TypeOK
    <2>2. IsOpen(j)' /\ state'[j] # "waiting_children"
      BY <1>3 DEF MarkWorking, Handoff, Restart, Pause, Resume, IsOpen, Open, TypeOK
    <2>3. UNCHANGED family /\ silent \ {j} \subseteq silent'
      BY <1>3 DEF MarkWorking, Handoff, Restart, Pause, Resume
    <2> QED
      BY <2>1, <2>2, <2>3, ReasonKept DEF IsOpen
  <1>4. ASSUME NEW j \in JobId, Close(j) \/ Fail(j) \/ StopFinish(j) \/ RecordStop(j) \/ Cancel(j)
        PROVE  WaitingHasReason'
    <2>1. PICK final \in Terminal : Settle(j, final)
      BY <1>4 DEF Close, Fail, StopFinish, RecordStop, Cancel, Terminal
    <2> QED
      BY <2>1, SettleReason
  <1>5. ASSUME UNCHANGED <<state, family, silent>>
        PROVE  WaitingHasReason'
    BY <1>5, ReasonKept DEF IsOpen
  <1>6. ASSUME NEW marked \in SUBSET Due, NEW swept \in SUBSET Due, Escalate(marked, swept)
        PROVE  WaitingHasReason'
    <2> DEFINE failing == {i \in swept : overrun[i] = "fail"}
    <2>1. /\ \A i \in JobId : state'[i] = IF i \in failing THEN "failed" ELSE state[i]
          /\ silent' = silent \cup failing
          /\ UNCHANGED family
      BY <1>6 DEF Escalate
    <2> HIDE DEF failing
    <2> QED
      BY <2>1, ReasonKept DEF IsOpen
  <1>7. ASSUME NEW j \in JobId, NEW final \in Terminal, CrashInSettle(j, final)
        PROVE  WaitingHasReason'
    <2>1. \A i \in JobId : state'[i] = IF i = j THEN final ELSE state[i]
      BY <1>7 DEF CrashInSettle, TypeOK
    <2>2. final # "waiting_children" /\ UNCHANGED family /\ silent' = silent \cup {j}
      BY <1>7 DEF CrashInSettle, Terminal
    <2> QED
      BY <2>1, <2>2, ReasonKept DEF IsOpen
  <1>8. ASSUME NEW j \in JobId, StopBegin(j) \/ DeadlinePasses(j)
        PROVE  WaitingHasReason'
    BY <1>5, <1>8 DEF StopBegin, DeadlinePasses
  <1>9. ASSUME NEW j \in JobId, NEW when \in {"none", "ahead"},
               NEW policy \in Overrun \cup {"none"}, NewDeadline(j, when, policy)
        PROVE  WaitingHasReason'
    BY <1>5, <1>9 DEF NewDeadline
  <1>10. Crash \/ UNCHANGED vars => WaitingHasReason'
    BY <1>5 DEF Crash, vars
  <1>11. SweepDeadlines => WaitingHasReason'
    BY <1>6 DEF SweepDeadlines
  <1>12. ASSUME NEW k \in JobId, NEW swept \in SUBSET JobId, CrashInSweep(k, swept)
         PROVE  WaitingHasReason'
    <2>1. swept \cup {k} \in SUBSET Due /\ swept \in SUBSET Due
      BY <1>12 DEF CrashInSweep
    <2> QED
      BY <1>12, <2>1, <1>6 DEF CrashInSweep
  <1> QED
    BY <1>1, <1>2, <1>3, <1>4, <1>7, <1>8, <1>9, <1>10, <1>11, <1>12
       DEF Next, AgentStep, OperatorStep, SystemStep, CrashStep, SetDeadline, ClearDeadline

\* What is inductive: a waiting parent keeps its reason because of the tree, and
\* the tree is kept because only rows that exist are settled.
IInv == TypeOK /\ StoppingExist /\ TreeInv /\ WaitingHasReason

LEMMA InvInit == Init => IInv
  BY TypeInit DEF Init, IInv, StoppingExist, TreeInv, Exists, WaitingHasReason

LEMMA InvStep == IInv /\ [Next]_vars => IInv'
  BY TypeStep, TreeStep, ReasonStep DEF IInv

LEMMA Invariance == Spec => []IInv
  BY InvInit, InvStep, PTL DEF Spec

\* No parent waits on nobody: an awaited child is open, or settled by a crash or an
\* overrun that did not check the parent (#resumeParentIfReady, jobs.ts).
THEOREM WaitersHaveReason == Spec => []WaitingHasReason
  BY Invariance, PTL DEF IInv

LEMMA JobsFinite ==
  ASSUME NEW S, S \subseteq JobId
  PROVE  IsFiniteSet(S) /\ Cardinality(S) \in Nat
  <1>1. IsFiniteSet(JobId)
    BY FS_Interval DEF JobId
  <1>2. IsFiniteSet(S)
    BY <1>1, FS_Subset
  <1> QED
    BY <1>2, FS_CardinalityType

\* A non-empty set of jobs has a greatest id: of the sets of ids above its members
\* one is minimal.
LEMMA Greatest ==
  ASSUME NEW W, W \subseteq JobId, W # {}
  PROVE  \E m \in W : \A q \in W : q <= m
  <1> DEFINE Above(q) == {i \in JobId : i > q}
             T == {Above(q) : q \in W}
  <1>1. T \subseteq FiniteSubsetsOf(JobId) /\ T # {}
    <2>1. \A q \in W : Above(q) \in SUBSET JobId
      OBVIOUS
    <2> HIDE DEF Above
    <2>2. \A q \in W : Above(q) \in FiniteSubsetsOf(JobId)
      BY <2>1, JobsFinite DEF FiniteSubsetsOf
    <2> QED
      BY <2>2
  <1>2. IsWellFoundedOn(StrictSubsetOrdering(JobId), FiniteSubsetsOf(JobId))
    BY FS_StrictSubsetOrderingWellFounded
  <1> HIDE DEF T
  <1>3. PICK A \in T : \A B \in T : ~ (<<B, A>> \in StrictSubsetOrdering(JobId))
    BY <1>1, <1>2, WFMin
  <1>4. PICK m \in W : A = Above(m)
    BY DEF T
  <1>5. ASSUME NEW q \in W, q > m
        PROVE  FALSE
    <2>1. Above(q) \in T
      BY DEF T
    <2>2. Above(q) \subseteq Above(m) /\ q \in Above(m) /\ q \notin Above(q)
      BY <1>5 DEF JobId
    <2> QED
      BY <1>3, <1>4, <2>1, <2>2 DEF StrictSubsetOrdering
  <1> QED
    BY <1>5 DEF JobId

\* The greatest of the waiting jobs waits for a job that does not wait itself.
LEMMA LastWaiter == IInv => NoWaitDeadlock
  <1> SUFFICES ASSUME IInv, NEW p \in JobId, state[p] = "waiting_children"
               PROVE  \/ \E j \in JobId : IsOpen(j) /\ state[j] # "waiting_children"
                      \/ \E c \in silent, q \in JobId :
                           WaitingOn(q, c) /\ state[q] = "waiting_children"
    BY DEF NoWaitDeadlock
  <1> DEFINE W == {q \in JobId : state[q] = "waiting_children"}
  <1>1. PICK m \in W : \A q \in W : q <= m
    BY Greatest
  <1>2. PICK c \in JobId : WaitingOn(m, c) /\ (IsOpen(c) \/ c \in silent)
    BY DEF IInv, WaitingHasReason
  <1>3. m < c
    BY <1>2 DEF IInv, TreeInv, WaitingOn, JobId, NoParent
  <1>4. state[c] # "waiting_children"
    BY <1>1, <1>3 DEF JobId
  <1> QED
    BY <1>2, <1>4

\* Jobs never all wait on each other, however deep the tree and however many jobs
\* there are (#resumeParentIfReady, jobs.ts).
THEOREM SomebodyWorks == Spec => []NoWaitDeadlock
  BY Invariance, LastWaiter, PTL

-----------------------------------------------------------------------------
(* Deadlines.                                                              *)

LEMMA ToldInit == Init => OverrunToldOnce
  BY DEF Init, OverrunToldOnce

LEMMA ToldStep ==
  ASSUME TypeOK, OverrunToldOnce, [Next]_vars
  PROVE  OverrunToldOnce'
  <1>1. ASSUME UNCHANGED <<escalated, told>>
        PROVE  OverrunToldOnce'
    BY <1>1 DEF OverrunToldOnce
  <1>2. ASSUME NEW j \in JobId, NEW when \in {"none", "ahead"},
               NEW policy \in Overrun \cup {"none"}, NewDeadline(j, when, policy)
        PROVE  OverrunToldOnce'
    BY <1>2 DEF NewDeadline, OverrunToldOnce, TypeOK
  <1>3. ASSUME NEW marked \in SUBSET Due, NEW swept \in SUBSET marked, Escalate(marked, swept)
        PROVE  OverrunToldOnce'
    <2>1. \A i \in marked : ~escalated[i]
      BY DEF Due
    <2>2. \A i \in JobId : told[i] \in Nat
      BY DEF TypeOK
    <2>3. \A i \in JobId : told'[i] = told[i] \/ (i \in marked /\ told'[i] = told[i] + 1)
      BY <1>3 DEF Escalate
    <2>4. \A i \in JobId : i \in marked \/ escalated[i] => escalated'[i]
      BY <1>3 DEF Escalate
    <2>5. \A i \in marked : told[i] = 0
      BY <2>1, <2>2 DEF OverrunToldOnce, Due
    <2> QED
      BY <2>2, <2>3, <2>4, <2>5 DEF OverrunToldOnce
  <1>4. SweepDeadlines => OverrunToldOnce'
    BY <1>3 DEF SweepDeadlines
  <1>5. ASSUME NEW k \in JobId, NEW swept \in SUBSET JobId, CrashInSweep(k, swept)
        PROVE  OverrunToldOnce'
    <2>1. swept \cup {k} \in SUBSET Due /\ swept \in SUBSET (swept \cup {k})
      BY <1>5 DEF CrashInSweep
    <2> QED
      BY <1>5, <2>1, <1>3 DEF CrashInSweep
  <1>6. ASSUME NEW j \in JobId, NEW a, NEW p, NEW awaits, NEW policy,
               Create(j, a, p, awaits, policy) \/ CrashInCreate(j, a, p, policy)
        PROVE  UNCHANGED <<escalated, told>>
    BY <1>6 DEF Create, CrashInCreate, Insert
  <1>7. ASSUME NEW j \in JobId,
               MarkWorking(j) \/ (\E to \in Agent : Handoff(j, to)) \/ Restart(j)
                 \/ Pause(j) \/ Resume(j) \/ StopBegin(j) \/ DeadlinePasses(j)
        PROVE  UNCHANGED <<escalated, told>>
    BY <1>7 DEF MarkWorking, Handoff, Restart, Pause, Resume, StopBegin, DeadlinePasses, clock
  <1>8. ASSUME NEW j \in JobId, Close(j) \/ Fail(j) \/ StopFinish(j) \/ RecordStop(j) \/ Cancel(j)
        PROVE  UNCHANGED <<escalated, told>>
    BY <1>8 DEF Close, Fail, StopFinish, RecordStop, Cancel, Settle, clock
  <1>9. ASSUME NEW j \in JobId, NEW final \in Terminal, CrashInSettle(j, final)
        PROVE  UNCHANGED <<escalated, told>>
    BY <1>9 DEF CrashInSettle, clock
  <1>10. Crash \/ UNCHANGED vars => UNCHANGED <<escalated, told>>
    BY DEF Crash, vars, clock
  <1> QED
    BY <1>1, <1>2, <1>4, <1>5, <1>6, <1>7, <1>8, <1>9, <1>10
       DEF Next, AgentStep, OperatorStep, SystemStep, CrashStep, SetDeadline, ClearDeadline

\* A missed deadline is told at most once, wherever a sweep is cut short
\* (#escalate, jobs.ts).
THEOREM ToldOnce == Spec => []OverrunToldOnce
  BY TypeInit, TypeStep, ToldInit, ToldStep, PTL DEF Spec

-----------------------------------------------------------------------------
(* Ended jobs.                                                             *)

\* Settling a job opens none: the parent it may resume was open.
LEMMA SettleOpensNone ==
  ASSUME TypeOK, NEW j \in JobId, NEW final \in Terminal, Settle(j, final)
  PROVE  /\ \A i \in JobId : IsOpen(i)' => IsOpen(i)
         /\ ~IsOpen(j)'
  <1> DEFINE st == [state EXCEPT ![j] = final]
  <1>1. \A i \in JobId : st[i] = IF i = j THEN final ELSE state[i]
    BY DEF TypeOK
  <1>2. st \in [JobId -> Open \cup Terminal \cup {"none"}]
    BY DEF TypeOK
  <1>3. state' = ResumeParentIfReady(st, parent[j])
    BY DEF Settle
  <1> HIDE DEF st
  <1>4. \A i \in JobId :
          \/ state'[i] = st[i]
          \/ st[i] = "waiting_children" /\ state'[i] = "working"
    BY <1>2, <1>3 DEF ResumeParentIfReady
  <1> QED
    BY <1>1, <1>4 DEF IsOpen, Open, Terminal

LEMMA EndedStep ==
  ASSUME TypeOK, [Next]_vars, NEW i \in JobId, IsTerminal(i), IsOpen(i)'
  PROVE  \/ state[i] = "failed" /\ state'[i] = "assigned"
         \/ state'[i] = "waiting_children" /\ i \in revived'
  <1>1. ~IsOpen(i) /\ state[i] # "none"
    BY DEF IsTerminal, IsOpen, Terminal, Open
  <1>2. ASSUME NEW j \in JobId, NEW a, NEW p, NEW awaits, NEW policy,
               Create(j, a, p, awaits, policy)
        PROVE  state'[i] = "waiting_children" /\ i \in revived'
    <2>1. i # j
      BY <1>1, <1>2 DEF Create, CanCreate, Fresh, Exists
    <2>2. state'[i] = IF awaits /\ i = p THEN "waiting_children" ELSE state[i]
      BY <1>2, <2>1 DEF Create, TypeOK
    <2> QED
      BY <1>1, <1>2, <2>2 DEF Create, IsOpen
  <1>3. ASSUME NEW j \in JobId, NEW a, NEW p, NEW policy, CrashInCreate(j, a, p, policy)
        PROVE  FALSE
    <2>1. i # j
      BY <1>1, <1>3 DEF CrashInCreate, CanCreate, Fresh, Exists
    <2> QED
      BY <1>1, <1>3, <2>1 DEF CrashInCreate, IsOpen, TypeOK
  <1>4. ASSUME NEW j \in JobId, Restart(j)
        PROVE  state[i] = "failed" /\ state'[i] = "assigned"
    BY <1>1, <1>4 DEF Restart, IsOpen, Open, TypeOK
  <1>5. ASSUME NEW j \in JobId,
               MarkWorking(j) \/ (\E to \in Agent : Handoff(j, to)) \/ Pause(j) \/ Resume(j)
        PROVE  FALSE
    BY <1>1, <1>5 DEF MarkWorking, Handoff, Pause, Resume, IsOpen, Open, TypeOK
  <1>6. ASSUME NEW j \in JobId, Close(j) \/ Fail(j) \/ StopFinish(j) \/ RecordStop(j) \/ Cancel(j)
        PROVE  FALSE
    <2>1. PICK final \in Terminal : Settle(j, final)
      BY <1>6 DEF Close, Fail, StopFinish, RecordStop, Cancel, Terminal
    <2> QED
      BY <1>1, <2>1, SettleOpensNone
  <1>7. ASSUME UNCHANGED state
        PROVE  FALSE
    BY <1>1, <1>7 DEF IsOpen
  <1>8. ASSUME NEW marked, NEW swept, Escalate(marked, swept)
        PROVE  FALSE
    <2>1. state'[i] = state[i] \/ state'[i] = "failed"
      BY <1>8 DEF Escalate
    <2> QED
      BY <1>1, <2>1 DEF IsOpen, Open
  <1>9. ASSUME NEW j \in JobId, NEW final \in Terminal, CrashInSettle(j, final)
        PROVE  FALSE
    BY <1>1, <1>9 DEF CrashInSettle, IsOpen, Open, Terminal, TypeOK
  <1>10. SweepDeadlines \/ (\E k \in JobId, swept \in SUBSET JobId : CrashInSweep(k, swept)) => FALSE
    BY <1>8 DEF SweepDeadlines, CrashInSweep
  <1>11. ASSUME NEW j \in JobId, StopBegin(j) \/ DeadlinePasses(j)
         PROVE  FALSE
    BY <1>7, <1>11 DEF StopBegin, DeadlinePasses
  <1>12. ASSUME NEW j \in JobId, NEW when, NEW policy, NewDeadline(j, when, policy)
         PROVE  FALSE
    BY <1>7, <1>12 DEF NewDeadline
  <1>13. Crash \/ UNCHANGED vars => FALSE
    BY <1>7 DEF Crash, vars
  <1> QED
    BY <1>2, <1>3, <1>4, <1>5, <1>6, <1>9, <1>10, <1>11, <1>12, <1>13
       DEF Next, AgentStep, OperatorStep, SystemStep, CrashStep, SetDeadline, ClearDeadline

\* A job that ended is opened again by a restart of a failed one or by an awaited
\* spawn of a turn still running in it, and by nothing else (jobs.ts).
THEOREM EndedStayEnded == Spec => EndedComesBackOnlyBy
  <1>1. TypeOK /\ [Next]_vars =>
          [\A j \in JobId : IsTerminal(j) /\ IsOpen(j)' =>
             \/ state[j] = "failed" /\ state'[j] = "assigned"
             \/ state'[j] = "waiting_children" /\ j \in revived']_vars
    BY EndedStep
  <1> QED
    BY <1>1, TypeInit, TypeStep, PTL DEF Spec, EndedComesBackOnlyBy

-----------------------------------------------------------------------------
(* The cap on open jobs.                                                   *)

\* What counts against the cap of agent a.
Counted(a) == Held(a) \ revived

\* A step that opens, moves and forgives no job keeps the cap.
LEMMA CapKept ==
  ASSUME OpenCap,
         \A i \in JobId : IsOpen(i)' /\ i \notin revived' =>
           IsOpen(i) /\ i \notin revived /\ assignee'[i] = assignee[i]
  PROVE  OpenCap'
  <1> SUFFICES ASSUME NEW a \in Agent
               PROVE  Cardinality(Counted(a)') <= MaxOpen
    BY DEF OpenCap, Counted
  <1>1. Counted(a) \subseteq JobId /\ Counted(a)' \subseteq Counted(a)
    BY DEF Counted, Held
  <1>2. /\ IsFiniteSet(Counted(a)) /\ Cardinality(Counted(a)) \in Nat
        /\ Cardinality(Counted(a)') \in Nat
    BY <1>1, JobsFinite
  <1>3. Cardinality(Counted(a)') <= Cardinality(Counted(a))
    BY <1>1, <1>2, FS_Subset
  <1>4. Cardinality(Counted(a)) <= MaxOpen
    BY DEF OpenCap, Counted
  <1> QED
    BY <1>2, <1>3, <1>4

\* So does one that gives job j to an agent that has room for it.
LEMMA CapGiven ==
  ASSUME OpenCap, NEW j \in JobId, HasCapacity(assignee'[j]),
         \A i \in JobId \ {j} : IsOpen(i)' /\ i \notin revived' =>
           IsOpen(i) /\ i \notin revived /\ assignee'[i] = assignee[i]
  PROVE  OpenCap'
  <1> SUFFICES ASSUME NEW a \in Agent
               PROVE  Cardinality(Counted(a)') <= MaxOpen
    BY DEF OpenCap, Counted
  <1>1. Counted(a) \subseteq JobId /\ Counted(a)' \subseteq Counted(a) \cup {j}
    BY DEF Counted, Held
  <1>2. /\ IsFiniteSet(Counted(a)) /\ Cardinality(Counted(a)) \in Nat
        /\ IsFiniteSet(Counted(a) \cup {j}) /\ Cardinality(Counted(a) \cup {j}) \in Nat
        /\ Cardinality(Counted(a)') \in Nat
    <2>1. Counted(a) \cup {j} \subseteq JobId /\ Counted(a)' \subseteq JobId
      BY <1>1
    <2> QED
      BY <1>1, <2>1, JobsFinite
  <1>3. CASE a # assignee'[j]
    <2>1. Counted(a)' \subseteq Counted(a)
      BY <1>1, <1>3 DEF Counted, Held
    <2>2. Cardinality(Counted(a)') <= Cardinality(Counted(a))
      BY <1>2, <2>1, FS_Subset
    <2>3. Cardinality(Counted(a)) <= MaxOpen
      BY DEF OpenCap, Counted
    <2> QED
      BY <1>2, <2>2, <2>3
  <1>4. CASE a = assignee'[j]
    <2>1. Cardinality(Counted(a)') <= Cardinality(Counted(a) \cup {j})
      BY <1>1, <1>2, FS_Subset
    <2>2. Cardinality(Counted(a) \cup {j}) <= Cardinality(Counted(a)) + 1
      BY <1>2, FS_AddElement
    <2>3. IsFiniteSet(Held(a)) /\ Cardinality(Held(a)) \in Nat
      BY JobsFinite DEF Held
    <2>4. Cardinality(Counted(a)) <= Cardinality(Held(a))
      BY <2>3, FS_Subset DEF Counted
    <2>5. Cardinality(Held(a)) < MaxOpen
      BY <1>4 DEF HasCapacity
    <2> QED
      BY <1>2, <2>1, <2>2, <2>3, <2>4, <2>5
  <1> QED
    BY <1>3, <1>4

LEMMA CapInit == Init => OpenCap
  <1> SUFFICES ASSUME Init, NEW a \in Agent
               PROVE  Cardinality(Held(a) \ revived) <= MaxOpen
    BY DEF OpenCap
  <1>1. Held(a) \ revived = {}
    BY DEF Init, Held, IsOpen, Open
  <1> QED
    BY <1>1, FS_EmptySet

LEMMA CapStep ==
  ASSUME TypeOK, OpenCap, [Next]_vars
  PROVE  OpenCap'
  <1>1. ASSUME NEW j \in JobId, NEW a \in Agent, NEW p \in JobId \cup {NoParent},
               NEW awaits \in BOOLEAN, NEW policy, Create(j, a, p, awaits, policy)
        PROVE  OpenCap'
    <2>1. assignee'[j] = a /\ \A i \in JobId \ {j} : assignee'[i] = assignee[i]
      BY <1>1 DEF Create, Insert, TypeOK
    <2>2. awaits => Exists(p) /\ p \in JobId
      BY <1>1 DEF Create, CanCreate
    <2>3. \A i \in JobId \ {j} : IsOpen(i)' /\ i \notin revived' => IsOpen(i)
      BY <1>1, <2>2 DEF Create, IsOpen, IsTerminal, Exists, TypeOK
    <2>4. HasCapacity(assignee'[j]) /\ revived \subseteq revived'
      BY <1>1, <2>1 DEF Create, CanCreate
    <2> QED
      BY <2>1, <2>3, <2>4, CapGiven
  <1>2. ASSUME NEW j \in JobId, NEW a \in Agent, NEW p, NEW policy, CrashInCreate(j, a, p, policy)
        PROVE  OpenCap'
    <2>1. assignee'[j] = a /\ \A i \in JobId \ {j} : assignee'[i] = assignee[i]
      BY <1>2 DEF CrashInCreate, Insert, TypeOK
    <2>2. HasCapacity(assignee'[j]) /\ revived' = revived
      BY <1>2, <2>1 DEF CrashInCreate, CanCreate
    <2>3. \A i \in JobId \ {j} : IsOpen(i)' => IsOpen(i)
      BY <1>2 DEF CrashInCreate, IsOpen, TypeOK
    <2> QED
      BY <2>1, <2>2, <2>3, CapGiven
  <1>3. ASSUME NEW j \in JobId, NEW to \in Agent, Handoff(j, to)
        PROVE  OpenCap'
    <2>1. /\ HasCapacity(assignee'[j])
          /\ \A i \in JobId \ {j} :
               /\ assignee'[i] = assignee[i]
               /\ state'[i] = state[i]
               /\ i \in revived' <=> i \in revived
      BY <1>3 DEF Handoff, TypeOK
    <2> QED
      BY <2>1, CapGiven DEF IsOpen
  <1>4. ASSUME NEW j \in JobId, Restart(j)
        PROVE  OpenCap'
    <2>1. /\ HasCapacity(assignee'[j])
          /\ \A i \in JobId \ {j} :
               /\ assignee'[i] = assignee[i]
               /\ state'[i] = state[i]
               /\ i \in revived' <=> i \in revived
      BY <1>4 DEF Restart, TypeOK
    <2> QED
      BY <2>1, CapGiven DEF IsOpen
  <1>5. ASSUME NEW j \in JobId, MarkWorking(j) \/ Pause(j) \/ Resume(j)
        PROVE  OpenCap'
    <2>1. /\ \A i \in JobId : IsOpen(i)' => IsOpen(i)
          /\ UNCHANGED <<assignee, revived>>
      BY <1>5 DEF MarkWorking, Pause, Resume, IsOpen, Open, TypeOK
    <2> QED
      BY <2>1, CapKept
  <1>6. ASSUME NEW j \in JobId, Close(j) \/ Fail(j) \/ StopFinish(j) \/ RecordStop(j) \/ Cancel(j)
        PROVE  OpenCap'
    <2>1. PICK final \in Terminal : Settle(j, final)
      BY <1>6 DEF Close, Fail, StopFinish, RecordStop, Cancel, Terminal
    <2>2. (\A i \in JobId : IsOpen(i)' => IsOpen(i)) /\ ~IsOpen(j)'
      BY <2>1, SettleOpensNone
    <2>3. assignee' = assignee /\ revived' = revived \ {j}
      BY <2>1 DEF Settle
    <2> QED
      BY <2>2, <2>3, CapKept
  <1>7. ASSUME UNCHANGED <<state, assignee, revived>>
        PROVE  OpenCap'
    BY <1>7, CapKept DEF IsOpen
  <1>8. ASSUME NEW marked, NEW swept, Escalate(marked, swept)
        PROVE  OpenCap'
    <2> DEFINE failing == {i \in swept : overrun[i] = "fail"}
    <2>1. /\ \A i \in JobId : state'[i] = IF i \in failing THEN "failed" ELSE state[i]
          /\ assignee' = assignee /\ revived' = revived \ failing
      BY <1>8 DEF Escalate
    <2> HIDE DEF failing
    <2> QED
      BY <2>1, CapKept DEF IsOpen, Open
  <1>9. ASSUME NEW j \in JobId, NEW final \in Terminal, CrashInSettle(j, final)
        PROVE  OpenCap'
    <2>1. \A i \in JobId : state'[i] = IF i = j THEN final ELSE state[i]
      BY <1>9 DEF CrashInSettle, TypeOK
    <2>2. assignee' = assignee /\ revived' = revived \ {j}
      BY <1>9 DEF CrashInSettle
    <2> QED
      BY <2>1, <2>2, CapKept DEF IsOpen, Open, Terminal
  <1>10. SweepDeadlines \/ (\E k \in JobId, swept \in SUBSET JobId : CrashInSweep(k, swept))
           => OpenCap'
    BY <1>8 DEF SweepDeadlines, CrashInSweep
  <1>11. ASSUME NEW j \in JobId, StopBegin(j) \/ DeadlinePasses(j)
         PROVE  OpenCap'
    BY <1>7, <1>11 DEF StopBegin, DeadlinePasses
  <1>12. ASSUME NEW j \in JobId, NEW when, NEW policy, NewDeadline(j, when, policy)
         PROVE  OpenCap'
    BY <1>7, <1>12 DEF NewDeadline
  <1>13. Crash \/ UNCHANGED vars => OpenCap'
    BY <1>7 DEF Crash, vars
  <1> QED
    BY <1>1, <1>2, <1>3, <1>4, <1>5, <1>6, <1>9, <1>10, <1>11, <1>12, <1>13
       DEF Next, AgentStep, OperatorStep, SystemStep, CrashStep, SetDeadline, ClearDeadline

\* No agent holds more open jobs than the cap, but for those late spawns brought
\* back (#assertOpenCapacity, jobs.ts).
THEOREM CapHolds == Spec => []OpenCap
  BY TypeInit, TypeStep, CapInit, CapStep, PTL DEF Spec

-----------------------------------------------------------------------------
(* Turns that await jobs.                                                  *)

\* The joins only watch: what is proved of the coordinator holds beside them.
LEMMA JoinsImplementJobs == JoinSpec => Spec
  <1>1. [JoinNext]_joinVars => [Next]_vars
    <2>1. Pulsing \/ Unannounced \/ CrashStep => Next
      BY DEF Pulsing, Unannounced, Next, AgentStep, OperatorStep, SystemStep, CrashStep
    <2>2. (\E ids \in SUBSET JobId : AwaitJobs(ids) \/ AwaitTimesOut(ids)) => UNCHANGED vars
      BY DEF AwaitJobs, AwaitTimesOut
    <2>3. UNCHANGED joinVars => UNCHANGED vars
      BY DEF joinVars
    <2> QED
      BY <2>1, <2>2, <2>3 DEF JoinNext
  <1>2. JoinInit => Init
    BY DEF JoinInit
  <1> QED
    BY <1>1, <1>2, PTL DEF JoinSpec, Spec

\* Who still waits has an open job to wait for (waitForJobs, jobs.ts).
THEOREM JoinsKeepOpen == JoinSpec => []JoinsHaveOpen
  <1>1. JoinInit => JoinsHaveOpen
    BY DEF JoinInit, JoinsHaveOpen
  <1>2. JoinsHaveOpen /\ [JoinNext]_joinVars => JoinsHaveOpen'
    <2> SUFFICES ASSUME JoinsHaveOpen, [JoinNext]_joinVars
                 PROVE  JoinsHaveOpen'
      OBVIOUS
    <2>1. ASSUME UNCHANGED state, \A ids \in joins' : ids \in joins \/ StillOpen(ids) # {}
          PROVE  JoinsHaveOpen'
      BY <2>1 DEF JoinsHaveOpen, StillOpen, IsOpen
    <2>2. CASE Pulsing /\ Pulse
      BY <2>2 DEF Pulse, JoinsHaveOpen
    <2>3. CASE Unannounced /\ UNCHANGED joins
      BY <2>1, <2>3
         DEF Unannounced, StopBegin, SetDeadline, ClearDeadline, NewDeadline, DeadlinePasses
    <2>4. CASE joins' = {}
      BY <2>4 DEF JoinsHaveOpen
    <2>5. ASSUME NEW ids \in SUBSET JobId, AwaitJobs(ids) \/ AwaitTimesOut(ids)
          PROVE  JoinsHaveOpen'
      BY <2>1, <2>5 DEF AwaitJobs, AwaitTimesOut, vars
    <2>6. CASE UNCHANGED joinVars
      BY <2>1, <2>6 DEF joinVars, vars
    <2> QED
      BY <2>2, <2>3, <2>4, <2>5, <2>6 DEF JoinNext
  <1> QED
    BY <1>1, <1>2, PTL DEF JoinSpec
=============================================================================
