------------------------- MODULE ConfirmGateProofs -------------------------
(***************************************************************************)
(* Proofs about the confirm-gate, for every set of calls and requests and  *)
(* however many approvals are raised: the board agrees with the approvals, *)
(* no call has two live approvals, and the gate implements OneShot.        *)
(***************************************************************************)
EXTENDS ConfirmGate, TLAPS

USE CallAssumption, TopicAssumption, RowAssumption DEF ApprovalId, RequestId

\* What a run may have left in the rows: the call of a raised approval is a real
\* one, and what a torn cancelForJob left on the board was cancelled.
RowsInv ==
  \A i \in ApprovalId :
    /\ verdict[i] # "none" => call[i] \in Call
    /\ i \in torn => verdict[i] = "cancelled"

IInv == TypeOK /\ RowsInv /\ OneLive /\ CardMatchesVerdict /\ OneOpenRequest

-----------------------------------------------------------------------------
(* The invariant.                                                          *)

LEMMA GateInit == Init => IInv
  BY DEF Init, IInv, TypeOK, RowsInv, OneLive, Live, CardMatchesVerdict, OneOpenRequest

\* A step on the approvals that raises none for a call with a live one.
LEMMA RaiseStep ==
  ASSUME IInv, NEW i \in ApprovalId, NEW c \in Call, Raise(i, c)
  PROVE  IInv'
  <1> USE DEF Raise, MustAsk, NextApproval, IInv, requests
  <1>1. TypeOK'
    BY DEF TypeOK
  <1>2. RowsInv'
    BY DEF RowsInv, TypeOK
  <1>3. OneLive'
    BY DEF OneLive, Live, Granted, PendingFor, TypeOK
  <1>4. CardMatchesVerdict'
    BY DEF CardMatchesVerdict, RowsInv, TypeOK
  <1>5. OneOpenRequest'
    BY DEF OneOpenRequest
  <1> QED
    BY <1>1, <1>2, <1>3, <1>4, <1>5

LEMMA ConsumeStep ==
  ASSUME IInv, NEW i \in ApprovalId, NEW c \in Call, Consume(i, c), made' \in [Call -> Nat]
  PROVE  IInv'
  <1> USE DEF Consume, IInv, requests, Granted
  <1>1. TypeOK'
    BY DEF TypeOK
  <1>2. RowsInv'
    BY DEF RowsInv, TypeOK
  <1>3. OneLive'
    BY DEF OneLive, Live, TypeOK
  <1>4. CardMatchesVerdict'
    BY DEF CardMatchesVerdict, RowsInv, TypeOK
  <1>5. OneOpenRequest'
    BY DEF OneOpenRequest
  <1> QED
    BY <1>1, <1>2, <1>3, <1>4, <1>5

LEMMA AnswerStep ==
  ASSUME IInv, NEW i \in ApprovalId, NEW decision \in {"approved", "denied"},
         Answer(i, decision)
  PROVE  IInv'
  <1> USE DEF Answer, IInv, requests
  <1>1. TypeOK'
    BY DEF TypeOK
  <1>2. RowsInv'
    BY DEF RowsInv, TypeOK
  <1>3. OneLive'
    BY DEF OneLive, Live, TypeOK
  <1>4. CardMatchesVerdict'
    BY DEF CardMatchesVerdict, RowsInv, TypeOK
  <1>5. OneOpenRequest'
    BY DEF OneOpenRequest
  <1> QED
    BY <1>1, <1>2, <1>3, <1>4, <1>5

\* Raising or closing a request leaves the approvals alone.
LEMMA RequestStep ==
  ASSUME IInv, NEW r \in RequestId,
         \/ \E t \in Topic : RaiseRequest(r, t)
         \/ \E status \in {"resolved", "dismissed"} : CloseRequest(r, status)
  PROVE  IInv'
  <1> USE DEF IInv, approvals
  <1>1. ASSUME NEW t \in Topic, RaiseRequest(r, t)
        PROVE  TypeOK' /\ OneOpenRequest'
    <2>1. TypeOK'
      BY <1>1 DEF RaiseRequest, NextRequest, TypeOK
    <2>2. OneOpenRequest'
      BY <1>1 DEF RaiseRequest, NextRequest, OneOpenRequest, TypeOK
    <2> QED
      BY <2>1, <2>2
  <1>2. ASSUME NEW status \in {"resolved", "dismissed"}, CloseRequest(r, status)
        PROVE  TypeOK' /\ OneOpenRequest'
    <2>1. TypeOK'
      BY <1>2 DEF CloseRequest, TypeOK
    <2>2. OneOpenRequest'
      BY <1>2 DEF CloseRequest, OneOpenRequest, TypeOK
    <2> QED
      BY <2>1, <2>2
  <1>3. (RowsInv /\ OneLive /\ CardMatchesVerdict)'
    BY DEF RaiseRequest, NextRequest, CloseRequest, RowsInv, OneLive, Live, CardMatchesVerdict
  <1> QED
    BY <1>1, <1>2, <1>3

\* cancelForJob run to its end.
LEMMA CancelStep ==
  ASSUME IInv, CancelForJob, job' \in {"open", "failed", "ended"},
         UNCHANGED <<call, topic, made>>
  PROVE  IInv'
  <1> USE DEF CancelForJob, CancelApprovals, DismissItems, IInv
  <1>1. TypeOK'
    BY DEF TypeOK
  <1>2. RowsInv'
    BY DEF RowsInv, TypeOK
  <1>3. OneLive'
    BY DEF OneLive, Live, TypeOK
  <1>4. CardMatchesVerdict'
    BY DEF CardMatchesVerdict, RowsInv, TypeOK
  <1>5. OneOpenRequest'
    BY DEF OneOpenRequest, TypeOK
  <1> QED
    BY <1>1, <1>2, <1>3, <1>4, <1>5

\* ... and cut short.
LEMMA TornStep == IInv /\ DiesInCancel => IInv'
  <1> SUFFICES ASSUME IInv, DiesInCancel PROVE IInv'
    OBVIOUS
  <1> USE DEF DiesInCancel, CancelApprovals, IInv, requests
  <1>1. TypeOK'
    BY DEF TypeOK
  <1>2. RowsInv'
    BY DEF RowsInv, TypeOK
  <1>3. OneLive'
    BY DEF OneLive, Live, TypeOK
  <1>4. CardMatchesVerdict'
    BY DEF CardMatchesVerdict, RowsInv, TypeOK
  <1>5. OneOpenRequest'
    BY DEF OneOpenRequest
  <1> QED
    BY <1>1, <1>2, <1>3, <1>4, <1>5

LEMMA GateStep == IInv /\ [Next]_vars => IInv'
  <1> SUFFICES ASSUME IInv, [Next]_vars PROVE IInv'
    OBVIOUS
  <1>1. ASSUME NEW i \in ApprovalId, NEW c \in Call, CallThrough(i, c)
        PROVE  IInv'
    <2>1. made' \in [Call -> Nat] /\ Consume(i, c)
      BY <1>1 DEF CallThrough, IInv, TypeOK
    <2> QED
      BY <2>1, ConsumeStep
  <1>2. ASSUME NEW i \in ApprovalId, NEW c \in Call, DiesBeforeCall(i, c)
        PROVE  IInv'
    <2>1. made' \in [Call -> Nat] /\ Consume(i, c)
      BY <1>2 DEF DiesBeforeCall, IInv, TypeOK
    <2> QED
      BY <2>1, ConsumeStep
  <1>3. CASE JobEnds \/ JobOverruns
    <2>1. /\ CancelForJob /\ UNCHANGED <<call, topic, made>>
          /\ job' \in {"open", "failed", "ended"}
      BY <1>3 DEF JobEnds, JobOverruns
    <2> QED
      BY <2>1, CancelStep
  <1>4. CASE JobFails \/ JobRestarts \/ JobRevived \/ DiesBeforeCancel
    BY <1>4 DEF JobFails, JobRestarts, JobRevived, DiesBeforeCancel, approvals, requests,
         IInv, TypeOK, RowsInv, OneLive, Live, CardMatchesVerdict, OneOpenRequest
  <1>5. CASE UNCHANGED vars
    BY <1>5 DEF vars, approvals, requests,
         IInv, TypeOK, RowsInv, OneLive, Live, CardMatchesVerdict, OneOpenRequest
  <1> QED
    BY <1>1, <1>2, <1>3, <1>4, <1>5, RaiseStep, AnswerStep, RequestStep, TornStep
       DEF Next, AgentStep, OperatorStep, JobStep, CrashStep

LEMMA GateInv == Spec => []IInv
  BY GateInit, GateStep, PTL DEF Spec

\* Rows hold what their columns are for, through crashes too (attention.ts).
THEOREM GateTypeCorrect == Spec => []TypeOK
  BY GateInv, PTL DEF IInv

\* No call ever has two approvals pending or ready to be spent (invokeGated).
THEOREM OneLiveAlways == Spec => []OneLive
  BY GateInv, PTL DEF IInv

\* An item is open on the board exactly while its approval can be answered, a
\* crash inside cancelForJob excepted (attention.ts).
THEOREM BoardMatches == Spec => []CardMatchesVerdict
  BY GateInv, PTL DEF IInv

\* A request an agent repeats is on the board once (raiseRequest, attention.ts).
THEOREM RequestsDoNotStack == Spec => []OneOpenRequest
  BY GateInv, PTL DEF IInv

-----------------------------------------------------------------------------
(* The gate implements OneShot.                                            *)

LEMMA InitRefines == Init => Contract!Init
  BY DEF Init, Contract!Init, phase, Granted, PendingFor

\* The phase of a call whose approvals a step leaves alone stays what it was, and
\* a call has at most one live approval, which decides its phase.
LEMMA PhaseOfLive ==
  ASSUME TypeOK, OneLive, NEW i \in ApprovalId, call[i] \in Call, Live(i)
  PROVE  phase[call[i]] = IF verdict[i] = "approved" THEN "granted" ELSE "asked"
  BY DEF phase, Granted, PendingFor, OneLive, Live, TypeOK

LEMMA RaiseRefines ==
  ASSUME IInv, NEW i \in ApprovalId, NEW c \in Call, Raise(i, c)
  PROVE  Contract!Ask(c)
  <1>1. phase[c] = "idle"
    BY DEF Raise, MustAsk, phase
  <1>2. phase' = [phase EXCEPT ![c] = "asked"]
    BY DEF IInv, TypeOK, Raise, MustAsk, NextApproval, phase, Granted, PendingFor
  <1> QED
    BY <1>1, <1>2 DEF Contract!Ask, Raise

LEMMA ConsumeRefines ==
  ASSUME IInv, NEW i \in ApprovalId, NEW c \in Call, Consume(i, c)
  PROVE  phase[c] = "granted" /\ phase' = [phase EXCEPT ![c] = "idle"]
  <1>1. phase[c] = "granted"
    BY DEF Consume, phase
  <1>2. \A k \in ApprovalId : call[k] = c /\ Live(k) => k = i
    BY DEF IInv, OneLive, Consume, Granted, Live
  <1>3. phase' = [phase EXCEPT ![c] = "idle"]
    BY <1>2 DEF IInv, TypeOK, Consume, phase, Granted, PendingFor, Live
  <1> QED
    BY <1>1, <1>3

LEMMA AnswerRefines ==
  ASSUME IInv, NEW i \in ApprovalId, NEW decision \in {"approved", "denied"},
         Answer(i, decision)
  PROVE  Contract!Grant(call[i]) \/ Contract!Withdraw({call[i]})
  <1>1. call[i] \in Call
    BY DEF IInv, RowsInv, Answer
  <1>2. phase[call[i]] = "asked"
    BY <1>1, PhaseOfLive DEF IInv, Live, Answer
  <1>3. \A k \in ApprovalId : call[k] = call[i] /\ Live(k) => k = i
    BY DEF IInv, OneLive, Answer, Live
  <1>4. CASE decision = "approved"
    <2>1. phase' = [phase EXCEPT ![call[i]] = "granted"]
      BY <1>1, <1>3, <1>4 DEF IInv, TypeOK, Answer, phase, Granted, PendingFor, Live
    <2> QED
      BY <1>2, <2>1 DEF Contract!Grant, Answer
  <1>5. CASE decision = "denied"
    <2>1. phase' = [c \in Call |-> IF c \in {call[i]} THEN "idle" ELSE phase[c]]
      BY <1>1, <1>3, <1>5 DEF IInv, TypeOK, Answer, phase, Granted, PendingFor, Live
    <2> QED
      BY <1>2, <2>1 DEF Contract!Withdraw, Answer
  <1> QED
    BY <1>4, <1>5

\* cancelForJob withdraws what the job's sessions were asking for.
LEMMA CancelRefines ==
  ASSUME IInv, CancelApprovals, UNCHANGED <<call, made>>
  PROVE  Contract!Withdraw({c \in JobCall : PendingFor(c)})
  <1>1. \A c \in JobCall : PendingFor(c) => phase[c] = "asked"
    BY PhaseOfLive DEF IInv, PendingFor, Live
  <1>2. phase' = [c \in Call |->
                   IF c \in {d \in JobCall : PendingFor(d)} THEN "idle" ELSE phase[c]]
    <2>1. \A c \in Call : phase'[c] =
             IF c \in {d \in JobCall : PendingFor(d)} THEN "idle" ELSE phase[c]
      <3> SUFFICES ASSUME NEW c \in Call
                   PROVE  phase'[c] = IF c \in {d \in JobCall : PendingFor(d)}
                                        THEN "idle" ELSE phase[c]
        OBVIOUS
      <3>1. \A k \in ApprovalId : Granted(k, c)' <=> Granted(k, c)
        BY DEF IInv, TypeOK, CancelApprovals, Granted
      <3>2. PendingFor(c)' <=> PendingFor(c) /\ c \notin JobCall
        BY DEF IInv, TypeOK, CancelApprovals, PendingFor, OfJob
      <3>3. c \in JobCall /\ PendingFor(c) => ~ \E k \in ApprovalId : Granted(k, c)
        BY DEF IInv, OneLive, Live, PendingFor, Granted
      <3> QED
        BY <3>1, <3>2, <3>3 DEF phase
    <2> QED
      BY <2>1 DEF phase
  <1> QED
    BY <1>1, <1>2 DEF Contract!Withdraw

LEMMA StepRefines == IInv /\ [Next]_vars => [Contract!Next]_<<phase, made>>
  <1> SUFFICES ASSUME IInv, [Next]_vars PROVE [Contract!Next]_<<phase, made>>
    OBVIOUS
  <1> USE DEF Contract!Next
  <1>1. ASSUME NEW i \in ApprovalId, NEW c \in Call, CallThrough(i, c)
        PROVE  Contract!Make(c)
    BY <1>1, ConsumeRefines DEF CallThrough, Contract!Make
  <1>2. ASSUME NEW i \in ApprovalId, NEW c \in Call, DiesBeforeCall(i, c)
        PROVE  Contract!Lose(c)
    BY <1>2, ConsumeRefines DEF DiesBeforeCall, Contract!Lose
  <1>3. ASSUME NEW i \in ApprovalId, NEW decision \in {"approved", "denied"},
               Answer(i, decision)
        PROVE  [Contract!Next]_<<phase, made>>
    <2>1. call[i] \in Call
      BY <1>3 DEF IInv, RowsInv, Answer
    <2> QED
      BY <1>3, <2>1, AnswerRefines
  <1>4. CASE JobEnds \/ JobOverruns \/ DiesInCancel
    <2>1. CancelApprovals /\ UNCHANGED <<call, made>>
      BY <1>4 DEF JobEnds, JobOverruns, DiesInCancel, CancelForJob
    <2>2. {c \in JobCall : PendingFor(c)} \in SUBSET Call
      OBVIOUS
    <2> QED
      BY <2>1, <2>2, CancelRefines
  <1>5. ASSUME UNCHANGED <<approvals, made>>
        PROVE  UNCHANGED <<phase, made>>
    BY <1>5 DEF approvals, phase, Granted, PendingFor
  <1>6. ASSUME \/ JobFails \/ JobRestarts \/ JobRevived \/ DiesBeforeCancel
               \/ UNCHANGED vars
               \/ \E r \in RequestId, t \in Topic : RaiseRequest(r, t)
               \/ \E r \in RequestId, status \in {"resolved", "dismissed"} :
                    CloseRequest(r, status)
        PROVE  UNCHANGED <<approvals, made>>
    BY <1>6 DEF JobFails, JobRestarts, JobRevived, DiesBeforeCancel, RaiseRequest,
       CloseRequest, vars, approvals
  <1> QED
    BY <1>1, <1>2, <1>3, <1>4, <1>5, <1>6, RaiseRefines
       DEF Next, AgentStep, OperatorStep, JobStep, CrashStep

\* Each gated call is made only on a grant of its own, spent by that call, and
\* nothing is asked twice (confirm-gate.ts).
THEOREM GateKeepsContract == Spec => KeepsContract
  <1>1. Init => Contract!Init
    BY InitRefines
  <1>2. IInv /\ [Next]_vars => [Contract!Next]_<<phase, made>>
    BY StepRefines
  <1> QED
    BY <1>1, <1>2, GateInv, PTL DEF Spec, KeepsContract, Contract!Spec

=============================================================================
