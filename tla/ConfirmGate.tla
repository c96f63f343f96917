---------------------------- MODULE ConfirmGate ----------------------------
(***************************************************************************)
(* The confirm-gate (tools/confirm-gate.ts) over the approvals and the     *)
(* attention items of coordinator/attention.ts, around one job.            *)
(*                                                                         *)
(* An agent's gated call either uses up an approval the operator gave for  *)
(* that very call, or asks for one and ends the turn.  Calls are made in   *)
(* the sessions of the job or in chats, by turns that may run at any time, *)
(* after the job too.  The job is here for what it does to the approvals:  *)
(* ending it withdraws them, through the terminal listener of app.ts,      *)
(* except when infrastructure fails it.                                    *)
(***************************************************************************)
EXTENDS Integers

CONSTANTS
  Call,         \* gated calls: (session, tool, arguments hash)
  JobCall,      \* those made in the sessions of the job
  Topic,        \* requests for the operator: (session, kind, title)
  JobTopic,     \* those made in the sessions of the job
  NoCall,       \* the call of an approval not raised yet
  NoTopic,      \* the topic of a request not raised yet
  MaxApprovals, \* bound: approvals ever raised
  MaxRequests   \* bound: requests ever raised

ASSUME CallAssumption  == JobCall \subseteq Call /\ NoCall \notin Call
ASSUME TopicAssumption == JobTopic \subseteq Topic /\ NoTopic \notin Topic
ASSUME RowAssumption   == MaxApprovals \in Nat /\ MaxRequests \in Nat

ApprovalId == 1 .. MaxApprovals
RequestId  == 1 .. MaxRequests

VARIABLES
  call, verdict,  \* approvals: the call and the state, "none" before the insert
  card,           \* the attention item of each approval
  topic, request, \* the other attention items: the topic and the status
  job,            \* the job: open, failed or ended (done, cancelled)
  made,           \* history: how often each call went through
  torn            \* history: approvals cancelled by a cancelForJob cut short

approvals == <<call, verdict, card>>
requests  == <<topic, request>>
vars      == <<approvals, requests, job, made, torn>>

TypeOK ==
  /\ call \in [ApprovalId -> Call \cup {NoCall}]
  /\ verdict \in [ApprovalId ->
                   {"none", "pending", "approved", "denied", "cancelled", "consumed"}]
  /\ card \in [ApprovalId -> {"none", "open", "resolved", "dismissed"}]
  /\ topic \in [RequestId -> Topic \cup {NoTopic}]
  /\ request \in [RequestId -> {"none", "open", "resolved", "dismissed"}]
  /\ job \in {"open", "failed", "ended"}
  /\ made \in [Call -> Nat]
  /\ torn \subseteq ApprovalId

Init ==
  /\ call = [i \in ApprovalId |-> NoCall]
  /\ verdict = [i \in ApprovalId |-> "none"]
  /\ card = [i \in ApprovalId |-> "none"]
  /\ topic = [r \in RequestId |-> NoTopic]
  /\ request = [r \in RequestId |-> "none"]
  /\ job = "open"
  /\ made = [c \in Call |-> 0]
  /\ torn = {}

-----------------------------------------------------------------------------
(* Gated calls (invokeGated).                                              *)

\* The approval consumeApproval finds for a call.
Granted(i, c) == call[i] = c /\ verdict[i] = "approved"

\* pendingFor.
PendingFor(c) == \E i \in ApprovalId : call[i] = c /\ verdict[i] = "pending"

\* Rows are numbered in the order they are raised.
NextApproval(i) == verdict[i] = "none" /\ \A k \in 1 .. i - 1 : verdict[k] # "none"
NextRequest(r)  == request[r] = "none" /\ \A k \in 1 .. r - 1 : request[k] # "none"

\* A call with no approval to spend and none pending has to ask.
MustAsk(c) == (\A k \in ApprovalId : ~Granted(k, c)) /\ ~PendingFor(c)

\* Mutant: the approval is found and not spent.
ConsumeNothing(i, c) ==
  /\ Granted(i, c)
  /\ UNCHANGED <<approvals, requests, job, torn>>

\* consumeApproval, which spends the approval before anything is run.
Consume(i, c) ==
  /\ Granted(i, c)
  /\ verdict' = [verdict EXCEPT ![i] = "consumed"]
  /\ UNCHANGED <<call, card, requests, job, torn>>

CallThrough(i, c) ==
  /\ Consume(i, c)
  /\ made' = [made EXCEPT ![c] = @ + 1]

\* The process dies between the approval being spent and the tool being run.
DiesBeforeCall(i, c) == Consume(i, c) /\ UNCHANGED made

\* Mutant: no look at what is pending.
RaiseAgain(i, c) ==
  /\ NextApproval(i)
  /\ \A k \in ApprovalId : ~Granted(k, c)
  /\ call' = [call EXCEPT ![i] = c]
  /\ verdict' = [verdict EXCEPT ![i] = "pending"]
  /\ card' = [card EXCEPT ![i] = "open"]
  /\ UNCHANGED <<requests, job, made, torn>>

\* The approval and its item are raised in a transaction.
Raise(i, c) ==
  /\ NextApproval(i)
  /\ MustAsk(c)
  /\ call' = [call EXCEPT ![i] = c]
  /\ verdict' = [verdict EXCEPT ![i] = "pending"]
  /\ card' = [card EXCEPT ![i] = "open"]
  /\ UNCHANGED <<requests, job, made, torn>>

-----------------------------------------------------------------------------
(* The operator's answers, and requests an agent raises itself.            *)

\* A transaction too.  The route then delivers the answer as a new turn.
Answer(i, decision) ==
  /\ verdict[i] = "pending"
  /\ verdict' = [verdict EXCEPT ![i] = decision]
  /\ card' = [card EXCEPT ![i] = "resolved"]
  /\ UNCHANGED <<call, requests, job, made, torn>>

\* Mutant: every call of the tool puts an item on the board.
RaiseRequestAgain(r, t) ==
  /\ NextRequest(r)
  /\ topic' = [topic EXCEPT ![r] = t]
  /\ request' = [request EXCEPT ![r] = "open"]
  /\ UNCHANGED <<approvals, job, made, torn>>

RaiseRequest(r, t) ==
  /\ NextRequest(r)
  /\ \A k \in RequestId : ~(topic[k] = t /\ request[k] = "open")
  /\ topic' = [topic EXCEPT ![r] = t]
  /\ request' = [request EXCEPT ![r] = "open"]
  /\ UNCHANGED <<approvals, job, made, torn>>

CloseRequest(r, status) ==
  /\ request[r] = "open"
  /\ request' = [request EXCEPT ![r] = status]
  /\ UNCHANGED <<approvals, topic, job, made, torn>>

-----------------------------------------------------------------------------
(* The job.                                                                *)

OfJob(i) == call[i] \in JobCall

\* The first statement of cancelForJob ...
CancelApprovals ==
  verdict' = [i \in ApprovalId |->
               IF OfJob(i) /\ verdict[i] = "pending" THEN "cancelled" ELSE verdict[i]]

\* ... and the second, which goes by the items of the job that are open.
DismissItems ==
  /\ card' = [i \in ApprovalId |->
               IF OfJob(i) /\ card[i] = "open" THEN "dismissed" ELSE card[i]]
  /\ request' = [r \in RequestId |->
                  IF topic[r] \in JobTopic /\ request[r] = "open" THEN "dismissed"
                                                                  ELSE request[r]]

\* Mutant: the items stay on the board.
CancelForJobApprovals ==
  /\ CancelApprovals
  /\ UNCHANGED <<card, request, torn>>

CancelForJob ==
  /\ CancelApprovals
  /\ DismissItems
  /\ torn' = {i \in torn : card'[i] = "open"}

\* close, stop, cancel.
JobEnds ==
  /\ job # "ended"
  /\ job' = "ended"
  /\ CancelForJob
  /\ UNCHANGED <<call, topic, made>>

\* The deadline sweep, on_overrun fail.
JobOverruns ==
  /\ job = "open"
  /\ job' = "failed"
  /\ CancelForJob
  /\ UNCHANGED <<call, topic, made>>

\* fail() does not call the listener, nor do restart() and a late spawn.
JobFails    == job = "open"   /\ job' = "failed" /\ UNCHANGED <<approvals, requests, made, torn>>
JobRestarts == job = "failed" /\ job' = "open"   /\ UNCHANGED <<approvals, requests, made, torn>>
JobRevived  == job = "ended"  /\ job' = "open"   /\ UNCHANGED <<approvals, requests, made, torn>>

\* The process dies after the job's row is written, before cancelForJob ...
DiesBeforeCancel ==
  /\ job # "ended"
  /\ job' = "ended"
  /\ UNCHANGED <<approvals, requests, made, torn>>

\* ... or between its two statements.
DiesInCancel ==
  /\ job # "ended"
  /\ job' = "ended"
  /\ CancelApprovals
  /\ torn' = torn \cup {i \in ApprovalId : OfJob(i) /\ verdict[i] = "pending"}
  /\ UNCHANGED <<call, card, requests, made>>

-----------------------------------------------------------------------------

AgentStep ==
  \/ \E i \in ApprovalId, c \in Call : CallThrough(i, c) \/ Raise(i, c)
  \/ \E r \in RequestId, t \in Topic : RaiseRequest(r, t)

OperatorStep ==
  \/ \E i \in ApprovalId, decision \in {"approved", "denied"} : Answer(i, decision)
  \/ \E r \in RequestId, status \in {"resolved", "dismissed"} : CloseRequest(r, status)

JobStep == JobEnds \/ JobOverruns \/ JobFails \/ JobRestarts \/ JobRevived

CrashStep ==
  \/ \E i \in ApprovalId, c \in Call : DiesBeforeCall(i, c)
  \/ DiesBeforeCancel
  \/ DiesInCancel

Next == AgentStep \/ OperatorStep \/ JobStep \/ CrashStep

Spec == Init /\ [][Next]_vars

\* The same program in a process that never dies.
UncrashedSpec == Init /\ [][AgentStep \/ OperatorStep \/ JobStep]_vars

-----------------------------------------------------------------------------
(* Properties.                                                             *)

Live(i) == verdict[i] \in {"pending", "approved"}

\* A call never has two approvals waiting or ready to be spent, whatever turns,
\* answers, ends of the job and crashes come between (invokeGated, confirm-gate.ts).
OneLive ==
  \A i, k \in ApprovalId : Live(i) /\ Live(k) /\ call[i] = call[k] => i = k

\* The board and the approvals agree: an item is open exactly while its approval
\* can be answered, except that a crash inside cancelForJob leaves items on the
\* board that no answer will ever clear (attention.ts).
CardMatchesVerdict ==
  \A i \in ApprovalId : card[i] = "open" <=> verdict[i] = "pending" \/ i \in torn

\* A request is on the board once, however often the agent asks again.
OneOpenRequest ==
  \A r, k \in RequestId :
    request[r] = "open" /\ request[k] = "open" /\ topic[r] = topic[k] => r = k

\* "so a late approval can never wake a dead job" (app.ts): an answer, which is
\* delivered as a turn into its session, is only ever given while the job is open.
LateAnswerWakesNoDeadJob ==
  [][\A i \in ApprovalId :
       OfJob(i) /\ verdict[i] = "pending" /\ verdict'[i] \in {"approved", "denied"}
         => job = "open"]_vars

\* The gate keeps the promise of OneShot.
phase == [c \in Call |->
           IF \E i \in ApprovalId : Granted(i, c) THEN "granted"
           ELSE IF PendingFor(c) THEN "asked" ELSE "idle"]

Contract == INSTANCE OneShot WITH Call <- Call, phase <- phase, made <- made

KeepsContract == Contract!Spec
=============================================================================
