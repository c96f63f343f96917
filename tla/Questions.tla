----------------------------- MODULE Questions -----------------------------
(***************************************************************************)
(* The questions agents ask each other (ask_agent, ask-agent.ts).  A       *)
(* question is a turn of the agent asked, in the thread it keeps with the  *)
(* asker; the turn that asks is parked in its tool call until that turn    *)
(* settles or a timer ends the wait.  Nothing keeps an agent that is asked *)
(* from asking back, and a thread runs one turn at a time, so turns can    *)
(* come to wait for each other in circles.                                 *)
(*                                                                         *)
(* Sessions, their order and the settling of turns are Flue's, modelled    *)
(* from how app.ts uses it: a message that is admitted gets its turn, and  *)
(* a turn a death interrupts is taken up again.                            *)
(***************************************************************************)
EXTENDS Integers

CONSTANTS
  Staff,           \* the agents of the roster
  Nobody,          \* the other end of a session that is no thread
  MaxTurns,        \* turns, identified by 1 .. MaxTurns in order of admission
  MaxInterrupts    \* bound: deaths of the process

ASSUME QuestionsAssumption ==
  /\ Nobody \notin Staff
  /\ MaxTurns \in Nat /\ MaxInterrupts \in Nat

VARIABLES
  stage,       \* how far each turn is
  thread,      \* the session of a turn, <<agent, counterpart>>
  asker,       \* the turn whose tool call put the question, 0 of a turn that is none
  waited,      \* questions whose tool call is still waiting
  interrupts

questionVars == <<stage, thread, asker, waited, interrupts>>

Turn == 1 .. MaxTurns
Thread == Staff \X (Staff \cup {Nobody})

QuestionTypeOK ==
  /\ stage \in [Turn -> {"none", "queued", "running", "over"}]
  /\ thread \in [Turn -> Thread \cup {<<Nobody, Nobody>>}]
  /\ asker \in [Turn -> 0 .. MaxTurns]
  /\ waited \subseteq Turn
  /\ interrupts \in 0 .. MaxInterrupts

QuestionInit ==
  /\ stage = [t \in Turn |-> "none"]
  /\ thread = [t \in Turn |-> <<Nobody, Nobody>>]
  /\ asker = [t \in Turn |-> 0]
  /\ waited = {}
  /\ interrupts = 0

\* dispatch: the message is admitted behind those its session has.
Admits(t, session, by) ==
  /\ stage[t] = "none"
  /\ \A u \in 1 .. t - 1 : stage[u] # "none"
  /\ stage' = [stage EXCEPT ![t] = "queued"]
  /\ thread' = [thread EXCEPT ![t] = session]
  /\ asker' = [asker EXCEPT ![t] = by]

\* The operator writes to an agent, or a job of it gets its turn.
OperatorWrites(t, a) ==
  /\ Admits(t, <<a, Nobody>>, 0)
  /\ UNCHANGED <<waited, interrupts>>

\* A turn asks another agent: in the thread of that agent with the one that asks, whatever
\* session that one asks from.
Asks(t, q, to) ==
  /\ stage[t] = "running"
  /\ to # thread[t][1]
  /\ Admits(q, <<to, thread[t][1]>>, t)
  /\ waited' = waited \cup {q}
  /\ UNCHANGED interrupts

\* A session runs its turns in order and one at a time.
Starts(t) ==
  /\ stage[t] = "queued"
  /\ \A u \in 1 .. t - 1 : thread[u] = thread[t] => stage[u] = "over"
  /\ stage' = [stage EXCEPT ![t] = "running"]
  /\ UNCHANGED <<thread, asker, waited, interrupts>>

\* A turn settles, with an answer or without, once its tool calls have returned.
TurnSettles(t) ==
  /\ stage[t] = "running"
  /\ \A q \in waited : asker[q] # t
  /\ stage' = [stage EXCEPT ![t] = "over"]
  /\ UNCHANGED <<thread, asker, waited, interrupts>>

\* read() of a settled turn resolves or rejects, and the tool returns.
Answered(q) ==
  /\ q \in waited
  /\ stage[q] = "over"
  /\ waited' = waited \ {q}
  /\ UNCHANGED <<stage, thread, asker, interrupts>>

\* Mutant: only the time counts in which the agent that is asked works on the question.
TimesOutWorking(q) ==
  /\ q \in waited
  /\ stage[q] = "running" /\ \A r \in waited : asker[r] # q
  /\ waited' = waited \ {q}
  /\ UNCHANGED <<stage, thread, asker, interrupts>>

\* The asker goes on without an answer; the question stays where it is in its session.
TimesOut(q) ==
  /\ q \in waited
  /\ waited' = waited \ {q}
  /\ UNCHANGED <<stage, thread, asker, interrupts>>

\* The process dies with the tool calls that wait; Flue takes up the turns again.
Interrupted ==
  /\ interrupts < MaxInterrupts
  /\ interrupts' = interrupts + 1
  /\ waited' = {}
  /\ UNCHANGED <<stage, thread, asker>>

QuestionNext ==
  \/ \E t \in Turn :
       \/ \E a \in Staff : OperatorWrites(t, a)
       \/ \E q \in Turn, to \in Staff : Asks(t, q, to)
       \/ Starts(t) \/ TurnSettles(t) \/ Answered(t) \/ TimesOut(t)
  \/ Interrupted

QuestionSpec == QuestionInit /\ [][QuestionNext]_questionVars

\* Flue runs what is admitted and a turn comes to its end (its submission timeout sees to
\* that), a settled turn is read, and the timers of ask_agent fire.
QuestionFairness ==
  \A t \in Turn :
    /\ WF_questionVars(Starts(t)) /\ WF_questionVars(TurnSettles(t))
    /\ WF_questionVars(Answered(t)) /\ WF_questionVars(TimesOut(t))

FairQuestionSpec == QuestionSpec /\ QuestionFairness

-----------------------------------------------------------------------------
(* Properties.                                                             *)

\* "awaiting is the backpressure" (ask-agent.ts): though agents ask each other in circles,
\* and a question can queue behind the very turn it comes from, every turn gets to its end.
TurnsEnd == \A t \in Turn : stage[t] = "queued" ~> stage[t] = "over"
=============================================================================
