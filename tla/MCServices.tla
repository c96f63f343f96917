----------------------------- MODULE MCServices -----------------------------
(***************************************************************************)
(* The parts of the system that share no state with the jobs and with each *)
(* other, for TLC: a behaviour is one of the part its `focus` names, while *)
(* the others rest, so that one run has the states of all of them and not  *)
(* of their products.                                                      *)
(***************************************************************************)
EXTENDS Scheduler, Chats, Connections, SandboxPool, DesktopShell, LiveView, Memory, Questions

CONSTANT Parts  \* the parts to check

VARIABLE focus

servicesVars == <<focus, schedVars, chatsVars, connVars, poolVars, shellVars, viewVars, memoryVars,
                  questionVars>>

Init ==
  /\ focus \in Parts
  /\ SchedInit /\ ChatsInit /\ ConnInit /\ PoolInit /\ ShellInit /\ ViewInit /\ MemoryInit
  /\ QuestionInit
  /\ focus # "chats" => spoken = {}
  /\ focus # "desktop" => ids = 0

\* The variables of every part but the one that moves.
Rest(part) ==
  /\ part # "scheduler"   => UNCHANGED schedVars
  /\ part # "chats"       => UNCHANGED chatsVars
  /\ part # "connections" => UNCHANGED connVars
  /\ part # "pool"        => UNCHANGED poolVars
  /\ part # "desktop"     => UNCHANGED shellVars
  /\ part # "view"        => UNCHANGED viewVars
  /\ part # "memory"      => UNCHANGED memoryVars
  /\ part # "questions"   => UNCHANGED questionVars

Next ==
  /\ UNCHANGED focus
  /\ Rest(focus)
  /\ \/ focus = "scheduler"   /\ SchedNext
     \/ focus = "chats"       /\ ChatsNext
     \/ focus = "connections" /\ ConnNext
     \/ focus = "pool"        /\ PoolNext
     \/ focus = "desktop"     /\ ShellNext
     \/ focus = "view"        /\ ViewNext
     \/ focus = "memory"      /\ MemoryNext
     \/ focus = "questions"   /\ QuestionNext

Spec == Init /\ [][Next]_servicesVars

\* The fairness of the parts, each of them held to its own while it is the one that moves.
FairSpec ==
  /\ Spec
  /\ WF_schedVars(focus = "scheduler" /\ Loads /\ Start)
  /\ WF_schedVars(focus = "scheduler" /\ (Tick \/ \E s \in ScheduleId : TimerDue(s)))
  /\ \A c \in Caller :
       /\ WF_connVars(focus = "connections" /\ Enter(c))
       /\ WF_connVars(focus = "connections" /\ LinkSettles(c))
       /\ WF_connVars(focus = "connections" /\ Exchange(c))
       /\ WF_connVars(focus = "connections" /\ Reply(c))
       /\ WF_connVars(focus = "connections" /\ Call(c))
  /\ \A e \in Command : WF_poolVars(focus = "pool" /\ CommandStep(e))
  /\ \A b \in Box : WF_poolVars(focus = "pool" /\ RecoveryStep(b))
  /\ \A c \in Container : WF_poolVars(focus = "pool" /\ Gone(c))
  /\ WF_shellVars(focus = "desktop" /\ StartGoesOn)
  /\ \A s \in Stopper : WF_shellVars(focus = "desktop" /\ ErrandGoesOn(s))
  /\ \A t \in Turn :
       /\ WF_questionVars(focus = "questions" /\ Starts(t))
       /\ WF_questionVars(focus = "questions" /\ TurnSettles(t))
       /\ WF_questionVars(focus = "questions" /\ Answered(t))
       /\ WF_questionVars(focus = "questions" /\ TimesOut(t))

\* Every part keeps to its types.
ServicesTypeOK ==
  /\ SchedTypeOK /\ ChatsTypeOK /\ ConnTypeOK /\ PoolTypeOK /\ ShellTypeOK /\ ViewTypeOK
  /\ MemoryTypeOK /\ QuestionTypeOK
=============================================================================
