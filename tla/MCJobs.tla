------------------------------- MODULE MCJobs -------------------------------
(* Instances of Jobs for the model checker.                                *)
EXTENDS Jobs, TLC

AgentSymmetry == Permutations(Agent)

\* Bound: a deadline is set while there is one job, and then there is no second.
DeadlinesOfOne ==
  \A j \in JobId : deadline[j] # "none" => \A k \in JobId : Exists(k) => k = j
=============================================================================
