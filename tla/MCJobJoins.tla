----------------------------- MODULE MCJobJoins -----------------------------
(* Instances of JobJoins for the model checker.                            *)
EXTENDS JobJoins, TLC

AgentSymmetry == Permutations(Agent)
=============================================================================
