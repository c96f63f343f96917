SPECIFICATION Spec
CONSTANTS
  Agent = {a1, a2}
  NoAgent = NoAgent
  MaxJobs = 3
  MaxDepth = 2
  MaxOpen = 2
  Overrun = {"notify", "fail"}
CONSTRAINT DeadlinesOfOne
SYMMETRY AgentSymmetry
INVARIANTS TypeOK TreeInv OpenCap WaitingHasReason NoWaitDeadlock
PROPERTY EndedComesBackOnlyBy
CHECK_DEADLOCK FALSE
