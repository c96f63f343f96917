SPECIFICATION JoinSpec
CONSTANTS
  Agent = {a1, a2}
  NoAgent = NoAgent
  MaxJobs = 2
  MaxDepth = 1
  MaxOpen = 1
  Overrun = {"notify", "fail"}
SYMMETRY AgentSymmetry
INVARIANTS OverrunToldOnce JoinsHaveOpen
CHECK_DEADLOCK FALSE
