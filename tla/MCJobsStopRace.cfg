SPECIFICATION UncrashedSpec
CONSTANTS
  Agent = {a1}
  NoAgent = NoAgent
  MaxJobs = 2
  MaxDepth = 1
  MaxOpen = 2
  Overrun = {"notify"}
PROPERTY DoneIsNotCancelled
CHECK_DEADLOCK FALSE
