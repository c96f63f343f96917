SPECIFICATION FairRunsSpec
CONSTANTS
  Agent = {a1, a2}
  NoAgent = NoAgent
  Chat = Chat
  MaxJobs = 1
  MaxDepth = 0
  MaxOpen = 2
  Overrun = {}
  MaxAttempts = 1
  MaxTimers = 1
  MaxUpsets = 2
PROPERTIES AssignedIsDriven RetriesRunOut
CHECK_DEADLOCK FALSE
