SPECIFICATION FairRunsSpec
CONSTANTS
  Agent = {a1}
  NoAgent = NoAgent
  Chat = Chat
  MaxJobs = 1
  MaxDepth = 0
  MaxOpen = 1
  Overrun = {}
  MaxAttempts = 1
  MaxTimers = 1
  MaxUpsets = 1
PROPERTY RetryIsKept
CHECK_DEADLOCK FALSE
