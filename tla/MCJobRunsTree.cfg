SPECIFICATION RunsSpec
CONSTANTS
  Agent = {a1}
  NoAgent = NoAgent
  Chat = Chat
  MaxJobs = 2
  MaxDepth = 1
  MaxOpen = 2
  Overrun = {}
  MaxAttempts = 0
  MaxTimers = 0
  MaxUpsets = 2
INVARIANT AssignedHasKick
PROPERTY PauseHolds
CHECK_DEADLOCK FALSE
