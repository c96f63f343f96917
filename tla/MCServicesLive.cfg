SPECIFICATION FairSpec
CONSTANTS
  Parts = {"scheduler", "connections", "pool", "desktop", "questions"}
  MaxSchedules = 1 Every = 2 Period = 2 Ahead = 1 MaxOpenJobs = 1 MaxEdits = 2 MaxDeaths = 1
  MaxChats = 0 MaxUnread = 0 MaxCrashes = 0
  Caller = {c1, c2, c3} NoCaller = none MaxGrants = 1 MaxRotations = 1 MaxKills = 1
  Command = {e1, e2} Repos = {r1} NoRepos = none MaxBoxes = 2 MaxContainers = 2 MaxLosses = 1
  Background = bg NoWindow = nowindow Window = {bg, w1, w2} Stopper = {s1, s2} MaxForks = 2 MaxAccounts = 1 MaxErrands = 1
  Item = {} JobItem = {} MaxBells = 0 MaxLoads = 1 MaxBreaks = 0
  Writer = {} Key = {} NoKey = nokey MaxEntries = 0
  Staff = {p1, p2} Nobody = nobody MaxTurns = 4 MaxInterrupts = 1
PROPERTIES LockIsAQueue RoutineRuns OneOffSettles CallersServed CommandsReturn StartsEnd TurnsEnd
CHECK_DEADLOCK FALSE
