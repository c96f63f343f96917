SPECIFICATION Spec
CONSTANTS
  Parts = {"view"}
  MaxSchedules = 0 Every = 1 Period = 1 Ahead = 1 MaxOpenJobs = 0 MaxEdits = 0 MaxDeaths = 0
  MaxChats = 0 MaxUnread = 0 MaxCrashes = 0
  Caller = {} NoCaller = none MaxGrants = 0 MaxRotations = 0 MaxKills = 0
  Command = {} Repos = {} NoRepos = none MaxBoxes = 0 MaxContainers = 0 MaxLosses = 0
  Background = bg NoWindow = nowindow Window = {bg} Stopper = {} MaxForks = 0 MaxAccounts = 0 MaxErrands = 0
  Item = {i1, i2} JobItem = {i1} MaxBells = 1 MaxLoads = 1 MaxBreaks = 0
  Writer = {} Key = {} NoKey = nokey MaxEntries = 0
  Staff = {} Nobody = nobody MaxTurns = 0 MaxInterrupts = 0
INVARIANT ChangesAreRung
CHECK_DEADLOCK FALSE
