SPECIFICATION Spec
CONSTANTS
  Parts = {"scheduler", "chats", "connections", "pool", "desktop", "view", "memory", "questions"}
  MaxSchedules = 2 Every = 1 Period = 2 Ahead = 1 MaxOpenJobs = 1 MaxEdits = 2 MaxDeaths = 1
  MaxChats = 3 MaxUnread = 1 MaxCrashes = 1
  Caller = {c1, c2} NoCaller = none MaxGrants = 2 MaxRotations = 1 MaxKills = 1
  Command = {e1, e2} Repos = {r1, r2} NoRepos = none MaxBoxes = 3 MaxContainers = 3 MaxLosses = 2
  Background = bg NoWindow = nowindow Window = {bg, w1, w2} Stopper = {s1, s2} MaxForks = 2 MaxAccounts = 2 MaxErrands = 2
  Item = {i1, i2} JobItem = {i1} MaxBells = 2 MaxLoads = 1 MaxBreaks = 1
  Writer = {m1, m2} Key = {k1, k2} NoKey = nokey MaxEntries = 3
  Staff = {p1, p2} Nobody = nobody MaxTurns = 4 MaxInterrupts = 1
INVARIANTS
  ServicesTypeOK
  TimersMatchRows OneOffFiresOnce RoutineIsNotLate
  OneMain MainCanBeOpened BuriedStaysBuried BadgeHasChat
  RefreshTokenIsLive ConsentHolds
  NothingLeaks PooledIsUsable
  NoStrayServer NothingIsOrphaned
  StaleIsExcused UpdatesReplaceWhatTheyRead
PROPERTY StopStops
CHECK_DEADLOCK FALSE
