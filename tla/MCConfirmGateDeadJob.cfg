SPECIFICATION UncrashedSpec
CONSTANTS
  Call = {j1}
  JobCall = {j1}
  Topic = {t1}
  JobTopic = {t1}
  NoCall = NoCall
  NoTopic = NoTopic
  MaxApprovals = 1
  MaxRequests = 1
PROPERTY LateAnswerWakesNoDeadJob
CHECK_DEADLOCK FALSE
