SPECIFICATION Spec
SYMMETRY JobCallSymmetry
CONSTANTS
  Call = {j1, j2, c1}
  JobCall = {j1, j2}
  Topic = {t1, t2}
  JobTopic = {t1}
  NoCall = NoCall
  NoTopic = NoTopic
  MaxApprovals = 3
  MaxRequests = 2
INVARIANTS OneLive CardMatchesVerdict OneOpenRequest
PROPERTY KeepsContract
CHECK_DEADLOCK FALSE
