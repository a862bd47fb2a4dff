\* A draft paid for while it is old enough to be swept.
SPECIFICATION Spec
CONSTANTS
  Refs = {r1}
  Foreign = {}
  Passes = {p1}
  confirmations = 1
  getLogsRange = 2
  maxBlocksPerRun = 2
  sweepLimit = 1
  MaxLag = 0
  MaxReorg = 0
  MaxPays = 1
  MaxAsks = 1
  Outcomes = {"QuestionAnswered", "QuestionCancelled"}
  MaxHead = 2
  MaxAborts = 0
PROPERTY PaidDraftNeverSwept
CHECK_DEADLOCK FALSE
