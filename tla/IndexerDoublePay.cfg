\* The ref of one draft paid twice, nothing else going wrong.
SPECIFICATION Spec
CONSTANTS
  Refs = {r1}
  Foreign = {}
  Passes = {p1}
  confirmations = 1
  getLogsRange = 2
  maxBlocksPerRun = 2
  sweepLimit = 1
  MaxLag = 0
  MaxReorg = 0
  MaxPays = 2
  MaxAsks = 2
  Outcomes = {"QuestionAnswered", "QuestionCancelled"}
  MaxHead = 3
  MaxAborts = 0
INVARIANT MirrorNeverAhead
CHECK_DEADLOCK FALSE
