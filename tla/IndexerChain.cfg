\* More blocks than one run scans, blocks replaced and nodes that lag within the
\* confirmations, two overlapping passes, either of which may fail or stall.
SPECIFICATION FairSpec
CONSTANTS
  Refs = {r1}
  Foreign = {}
  Passes = {p1, p2}
  confirmations = 1
  getLogsRange = 1
  maxBlocksPerRun = 2
  sweepLimit = 0
  MaxLag = 1
  MaxReorg = 1
  MaxPays = 1
  MaxAsks = 1
  Outcomes = {"QuestionAnswered", "QuestionCancelled"}
  MaxHead = 5
  MaxAborts = 1
INVARIANT MirrorNeverAhead
PROPERTY CatchesUp
CHECK_DEADLOCK FALSE
