\* The pass that indexes the answer fails before it reveals it.
SPECIFICATION PaywallFairSpec
CONSTANTS
  MaxSaves = 2
  Refs = {r1}
  Foreign = {}
  Passes = {p1}
  confirmations = 1
  getLogsRange = 2
  maxBlocksPerRun = 2
  sweepLimit = 1
  MaxLag = 0
  MaxReorg = 0
  MaxPays = 1
  MaxAsks = 1
  Outcomes = {"QuestionAnswered"}
  MaxHead = 2
  MaxAborts = 1
PROPERTY AnswerGetsRevealed
CHECK_DEADLOCK FALSE
