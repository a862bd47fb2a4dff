\* One question through the API and the indexer, a pass that fails anywhere.
SPECIFICATION PaywallSpec
CONSTANTS
  MaxSaves = 2
  Refs = {r1}
  Foreign = {}
  Passes = {p1}
  confirmations = 1
  getLogsRange = 2
  maxBlocksPerRun = 2
  sweepLimit = 1
  MaxLag = 0
  MaxReorg = 1
  MaxPays = 1
  MaxAsks = 1
  Outcomes = {"QuestionAnswered", "QuestionCancelled"}
  MaxHead = 3
  MaxAborts = 1
INVARIANTS PaywallTypeOK PaywallHolds PublishedOnlyAnswered
PROPERTY RevealIsForever
CHECK_DEADLOCK FALSE
