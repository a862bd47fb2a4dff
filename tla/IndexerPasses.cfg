\* Two refs, one of them perhaps paid twice, a ref no question has, and two overlapping passes, either of which may stall.
SPECIFICATION Spec
CONSTANTS
  Refs = {r1, r2}
  Foreign = {f1}
  Passes = {p1, p2}
  confirmations = 0
  getLogsRange = 1
  maxBlocksPerRun = 2
  sweepLimit = 1
  MaxLag = 0
  MaxReorg = 0
  MaxPays = 2
  MaxAsks = 2
  Outcomes = {"QuestionAnswered"}
  MaxHead = 2
  MaxAborts = 0
INVARIANTS TypeOK MirrorIsASnapshot
PROPERTY NeverRegress
SYMMETRY PassSymmetry
CHECK_DEADLOCK FALSE
