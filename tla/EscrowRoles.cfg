\* One question, every input of the setters at and past its cap, every alias.
SPECIFICATION FairSpec
CONSTANTS
  EscrowAddress = escrow
  ZeroAddress = zero
  NoRef = noref
  Accounts = {fan, pro}
  Recipients = {fan, escrow, zero}
  Refs = {r1}
  Amounts = {0, 20}
  Approvals = {20}
  FeeChoices = {1000, 1001}
  WindowChoices = {0, 2, 3}
  InitialFeeBps = 500
  InitialWindow = 1
  InitialUsdc = 20
  MAX_ANSWER_FEE_BPS = 1000
  MAX_CANCEL_FEE_BPS = 500
  BPS_DENOMINATOR = 10000
  MAX_ANSWER_WINDOW = 2
  MaxQuestions = 1
  MaxTime = 2
INVARIANTS TypeOK WithdrawNeverBlocked RefundPathsPartition
PROPERTIES PromiseKept RefundNotTrapped
CHECK_DEADLOCK FALSE
