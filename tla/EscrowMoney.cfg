\* Two questions that may be open at once, amounts around the fee's rounding.
SPECIFICATION Spec
CONSTANTS
  EscrowAddress = escrow
  ZeroAddress = zero
  NoRef = noref
  Accounts = {fan, pro}
  Recipients = {pro}
  Refs = {r1}
  Amounts = {9, 20}
  Approvals = {20}
  FeeChoices = {500}
  WindowChoices = {1}
  InitialFeeBps = 500
  InitialWindow = 1
  InitialUsdc = 20
  MAX_ANSWER_FEE_BPS = 1000
  MAX_CANCEL_FEE_BPS = 500
  BPS_DENOMINATOR = 10000
  MAX_ANSWER_WINDOW = 2
  MaxQuestions = 2
  MaxTime = 1
INVARIANTS Solvent EscrowInv
PROPERTY ChainKept
CHECK_DEADLOCK FALSE
