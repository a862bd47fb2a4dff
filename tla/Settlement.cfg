\* One question in its answerer's or its asker's browser, two attempts or unmined
\* transactions at once, and whether an asker's money comes out.
SPECIFICATION FairSpec
CONSTANTS
  Runs = {s1, s2}
INVARIANTS SettlementTypeOK AnsweredHasBody SettledIsMine OneActionShown
PROPERTIES MoneyGetsOut
CHECK_DEADLOCK FALSE
