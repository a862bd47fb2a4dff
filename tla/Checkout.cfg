\* One asker: an attempt beside an abandoned one, two questions, and every way in
\* which the attempt that holds the form may end.
SPECIFICATION FairSpec
CONSTANTS
  Runs = {s1, s2}
  Ids = {q1, q2}
  NoId = none
  MaxSent = 2
  MaxBalance = 1
ACTION_CONSTRAINT InOrder
INVARIANTS CheckoutTypeOK BusyHasRun ShownIsPaid OnePaymentUnlessLost
PROPERTIES NeverStuck
CHECK_DEADLOCK FALSE
