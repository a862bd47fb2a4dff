SPECIFICATION FairSpec
CONSTANTS
  Wallets = {w1, w2}
  Handles = {h1, h2}
  Values = {v1}
  Objects = {o1, o2}
  Edits = {e1, e2}
  Null = Null
  Askers = {w1, w2}
  Keys = {k1}
  Ids = {i1, i2}
  Sends = {s1, s2}
  NoId = NoId
  Lengths = {0, 1, 2, 3, 29, 30, 31, 49, 50, 51, 79, 80, 81, 199, 200, 201, 499, 500, 501, 1999, 2000, 2001, 4999, 5000, 5001}
  Amounts = {0, 1, 2, 3, 5, 6, 7, 8, 9}
  MinPrice = 2
  MaxPrice = 6
  MaxAmount = 8
  Calls = {c1, c2}
  Limit = 3
  Accounts = {eoa1, eoa2, contract}
  ContractAccounts = {contract}
  Nonces = {n1}
  Tokens = {t1, t2}
  Posts = {p1, p2}
  None = None
INVARIANTS
  GatewayTypeOK
  FormNeverRefused
  LimiterBound
  AnsweredNonceIsGone
  SessionIsTheSigners
  OneDraftPerKey
  ReplayIsMine
  TakenMeansTaken
  AvatarExists
PROPERTIES
  OnlyNamedColumns
  LoggedOutEventually
  LimiterRecovers
CHECK_DEADLOCK FALSE
