SPECIFICATION Spec
CONSTANTS
  tab = tab
  d1 = d1
  a = a
  b = b
  Keep = Keep
  Tabs <- MCTabs
  Direct <- MCDirect
  Requests <- MCRequests
  Lanes <- MCLanes
  Accounts = {"ana"}
  Passwords = {"old", "new"}
  Remember = {TRUE}
  Horizon = 2
  Concurrency = 1
  Crashes = FALSE
  MaxFailed = 1
  LockTtl = 1
  AccessTtl = 1
  RefreshTtl = 2
  ResetTtl = 1
  LoginLimit = 2
  LoginTtl = 2
  MaxResets = 1
  StatusChoices = {"SUSPENDED"}
  MaxLogins = 2
  LossyAnswers = FALSE
INVARIANTS TypeOK LiveTokensEntitled GuessesPaced NoReplay NobodyWaitsInVain
CHECK_DEADLOCK FALSE
SYMMETRY Symmetry
