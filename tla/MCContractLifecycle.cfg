SPECIFICATION Spec
CONSTANTS
  u1 = u1
  q1 = q1
  Requests = {q1}
  MaxContracts = 2
  Horizon = 3
  Concurrency = 2
  Crashes = TRUE
  Keep = Keep
  Deltas = {}
  Users = {u1}
  ContractTerms <- EarlyAndLate
  Patches <- Edits
  RenewalDates = {3}
  NoUser = NoUser
  Thresholds = {1}
  DayLength = 2
  MaxDeaths = 1
INVARIANTS
  AlertedOncePerDay
PROPERTIES
  OverdueIsExpired
CHECK_DEADLOCK FALSE
