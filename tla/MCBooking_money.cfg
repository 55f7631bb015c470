SPECIFICATION Spec
CONSTANTS
  u1 = u1
  u2 = u2
  x1 = x1
  x2 = x2
  i1 = i1
  i2 = i2
  q1 = q1
  q2 = q2
  q3 = q3
  q4 = q4
  q5 = q5
  Requests = {q1, q2, q3}
  MaxContracts = 2
  Horizon = 2
  Concurrency = 2
  Crashes = FALSE
  Keep = Keep
  Deltas <- Corrections
  Users = {u1, u2}
  ContractTerms <- TwoClients
  Patches <- CloseContract
  RenewalDates = {2}
  NoUser = NoUser
  Rooms = {x1}
  EveryRoom = EveryRoom
  DayLength = 4
  WeekLength = 1
  RuleIds = {i1}
  NoRule = NoRule
  InitialRules <- OpenAllDay
  RuleChoices = {}
  RulePatches = {}
  BlockChoices = {}
  StatusChoices = {}
  Durations = {1, 2}
  NoRoom = NoRoom
SYMMETRY RequestSymmetry
INVARIANTS
  NeverOverdrawn
  LedgerExplainsWallets
  BalanceIsLedger
  ChargedToOwner
CHECK_DEADLOCK FALSE
