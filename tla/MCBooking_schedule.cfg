SPECIFICATION Spec
CONSTANTS
  u1 = u1
  u2 = u2
  x1 = x1
  x2 = x2
  i1 = i1
  i2 = i2
  q1 = q1
  q2 = q2
  q3 = q3
  q4 = q4
  q5 = q5
  Requests = {q1, q2, q3}
  MaxContracts = 1
  Horizon = 5
  Concurrency = 1
  Crashes = FALSE
  Keep = Keep
  Deltas = {}
  Users = {u1}
  ContractTerms <- LongContract
  Patches = {}
  RenewalDates = {}
  NoUser = NoUser
  Rooms = {x1}
  EveryRoom = EveryRoom
  DayLength = 4
  WeekLength = 2
  RuleIds = {i1, i2}
  NoRule = NoRule
  InitialRules <- OpenMonday
  RuleChoices <- OpenTuesday
  RulePatches <- ShorterDay
  BlockChoices <- Maintenance
  StatusChoices = {"AVAILABLE", "MAINTENANCE"}
  Durations = {1, 2}
  NoRoom = NoRoom
SYMMETRY RequestSymmetry
INVARIANTS
  SlotCheckSuffices
PROPERTIES
  PlacedInOpenHours
CHECK_DEADLOCK FALSE
