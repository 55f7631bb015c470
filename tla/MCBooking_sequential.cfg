SPECIFICATION Spec
CONSTANTS
  u1 = u1
  u2 = u2
  x1 = x1
  x2 = x2
  i1 = i1
  i2 = i2
  q1 = q1
  q2 = q2
  q3 = q3
  q4 = q4
  q5 = q5
  Requests = {q1, q2, q3, q4, q5}
  MaxContracts = 1
  Horizon = 3
  Concurrency = 1
  Crashes = FALSE
  Keep = Keep
  Deltas = {}
  Users = {u1}
  ContractTerms <- ShortContract
  Patches <- ToggleContract
  RenewalDates = {2, 3}
  NoUser = NoUser
  Rooms = {x1}
  EveryRoom = EveryRoom
  DayLength = 4
  WeekLength = 1
  RuleIds = {i1}
  NoRule = NoRule
  InitialRules <- OpenAllDay
  RuleChoices = {}
  RulePatches = {}
  BlockChoices = {}
  StatusChoices = {}
  Durations = {1, 2}
  NoRoom = NoRoom
SYMMETRY RequestSymmetry
INVARIANTS
  PaidForWhatIsHeld
  LateRefundsWithinLimit
PROPERTIES
  ClosedStaysClosed
CHECK_DEADLOCK FALSE
