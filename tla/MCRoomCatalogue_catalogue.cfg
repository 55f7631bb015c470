SPECIFICATION Spec
CONSTANTS
  q1 = q1
  q2 = q2
  q3 = q3
  Keep = Keep
  Requests <- MCRequests
  Rooms = {"room"}
  Users = {"ana"}
  Listing = "listing"
  CacheKeys <- MCCacheKeys
  TtlOf <- MCTtl
  Variants <- MCVariants
  Seeded = "plain"
  Details = {"plain", "fancy"}
  Horizon = 3
  Concurrency = 2
  Crashes = TRUE
  MaxFaults = 1
  MaxImages = 2
  MaxFiles = 2
  Patience = 1
INVARIANTS TypeOK PicturesStored StaleNoLongerThanTtl ExactWhenQuiet TidyWhenQuiet
CHECK_DEADLOCK FALSE
SYMMETRY Symmetry
