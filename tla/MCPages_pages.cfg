CONSTANTS
  ann = ann
  root = root
  newbie = newbie
  NoOne = NoOne
  a = a
  b = b
  Clients <- MCClients
  Admins <- MCAdmins
  Newcomer = newbie
  Lanes <- MCLanes
  MonthlyHours = 1
  MaxLogins = 2
  MaxEvents = 4
  MaxPresses = 2
  MaxFaults = 1
  MaxElsewhere = 1
  OtherCalls <- MCOtherCalls
SPECIFICATION Spec
INVARIANTS
  ShowsTheDatabase
  ShownIsOwn
  OnePerIntent
SYMMETRY Symmetry
