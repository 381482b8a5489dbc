\* Two of each actor; bounds of the exploration: two seconds and files, ranges and months, rounds.
CONSTANTS
  c1 = c1
  c2 = c2
  i1 = i1
  i2 = i2
  k1 = k1
  k2 = k2
  h1 = h1
  h2 = h2
  x1 = x1
  x2 = x2
  b1 = b1
  b2 = b2
  r1 = r1
  r2 = r2
  Contents <- MCContents
  Partial = Partial
  Clicks = {j1}
  MaxSecond = 2
  MaxFiles = 2
  Quiet = TRUE
  SecondsApart = TRUE
  MaxRows = 2
  MaxMonth = 2
  Prefixes = {1}
  Plain = 1
  ConfigRange <- MCConfigRange
  MaxAsked = 2
  Requests <- MCRequests
  Tens = {3}
  Collectors <- MCHandlers
  Administrators = {a1}
  SwitchesApart = TRUE
  Lines <- MCLines
  KitchensOf <- MCKitchensOf
  Cooks <- MCHandlers
  Marks = {"preparing", "ready", "delivered"}
  Rounds = 2
  Tickets <- MCTickets
  MaxBegun = 4
  ChangesApart = TRUE
  Parcels <- MCThings
  Alerted <- MCAlerted
  Starters <- MCHandlers
  Mesas <- MCThings
  Checks <- MCChecks
  Waiters <- MCHandlers
  MovesApart = TRUE
  MaxTaken = 1
SPECIFICATION Spec
SYMMETRY Symmetric
INVARIANTS HouseTypeOK NumbersAccounted ReadyAnnounced AlertsAccounted Seated
PROPERTIES SnapshotBefore BackupsKept
CHECK_DEADLOCK FALSE
