\* Two users, two handlers, two sockets, two kitchens.
CONSTANTS
  a = a
  b = b
  h1 = h1
  h2 = h2
  s1 = s1
  s2 = s2
  k1 = k1
  k2 = k2
  e1 = e1
  Users <- MCUsers
  First = a
  Roles <- MCRoles
  Perms <- MCPerms
  Default <- MCDefault
  Selections <- MCSelections
  Changes <- MCChanges
  RequestHandlers <- MCHandlers
  MaxVersion = 2
  EditsApart = TRUE
  Sockets <- MCSockets
  Owner <- MCOwner
  Kitchens <- MCKitchens
  Events <- MCEvents
  Nobody = Nobody
  EventsApart = TRUE
  LockUsers <- MCLockUsers
  Attempters <- MCHandlers
  MaxFailures = 2
SPECIFICATION Spec
SYMMETRY Symmetric
INVARIANTS StaffTypeOK SessionsCurrent AdminRemains GuessesBounded
PROPERTIES RefusedForGood DeliveredToEntitled
CHECK_DEADLOCK FALSE
