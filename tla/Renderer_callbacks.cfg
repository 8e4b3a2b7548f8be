SPECIFICATION Spec
CONSTANTS
  n1 = n1
  n2 = n2
  app = app
  Names = {n1, n2}
  Apps = {app}
  AppOf <- SameApp
  Slots = {s1, s2}
  Views = {v1, v2}
  Pages = {p1}
  Ids = {r1, noreturn}
  NoReturn = noreturn
  None = None
  MaxConns = 2
  MaxRequests = 2
  Environments <- Endings
  RequestBound <- Two
INVARIANT CallbacksHaveSessions
CHECK_DEADLOCK FALSE
