SPECIFICATION Spec
CONSTANTS
  Uids = {u1}
  Logins = {l1}
  Fds = {f1, f2}
  Requests = {r1, r2}
  MaxAgents = 4
  None = None
  MaxClient = 2
  MaxNum = 1
  ExpandBy = 1
  Relogin = FALSE
  Reconnect = TRUE
  ClockPast = FALSE
SYMMETRY Symmetry
INVARIANTS
  ClientHeard
CHECK_DEADLOCK FALSE
