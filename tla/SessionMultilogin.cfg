SPECIFICATION Spec
CONSTANTS
  Uids = {u1}
  Logins = {l1, l2}
  Fds = {f1, f2}
  Requests = {r1, r2}
  MaxAgents = 4
  None = None
  MaxClient = 2
  MaxNum = 1
  ExpandBy = 1
  Relogin = TRUE
  Reconnect = FALSE
  ClockPast = FALSE
SYMMETRY Symmetry
INVARIANTS
  OnePlayingPerUid
CHECK_DEADLOCK FALSE
