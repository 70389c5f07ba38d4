SPECIFICATION Spec
CONSTANTS
  Uids = {u1}
  Logins = {l1, l2}
  Fds = {f1, f2, f3}
  Requests = {r1, r2}
  MaxAgents = 3
  None = None
  MaxClient = 2
  MaxNum = 1
  ExpandBy = 1
  Relogin = TRUE
  Reconnect = TRUE
  ClockPast = FALSE
SYMMETRY Symmetry
INVARIANTS
  LoginLock
  Routable
  ClientNumberExact
  OneAgentPerToken
  RegisteredByToken
CHECK_DEADLOCK FALSE
