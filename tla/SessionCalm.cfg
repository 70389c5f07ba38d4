SPECIFICATION Spec
CONSTANTS
  Uids = {u1, u2}
  Logins = {l1, l2}
  Fds = {f1, f2}
  Requests = {r1, r2}
  MaxAgents = 4
  None = None
  MaxClient = 2
  MaxNum = 1
  ExpandBy = 1
  Relogin = FALSE
  Reconnect = FALSE
  ClockPast = TRUE
SYMMETRY Symmetry
INVARIANTS
  AgentExclusive
  ClientHeard
  StartAlive
  SessionKnown
  ClosedForgotten
CHECK_DEADLOCK FALSE
