SPECIFICATION Spec
CONSTANTS
  Players = {p1, p2}
  Agents = {a1, a2}
  Order <- MCOrder
  None = None
  Blank = Blank
  MaxUin = 2
  MaxLogins = 2
  MaxFaults = 1
  MaxRunning = 2
  MaxThreads = 3
SYMMETRY Symmetry
INVARIANTS TypeOK UinOwned RoleComplete HashMeansSaved
PROPERTY RecycledSaved
CHECK_DEADLOCK FALSE
