SPECIFICATION Spec
CONSTANTS
  Members = {1, 2, 3, 4}
  Scores = {1, 2}
  SKIPLIST_MAXLEVEL = 3
  MaxCount = 2
INVARIANTS TypeOK SpansExact BackwardExact TableAgrees QueriesAgree
PROPERTY ImplementsSortedSet
