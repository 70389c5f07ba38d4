CONSTANTS
  Ids = {0, 1, 2}
  Line = {0, 3, 4, 12}
  Points <- MCPoints
  Modes <- MCModes
  Radius = 4
  MaxVersion = 2
  PRE_ALLOC = 2
SPECIFICATION SpaceSpec
INVARIANTS TypeOK RefExact AccountedFor ToldOnce MapFinds MapChained
