\* Three messages around one update, under fairness.
CONSTANTS
  Lookup = {m1, m2, m3}
  NONE = NONE
  MaxVersion = 2
  MaxFaults = 1
SPECIFICATION FairSpec
INVARIANTS
  TypeOK
  UpdatedUnlessRaced
PROPERTIES
  CacheConverges
CHECK_DEADLOCK FALSE
