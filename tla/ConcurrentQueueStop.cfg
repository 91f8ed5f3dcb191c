CONSTANTS
  Items = {e1}
  Producers = {p1}
  MaxLength = 1
SPECIFICATION FairSpec
PROPERTY PopReturnsOnStop
CHECK_DEADLOCK FALSE
