SPECIFICATION Spec
CONSTANTS
  Servers = {s1, s2}
  Entry <- MCEntry
  MaxIndex = 3
INVARIANTS Gapless ReadsTheLog BatchProgresses
PROPERTY ImplementsLog
CHECK_DEADLOCK FALSE
