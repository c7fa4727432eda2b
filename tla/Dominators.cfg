CONSTANTS
  e = e
  x = x
  y = y
  z = z
  Null = Null
  Block = {e, x, y, z}
  Entry = e
  Graphs <- ReachableGraphs
SPECIFICATION Spec
INVARIANTS TypeOK ClimbsMeet ResultsCorrect
PROPERTY Terminates
CHECK_DEADLOCK FALSE
