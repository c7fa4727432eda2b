CONSTANTS
  entry = entry
  true1 = true1
  cont1 = cont1
  true2 = true2
  false2 = false2
  cont2 = cont2
  Null = Null
  Block = {entry, true1, cont1, true2, false2, cont2}
  Entry = entry
  Graphs <- IfIfGraphs
SPECIFICATION Spec
PROPERTY EveryWalkArrives
CHECK_DEADLOCK FALSE
