CONSTANTS
  i1 = i1
  i2 = i2
  i3 = i3
  i4 = i4
  a = a
  g = g
  nullptr = nullptr
  Instr <- MCInstr
  Values <- MCValues
  Modules <- MCModules
  Eliminated <- MCEliminated
SPECIFICATION Spec
INVARIANT GoesOn
CHECK_DEADLOCK FALSE
