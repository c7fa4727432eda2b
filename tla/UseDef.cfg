CONSTANTS
  x = x
  y = y
  c = c
  Null = Null
  User = {x, y}
  Val = {x, y, c}
  MaxOps = 2
SPECIFICATION Spec
INVARIANTS TypeOK UsesExact NoErasedOperand
PROPERTY ImplementsDefUse
CHECK_DEADLOCK FALSE
