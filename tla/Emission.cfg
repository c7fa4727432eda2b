CONSTANTS
  Params <- MCParams
  Programs <- MCPrograms
  Lengths = {1, 2}
  MaxBlocks = 2
  MaxInsts = 2
  MaxGlobals = 1
SPECIFICATION Spec
INVARIANTS TypeOK Canonical TextReadable
CHECK_DEADLOCK FALSE
