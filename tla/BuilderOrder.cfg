CONSTANTS
  Programs <- OrderPrograms
  Nodes <- MCNodes
  Tests = 4
SPECIFICATION Spec
INVARIANT AddressFirst
CHECK_DEADLOCK FALSE
