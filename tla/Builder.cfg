CONSTANTS
  Programs <- MCPrograms
  Nodes <- MCNodes
  Tests = 4
SPECIFICATION Spec
INVARIANTS TypeOK ScopesMatch WellFormed TypesAgree Legal SameBehaviour
CHECK_DEADLOCK FALSE
