CONSTANTS
  Texts <- MCTexts
  Identifiers <- MCIdentifiers
  Integers <- MCIntegers
  Floats <- MCFloats
  Number <- MCNumber
  OutOfRange = "out of range"
SPECIFICATION Spec
INVARIANTS Faithful CastsSound FreedOnce PrintedInOrder RootSet
CHECK_DEADLOCK FALSE
