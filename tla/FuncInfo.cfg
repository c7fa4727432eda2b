CONSTANTS
  f1 = f1
  f2 = f2
  f3 = f3
  f4 = f4
  i1 = i1
  i2 = i2
  i3 = i3
  Func = {f1, f2, f3, f4}
  Inst = {i1, i2, i3}
  FuncSeq <- MCFuncSeq
  Programs <- MCPrograms
  MaxRuns = 2
SPECIFICATION Spec
INVARIANTS TypeOK Sound Precise QueuedOnce
PROPERTIES Terminates ImplementsPurity
CHECK_DEADLOCK FALSE
