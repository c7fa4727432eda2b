CONSTANTS
  f1 = f1
  f2 = f2
  main = main
  a = a
  b1 = b1
  b2 = b2
  b3 = b3
  m = m
  Func = {f1, f2, main}
  Inst = {a, b1, b2, b3, m}
  FuncSeq <- MCFuncSeq
  Programs <- MCPrograms
  MaxRuns = 2
SPECIFICATION Spec
INVARIANTS TypeOK UseListsAgree ExactlyNeeded
PROPERTIES Terminates ImplementsFuncInfo
CHECK_DEADLOCK FALSE
