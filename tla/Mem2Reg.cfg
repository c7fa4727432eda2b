CONSTANTS
  e = e
  p = p
  q = q
  r = r
  s = s
  t = t
  u = u
  v = v
  Block = {e, p, q, r, s, t}
  Entry = e
  Var = {u, v}
  Const <- MCConst
  Programs <- MCPrograms
SPECIFICATION Spec
INVARIANTS TypeOK StacksRight Promoted
PROPERTY Terminates
CHECK_DEADLOCK FALSE
