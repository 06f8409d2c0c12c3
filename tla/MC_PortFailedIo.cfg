CONSTANTS
  x1 = x1
  x2 = x2
  f1 = f1
  f2 = f2
  Thread = {t1, t2}
  Cp = {c1, c2}
  Port = {p1, p2}
  File = {f1, f2}
  Op = {x1, x2}
  Msg = {m1}
  Token = {k1, k2}
  Size = {2}
  FileOf <- FilePerOp
  Timeout <- Plain
  DwordLimit = 8
  Nullopt = Nullopt
  Null = Null
  Unbuilt = Unbuilt
  Idle = Idle
  None = None
SPECIFICATION Spec
SYMMETRY Symmetry
INVARIANT GetReturnsWhatItTakes
CHECK_DEADLOCK FALSE
