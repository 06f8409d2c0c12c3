CONSTANTS
  x1 = x1
  x2 = x2
  f1 = f1
  f2 = f2
  Thread = {t1, t2}
  Cp = {c1}
  Port = {p1}
  File = {f1}
  Op = {x1, x2}
  Msg = {}
  Token = {k1}
  Size = {2}
  FileOf <- OneFile
  Timeout <- Unlucky
  DwordLimit = 8
  Nullopt = Nullopt
  Null = Null
  Unbuilt = Unbuilt
  Idle = Idle
  None = None
SPECIFICATION FairSpec
PROPERTY TimedGetReturns
CHECK_DEADLOCK FALSE
