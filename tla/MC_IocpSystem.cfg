CONSTANTS
  f = f  o1 = o1  e1 = e1  x1 = x1  x2 = x2
  Thread = {t1, t2}
  File = {f}
  Ov = {o1}
  Event = {e1}
  EventsFor <- OwnEvent
  Size = {5}
  NoEvent = NoEvent
  Unused = Unused
  Away = Away
  Cp = {c1}
  Port = {p1}
  Token = {k1}
  Timeout = {0}
  ListSize = {2}
  Nullopt = Nullopt
  Null = Null
  Unbuilt = Unbuilt
  DwordLimit = 4
  Op = {x1, x2}
  FileOf <- OneFile
  OvOf <- OneOv
  None = None
SPECIFICATION Spec
SYMMETRY Symmetry
INVARIANTS TypeOK ReportsAgree CountMeansPacket
CHECK_DEADLOCK FALSE
