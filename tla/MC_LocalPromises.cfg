CONSTANTS
  Text <- OneField
  Formed = {}
  Given = {}
  Dot = Dot
  Other = Other
  Nullopt = Nullopt
  Idle = Idle
  Parsing = Parsing
  Absent = Absent
  Printing = Printing
  Object = {o1, o2}
  NoObject = NoObject
  Ip4 = {any4}
  Ip6 = {any6}
  Zero4 = any4
  Zero6 = any6
  Number16 = {0}
  Number32 = {0, 1}
  Offset = {0}
  Pointer = {null}
  Null = null
  DwordLimit = 4
  Storage = {s1}
  Desc = {d1}
  Conn = {c1}
  NoConn = NoConn
  NoSocket = NoSocket
  Length = {1}
  Step = {4}
  LenSize = 4
  UlongLimit = 16
  MaxAt = 4
  NoSpan = NoSpan
  Terminated = Terminated
SPECIFICATION TogetherSpec
INVARIANT SomePromiseKept
CHECK_DEADLOCK FALSE
