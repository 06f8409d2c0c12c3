CONSTANTS
  Text <- Texts4
  Formed <- Borders
  Given <- Given6
  Dot = Dot
  Other = Other
  Nullopt = Nullopt
  Idle = Idle
  Parsing = Parsing
  Absent = Absent
  Printing = Printing
  Object = {o1, o2}
  NoObject = NoObject
  Ip4 = {any4, ip4}
  Ip6 = {any6, ip6}
  Zero4 = any4
  Zero6 = any6
  Number16 = {0, 1, 258, 513}
  Number32 = {0, 66049}
  Offset = {0, 1, 4, 13}
  Pointer = {null, q}
  Null = null
  DwordLimit = 4
  Storage = {s1, s2, s3}
  Desc = {d1, d2}
  Conn = {c1, c2, c3}
  NoConn = NoConn
  NoSocket = NoSocket
  Length = {0, 1, 3, 6, 9}
  Step = {0, 1, 2, 4, 5}
  LenSize = 4
  UlongLimit = 16
  MaxAt = 24
  NoSpan = NoSpan
  Terminated = Terminated
SPECIFICATION LocalSpec
INVARIANTS LocalTypeOK JudgesWholeTexts ReadsItsText RoundTrip ClassesAreBlocks OrderIsStrict
  SpanIsLongest OthersDenoteThemselves ClassesAreBlocks6 OrderIsNumeric ConvertsBack KeepsItsQuad
  GettersTell EqualityAgrees HeldUnlessSpread ViewIsTheRest
PROPERTIES LeakOnlyByAssign
CHECK_DEADLOCK FALSE
