CONSTANTS
  f = f  s = s  o1 = o1  o2 = o2  e1 = e1
  Thread = {t1, t2}
  File = {f}
  SyncFile = {s}
  Ov = {o1, o2}
  Event = {e1}
  EventsFor <- OwnOrNone
  Size = {3}
  DwordLimit = 2
  NoEvent = NoEvent
  Unused = Unused
  Away = Away
SPECIFICATION FairSpec
INVARIANTS TypeOK WaitNeverNullopt NoLostWakeup
PROPERTIES AnswersItsOwnIo CompletedWaitEnds
