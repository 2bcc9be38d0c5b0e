\* Two logins, a request, a heartbeat; or three frames to read.
SPECIFICATION MCSpec
CONSTANTS
  t1 = t1
  a = a
  b = b
  odd = odd
  torn = torn
  Main = Main
  None = None
  Task = {t1}
  MaxLogins = 2
  MaxRequests = 1
  MaxBeats = 2
  MaxOther = 1
  Msg <- FourMessages
  Status <- FourStatus
  FlatFrames <- ThreeFlat
  NestedFrames <- FourNested
  MaxSent = 3
INVARIANTS
SessionInv
EachOnce
PROPERTIES
SessionsAdvance
ShutdownReturns
DropStopsHeartbeat
ImplementsFeed
Drains
