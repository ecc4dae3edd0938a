CONSTANTS
  r1 = r1
  r2 = r2
  r3 = r3
  Requests = {r1, r2, r3}
  NoRequest = NoRequest
  Readers = {}
  MaxSSEClients = 1
  Buffer = 1
  RingSize = 1
  MaxEvents = 2
  MaxBackoff = 3
  EventsKept = 2
  LogLines = 2
  StaticLogs = 1
  MaxBreaks = 1
  MaxFailures = 4
SPECIFICATION LiveSpec
CHECK_DEADLOCK FALSE
INVARIANTS
  LiveTypeOK
  OneConnection
  BackoffDoubles
  LogInOrder
PROPERTIES
  BroadcastEnds
  HangUpReleases
  ComesBack
