CONSTANTS
  r1 = r1
  r2 = r2
  c1 = c1
  Requests = {r1, r2}
  Readers = {c1}
  MaxSSEClients = 1
  Buffer = 1
  RingSize = 3
  MaxEvents = 5
SPECIFICATION StreamSpec
SYMMETRY MCRequests
INVARIANTS
  StreamTypeOK
  NothingSkipped
  NobodyLeftBehind
  SnapshotIntact
