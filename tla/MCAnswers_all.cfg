\* Every part once, in a small instance of its own.
CONSTANTS
  Parts = {"chat", "ingest", "alerts", "prices", "widget", "setup"}
  Queue = {q1, q2}
  Vertical = {v1}
  Send = {s1}
  All = All
  Limit = 2
  MaxChanges = 2
  Job = {j1, j2}
  Chunk = {c1, c2}
  Text = {t1, t2}
  Absent = Absent
  NoVector = NoVector
  Queued = {j1}
  MaxLines = 2
  BatchSize = 1
  Request = {r1, r2}
  Route = {x1}
  Org = {o1, o2}
  NoOrg = NoOrg
  Platforms = {o1, NoOrg}
  Window = 1
  MaxClock = 1
  Call = {k1, k2}
  TTL = 2
  MaxCatalogClock = 2
  NoList = NoList
  Turn = {w1, w2}
  UseAuth = TRUE
  MaxFailures = 1
  Editor = {e1, e2}
  Prompt = {p1, p2}
  Account = {a1}
  Model = {m1}
  None = None
SPECIFICATION Spec
INVARIANTS
  TypeOK
  RecordsAgree
  NothingIsStale
  AlertsReachTheirOwn
PROPERTIES
  
  NothingHangs
CHECK_DEADLOCK FALSE
