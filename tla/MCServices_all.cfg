\* Every part once, in a small instance of its own.
CONSTANTS
  Parts = {"graph", "zoho", "startup", "health", "extract",
           "upload", "migrate", "watchdog", "backup", "chunks", "embed", "queues"}
  File = {f1, f2}
  Folder = {R, d1}
  Root = R
  Outside = Outside
  MAX_RETRIES = 1
  MaxFiles = 2
  MaxScanned = 3
  MaxChunks = 1
  MaxMoves = 1
  Caller = {mail, cli}
  Operator = {cli}
  Grants = {g1}
  NoGrant = NoGrant
  Server = {s1, s2}
  MaxDeaths = 1
  Backend = {b1, b2}
  Component = {"crm"}
  Fault = {"app database"}
  MaxRuns = 3
  MaxEvents = 3
  Import = {i}
  Sync = {s}
  Smoke = {}
  HasSync = TRUE
  Upload = {u1}
  MaxSize = 2
  Gone = Gone
  Target = {disk, oracle}
  Confirmed = {oracle}
  Repeat = 2
  NoMail = NoMail
  MaxLosses = 1
  Stamps = 3
  DumpSize = 2
  KeepN = 0
  MaxChars = 20
  Overlap = 5
  MinChars = 5
  ChunkLimit = 4
  MaxBlocks = 4
  MaxTexts = 5
  BatchSize = 2
  EmbedRetries = 2
  q0 = q0
  q1 = q1
  q2 = q2
  Blank = Blank
  Document = {v1}
  Other = {v2}
  MaxPlace = 1
  NoConfig = NoConfig
SPECIFICATION Spec
INVARIANTS
  TypeOK
  CompleteListsUntouched
  WholeOrNothing
  TransformsAreFaithful
  SchemaIsWhole
  EventsChain
PROPERTIES
  
  NothingHangs
CHECK_DEADLOCK FALSE
