\* One file in one of two folders; workers stop and crash, registry calls fail.
CONSTANTS
  File = {f1}
  Folder = {t1, t2}
  Worker = {w1, w2}
  Run = {r1, r2}
  Client = {c1}
  MaxVersion = 2
  MAX_FILE_ATTEMPTS = 2
  None = None
  Hazard = {"crash", "fault", "abort", "edit"}
SPECIFICATION Spec
SYMMETRY Symmetry
INVARIANTS
  TypeOK
  OwnsRun
  EntitiesAreCurrent
  NothingLeftBehind
  CacheIsOfThisLocation
