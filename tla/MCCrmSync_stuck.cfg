\* Failing registry calls only.
CONSTANTS
  File = {f1}
  Folder = {t1}
  Worker = {w1, w2}
  Run = {r1, r2}
  Client = {c1}
  MaxVersion = 2
  MAX_FILE_ATTEMPTS = 1
  None = None
  Hazard = {"fault"}
SPECIFICATION Spec
INVARIANT ProcessingHasRun
