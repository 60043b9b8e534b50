\* One file; a scheduler that keeps ticking; one of two workers stops or crashes.
CONSTANTS
  File = {f1}
  Folder = {t1}
  Worker = {w1, w2}
  Run = {r1, r2}
  Client = {c1}
  MaxVersion = 1
  MAX_FILE_ATTEMPTS = 2
  None = None
  Hazard = {"crash"}
SPECIFICATION FairSpec
PROPERTIES Converges
