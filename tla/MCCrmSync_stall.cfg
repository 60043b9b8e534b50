\* Zombies: one item, its one content, a budget of one attempt, no edits of the source.
CONSTANTS
  File = {f1}
  Folder = {t1}
  Worker = {w1, w2}
  Run = {r1, r2}
  Client = {c1}
  MaxVersion = 1
  MAX_FILE_ATTEMPTS = 1
  None = None
  Hazard = {"stall", "crash", "fault", "abort"}
SPECIFICATION Spec
SYMMETRY Symmetry
INVARIANTS
  CompletedRunIsClean
