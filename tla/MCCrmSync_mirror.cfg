\* One file of one folder, its content changing once, every failure but a stall: the abstract mirror.
CONSTANTS
  File = {f1}
  Folder = {t1}
  Worker = {w1, w2}
  Run = {r1, r2}
  Client = {c1}
  MaxVersion = 2
  MAX_FILE_ATTEMPTS = 2
  None = None
  Hazard = {"crash", "fault", "abort", "edit"}
SPECIFICATION Spec
SYMMETRY Symmetry
PROPERTIES ImplementsMirror
