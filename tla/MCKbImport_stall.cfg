\* Two workers that may miss their heartbeats and two administrators at one document; everything fails.
CONSTANTS
  Doc = {1}
  Queue = {q1}
  Worker = {w1, w2}
  Request = {r1, r2}
  Content = {c1}
  MaxAttempts = 2
  None = None
  Hazard = {"crash", "fault", "abort", "orphan", "stall"}
SPECIFICATION Spec
SYMMETRY Symmetry
PROPERTY UnpublishedIsFinal
