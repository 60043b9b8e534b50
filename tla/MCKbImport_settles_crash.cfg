\* One document, two workers of which one crashes or stops.
CONSTANTS
  Doc = {1}
  Queue = {q1}
  Worker = {w1, w2}
  Request = {r1}
  Content = {c1}
  MaxAttempts = 1
  None = None
  Hazard = {"crash", "fault"}
SPECIFICATION FairSpec
PROPERTY EventuallySettled
