\* One document, two queues, one administrator; workers crash and registry calls fail.
CONSTANTS
  Doc = {1}
  Queue = {q1, q2}
  Worker = {w1, w2}
  Request = {r1}
  Content = {c1}
  MaxAttempts = 2
  None = None
  Hazard = {"crash", "fault"}
SPECIFICATION Spec
SYMMETRY Symmetry
INVARIANTS
  TypeOK
  StagesInOrder
  PublishedIsSearchable
  NoEmptyVertical
  UnpublishedIsGone
  CanResume
  OwnsDocument
PROPERTIES OnlyOwnerWrites ImplementsWorkQueue
