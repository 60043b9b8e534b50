\* Two replicas and one administrator over two days of two hours.
CONSTANTS
  Scheduler = {s1, s2}
  Admin = {a1}
  Day = 2
  Hours = {0, 1}
  Intervals = {1}
  MaxDay = 1
  None = None
SPECIFICATION Spec
INVARIANTS
  ScheduledIffOn
PROPERTIES
  OncePerOccurrence
  DueIsServed
\* Time ends with MaxDay.
CHECK_DEADLOCK FALSE
