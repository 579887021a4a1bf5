\* Queries over three events, with two ticks to the second.
SPECIFICATION Spec
CONSTANTS
  t1 = t1
  t2 = t2
  Unset = Unset
  Emits = {e1, e2, e3}
  Subjects <- MCSubjects
  Filters <- MCFilters
  TicksPerSecond = 2
  MaxClock = 5
SYMMETRY Interchangeable
INVARIANTS
  RecentEventsFound
  NothingTooOld
CHECK_DEADLOCK FALSE
