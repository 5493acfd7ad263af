SPECIFICATION Spec
CONSTANTS
  Requests = {r1, r2}
  Asks <- MCAsks
  FirstNow = 3
  MaxNow = 5
  Limit = 3
  MaxPages = 2
  DayOpen <- MCDayOpen
  Reach = 1
  Tolerance = 0
  OnBybit = TRUE
  Faults = {"db", "provider"}
INVARIANTS TypeOK AnswersAscend TailIsFresh CachingNeverFails UnboundedStaysWhole
CHECK_DEADLOCK FALSE
