SPECIFICATION Spec
CONSTANTS
  q1 = q1
  q2 = q2
  q3 = q3
  q4 = q4
  q5 = q5
  Requests = {q1, q2, q3, q4, q5}
  Kind <- OneOfEach
  Chars <- MixedChars
  LastTick = 4
  Minute <- TwoPerMinute
  Day <- TwoPerDay
  Week <- NewWeek
  MonthEnds = {2}
  MinuteLimit = 2
  DayLimit = 3
  WeekLimit = 5
  MaxInFlight = 2
CHECK_DEADLOCK FALSE
INVARIANTS WeekLimitHeld WeekIsCharged OvershootIsConcurrency
