SPECIFICATION Spec
CONSTANTS
  DayLength = 6
  Ahead = 2
  WeekLength = 2
  Horizon = 2
  DefaultLength = 1
  HoursSent <- SomeHours
  Lengths = {2}
  Meetings <- SomeMeetings
  Sessions = {s1}
  Calls = {c1}
  MaxNow = 5
PROPERTIES ActiveSessionsBlock
CHECK_DEADLOCK FALSE
