SPECIFICATION Spec
CONSTANTS
  SlaDays = 3
  EscalationDays = 6
  MaxDay = 8
PROPERTIES
  ClockStartsOver
CHECK_DEADLOCK FALSE
