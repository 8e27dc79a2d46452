SPECIFICATION MCSpec
CONSTANTS
  Cycles <- ThreeCycles
  NoCycle = NoCycle
  CoachOf <- CycleCoach
  EmployeeOf <- CycleEmployee
  Coaches = {"kim", "lee"}
  NoCoach = NoCoach
  Slots = {k1, k2, k3}
  NoSlot = NoSlot
  Times <- ThreeTimes
  SessionsPerCycle = 1
  Sessions = {s1, s2}
  NoSession = NoSession
  Calls = {c1}
  Ops <- Answered
SYMMETRY Symmetry
INVARIANTS
  TypeOK
  NoDoubleBooking
  OneActivePerNumber
  CalendarFollowsSessions
  SlotsFollowSessions
PROPERTIES
  ImplementsLifecycle
CHECK_DEADLOCK FALSE
