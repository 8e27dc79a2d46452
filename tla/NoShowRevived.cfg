SPECIFICATION Spec
CONSTANTS
  Cycles <- OneCycle
  NoCycle = NoCycle
  CoachOf <- OneCycleCoach
  EmployeeOf <- OneCycleEmployee
  Coaches = {"kim"}
  NoCoach = NoCoach
  Slots = {k1, k2, k3}
  NoSlot = NoSlot
  Times <- ThreeTimes
  SessionsPerCycle = 2
  Sessions = {s1, s2}
  NoSession = NoSession
  Calls = {c1}
  Ops <- BookAndReplace
SYMMETRY Symmetry
INVARIANTS
  NoDoubleBooking
CHECK_DEADLOCK FALSE
