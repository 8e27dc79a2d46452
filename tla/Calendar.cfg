SPECIFICATION MCSpec
CONSTANTS
  MicrosoftAccounts = {m1, m2}
  NoAccount = NoAccount
  Calls = {c1, c2}
  Life = 3
  MaxToken = 3
  MaxEvents = 1
  MaxNow = 3
  DayLength = 6
  Ahead = 2
  WeekLength = 2
  Horizon = 2
  DefaultLength = 1
  HoursSent <- SomeHours
  Lengths = {2}
  Meetings <- SomeMeetings
  Sessions = {s1}
  Readers = {r1}
  MaxClock = 5
SYMMETRY Symmetry
INVARIANTS
  
  
  GraphGetsLiveTokens
  OffersFitTogether

  
CHECK_DEADLOCK FALSE
