SPECIFICATION MCSpec
CONSTANTS
  Ids = {1, 2}
  ReplayLimit = 1
  Tabs = {t1, t2}
  SlaDays = 3
  EscalationDays = 6
  MaxDay = 8
  Persons = {"ann", "bob", "gus"}
  Gone = {"gus"}
  Insiders = {"ann"}
  Notices = {n1}
  JobDescriptions = {"clerk", "buyer"}
  Urls = {"a", "b", "x"}
  Provided = {"a", "b"}
  Replies <- Answers
  CoursesPerRole = 2
  Generating = {r1, r2}
  Overlaps = FALSE
  Approvers = {"ann"}
  Employee = "eve"
INVARIANTS
  
  NothingFallsBetween
  SuggestionsAgree
  EmployeeBellsStand
PROPERTIES
  StepsStand
  StalledIsEscalated
  UnreadReachesOpenTabs
CHECK_DEADLOCK FALSE
