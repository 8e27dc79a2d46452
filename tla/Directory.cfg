SPECIFICATION MCSpec
CONSTANTS
  Users = {"ann", "bob"}
  NoUser = NoUser
  Founders <- OneFounder
  Managers <- OneFounder
  Imported <- SecondNumber
  RoleSets <- AdminOrNot
  Calls = {x1, x2}
  Overlapping = {"login"}
  Ops <- Everything
  MaxSecret = 5
  MaxNumber = 3
  MaxNow = 1
  ResetLife = 1
  Logins = {1, 2}
  LoginTabs = {x1, x2}
  LastMinute = 4
  IdleThreshold = 2
  Communities = {g}
  People = {p, a, b}
  PlatformAdmins = {p}
  MemberCalls = {m1}
  Staff = {"ann", "bob"}
  FieldValues <- Values
  FirstRecords <- TwoRecords
  AskedEdits <- TwoEdits
  Turns = {1, 2, 3}
  ChatTabs = 1
  Tools = {x1, x2}
  EditsRace = FALSE
SYMMETRY Symmetry
INVARIANTS
  DirectoryStands
  
PROPERTIES
  
  RolesAreKept
  
CHECK_DEADLOCK FALSE
