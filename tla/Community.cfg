SPECIFICATION MCSpec
CONSTANTS
  Posts = {1, 2, 3}
  Coarse = {0, 1}
  Fine = {0, 1}
  Limit = 1
  People = {"ann", "bob"}
  Callers = {c1, c2}
  Stories = {p1}
  StoryTypes = {"praise", "poll"}
  Drafts <- SomeDrafts
  Edits <- SomeEdits
  Members = {"ann"}
  Readers = {"bob"}
  Moderators = {"bob"}
  Values = {"v1"}
  Options = {"o1", "o2"}
  Alone <- OneAfterTheOther
  Notices = {"a1"}
  Authors = {"ann"}
  Emojis = {"e"}
  Employees = {e1, e2}
  Years = {1, 2}
  Boosts = {0, 1}
  Tiers = {1}
  RemindedAlone <- RemindersAlone
  NoOne = NoOne
  Videos = {"t1"}
  Seeds = {"started"}
SYMMETRY Symmetry
INVARIANTS
  
  SteadyPostsOnce
  
  
PROPERTIES
  
  BalancesStand
CHECK_DEADLOCK FALSE
