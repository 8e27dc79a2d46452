SPECIFICATION MCSpec
CONSTANTS
  Employees = {"e"}
  Users = {"e", "m", "h"}
  HrApprovers = {"h"}
  Admins = {}
  Approvers = {"m"}
  Coaches = {"h"}
  UndoWindow = 0
  Requests = {i1, i2}
  One = {r0}
  NoRequest = NoRequest
  Calls = {c0}
  Supervisor <- OneSupervisor
  Offered = {"coaching", "task_offloading", "learning_subsidy"}
  Ops <- OnceOnly
  TokensPerYear = 3
  OptionCost <- SmallCosts
  MaxSubsidy = 2
  Boosts = {0, 1}
  MaxYear = 2
  MaxNow = 0
SYMMETRY Symmetry
INVARIANTS
  SubmissionRulesHold
  ViewsFollowRequests
  
PROPERTIES
  ChecksHold
