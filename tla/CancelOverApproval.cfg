SPECIFICATION Spec
CONSTANTS
  Employees = {"e"}
  Users = {"e", "m", "h"}
  HrApprovers = {"h"}
  Admins = {}
  UndoWindow = 0
  Requests = {r1}
  NoRequest = NoRequest
  Calls = {c1, c2}
  Coaches = {"m"}
  Supervisor <- OneSupervisor
  Offered = {"coaching"}
  Ops = {"create", "managerApprove", "cancel"}
  TokensPerYear = 3
  OptionCost <- SmallCosts
  MaxSubsidy = 2
  Boosts = {0}
  MaxYear = 1
  MaxNow = 0
SYMMETRY Symmetry
PROPERTIES
  ApprovedNeverCancelled
CHECK_DEADLOCK FALSE
