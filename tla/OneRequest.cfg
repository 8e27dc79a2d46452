SPECIFICATION Spec
CONSTANTS
  Employees = {"e"}
  Users = {"e", "m", "h"}
  HrApprovers = {"h"}
  Admins = {}
  UndoWindow = 0
  Requests = {r1}
  NoRequest = NoRequest
  Calls = {c1}
  Coaches = {"m"}
  Supervisor <- OneSupervisor
  Offered = {"coaching", "learning_subsidy"}
  Ops <- Everything
  TokensPerYear = 3
  OptionCost <- SmallCosts
  MaxSubsidy = 2
  Boosts = {0, 1}
  MaxYear = 2
  MaxNow = 1
SYMMETRY Symmetry
INVARIANTS
  TypeOK
  DecisionRecordAgrees
  AuditColumnsAgree
  ApprovalsBackThem
PROPERTIES
  ImplementsLifecycle
  StepsKeepPromises
