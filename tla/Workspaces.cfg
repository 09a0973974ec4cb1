SPECIFICATION Spec
CONSTANTS
  ann = ann
  bob = bob
  Subjects <- MCSubjects
  OidcAdmins = {}
  Requests = {q1, q2}
  Runs = {j1}
  OverrideSets <- MCOverrides
  Workloads <- MCWorkloads
  MaxRequests = 3
  None = None
INVARIANTS  AlwaysAnAdmin AcceptedOnce GoneIsEmpty
CHECK_DEADLOCK FALSE
