SPECIFICATION Spec
CONSTANTS
  r1 = r1
  r2 = r2
  None = None
  c1 = c1
  c2 = c2
  q1 = q1
  q2 = q2
  Connection = {c1, c2}
  Racing = {"schedules"}
  Request = {q1}
  Requirement = {r1, r2}
  NumCustomers = 2
  For <- ForEach
  Need <- Needs
  Forms <- SharedForm
  Direct <- OneLine
  Totals = {1, 2}
  Receipts = {}
  NumOrders = 2
  NumLines = 1
  NumVersions = 3
  MaxReceived = 0
SYMMETRY Alike
INVARIANT VersionsKeepTheQuantity
PROPERTY VersionsMoveForward
