SPECIFICATION Spec
CONSTANTS
  r1 = r1
  r2 = r2
  None = None
  c1 = c1
  c2 = c2
  q1 = q1
  q2 = q2
  Connection = {c1, c2}
  Racing = {"orders"}
  Request = {q1, q2}
  Requirement = {r1, r2}
  NumCustomers = 2
  For <- ForEach
  Need <- Needs
  Forms <- BothForms
  Direct <- TwoLines
  Totals = {}
  Receipts = {2}
  NumOrders = 2
  NumLines = 3
  NumVersions = 0
  MaxReceived = 2
SYMMETRY Alike
INVARIANTS ProcurementTypeOK RequirementsBoughtOnce ReceiptsReachTheStock DeliveredOrdersAreComplete
PROPERTY ConversionsKeepTheQuantity
