SPECIFICATION Spec
CONSTANTS
  batch = batch
  task = task
  ann = ann
  bob = bob
  None = None
  NumExecutions = 2
  Batch = {batch}
  Task = {task}
  Units <- OneUnit
  TeamOnly = {batch}
  Rates = {1}
  Funds = {1, 2}
  Amounts = {1}
  Qtys = {1, 2}
  Employee = {ann, bob}
  Crews <- Both
  NumDays = 2
  Period = {"p"}
  DaysOf <- FirstDay
  Manual = {"m"}
  Signed = {1}
  Connection = {"c"}
INVARIANTS ExecutionsTypeOK ConfirmedWithinPlan LedgerMatchesExecutions StampsMatch
PROPERTIES ClosedPeriodsStayAsTheyAre
