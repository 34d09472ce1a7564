SPECIFICATION Spec
CONSTANTS
  steel = steel
  NumOrders = 2
  Product = {steel}
  NumWarehouses = 1
  NumItems = 1
  NumBatches = 2
  Session = {}
  Boms <- TwoPerUnit
  AssistantTotals = {}
  Amount = {1, 2}
  LineQty = {1}
  StockRange <- NarrowStock
INVARIANTS TypeOK ReservedMatchesHolds
PROPERTIES GrantsFitFreeStock ArrivalsServeOldestFirst ArrivalsLeaveNobodyWaiting ArrivalsFeedOnlyRunningOrders
