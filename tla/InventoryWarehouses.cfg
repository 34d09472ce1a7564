SPECIFICATION Spec
CONSTANTS
  steel = steel
  NumOrders = 1
  Product = {steel}
  NumWarehouses = 2
  NumItems = 1
  NumBatches = 2
  Session = {1}
  Boms <- OnePerUnit
  AssistantTotals = {0, 1}
  Amount = {1}
  LineQty = {1, 2}
  StockRange = {0, 1}
INVARIANTS ReservedMatchesHolds BatchesFitTheLine
PROPERTIES ArrivalsLeaveNobodyWaiting
