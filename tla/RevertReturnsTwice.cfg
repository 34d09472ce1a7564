SPECIFICATION ProductionSpec
CONSTANTS
  steel = steel
  NumOrders = 1
  Product = {steel}
  NumWarehouses = 1
  NumItems = 1
  NumBatches = 1
  Session = {}
  Boms <- OnePerUnit
  AssistantTotals = {}
  Amount = {1}
  LineQty = {1}
  StockRange = {0, 1, 2}
  NumStages = 1
  MaxStarts = 2
INVARIANT NothingReturnedTwice
