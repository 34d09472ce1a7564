SPECIFICATION ProductionSpec
CONSTANTS
  steel = steel
  NumOrders = 2
  Product = {steel}
  NumWarehouses = 2
  NumItems = 1
  NumBatches = 1
  Session = {}
  Boms <- OnePerUnit
  AssistantTotals = {}
  Amount = {1}
  LineQty = {1}
  StockRange = {0, 1, 2}
  NumStages = 1
  MaxStarts = 1
INVARIANTS ProductionTypeOK ReservedMatchesHolds ConsumptionWasTaken PlannedBatchesKeepNoMaterial
PROPERTIES StartsLeaveOthersTheirHolds
