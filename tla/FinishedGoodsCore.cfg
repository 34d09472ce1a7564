SPECIFICATION GoodsSpec
CONSTANTS
  NumItems = 2
  NumOrders = 1
  NumBatches = 2
  NumUnits = 2
  NumShipments = 1
  NumStages = 1
  Parts <- FrameInPallet
  Units = {1}
  MaxClaim = 1
INVARIANTS GoodsTypeOK OutputOnlyOfStartedBatches ConsumedUnitsAreOnAPickList ShippedUnitsExist
PROPERTIES StartsLeaveOthersTheirClaims DeliveredUnitsStayOut
