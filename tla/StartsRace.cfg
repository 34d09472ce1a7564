SPECIFICATION Spec
CONSTANTS
  p1 = p1
  p2 = p2
  b1 = b1
  b2 = b2
  t1 = t1
  t2 = t2
  None = None
  NumOrders = 2
  Product = {p1, p2}
  Batch = {b1, b2}
  Tx = {t1, t2}
  OrderOf <- MCBatchOrder
  Need <- MCNeed
  Supply <- MCSupply
  Given = {2}
  Request <- TwoStarts
INVARIANTS
  StartsFindTheirMaterial
CHECK_DEADLOCK FALSE
