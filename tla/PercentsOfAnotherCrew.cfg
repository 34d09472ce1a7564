SPECIFICATION Spec
CONSTANTS
  None = None
  Worker = {"ann", "bob", "cid"}
  Employee = {}
  Admin = {"boss"}
  Order = {"order"}
  Task = {}
  Tap = {1}
  MaxNumbers = 1
INVARIANT SplitsCoverTheCrew
