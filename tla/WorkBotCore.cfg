SPECIFICATION Spec
CONSTANTS
  None = None
  Worker = {"ann"}
  Employee = {"ann"}
  Admin = {"boss"}
  Order = {"order"}
  Task = {"task"}
  Tap = {1}
  MaxNumbers = 1
INVARIANTS WorkBotTypeOK RecordedOnce TypedForItsJob
