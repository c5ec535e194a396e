SPECIFICATION Spec
CONSTANTS
  Listed = {"a", "b"}
  Added = {"u"}
  Found = {"d"}
  Gateways = {"g"}
  Lists = {"l", "m"}
  MaxWork = 2
INVARIANTS
  ByosStaysInMemory
CHECK_DEADLOCK FALSE
