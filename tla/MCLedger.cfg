SPECIFICATION Spec
CONSTANTS
  r1 = r1
  r2 = r2
  Requests = {r1, r2}
  MaxEntries = 1
  Retention = 1
  PurgeEvery = 1
  MaxTime = 2
  MaxFaults = 1
  MaxCrashes = 1
SYMMETRY Symmetry
INVARIANTS
  RowsTellTheLastWord
  OnlyEvictionLoses
  OutcomesSettleDecisions
PROPERTY
  PairsStayTogether
CHECK_DEADLOCK FALSE
