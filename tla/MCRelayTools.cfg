SPECIFICATION Spec
CONSTANTS
  Clients = {"messages"}
  Payloads <- MCPayloads
  Noise = {}
  MaxData = 3
  MaxNoise = 0
INVARIANT
  EveryDeltaHitsOpenBlock
CHECK_DEADLOCK FALSE
