SPECIFICATION Spec
CONSTANTS
  Clients = {"responses", "messages", "chat"}
  Payloads <- MCPayloads
  Noise <- MCNoise
  MaxData = 4
  MaxNoise = 1
INVARIANTS
  BlocksTakeTurns
  DeltasFindTheirBlock
  ItemsKeepTheirPromise
  ResponseTellsTheAnswer
  MessageTellsTheAnswer
  UsageReachesTheStore
CHECK_DEADLOCK FALSE
