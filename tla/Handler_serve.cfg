CONSTANTS
  receiver = receiver
  keepalive = keepalive
  handler = handler
  nobody = nobody
  Workers = {receiver, keepalive}
  Main = handler
  NoOne = nobody
  Receiver = receiver
  Keepalive = keepalive
  Spawns <- HandlerSpawns
  Calls = {}
  Outcomes = {"Err"}
  QueueCap = 2
  MaxUpdates = 3
SPECIFICATION FairHandlerSpec
CHECK_DEADLOCK FALSE
INVARIANTS HandlerTypeOK NothingLost NoHelperLeft
PROPERTIES Delivered DisconnectNoticed
