CONSTANTS
  NoClient = NoClient
  systemd = systemd
  journal = journal
  metrics = metrics
  Clients = {c1, c2}
  Holders = {c2}
  PushSources <- OnlySystemd
  Watchers = {systemd}
  PullSources = {}
  SpawnFails = {1, 2}
  IdSpace = 2
  EventCap = 1
  QueueCap = 1
  MaxVersion <- FourTimes
SPECIFICATION FairSpec
CHECK_DEADLOCK FALSE
PROPERTIES SendsReturn HandlersServed
