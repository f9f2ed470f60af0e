CONSTANTS
  NoClient = NoClient
  systemd = systemd
  journal = journal
  metrics = metrics
  Clients = {c1, c2}
  Holders = {}
  PushSources <- OnlySystemd
  Watchers = {systemd}
  PullSources = {metrics}
  SpawnFails = {1, 2}
  IdSpace = 3
  EventCap = 2
  QueueCap = 2
  MaxVersion <- PollOnce
SPECIFICATION Spec
CHECK_DEADLOCK FALSE
INVARIANTS TypeOK OwnListener WatchedOnce InOrder Delivery
PROPERTY Fed
SYMMETRY ClientSymmetry
