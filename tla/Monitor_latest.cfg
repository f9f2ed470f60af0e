CONSTANTS
  NoClient = NoClient
  systemd = systemd
  journal = journal
  metrics = metrics
  Clients = {c1, c2}
  Holders = {}
  PushSources <- OnlySystemd
  Watchers = {systemd}
  PullSources = {}
  SpawnFails = {}
  IdSpace = 4
  EventCap = 2
  QueueCap = 2
  MaxVersion <- Twice
SPECIFICATION Spec
CHECK_DEADLOCK FALSE
INVARIANT NewSubscriberSeesLatest
