CONSTANTS
  Main = Main
  NoOne = NoOne
  w1 = w1
  w2 = w2
  w3 = w3
  Workers = {w1, w2}
  Spawns <- PairSpawns
  Calls = {"wait", "poll", "terminate", "detach"}
  Outcomes = {"Ok", "Err", "Panic"}
SPECIFICATION Spec
CHECK_DEADLOCK FALSE
INVARIANTS TypeOK ResultAfterJoin NoOrphans FailureReachesParent JoinedOnce OnlyUpwardDeadlocks
PROPERTY Scoped
