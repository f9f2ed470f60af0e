CONSTANTS
  Main = Main
  NoOne = NoOne
  w1 = w1
  w2 = w2
  w3 = w3
  Workers = {w1, w2, w3}
  Spawns <- TreeSpawns
  Calls = {"detach"}
  Outcomes = {"Ok", "Err"}
SPECIFICATION Spec
CHECK_DEADLOCK FALSE
INVARIANTS ListedOrTold OnlyUpwardDeadlocks
