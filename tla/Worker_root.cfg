CONSTANTS
  Main = Main
  NoOne = NoOne
  w1 = w1
  w2 = w2
  w3 = w3
  Workers = {w1, w2}
  Spawns <- RootSpawns
  Calls = {"poll", "terminate", "detach"}
  Outcomes = {"Ok", "Err", "Panic"}
SPECIFICATION FairSpec
CHECK_DEADLOCK FALSE
PROPERTY CallsReturn
