CONSTANTS
  main = main
  reaper = reaper
  http = http
  notify = notify
  nobody = nobody
  nothing = nothing
  Workers = {reaper, http, notify}
  Main = main
  NoOne = nobody
  Reaper = reaper
  Http = http
  Notify = notify
  Spawns <- IysrSpawns
  Calls = {"wait"}
  Outcomes = {"Ok", "Err"}
  Documents <- MCDocuments
  Values <- MCValues
  None = nobody
  Ids <- MCIds
  BadPatterns = {"["}
  Split <- MCSplit
  I64Max = 200000000
  Half = 4
  QueueCap = 2
  MaxUpdates = 3
SPECIFICATION FairIysrSpec
CHECK_DEADLOCK FALSE
INVARIANTS IysrTypeOK AcceptsValid ErrorPathResolves OrderKept OneStatus CleanExit HiddenAtEnd
PROPERTY StartsOrWedged
