CONSTANTS
  Hidden = {"_SYSTEMD_UNIT", "_TAG"}
  NoOption = NoOption
  Garbage = Garbage
  Entries <- SomeEntries
  FilterLists <- SomeFilters
  MaxEntries = 2
  MaxSpawns = 3
SPECIFICATION FairSpec
CHECK_DEADLOCK FALSE
INVARIANTS TypeOK InOrder ReadToTheEnd NothingHidden SevereEnough
PROPERTY FollowedAgain
