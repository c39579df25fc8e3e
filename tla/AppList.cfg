SPECIFICATION FairListSpec
CONSTANTS
  Apps = {1, 2, 3}
  Renamed = {}
INVARIANT ListsAgree
PROPERTIES
  RowsFollowList
  PageCatchesUp
  ChoicesStand
