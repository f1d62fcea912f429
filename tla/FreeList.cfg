SPECIFICATION FLSpec
CONSTANTS
  MaxWosize = 6
  FlpMaxes = {2, 6}
  NumSmall = 2
  Policies = {"next", "first", "best"}
  Places <- MCPlaces
  Requests = {1, 3, 6}
  MaxLive = 2
INVARIANTS FLTypeOK HeapTiled FreeSetExact PolicyTables Coalesced FitFound
