SPECIFICATION FLSpec
CONSTANTS
  MaxWosize = 6
  FlpMaxes = {2}
  NumSmall = 2
  Policies = {"first"}
  Places <- MCWide
  Requests = {1, 3, 6}
  MaxLive = 2
INVARIANT NullIfNoneFits
