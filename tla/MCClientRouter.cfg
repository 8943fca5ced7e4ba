SPECIFICATION FairSpec
CONSTANTS
  Urls = {"/a", "/b", "/c"}
  Entry = {"/a"}
  Routes = {"A", "B", "C"}
  RouteOf <- McRouteOf
  ChainOf <- McChainOf
  NoChain = "no chain"
  Snapshotting = {"A", "B"}
  Depends = {"/a", "/c"}
  CacheMax = 1
  MaxNavs = 2
  MaxOps = 1
INVARIANTS
  LastNavigationWins
  RestoresOwnSnapshot
  InvalidatedGone
  FreshGoto
PROPERTY
  NavigatingClears
CHECK_DEADLOCK FALSE
