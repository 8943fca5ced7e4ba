SPECIFICATION RoutesSpec
CONSTANTS
    Catalogue <- MCCatalogue
    BuiltIn <- MCBuiltIn
    MatcherDirs <- MCMatcherDirs
    Paths <- MCPaths
    MaxDirs = 3
    MaxStackParams = 1
CHECK_DEADLOCK FALSE
INVARIANT ClientAgrees
