SPECIFICATION BuildSpec
CONSTANTS
    Dirs <- MCDirs
    Above <- MCAbove
    Projects <- MCProjects
    Revisions <- MCRevisions
    MaxRevisions = 1
    PathOrder <- MCPathOrder
    Sites <- MCSites
    Tolerate = 1
    MaxPasses = 2
    Catalogue <- MCCatalogue
    BuiltIn <- MCBuiltIn
    MatcherDirs <- MCMatcherDirs
    Paths <- MCPaths
    MaxDirs = 3
    MaxStackParams = 1
    Sources <- MCSources
    Stem <- MCStem
    Picture <- MCPicture
    FirstAssets <- MCFirstAssets
    LaterAssets <- MCLaterAssets
    DefaultWidths <- MCDefaultWidths
    RouteWidths <- MCRouteWidths
    Templates <- MCTemplates
    Concurrency = 2
    AcceptHeaders <- MCAcceptHeaders
    MaxChanges = 1
    MaxStagings = 2
INVARIANTS
    MatchExact
    ResolutionOrder
    NothingLost
    AcceptedProjectStarts
    LinksResolve
    OutputFits
    AsRendered
    URLsResolve
    CopiesCurrent
CHECK_DEADLOCK FALSE
