SPECIFICATION RefreshSpec
CONSTANTS
    InvalidQueue = InvalidQueue
    NoGateway = NoGateway
    ModuleName <- Modules
    GatewayTypes <- Gateways
    DspCoreCount = 2
    ServiceList <- AllServices
    Initial <- Starting
    Reconfigured <- Changing
    MaxPplCount = 2
    ValidItems <- Valid
    MaxChanges = 1
    MaxRefreshes = 2
INVARIANTS
    ReferencesResolve
    ParentsMatchChildren
    LinksMatchQueues
    ReadsBack
    TypesAreAnnounced
PROPERTY FailedRefreshClears
CHECK_DEADLOCK FALSE
