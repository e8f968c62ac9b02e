CONSTANTS
    none = none
    None = none
    Ops <- MCOps
    Cards <- MCCards
    ServerVers <- MCServerVers
    MaxOps = 3
    ReqVer = 3
SPECIFICATION FairSpec
PROPERTIES
    Refines
    RequestCompletes
    ConnectSettles
INVARIANT
    DecodedAsSent
    ResultsAsServerGave
CHECK_DEADLOCK FALSE
