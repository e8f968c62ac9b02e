CONSTANTS
    c1 = c1
    c2 = c2
    s1 = s1
    p1 = p1
    NoParams = NoParams
    NoPort = NoPort
    None = None
    Params <- MCParams
    Ports <- MCPorts
    Clients <- MCClients
    TransportTargets <- MCLiveTargets
    ServerModes <- MCModes
    MaxData = 1
    Stalling = {}
SPECIFICATION FairSpec
PROPERTY AcceptedEventuallyYielded
\* Every client finishes and the listener then waits for sockets forever.
CHECK_DEADLOCK FALSE
