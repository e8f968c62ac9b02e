CONSTANTS
    defaultUser = defaultUser
    defaultWait = defaultWait
    none = none
    None = none
    Hosts <- MCHostsAll
    Localhost <- MCLocalhost
    Ports <- MCPorts
    DbNames = {"main"}
    Users <- MCUsers
    DefaultUser = defaultUser
    Passwords = {"pw"}
    SecretKeys = {"sk"}
    ServerNames = {"sni"}
    CAs <- MCCAs
    Clouds = {"Staging"}
    Waits <- MCWaits
    DefaultWait = defaultWait
    DefaultTlsSecurity = "Default"
SPECIFICATION Spec
INVARIANTS
    TypeOK
    SniIsDnsName
    DsnRoundTrip
    TlsCaPemRoundTrip
