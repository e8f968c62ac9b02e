CONSTANTS
    defaultUser = defaultUser
    defaultWait = defaultWait
    none = none
    None = none
    Hosts <- MCHostsAll
    Localhost <- MCLocalhost
    Ports <- MCPorts
    DbNames = {"main"}
    Users <- MCUsers
    DefaultUser = defaultUser
    Passwords = {"pw"}
    SecretKeys = {"sk"}
    ServerNames = {"sni"}
    CAs = {"ca"}
    Clouds = {"Staging"}
    Waits <- MCWaits
    DefaultWait = defaultWait
    DefaultTlsSecurity = "Default"
SPECIFICATION Spec
INVARIANT
    VerifyModeAsSpecified
