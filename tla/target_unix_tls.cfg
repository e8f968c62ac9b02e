\* Spec 3 and 8 against try_set_tls on every constructible Unix target,
\* including one bound in the Linux abstract namespace.
CONSTANTS
    p1 = p1
    p2 = p2
    NoParams = NoParams
    NoPort = NoPort
    None = None
    Params <- MCParams
    Ports <- MCPorts
SPECIFICATION MCSpec
PROPERTY UnixTargetsRejectTls
