\* Every sequence of try_set_tls / try_remove_tls / try_set_port calls on
\* every constructible target, interleaved with ConnectionOptions::try_into
\* on every set of options.
CONSTANTS
    p1 = p1
    p2 = p2
    NoParams = NoParams
    NoPort = NoPort
    None = None
    Params <- MCParams
    Ports <- MCPorts
SPECIFICATION MCSpec
INVARIANT TypeOK ExclusiveOrComplete
