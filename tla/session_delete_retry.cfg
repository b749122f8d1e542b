SPECIFICATION Spec
CONSTANTS
    auth = auth
    timers = timers
    AuthRS = auth
    ResourceServers = {auth, timers}
    MinContract <- MCMinContract
    Contracts <- MCContracts
    CURRENT_SCOPE_CONTRACT_VERSION = 3
    NoIdentity = NoIdentity
    Identities = {alice, bob}
    Procs = {p1}
    Commands = {"delete"}
    Sessions = {"current"}
    Faults = {"api"}
    MaxGrants = 2
    MaxClients = 2
SYMMETRY Symmetry
PROPERTY DeleteRetry
