SPECIFICATION Spec
CONSTANTS
    auth = auth
    timers = timers
    AuthRS = auth
    ResourceServers = {auth, timers}
    MinContract <- MCMinContract
    Contracts <- MCContracts
    CURRENT_SCOPE_CONTRACT_VERSION = 3
    NoIdentity = NoIdentity
    Identities = {alice, bob}
    Procs = {p1, p2}
    Commands = {"login"}
    Sessions = {"none"}
    Faults = {}
    MaxGrants = 2
    MaxClients = 1
SYMMETRY Symmetry
INVARIANT SessionIdentity
