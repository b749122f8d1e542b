SPECIFICATION Spec
CONSTANTS
    auth = auth
    timers = timers
    AuthRS = auth
    ResourceServers = {auth, timers}
    MinContract <- MCMinContract
    Contracts <- MCContracts
    CURRENT_SCOPE_CONTRACT_VERSION = 3
    NoIdentity = NoIdentity
    Identities = {alice}
    Procs = {p1, p2}
    Commands = {"login", "use", "delete"}
    Sessions = {"none", "old"}
    Faults = {}
    MaxGrants = 2
    MaxClients = 2
SYMMETRY Symmetry
CHECK_DEADLOCK FALSE
INVARIANTS StaticCheckSound CallsMeetContract OldTokensRevoked StoredClientExists
