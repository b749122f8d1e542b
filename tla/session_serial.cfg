SPECIFICATION Spec
CONSTANTS
    auth = auth
    timers = timers
    AuthRS = auth
    ResourceServers = {auth, timers}
    MinContract <- MCMinContract
    Contracts <- MCContracts
    CURRENT_SCOPE_CONTRACT_VERSION = 3
    NoIdentity = NoIdentity
    Identities = {alice, bob}
    Procs = {p1}
    Commands = {"login", "consent", "update", "use", "logout"}
    Sessions = {"none", "old", "current"}
    Faults = {"network", "api", "crash"}
    MaxGrants = 2
    MaxClients = 1
SYMMETRY Symmetry
INVARIANTS
    TypeOK SessionIdentity
PROPERTIES
    RemovedOnlyRevoked LogoutComplete RefusedLoginRevoked RefinesSession
