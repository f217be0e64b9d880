SPECIFICATION Spec
CONSTANTS
    ClientConfigs <- MCClients
    ServerConfigs <- MCServers
    MaxConnections = 2
    MaxRotations = 1
    MaxFaults = 1
INVARIANTS
    Agreement
    NoDowngrade
    ClientAuthHolds
    NothingHeldBack
    CachedSessionSound
PROPERTIES
    HandshakeEnds
