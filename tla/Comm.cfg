SPECIFICATION MCSpec
CONSTANTS
    Fds = {1, 2}
    Confs <- MCConfs
    Acts = {"none", "disconnect", "destroy", "request", "reconnect", "write"}
    Calls = {"connect", "reconnect", "disconnect", "request", "destroy", "reset", "mute", "listen"}
    MaxWrites = 2
    MaxTries = 1
    MaxConnects = 2
    MaxCalls = 2
    MaxListeners = 2
    Listeners <- MCListeners
    Hosts <- MCHosts
    Letters <- MCLetters
    ConnFds = {11, 12}
    MaxAdds = 2
    MaxCerts = 2
    MaxRefs = 1
    PoolMax = 3
    PoolSizes = {1, 3}
    PoolWrites = 2
    UnixWrites = 3
INVARIANTS
    ClientLeavesNothing
    ClientMovesOn
    ClientAnswersOnce
    ServerServes
    ServerTellsOnce
    ServerClosesCleanly
    ServerKeepsOwners
    RequestsWhole
    PoolSelectsConnected
CHECK_DEADLOCK FALSE
