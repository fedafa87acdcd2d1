SPECIFICATION MCSpec
CONSTANTS
    MaxPid = 3
    MaxGen = 1
    MaxTimers = 1
    MaxExecs = 1
    MaxWaits = 1
    Ttys = {1, 2}
    Identities <- TwoIdentities
    Signals = {9, 18}
    ExitArgs = {0}
    Adopters = {1}
    Listening = {}
    Focus = {"identities", "terminals"}
    uuidA = uuidA
    uuidB = uuidB
SYMMETRY IdentitySymmetry
INVARIANTS TypeOK NoLostWakeup LiveHasThread ForegroundNotStale OrphansAdopted ExplicitCodeWins IdentityUnique
PROPERTIES DeadStaysDead
CHECK_DEADLOCK FALSE
