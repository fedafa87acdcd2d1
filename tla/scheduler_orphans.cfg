SPECIFICATION MCSpec
CONSTANTS
    MaxPid = 3
    MaxGen = 1
    MaxTimers = 1
    MaxExecs = 1
    MaxWaits = 0
    Ttys = {1}
    Identities = {}
    Signals = {}
    ExitArgs = {}
    Focus = {"all"}
    Adopters = {1}
    Listening = {}
    uuidA = uuidA
    uuidB = uuidB
INVARIANTS OrphansAdopted
CHECK_DEADLOCK FALSE
