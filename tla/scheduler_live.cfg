SPECIFICATION MCFairSpec
CONSTANTS
    MaxPid = 2
    MaxGen = 2
    MaxTimers = 1
    MaxExecs = 0
    MaxWaits = 1
    Ttys = {1}
    Identities = {}
    Signals = {2, 19}
    ExitArgs = {}
    Focus = {"all"}
    Adopters = {1}
    Listening = {}
    uuidA = uuidA
    uuidB = uuidB
PROPERTIES SignalledEnds KeepsPromise
CHECK_DEADLOCK FALSE
