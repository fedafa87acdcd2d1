SPECIFICATION MCSpec
CONSTANTS
    MaxPid = 2
    MaxGen = 2
    MaxTimers = 1
    MaxExecs = 0
    MaxWaits = 1
    Ttys = {1}
    Identities = {}
    Signals = {}
    ExitArgs = {}
    Focus = {"all"}
    Adopters = {1}
    Listening = {}
    uuidA = uuidA
    uuidB = uuidB
PROPERTIES ReexecSurvivesOldThread
CHECK_DEADLOCK FALSE
