SPECIFICATION Spec
CONSTANTS
    NetCap = 3
    MaxFaults = 0
    MaxNonce = 9
    ssh = ssh
    web = web
    Envelopes = {1, 2}
    MaxAttempts = 2
    MaxPending = 1
    Trusted = {1}
    Rekeying = TRUE
    Combination = {ssh, web}
    CombinationOf <- Two
    MaxSessions = 1
    NoSession = 0
INVARIANTS EnvelopesWaitForKey
CHECK_DEADLOCK FALSE
