SPECIFICATION FairSpec
CONSTANTS
    NetCap = 3
    MaxFaults = 2
    MaxNonce = 9
    ssh = ssh
    web = web
    Envelopes = {1, 2, 3}
    MaxAttempts = 2
    MaxPending = 2
    Trusted = {1, 2}
    Rekeying = TRUE
    Combination = {ssh, web}
    CombinationOf <- TwoToOne
    MaxSessions = 1
    NoSession = 0
INVARIANTS TypeOK NothingStranded EachEnvelopeOnce
PROPERTIES RecoversOrGivesUp
