SPECIFICATION MCSpec
CONSTANTS
    Part = {"mqtnl", "netfs", "mounts", "bridge"}
    na = na  nb = nb
    m1 = m1  m2 = m2  m3 = m3
    Node = {na, nb}
    SameHost = {{na}, {nb}}
    Message = {m1, m2, m3}
    Src <- MCSrc
    Dst <- MCDst
    Parts <- MCParts
    SessionKey = {k1}
    Pinned = {"Binfeo"}
    MaxBinds = 1
    c1 = c1  c2 = c2
    Call = {c1, c2}
    Kinds <- MCKinds
    Old <- MCOld
    MaxFile = 3
    r1 = r1  b1 = b1  n1 = n1  n2 = n2
    MountPath <- MCMountPath
    Driver = {r1, b1, n1, n2}
    DriverType <- MCDriverType
    RootFs = r1
    ab = ab  ab2 = ab2  bc = bc
    A = A  B = B  C = C
    p = p  q = q
    Broker = {A, B, C}
    Daemon = {ab, ab2, bc}
    Ends <- MCEnds
    Setups <- MCSetups
    Body = {p, q}
    From <- MCFrom
    To <- MCTo
    Home <- MCHome
    Rules <- MCRules
    MaxForward = 2
    MaxEntries = 1
    MaxCopies = 1
    MaxLost = 1
INVARIANTS
    NetworkTypeOK
    SealedIsWhole
    IdsIdentify
    SuccessMeansWritten
    LoneWriteExact
    QuietCacheFresh
    NoBounce
    OpenMeansMounted
    FirewallHolds
PROPERTIES
    CallsEnd
    Quiesces
CHECK_DEADLOCK FALSE
