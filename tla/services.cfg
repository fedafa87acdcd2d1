SPECIFICATION MCSpec
CONSTANTS
    Part = {"database", "packages", "windows", "chat", "shells"}
    a = a  b = b  a1 = a1  a2 = a2  b1 = b1  s1 = s1  s2 = s2
    App = {a, b}
    Server = {s1, s2}
    Call = {a1, a2, b1}
    Caller <- MCCaller
    Crashes = {s1}
    NFiles = 2
    HostFile = {1}
    Version = {1, 2}
    Emptied = Emptied
    MaxBackups = 1
    MaxInstalls = 2
    w = w  u = u
    Window = {w, u}
    Node = {n}
    Client = {c}
    MaxOps = 3
    p = p  x = x  m = m
    User = {p, q}
    Address = {x, y}
    Room = {lobby, den}
    Lobby = lobby
    Nick = {m, k}
    MaxSessions = 3
    Remote = {r1, r2}
INVARIANTS
    ServicesTypeOK
    RejectedAtEnd
    OneConnectionPerApp
    RestoreIsExact
    LastGoodKept
    WindowsAgree
    ReplayFaithful
    OnlineUnderOneName
    KickedStayOut
    SessionsInHand
CHECK_DEADLOCK FALSE
