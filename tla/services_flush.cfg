SPECIFICATION MCSpec
CONSTANTS
    Part = {"windows"}
    a = a  b = b  a1 = a1  a2 = a2  b1 = b1  s1 = s1  s2 = s2
    App = {a, b}
    Server = {s1, s2}
    Call = {a1, a2, b1}
    Caller <- MCCaller
    Crashes = {}
    NFiles = 1
    HostFile = {1}
    Version = {1}
    Emptied = Emptied
    MaxBackups = 1
    MaxInstalls = 1
    w = w  u = u
    Window = {w}
    Node = {n}
    Client = {c}
    MaxOps = 3
    p = p  x = x  m = m
    User = {p, q}
    Address = {x, y}
    Room = {lobby, den}
    Lobby = lobby
    Nick = {m, k}
    MaxSessions = 3
    Remote = {r1, r2}
INVARIANT FlushSendsAll
CHECK_DEADLOCK FALSE
