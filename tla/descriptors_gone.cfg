SPECIFICATION MCSpec
CONSTANTS
    init = init
    a = a
    b = b
    pipe1 = pipe1
    pipe2 = pipe2
    sock1 = sock1
    sock2 = sock2
    Tty = Tty
    Proc <- ThreeProcs
    Root = init
    Pipe <- OnePipe
    Socket = {}
    Port = {}
    MaxFds = 5
    MaxData = 1
INVARIANTS GoneHoldsNothing
CHECK_DEADLOCK FALSE
