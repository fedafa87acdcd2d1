SPECIFICATION MCSpec
CONSTANTS
    init = init
    a = a
    b = b
    pipe1 = pipe1
    pipe2 = pipe2
    sock1 = sock1
    sock2 = sock2
    Tty = Tty
    Proc <- ThreeProcs
    Root = init
    Pipe <- OnePipe
    Socket <- TwoSockets
    Port = {80, 10000}
    MaxFds = 5
    MaxData = 1
SYMMETRY Devs
INVARIANTS TypeOK RefsExact EofMeansNoWriter SocketKeepsPort ZombieHoldsNothing
CHECK_DEADLOCK FALSE
