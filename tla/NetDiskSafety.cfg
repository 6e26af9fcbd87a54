SPECIFICATION Spec
CONSTANTS
    c1 = c1
    c2 = c2
    Clients = {c1, c2}
    Fds = {f1, f2}
    SocketFd = SocketFd
    ExitFd = ExitFd
    NoFd = NoFd
    NoClient = NoClient
    TcpCapacity = 2
    QueueCapacity = 2
    ShellWorkers = {s1}
    IOWorkers = {i1}
    Commands = {"gets", "puts"}
    MaxCommands <- MCMaxCommands
    SpuriousWakeups = FALSE
SYMMETRY Symmetry
INVARIANTS
    TypeOK
    OneTaskPerConnection
    TaskKeepsItsClient
    FlagMeansTask
    SlotPerConnection
    TransferDataKept
    
    QueueHasRoom
    RecvBlocksOnUser
PROPERTIES
    ExitKeepsRunningTasks
\* Users may stop typing and the server may be shut down: the system may stop.
CHECK_DEADLOCK FALSE
