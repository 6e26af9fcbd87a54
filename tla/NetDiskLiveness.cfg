SPECIFICATION UserSpec
CONSTANTS
    c1 = c1
    c2 = c2
    Clients = {c1, c2}
    Fds = {f1}
    SocketFd = SocketFd
    ExitFd = ExitFd
    NoFd = NoFd
    NoClient = NoClient
    TcpCapacity = 1
    QueueCapacity = 1
    ShellWorkers = {s1}
    IOWorkers = {i1}
    Commands = {"shell", "gets", "puts"}
    MaxCommands <- MCVisitorOnly
    SpuriousWakeups = TRUE
PROPERTIES
    ExitCompletes
    RequestAnswered
\* Users may stop typing and the server may be shut down: the system may stop.
CHECK_DEADLOCK FALSE
