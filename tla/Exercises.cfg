SPECIFICATION ExercisesSpec
CONSTANTS
    BufferSize = 3
    Last = 3
    Nodes = {n1, n2, n3}
    Dummy = dummy
    Null = null
    QueueCapacity = 2
    NumChildren = 2
    Clients = {c1, c2, c3}
    NoConn = fd0
    SaleWindows = 3
    Times = 2
    Batch = 3
    FileSize = 3
    FrameSize = 2
    OldSizes = {0, 5}
    NumChatters = 2
    Lines = 3
    TableSizes = {1, 2}
    HeardFds = 1
    Nobody = nobody
    NumGuests = 2
    Says = 1
    NoGuest = noguest
    Rounds = 4
    Stored = 3
    NumFiles = 4
    Removals = 1
    Elements = {e1, e2, e3}
    Keys = {1, 2}
    HeadNode = headnode
    Nil = nil
INVARIANTS
    StateOK
    BusyIsExact
    NothingLost
    DownloadIsPrefix
    
    WalkPrintsAll
PROPERTIES
    RingRefinesFifo
    LinkedRefinesFifo
    ProgramsEnd
    
\* The programs end.
CHECK_DEADLOCK FALSE
