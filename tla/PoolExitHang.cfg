SPECIFICATION FairSpec
CONSTANTS
    NumChildren = 2
    Clients = {c1}
    NoConn = fd0
PROPERTIES
    ExitSucceeds
CHECK_DEADLOCK FALSE
