SPECIFICATION FairSpec
CONSTANTS
    NumThreads = 2
    NumConns = 2
    Versions = {"NoWait", "Wait", "Sendfile"}
    IdBytes = 2
    Parts = 1
    MaxSigints = 2
    MaxSpurious = 1
INVARIANTS
    
    NoStaleTask
    ExitWaits
PROPERTIES
    ExitCompletes
    TaskServed
\* The process ends, and clients need not connect.
CHECK_DEADLOCK FALSE
