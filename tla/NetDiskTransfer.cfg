SPECIFICATION FairSpec
CONSTANTS
    c1 = c1
    c2 = c2
    Clients = {c1, c2}
    Size = 3
    Chunk = 2
    MaxCommands <- MCMaxCommands
    MaxBreaks = 2
INVARIANTS
    CopiesArePrefixes
    
    
PROPERTIES
    StoredStays
    
    
\* Users may stop typing.
CHECK_DEADLOCK FALSE
