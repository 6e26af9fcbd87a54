SPECIFICATION Spec
CONSTANTS
    c1 = c1
    c2 = c2
    Conns = {c1, c2}
    alice = alice
    bob = bob
    f = f
    Names = {alice, bob}
    Root = root
    Codes = {k1, k2}
    Files = {f}
    Md5s = {m1}
    NoName = NoName
    NoCode = NoCode
    NoMd5 = NoMd5
    Nobody = Nobody
    DirOptions <- MCDirOptions
    FileOptions <- MCFileOptions
    InitialUsers = {alice}
    InitialCode = k1
    MaxCommands <- MCMaxCommands
INVARIANTS
    RegisteredOnce
CHECK_DEADLOCK FALSE
