SPECIFICATION Spec
CONSTANTS
    server = server
    command = command
    t1 = t1
    t2 = t2
    Server = server
    Procs = {server, command}
    NoProcess = NoProcess
    Target = 2
    Idempotent <- Adopting
    Tasks = {t1, t2}
    MaxNames = 2
    MaxCells = 2
    MaxLeft = 1
    Width = 4
    MaxSize = 3
SYMMETRY Alike
CONSTRAINT OneMeddler
CHECK_DEADLOCK TRUE
INVARIANT TypeOK
INVARIANT VersionBacked
INVARIANT SchemaComplete
INVARIANT CompletedLeaves
INVARIANT TempCounted
INVARIANT TempReclaimed
INVARIANT BusyReleased
INVARIANT UndisturbedSucceed
INVARIANT RangeServed
PROPERTY StartsClean
