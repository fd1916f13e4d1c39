SPECIFICATION StartSpec
CONSTANTS
    server = server
    tool = tool
    Procs = {server, tool}
    MaxNames = 1
    Target = 2
    Idempotent <- Adopting
    NoProcess = NoProcess
CHECK_DEADLOCK TRUE
INVARIANT LatestSchema
