SPECIFICATION ServeSpec
CONSTANTS
    t1 = t1
    t2 = t2
    t3 = t3
    Tasks = {t1, t2}
    MaxNames = 2
    MaxCells = 2
    MaxLeft = 1
    Width = 4
CHECK_DEADLOCK TRUE
INVARIANT OneDownload
