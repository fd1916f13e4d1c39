SPECIFICATION Spec
CONSTANTS
    t1 = t1
    t2 = t2
    m1 = m1
    m2 = m2
    v1 = v1
    v2 = v2
    d1 = d1
    Tasks = {t1}
    Mains <- OneMain
    Refreshers <- NoRefresh
    Versions = {v1, v2}
    SizeOf <- DistinctSizes
    SumSize = 1
    RawSumSize = 1
    Dirs = {d1}
    DirOf <- OneDir
    MaxSize = Unlimited
    Unlimited = Unlimited
    MaxCrashes = 1
    NoContent = NoContent
    NoPath = NoPath
    NoFlight = NoFlight
    Vacant = Vacant
    Cells = {1}
    MaxLate = 0
    MayOvertake = FALSE
CHECK_DEADLOCK TRUE
PROPERTY BodyMatchesRecord
