SPECIFICATION Spec
CONSTANTS
    t1 = t1
    t2 = t2
    m1 = m1
    m2 = m2
    v1 = v1
    v2 = v2
    d1 = d1
    Tasks = {t1}
    Mains <- OneMain
    Refreshers <- BothRefresh
    Versions = {v1}
    SizeOf <- DistinctSizes
    SumSize = 1
    RawSumSize = 2
    Dirs = {d1}
    DirOf <- OneDir
    MaxSize = 2
    Unlimited = Unlimited
    MaxCrashes = 0
    NoContent = NoContent
    NoPath = NoPath
    NoFlight = NoFlight
    Vacant = Vacant
    Cells = {1}
    MaxLate = 1
    MayOvertake = FALSE
CHECK_DEADLOCK TRUE
 
PROPERTY InstallNotPicked
