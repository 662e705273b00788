SPECIFICATION FairSpec
CONSTANTS
    Ids = {c1}
    Targets = {t1, t2}
    Hosts = {h1}
    NoPin = nopin
    Absent = absent
    Admins = {a1, a2}
    MaxEdits = 2
INVARIANT TypeOK
PROPERTIES ResultsCatchUp FailuresReachMonitor
CHECK_DEADLOCK FALSE
