SPECIFICATION FairSpec
CONSTANTS
    Hosts = {virt}
    Polled = {virt}
    Hosts0 = {}
    Viewers = {v1}
    Monitor = monitor
    Nobody = nobody
    Admins = {a1}
    TTL = 1
    MaxVer = 1
PROPERTIES EventuallyConsistent MaintenanceEnds
CHECK_DEADLOCK FALSE
