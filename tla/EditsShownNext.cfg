SPECIFICATION Spec
CONSTANTS
    Hosts = {live}
    Polled = {}
    Hosts0 = {live}
    Viewers = {v1}
    Monitor = monitor
    Nobody = nobody
    Admins = {a1}
    TTL = 1
    MaxVer = 1
PROPERTY EditsShownNext
CHECK_DEADLOCK FALSE
