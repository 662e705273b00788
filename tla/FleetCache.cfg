SPECIFICATION Spec
CONSTANTS
    Hosts = {live}
    Polled = {}
    Hosts0 = {live}
    Viewers = {v1, v2}
    Monitor = monitor
    Nobody = nobody
    Admins = {a1, a2}
    TTL = 1
    MaxVer = 2
INVARIANT TypeOK
PROPERTIES FreshViewCurrent RegistryNeverRegresses
CHECK_DEADLOCK FALSE
