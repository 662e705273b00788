SPECIFICATION FairSpec
CONSTANTS
    Hosts = {h1}
    SubKeys = {pool_degraded}
    Unreachable = unreachable
    Details = {d1, d2}
    DownText = d1
    NoText = none
    FLAP_CYCLES = 2
    NOTIFY_COOLDOWN = 1
    MaxSnooze = 1
    MaxRestarts = 1
PROPERTIES NotifierCatchesUp OrphanAcksPruned
CHECK_DEADLOCK FALSE
