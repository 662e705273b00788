SPECIFICATION PSpec
CONSTANTS
    Hosts = {h1}
    SubKeys = {pool_degraded}
    Unreachable = unreachable
    Details = {d1, d2}
    DownText = d1
    NoText = none
    FLAP_CYCLES = 2
    NOTIFY_COOLDOWN = 2
    MaxSnooze = 0
    MaxRestarts = 1
PROPERTY AckLastsUntilClear
CHECK_DEADLOCK FALSE
