SPECIFICATION Spec
CONSTANTS
    Names = {alice, bob}
    Admin0 = alice
    Presets = {p1}
    Fleet = fleet
    Tags = tags
    Reqs = {r1, r2}
    MaxGen = 1
    MaxInc = 1
    MaxCookies = 2
    MaxTokens = 1
    Writers = {r1, r2, w3}
    Nobody = nobody
    MaxEdits = 2
    MaxKills = 2
INVARIANTS TypeOK PresetsNeverDangle SessionsFollowPassword NeverTorn NoStaleTemp
PROPERTY ImplementsStore
CHECK_DEADLOCK FALSE
SYMMETRY Threads
