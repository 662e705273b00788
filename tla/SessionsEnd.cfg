SPECIFICATION AuthSpec
CONSTANTS
    Names = {alice, bob}
    Admin0 = alice
    Presets = {p1}
    Fleet = fleet
    Tags = tags
    Reqs = {r1, r2}
    MaxGen = 1
    MaxInc = 1
    MaxCookies = 3
    MaxTokens = 1
INVARIANT PasswordChangeEndsSessions
CHECK_DEADLOCK FALSE
