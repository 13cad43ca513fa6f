SPECIFICATION Spec
CONSTANTS
    UserId = {u1, u2}
    Secret = {s1, s2}
    Lifetime <- MCLifetime
    Day = 3
    Unset = Unset
    Malformed = Malformed
    NoToken = NoToken
    Nobody = Nobody
    Second = 2
    Clock <- MCClock
    MaxTokens = 2
SYMMETRY UserSymmetry
INVARIANTS
    IInv
    CallerIsHolder
    LiveTokenAccepted
