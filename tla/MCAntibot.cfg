SPECIFICATION Spec
CONSTANTS
    Conns = {c1, c2}
    Names = {ann, vip, bot}
    Blacklist = {bot}
    AccountsWhitelist = {vip}
    AccountsLimit = 1
    ConnectionsPerSecond = 2
    Attempts = 2
    Pings = 1
    MaxTime = 1
    Expire = 1
    None = None
INVARIANTS NamesWithinLimit RateBounded NicknameHolds
PROPERTIES KnownNamesStay PromiseKept
SYMMETRY Slots
