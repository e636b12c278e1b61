SPECIFICATION UnderlaySpec
CONSTANTS
    NoUnderlay = NoUnderlay
    c1 = c1
    c2 = c2
    c3 = c3
    h1 = h1
    h2 = h2
    Creds = {c1, c2}
    Blocked = {}
    Handlers = {h1, h2}
    MaxEndpoints = 3
    MaxPackets = 4
INVARIANTS
    DeliveredToOwnTarget
