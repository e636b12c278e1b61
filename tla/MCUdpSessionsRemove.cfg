SPECIFICATION SessionsSpec
CONSTANTS
    NoSession = NoSession
    MaxSessions = 2
    QueueCap = 1
    Socks = FALSE
PROPERTIES
    RemovesOnlyOwn
