\* A connection made while the old one closes.
CONSTANTS
    MaxSockets = 2
    MaxRequests = 0
    MaxLogins = 1
    MaxTrouble = 0
    Asks = {"Edit"}
    NoSocket = NoSocket
SPECIFICATION Spec
PROPERTY OldCloseIsHarmless
CHECK_DEADLOCK FALSE
