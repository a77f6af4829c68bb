\* The login page is open when the connection is lost.
CONSTANTS
    MaxSockets = 2
    MaxRequests = 0
    MaxLogins = 1
    MaxTrouble = 1
    Asks = {"Edit"}
    NoSocket = NoSocket
SPECIFICATION Spec
INVARIANT DisconnectedCanRetry
CHECK_DEADLOCK FALSE
