\* A request that changes no plan, then a change by someone else.
CONSTANTS
    MaxSockets = 2
    MaxRequests = 1
    MaxLogins = 1
    MaxTrouble = 1
    Asks = {"Manage"}
    NoSocket = NoSocket
SPECIFICATION Spec
PROPERTY UpdatesAreNoticed
CHECK_DEADLOCK FALSE
