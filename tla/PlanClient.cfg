\* Two connections, three requests, readable or not, and one thing that goes wrong.
CONSTANTS
    MaxSockets = 2
    MaxRequests = 3
    MaxLogins = 1
    MaxTrouble = 1
    Asks = {"Edit", "Unreadable"}
    NoSocket = NoSocket
SPECIFICATION FairSpec
INVARIANTS TypeOK NoAnswerIsMistaken
PROPERTIES EveryRequestSettles
CHECK_DEADLOCK FALSE
