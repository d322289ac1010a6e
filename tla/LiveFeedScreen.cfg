SPECIFICATION FairSpec
CONSTANTS
    Clients = {"c1"}
    Times = {1}
    MaxSockets = 1
    MaxRequests = 1
PROPERTIES ScreenCatchesUp
\* The feed stops when the bounded readings and sockets are used up.
CHECK_DEADLOCK FALSE
