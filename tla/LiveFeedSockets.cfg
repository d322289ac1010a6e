SPECIFICATION FairSpec
CONSTANTS
    Clients = {"c1"}
    Times = {1, 2}
    MaxSockets = 2
    MaxRequests = 1
INVARIANTS TypeOK NoRepeatedPush OpenIsRegistered
PROPERTIES AdvanceReaches
\* The feed stops when the bounded readings and sockets are used up.
CHECK_DEADLOCK FALSE
