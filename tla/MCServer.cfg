CONSTANTS
    Owner = owner
    Client = {owner, guest}
    MaxPolls = 2
    SignalPhases = {"quiet", "loop", "tested", "reading", "handling"}
SPECIFICATION FairSpec
INVARIANTS TypeOK SocketWhileRunning NothingLeftBehind
PROPERTIES AttachedLeavesServer ConnectedIsServed ClosedConnectionsEnd
CHECK_DEADLOCK FALSE
