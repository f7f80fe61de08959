CONSTANTS
    Owner = owner
    Client = {owner, guest}
    MaxPolls = 2
    SignalPhases = {}
SPECIFICATION Spec
PROPERTY OwnerIsNotRefused
CHECK_DEADLOCK FALSE
