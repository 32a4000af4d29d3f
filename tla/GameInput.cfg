SPECIFICATION InputSpec
CONSTANTS
    Size = 3
    Scancodes <- ShiftScancodes
    MaxAccepted = 4
    MaxDropped = 1
    MaxEvents = 4
    MaxBacklog = 3
INVARIANTS
    EventsFollowScancodes
    NoStuckKey
