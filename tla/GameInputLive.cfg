SPECIFICATION InputFairSpec
CONSTANTS
    Size = 3
    Scancodes <- PrefixScancodes
    MaxAccepted = 3
    MaxDropped = 1
    MaxEvents = 3
    MaxBacklog = 2
PROPERTY EveryEventHandled
