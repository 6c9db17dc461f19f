SPECIFICATION SystemsFairSpec
CONSTANTS
    Plugin = {p1, p2}
    OtherBeats = 2
    MaxBeats = 4
    c1 = c1
    c2 = c2
    Conn = {c1, c2}
    Kind <- Kinds
    SysId = {1, 2, 255}
    MaxChannels = 2
    MaxSystems = 2
INVARIANTS
    ConnectedHasTimer
    NotificationsAlternate
    ChannelOwned
    UsersServed
PROPERTIES
    GoneIsUntouched
    SystemsEnd
CHECK_DEADLOCK FALSE
