SPECIFICATION Spec
CONSTANTS
    Settings <- MCSettings
    Accepted <- MCAccepted
    Unreadable <- MCUnreadable
    Values <- MCValues
    Packets <- MCPackets
INVARIANTS
    TypeOK
    OldOrNew
    ResponseIsTrue
PROPERTIES
    NoSettingForgotten
