SPECIFICATION FairSpec
CONSTANTS
    MaxRetries <- MCMaxRetries
    BackoffBase <- MCBackoffBase
    BackoffMax <- MCBackoffMax
    WifiRetry <- MCWifiRetry
    ClockModulus <- MCClockModulus
INVARIANTS
    ChannelTypeOK
    AbandonedAfterAllAttempts
PROPERTIES
    AckHasItsWindow
    ChannelIsFreed
