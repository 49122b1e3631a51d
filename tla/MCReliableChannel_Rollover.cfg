SPECIFICATION ChannelSpec
CONSTANTS
    MaxRetries <- MCMaxRetries
    BackoffBase <- MCBackoffBase
    BackoffMax <- MCBackoffMax
    WifiRetry <- MCWifiRetry
    ClockModulus <- MCClockModulus
PROPERTIES
    AckHasItsWindowAtRollover
