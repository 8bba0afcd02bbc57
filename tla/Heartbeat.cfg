\* Interval 3, answers up to Delay = 5 late (two heartbeats in flight).
CONSTANTS
    Interval = 3
    Delay = 5
    MaxOutages = 2
SPECIFICATION HeartbeatSpec
INVARIANT SilenceIsNoticed
PROPERTIES FirstTimeoutIsJustified
