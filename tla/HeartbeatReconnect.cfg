\* A reconnection when the last response is older than the timeout.
CONSTANTS
    Interval = 3
    Delay = 5
    MaxOutages = 2
SPECIFICATION HeartbeatSpec
PROPERTIES TimeoutTakesTwoIntervals
