\* One user, one channel, a writeChan of one slot, two losses: the second can
\* come while the first one's reconnect goroutine resubscribes.
CONSTANTS
    u1 = u1
    r1 = r1
    r2 = r2
    depth = depth
    Users <- OneUser
    Recons <- TwoRecons
    Channels <- OneChannel
    Actions = {"subscribe", "unsubscribe"}
    Capacity = 1
    MaxLosses = 2
SPECIFICATION FairSpec
INVARIANTS TypeOK Served UnsubscribeSticks
PROPERTY ServedInTheEnd
CHECK_DEADLOCK FALSE
