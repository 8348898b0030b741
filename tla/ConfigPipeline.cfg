CONSTANTS
    Content <- MCContent
    First = 1
    Brokers = {"b1", "b2"}
    Data = {"none", "routes", "invalid"}
    MaxEdits = 2
    MaxEvents = 2
    MaxEarly = 1
    Endpoints = {e1, e2}
    Watchers = {w1}
    TTL = 2
    Slack = 1
    MaxFails = 1
SPECIFICATION MCSpec
INVARIANTS TypeOK  LeaseKept
PROPERTIES Settles WatchersInformed
CHECK_DEADLOCK FALSE
