CONSTANTS
    Content <- AutocertContent
    First = 1
    Brokers = {"b1"}
    Data = {"none", "invalid"}
    MaxEdits = 1
    MaxEvents = 2
    MaxEarly = 0
    Endpoints = {}
    Watchers = {}
    TTL = 2
    Slack = 1
    MaxFails = 1
SPECIFICATION MCSpec
PROPERTY HotReloads
CHECK_DEADLOCK FALSE
