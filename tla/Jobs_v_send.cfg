SPECIFICATION FairSpec
CONSTANTS
    Resets = {r1}
    Sends = {i1}
    MaxJobs = 2
    MaxTries = 2
    MaxStops = 1
    MaxOutages = 0
PROPERTIES
    SendSettled
CHECK_DEADLOCK FALSE
