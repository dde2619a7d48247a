SPECIFICATION FairSpec
CONSTANTS
    Resets = {r1, r2}
    Sends = {i1}
    MaxJobs = 2
    MaxTries = 2
    MaxStops = 2
    MaxOutages = 1
INVARIANTS
    MailsExplained
    LossExplained
PROPERTIES
    ResetSettled
CHECK_DEADLOCK FALSE
