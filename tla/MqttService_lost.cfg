SPECIFICATION FairSpec
CONSTANTS
    MaxStarts = 1
    MaxInbox = 3
PROPERTY ReconnectsAfterLoss
CHECK_DEADLOCK FALSE
