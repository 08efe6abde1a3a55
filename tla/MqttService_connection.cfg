\* Three starts of the service, losses, failures and network changes at any time; or three login
\* pages and two clicks in a process that dies once.
SPECIFICATION MCFairSpec
CONSTANTS
    MaxStarts = 3
    MaxInbox = 3
    Users = {"ann", "bob"}
    MaxLogins = 3
    MaxClicks = 2
    MaxMains = 2
    MaxDeaths = 1
INVARIANTS TypeOK SubscriptionPursued NoUnboundClient SavedWereAccepted PagesDoNotPileUp
PROPERTY AttemptsGoOn
\* An exception in the main thread ends the process.
CHECK_DEADLOCK FALSE
