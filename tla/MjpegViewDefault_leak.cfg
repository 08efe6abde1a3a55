\* setSource on a view that streams.
SPECIFICATION Spec
CONSTANTS
    MaxSources = 2
    Sizes = {}
INVARIANT StopClosesTheConnection
\* An uncaught exception ends the process.
CHECK_DEADLOCK FALSE
