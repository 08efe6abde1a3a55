\* Streams are set again and again with and without a stop between them, joins
\* time out, the server misframes; what ends even if the server is silent, and
\* what ends if it answers.
SPECIFICATION MCFairSpec
CONSTANTS
    MaxSources = 2
    Sizes = {1}
    SizedSources = 1
INVARIANTS TypeOK SurfaceSizeNotTorn NoUncaughtException
PROPERTIES ImplementsVideoPlayer StopReturns LooperReturns ThreadsEndWhenStopped
\* An uncaught exception ends the process.
CHECK_DEADLOCK FALSE
