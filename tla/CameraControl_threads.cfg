\* Commands one after the other, the server closing connections or answering in
\* parts, or two commands at once.
SPECIFICATION Spec
CONSTANTS
    MaxClicks = 3
    MaxOverlap = 2
    Parts = 2
INVARIANTS LoginFirst AnswersBackSuccesses NothingLeftOpen
\* All clicks are used up.
CHECK_DEADLOCK FALSE
