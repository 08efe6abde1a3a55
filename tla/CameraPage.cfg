\* Commands one after the other, answers, messages and broadcasts in every order,
\* windows over the page, leaving it; a user who waits.
SPECIFICATION MCFairSpec
CONSTANTS
    MaxClicks = 2
    MaxOverlap = 1
    Parts = 2
    MaxOpens = 4
    Burst = 2
    MaxWaiting = 2
    Lollipop = TRUE
INVARIANTS TypeOK QuietPageAgrees 
PROPERTIES CommandsEnd ErrorOverVideoEnds
\* All clicks and all opens are used up.
CHECK_DEADLOCK FALSE
