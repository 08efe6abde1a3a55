\* Two commands at once.
SPECIFICATION Spec
CONSTANTS
    MaxClicks = 2
    Parts = 1
    MaxOverlap = 2
INVARIANT SendsWhenConnected
CHECK_DEADLOCK FALSE
