\* The recorder, its target and its timer.
SPECIFICATION FairSpec
CONSTANT PipeCap = 3
INVARIANT NoMissedExit
PROPERTY EndsRight
PROPERTY RecorderEnds
CHECK_DEADLOCK FALSE
