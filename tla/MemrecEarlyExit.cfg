SPECIFICATION FairSpec
CONSTANT PipeCap = 3
PROPERTY EndsWithTarget
CHECK_DEADLOCK FALSE
