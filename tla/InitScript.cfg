\* All commands, over daemons that may lose a process at any moment.
SPECIFICATION FairSpec
CONSTANTS
  Commands = {"start", "stop", "reload", "restart", "condrestart"}
  MaxStarts = 3
INVARIANT ScriptSafe
PROPERTY StopWorks
CHECK_DEADLOCK FALSE
