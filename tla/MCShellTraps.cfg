CONSTANTS
  Grow = 2
  Pids = {1, 2}
  Actions = {"plain", "skip"}
  MaxForks = 0
  MaxCommands = 2
  MaxSignals = 2
SPECIFICATION FairSpec
PROPERTY
  TrapsRun
CHECK_DEADLOCK FALSE
