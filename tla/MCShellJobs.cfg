CONSTANTS
  Grow = 2
  Pids = {1, 2}
  Actions = {"plain"}
  MaxForks = 3
  MaxCommands = 3
  MaxSignals = 1
SPECIFICATION FairSpec
INVARIANTS
  StatusGoesHome
  BackgroundRemembered
  PromptInterruptible
CHECK_DEADLOCK FALSE
PROPERTIES
  ShellReturns
