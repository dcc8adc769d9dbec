\* Every way the timeouts compare, in two ticks.
SPECIFICATION LiveSpec
CONSTANTS
  Longest = 2
  Timeouts <- MCTimeouts
INVARIANTS CalledOnce NotEarly OneTask
PROPERTIES SilenceIsNoticed TimersEnd
