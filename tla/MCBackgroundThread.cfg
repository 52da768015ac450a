\* One thread controls the collector; three background threads in succession.
CONSTANTS
  Controller = {c1}
  MaxLoops = 3
SPECIFICATION PromptSpec
INVARIANTS LoopOwned NeverTerminates
PROPERTIES StopReturns PassesRecur
CHECK_DEADLOCK FALSE
