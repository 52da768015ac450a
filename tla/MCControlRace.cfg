\* Two threads call StartBackground and StopBackground concurrently.
CONSTANTS
  Controller = {c1, c2}
  MaxLoops = 2
SYMMETRY ControllerSymmetry
SPECIFICATION Spec
INVARIANT NeverTerminates
CHECK_DEADLOCK FALSE
