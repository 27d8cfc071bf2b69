\* The default mode, two guards: what the trace shows of a refused text.
CONSTANTS
  N = 2
  Modes = {"as_completed"}
  MaxCancels = 0
SPECIFICATION Spec
INVARIANT TraceNamesEveryGuard
CHECK_DEADLOCK FALSE
