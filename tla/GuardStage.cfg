\* Three guards, every mode, at most one cancellation of the request.
CONSTANTS
  N = 3
  Modes = {"as_completed", "gather", "sequential"}
  MaxCancels = 1
SPECIFICATION Spec
INVARIANTS
  TypeOK
  AllowHeardEveryGuard
  RefusalHasWitness
  TraceIsGenuine
PROPERTIES
  StageEnds
  KeepsPromise
\* A stage that has decided does nothing more.
CHECK_DEADLOCK FALSE
