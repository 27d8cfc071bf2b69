\* One hop of one call: the start of the agent is what matters here.
CONSTANTS
  MaxHops = 1
  MaxPlan = 1
SPECIFICATION Spec
INVARIANTS
  InputStagesAreClosed
CHECK_DEADLOCK FALSE
