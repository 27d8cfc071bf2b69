\* Two hops of up to two planned calls each, any policy.
CONSTANTS
  MaxHops = 2
  MaxPlan = 2
SPECIFICATION Spec
INVARIANTS
  TypeOK
  EffectsAreCleared
  BlockedResultsStay
  ReplyIsCleared
  EveryCallIsTold
PROPERTIES
  TurnEnds
\* A turn that is over does nothing more.
CHECK_DEADLOCK FALSE
