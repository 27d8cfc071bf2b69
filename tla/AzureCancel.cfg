\* Two guards of a stage, one close by the server, one of them cancelled.
CONSTANTS
  Guards = {"g1", "g2"}
  MaxGoAways = 1
SPECIFICATION ClientSpec
INVARIANTS
  ResetRestores
CHECK_DEADLOCK FALSE
