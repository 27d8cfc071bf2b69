\* The token cache with four guards in a burst and tokens that become due
\* twice, or the HTTP client with three guards and three closes by the server.
CONSTANTS
  c1 = c1
  c2 = c2
  c3 = c3
  c4 = c4
  Callers = {c1, c2, c3, c4}
  NoCaller = NoCaller
  MaxAgings = 2
  Guards = {"g1", "g2", "g3"}
  MaxGoAways = 3
SPECIFICATION AccessSpec
INVARIANTS
  TypeOK
  LockIsSound
  RefreshesAreCoalesced
  ClientTypeOK
  ClosedClientIsLeaving
  ClientsAreAccounted
PROPERTIES
  FreshTokensStay
  EveryCallerIsServed
  EveryCallEnds
\* When every call has ended nothing more happens.
CHECK_DEADLOCK FALSE
