\* Three concurrent requests for any of six orders.
CONSTANTS
  r1 = r1
  r2 = r2
  r3 = r3
  NoRequest = NoRequest
  Requests = {r1, r2, r3}
  Customers = {"alice", "bob"}
  Cent = 2
  Accounts <- AccountIds
  Owner <- OwnerOf
  Opening <- FirstDay
  Orders <- AnyOrder
SPECIFICATION Spec
INVARIANTS
  TypeOK
  NoOverdraft
  AnswersAreTrue
  BooksBalance
PROPERTIES
  TransfersAreAtomic
  EveryRequestAnswered
\* When every request is answered the bank waits for others.
CHECK_DEADLOCK FALSE
