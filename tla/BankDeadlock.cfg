\* Two concurrent requests of one customer.
CONSTANTS
  r1 = r1
  r2 = r2
  r3 = r3
  NoRequest = NoRequest
  Requests = {r1, r2}
  Customers = {"alice", "bob"}
  Cent = 2
  Accounts <- AccountIds
  Owner <- OwnerOf
  Opening <- FirstDay
  Orders <- AnyOrder
SPECIFICATION Spec
INVARIANTS
  NoDeadlock
CHECK_DEADLOCK FALSE
