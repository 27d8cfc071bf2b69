\* One tab and one message, and two events: somebody signs in elsewhere, and the
\* page is loaded by a browser that has no session.
CONSTANTS
  Tabs = {"t1"}
  Users = {"alice", "bob"}
  NoUser = "nobody"
  Idle = "idle"
  Lapsed = "lapsed"
  Visits <- EarlierVisits
  MaxMessages = 1
  MaxOrders = 0
  MaxEvents = 2
SPECIFICATION Spec
PROPERTY NoSessionIsRefused
\* Messages and events are bounded.
CHECK_DEADLOCK FALSE
