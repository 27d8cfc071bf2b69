\* Two people, two tabs and two messages, one transfer, and three events after
\* an earlier visit: enough to load two tabs and let the session expire, to sign
\* out of one and chat in the other, or to sign in as the other person.
CONSTANTS
  Tabs = {"t1", "t2"}
  Users = {"alice", "bob"}
  NoUser = "nobody"
  Idle = "idle"
  Lapsed = "lapsed"
  Visits <- EarlierVisits
  MaxMessages = 2
  MaxOrders = 1
  MaxEvents = 3
SPECIFICATION Spec
INVARIANTS
  OneTurnPerMessage
  ReplyCoversTheMoney
PROPERTIES
  ShownUserActs
  EverySendSettles
\* Messages and events are bounded.
CHECK_DEADLOCK FALSE
