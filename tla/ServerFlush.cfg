\* A text that arrives when select has timed out.
SPECIFICATION Spec
CONSTANTS
  r1 = r1
  r2 = r2
  Request = {r1}
  Server <- OnlyUwsgi
  Heartbeat = TRUE
  Frame = {"text", "close"}
  MaxFrames = 1
  MaxReplies = 1
  MaxOutages = 1
INVARIANTS NothingDiscarded
CHECK_DEADLOCK FALSE
