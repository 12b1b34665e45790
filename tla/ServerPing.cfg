\* A browser sends a ping.
SPECIFICATION FairSpec
CONSTANTS
  r1 = r1
  r2 = r2
  Request = {r1}
  Server <- BothServers
  Heartbeat = TRUE
  Frame = {"ping"}
  MaxFrames = 1
  MaxReplies = 1
  MaxOutages = 0
PROPERTIES KeepsBeating
CHECK_DEADLOCK FALSE
