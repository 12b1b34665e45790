\* One call at a time, with heartbeats, for liveness.
SPECIFICATION FairSpec
CONSTANTS
  r1 = r1
  r2 = r2
  Request = {r1}
  Server <- BothServers
  Heartbeat = TRUE
  Frame = {"text", "part", "ping", "close", "bad"}
  MaxFrames = 2
  MaxReplies = 1
  MaxOutages = 1
PROPERTIES EveryCallEnds BeatsUnlessWaiting
CHECK_DEADLOCK FALSE
