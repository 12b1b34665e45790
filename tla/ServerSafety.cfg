\* One call under runserver and one under uWSGI; Redis fails once.
SPECIFICATION Spec
CONSTANTS
  r1 = r1
  r2 = r2
  Request = {r1, r2}
  Server <- BothServers
  Heartbeat = TRUE
  Frame = {"text", "ping", "close"}
  MaxFrames = 1
  MaxReplies = 1
  MaxOutages = 1
INVARIANTS TypeOK ActiveAreRegistered NoSubscriptionLeft AnsweredOnce ClosedWhenDone NothingAfterClose
CHECK_DEADLOCK FALSE
