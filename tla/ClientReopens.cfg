\* The page closes a client that is waiting to retry.
SPECIFICATION Spec
CONSTANTS
  Heartbeat = TRUE
  MayThrow = FALSE
PROPERTIES StaysClosed
