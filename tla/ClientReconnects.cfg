\* Everything the network can do to a client with heartbeats.
SPECIFICATION FairSpec
CONSTANTS
  Heartbeat = TRUE
  MayThrow = FALSE
INVARIANTS TypeOK WillRetry Watched
PROPERTIES FrozenIsNoticed Reconnects
