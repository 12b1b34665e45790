SPECIFICATION FairSpec
CONSTANTS
  Frame <- MCFrame
  Validators = {"fallback", "wsaccel"}
  Outgoing = {126}
  MaxRecv = 65535
  MaxFrames = 3
  MaxUnread = 2
  MaxSends = 1
INVARIANTS TypeOK MessagesIntact PongsInOrder ClientReadsHeaders ClosesOnce UnlawfulRefused LawfulClientServed WsaccelRefusalHasReason
PROPERTIES ImplementsStream EndsWithClient
CHECK_DEADLOCK FALSE
