\* A view publishes with publish_message.
SPECIFICATION Spec
CONSTANTS
  c1 = c1
  c2 = c2
  m1 = m1
  m2 = m2
  p1 = p1
  p2 = p2
  w1 = w1
  w2 = w2
  NoMessage = NoMessage
  Channel = {c1}
  Message = {m1, m2}
  Publisher = {p1}
  Websocket = {w1}
  SubscribeTo <- SubscribeBoth
  PublishTo <- PublishNone
  Echo <- EchoOn
  Transaction = {FALSE}
  Persist = {TRUE}
  Default = TRUE
  MaxPublish = 2
INVARIANTS PersistedRetrieved
