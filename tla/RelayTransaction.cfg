\* Views publish transactions; two websockets, two channels.
SPECIFICATION Spec
CONSTANTS
  c1 = c1
  c2 = c2
  m1 = m1
  m2 = m2
  p1 = p1
  p2 = p2
  w1 = w1
  w2 = w2
  NoMessage = NoMessage
  Channel = {c1, c2}
  Message = {m1, m2}
  Publisher = {p1, p2}
  Websocket = {w1, w2}
  SubscribeTo <- SubscribeBoth
  PublishTo <- PublishNone
  Echo <- EchoFirst
  Transaction = {TRUE}
  Persist = {TRUE, FALSE}
  Default = TRUE
  MaxPublish = 2
SYMMETRY Interchangeable
INVARIANTS TypeOK CaughtUp FollowsChannel NothingAbandoned
