----------------------- MODULE WebsocketServerProofs ------------------------
(***************************************************************************)
(* Theorems about WebsocketServer, for any number of requests to either    *)
(* server.  The types are proved first, variable by variable; then, for    *)
(* each request, what its own steps preserve; no other call, and nothing   *)
(* in the environment, disturbs that.                                      *)
(***************************************************************************)
EXTENDS WebsocketServer, TLAPS

-----------------------------------------------------------------------------
(* The type invariant, in parts that one prover can deal with each.        *)

Control ==
  /\ at \in [Request -> Label]
  /\ status \in [Request -> {"none", "ok", "error"}]
  /\ websocket \subseteq Request /\ registry \subseteq websocket
  /\ ready \in [Request -> SUBSET {"browser", "redis"}]

Flags ==
  /\ closed \in [Request -> BOOLEAN]
  /\ discarded \in [Request -> BOOLEAN]
  /\ unacked \in [Request -> BOOLEAN]
  /\ up \in BOOLEAN

Kinds ==
  /\ sub \in [Request -> {"none", "live", "moved", "broken"}]
  /\ peer \in [Request -> {"here", "left", "silent", "gone"}]
  /\ wire \in [Request -> {"data", "close", "after close"}]

Numbers ==
  /\ started \in [Request -> Nat]
  /\ sent \in [Request -> 0..MaxFrames]
  /\ outages \in 0..MaxOutages

FramesOK == frames \in [Request -> Seq(Frame)]

Replies == replies \in [Request -> 0..MaxReplies]

NotReadyYet == \A r \in Request : at[r] \in {"call", "pubsub", "persisted"} => ready[r] = {}

\* What keeps the number of replies from dropping below zero: select reported one, and
\* only the call itself reads it.
RedisWaits == \A r \in Request : "redis" \in ready[r] /\ sub[r] = "live" => replies[r] > 0

Typed ==
  /\ Control /\ Flags /\ Kinds /\ Numbers /\ FramesOK /\ Replies
  /\ NotReadyYet /\ RedisWaits

\* What handling a descriptor does to the call: it goes on, and the descriptor is done with.
LEMMA HandledStep ==
  ASSUME NEW q \in Request, NEW fd, Handled(q, fd)
  PROVE  /\ \E l \in {"ready", "end"} : at' = [at EXCEPT ![q] = l]
         /\ status' = status
         /\ ready' = [ready EXCEPT ![q] = ready[q] \ {fd}]
BY DEF Handled, Goto

\* Every step keeps the types of what control and the registry are kept in.
LEMMA ControlStep == Control /\ [Next]_vars => Control'
<1> SUFFICES ASSUME Control, [Next]_vars PROVE Control'
  OBVIOUS
<1>a. \A q \in Request, fd \in {"browser", "redis"} :
        ready[q] \ {fd} \in SUBSET {"browser", "redis"}
  BY DEF Control
<1> USE <1>a DEF Control, Label, Serving, Loop, vars, callVars, redisVars, browserVars, wireVars
<1>1. ASSUME NEW q \in Request, Handshake(q) PROVE Control'
  BY <1>1 DEF Handshake, Goto, Raise
<1>2. ASSUME NEW q \in Request, SetPubsubChannels(q) PROVE Control'
  BY <1>2 DEF SetPubsubChannels, Goto, Raise
<1>3. ASSUME NEW q \in Request, SendPersistedMessages(q) PROVE Control'
  BY <1>3 DEF SendPersistedMessages, Goto, Raise, SendThen
<1>4. ASSUME NEW q \in Request, Select(q) PROVE Control'
  BY <1>4 DEF Select, Goto, Raise
<1>5. ASSUME NEW q \in Request, Flush(q) PROVE Control'
  BY <1>5 DEF Flush, Goto
<1>6. ASSUME NEW q \in Request, ReceiveText(q) PROVE Control'
  BY <1>6 DEF ReceiveText, Goto
<1>p. ASSUME NEW q \in Request, ReceivePart(q) PROVE Control'
  BY <1>p DEF ReceivePart, Goto
<1>7. ASSUME NEW q \in Request, ReceivePing(q) PROVE Control'
  BY <1>7, HandledStep DEF ReceivePing, Goto
<1>8. ASSUME NEW q \in Request, ReceiveEnd(q) PROVE Control'
  BY <1>8, HandledStep DEF ReceiveEnd, Goto, Raise
<1>9. ASSUME NEW q \in Request, PublishMessage(q) PROVE Control'
  BY <1>9, HandledStep DEF PublishMessage, Goto, Raise
<1>10. ASSUME NEW q \in Request, RelayReply(q) PROVE Control'
  BY <1>10, HandledStep DEF RelayReply, Goto, Raise, SendThen
<1>11. ASSUME NEW q \in Request, Reconnect(q) PROVE Control'
  BY <1>11, HandledStep DEF Reconnect, Goto, Raise
<1>12. ASSUME NEW q \in Request, EndIteration(q) PROVE Control'
  BY <1>12 DEF EndIteration, Goto, Raise, SendThen
<1>13. ASSUME NEW q \in Request, Release(q) PROVE Control'
  BY <1>13 DEF Release, Goto
<1>14. ASSUME NEW q \in Request, Finish(q) PROVE Control'
  BY <1>14 DEF Finish, Goto
<1>15. ASSUME NEW q \in Request, BrowserSends(q) PROVE Control'
  BY <1>15 DEF BrowserSends
<1>16. ASSUME NEW q \in Request, BrowserLeaves(q) PROVE Control'
  BY <1>16 DEF BrowserLeaves
<1>17. ASSUME NEW q \in Request, ConnectionTimesOut(q) PROVE Control'
  BY <1>17 DEF ConnectionTimesOut
<1>18. ASSUME NEW q \in Request, RedisReplies(q) PROVE Control'
  BY <1>18 DEF RedisReplies
<1>19. CASE RedisGoesDown
  BY <1>19 DEF RedisGoesDown
<1>20. CASE RedisComesUp
  BY <1>20 DEF RedisComesUp
<1>21. CASE UNCHANGED vars
  BY <1>21
<1> QED
  BY <1>1, <1>p, <1>2, <1>3, <1>4, <1>5, <1>6, <1>7, <1>8, <1>9, <1>10, <1>11, <1>12, <1>13,
     <1>14, <1>15, <1>16, <1>17, <1>18, <1>19, <1>20, <1>21
  DEF Next, Environment, Call

\* Every step keeps the Boolean functions Boolean.
LEMMA FlagsStep == Flags /\ [Next]_vars => Flags'
<1> SUFFICES ASSUME Flags, [Next]_vars PROVE Flags'
  OBVIOUS
<1> USE DEF Flags, vars, callVars, redisVars, browserVars, wireVars
<1>1. ASSUME NEW q \in Request, Handshake(q) PROVE Flags'
  BY <1>1 DEF Handshake, Goto, Raise
<1>2. ASSUME NEW q \in Request, SetPubsubChannels(q) PROVE Flags'
  BY <1>2 DEF SetPubsubChannels, Goto, Raise, Closed
<1>3. ASSUME NEW q \in Request, SendPersistedMessages(q) PROVE Flags'
  BY <1>3 DEF SendPersistedMessages, Goto, Raise, SendThen, Write, Closed
<1>4. ASSUME NEW q \in Request, Select(q) PROVE Flags'
  BY <1>4 DEF Select, Goto, Raise
<1>5. ASSUME NEW q \in Request, Flush(q) PROVE Flags'
  BY <1>5 DEF Flush, Goto, Closed
<1>6. ASSUME NEW q \in Request, ReceiveText(q) PROVE Flags'
  BY <1>6 DEF ReceiveText, Goto
<1>p. ASSUME NEW q \in Request, ReceivePart(q) PROVE Flags'
  BY <1>p DEF ReceivePart, Goto
<1>7. ASSUME NEW q \in Request, ReceivePing(q) PROVE Flags'
  BY <1>7 DEF ReceivePing, Goto, Write, Close, Closed
<1>8. ASSUME NEW q \in Request, ReceiveEnd(q) PROVE Flags'
  BY <1>8 DEF ReceiveEnd, Goto, Raise, Write, Close, Closed
<1>9. ASSUME NEW q \in Request, PublishMessage(q) PROVE Flags'
  BY <1>9 DEF PublishMessage, Goto, Raise
<1>10. ASSUME NEW q \in Request, RelayReply(q) PROVE Flags'
  BY <1>10 DEF RelayReply, Goto, Raise, SendThen, Write, Closed
<1>11. ASSUME NEW q \in Request, Reconnect(q) PROVE Flags'
  BY <1>11 DEF Reconnect, Goto, Raise
<1>12. ASSUME NEW q \in Request, EndIteration(q) PROVE Flags'
  BY <1>12 DEF EndIteration, Goto, Raise, SendThen, Write, Closed
<1>13. ASSUME NEW q \in Request, Release(q) PROVE Flags'
  BY <1>13 DEF Release, Goto
<1>14. ASSUME NEW q \in Request, Finish(q) PROVE Flags'
  BY <1>14 DEF Finish, Goto, Write, Close, Closed
<1>15. ASSUME NEW q \in Request, BrowserSends(q) PROVE Flags'
  BY <1>15 DEF BrowserSends
<1>16. ASSUME NEW q \in Request, BrowserLeaves(q) PROVE Flags'
  BY <1>16 DEF BrowserLeaves
<1>17. ASSUME NEW q \in Request, ConnectionTimesOut(q) PROVE Flags'
  BY <1>17 DEF ConnectionTimesOut
<1>18. ASSUME NEW q \in Request, RedisReplies(q) PROVE Flags'
  BY <1>18 DEF RedisReplies
<1>19. CASE RedisGoesDown
  BY <1>19 DEF RedisGoesDown
<1>20. CASE RedisComesUp
  BY <1>20 DEF RedisComesUp
<1>21. CASE UNCHANGED vars
  BY <1>21
<1> QED
  BY <1>1, <1>p, <1>2, <1>3, <1>4, <1>5, <1>6, <1>7, <1>8, <1>9, <1>10, <1>11, <1>12, <1>13,
     <1>14, <1>15, <1>16, <1>17, <1>18, <1>19, <1>20, <1>21
  DEF Next, Environment, Call

\* Every step keeps the states of subscriptions, browsers and wires.
LEMMA KindsStep == Kinds /\ [Next]_vars => Kinds'
<1> SUFFICES ASSUME Kinds, [Next]_vars PROVE Kinds'
  OBVIOUS
<1> USE DEF Kinds, vars, callVars, redisVars, browserVars, wireVars
<1>1. ASSUME NEW q \in Request, Handshake(q) PROVE Kinds'
  BY <1>1 DEF Handshake, Goto, Raise
<1>2. ASSUME NEW q \in Request, SetPubsubChannels(q) PROVE Kinds'
  BY <1>2, ZenonT(60) DEF SetPubsubChannels, Goto, Raise, Closed
<1>3. ASSUME NEW q \in Request, SendPersistedMessages(q) PROVE Kinds'
  BY <1>3 DEF SendPersistedMessages, Goto, Raise, SendThen, Write, Closed
<1>4. ASSUME NEW q \in Request, Select(q) PROVE Kinds'
  BY <1>4 DEF Select, Goto, Raise
<1>5. ASSUME NEW q \in Request, Flush(q) PROVE Kinds'
  BY <1>5 DEF Flush, Goto, Closed
<1>6. ASSUME NEW q \in Request, ReceiveText(q) PROVE Kinds'
  BY <1>6 DEF ReceiveText, Goto
<1>p. ASSUME NEW q \in Request, ReceivePart(q) PROVE Kinds'
  BY <1>p DEF ReceivePart, Goto
<1>7. ASSUME NEW q \in Request, ReceivePing(q) PROVE Kinds'
  BY <1>7 DEF ReceivePing, Goto, Write, Close, Closed
<1>8. ASSUME NEW q \in Request, ReceiveEnd(q) PROVE Kinds'
  BY <1>8 DEF ReceiveEnd, Goto, Raise, Write, Close, Closed
<1>9. ASSUME NEW q \in Request, PublishMessage(q) PROVE Kinds'
  BY <1>9 DEF PublishMessage, Goto, Raise
<1>10. ASSUME NEW q \in Request, RelayReply(q) PROVE Kinds'
  BY <1>10 DEF RelayReply, Goto, Raise, SendThen, Write, Closed
<1>11. ASSUME NEW q \in Request, Reconnect(q) PROVE Kinds'
  BY <1>11 DEF Reconnect, Goto, Raise
<1>12. ASSUME NEW q \in Request, EndIteration(q) PROVE Kinds'
  BY <1>12 DEF EndIteration, Goto, Raise, SendThen, Write, Closed
<1>13. ASSUME NEW q \in Request, Release(q) PROVE Kinds'
  BY <1>13 DEF Release, Goto
<1>14. ASSUME NEW q \in Request, Finish(q) PROVE Kinds'
  BY <1>14 DEF Finish, Goto, Write, Close, Closed
<1>15. ASSUME NEW q \in Request, BrowserSends(q) PROVE Kinds'
  BY <1>15 DEF BrowserSends
<1>16. ASSUME NEW q \in Request, BrowserLeaves(q) PROVE Kinds'
  BY <1>16 DEF BrowserLeaves
<1>17. ASSUME NEW q \in Request, ConnectionTimesOut(q) PROVE Kinds'
  BY <1>17 DEF ConnectionTimesOut
<1>18. ASSUME NEW q \in Request, RedisReplies(q) PROVE Kinds'
  BY <1>18 DEF RedisReplies
<1>19. CASE RedisGoesDown
  BY <1>19 DEF RedisGoesDown
<1>20. CASE RedisComesUp
  BY <1>20 DEF RedisComesUp
<1>21. CASE UNCHANGED vars
  BY <1>21
<1> QED
  BY <1>1, <1>p, <1>2, <1>3, <1>4, <1>5, <1>6, <1>7, <1>8, <1>9, <1>10, <1>11, <1>12, <1>13,
     <1>14, <1>15, <1>16, <1>17, <1>18, <1>19, <1>20, <1>21
  DEF Next, Environment, Call

\* Every step keeps the counters, and the bounds on them.
LEMMA NumbersStep == Numbers /\ [Next]_vars => Numbers'
<1> SUFFICES ASSUME Numbers, [Next]_vars PROVE Numbers'
  OBVIOUS
<1> USE ServerAssumption DEF ServerAssumption, Numbers, vars, callVars, redisVars, browserVars, wireVars
<1>1. ASSUME NEW q \in Request, Handshake(q) PROVE Numbers'
  BY <1>1 DEF Handshake
<1>2. ASSUME NEW q \in Request, SetPubsubChannels(q) PROVE Numbers'
  BY <1>2 DEF SetPubsubChannels
<1>3. ASSUME NEW q \in Request, SendPersistedMessages(q) PROVE Numbers'
  BY <1>3 DEF SendPersistedMessages
<1>4. ASSUME NEW q \in Request, Select(q) PROVE Numbers'
  BY <1>4 DEF Select
<1>5. ASSUME NEW q \in Request, Flush(q) PROVE Numbers'
  BY <1>5 DEF Flush
<1>6. ASSUME NEW q \in Request, ReceiveText(q) PROVE Numbers'
  BY <1>6 DEF ReceiveText
<1>p. ASSUME NEW q \in Request, ReceivePart(q) PROVE Numbers'
  BY <1>p DEF ReceivePart
<1>7. ASSUME NEW q \in Request, ReceivePing(q) PROVE Numbers'
  BY <1>7 DEF ReceivePing
<1>8. ASSUME NEW q \in Request, ReceiveEnd(q) PROVE Numbers'
  BY <1>8 DEF ReceiveEnd
<1>9. ASSUME NEW q \in Request, PublishMessage(q) PROVE Numbers'
  BY <1>9 DEF PublishMessage
<1>10. ASSUME NEW q \in Request, RelayReply(q) PROVE Numbers'
  BY <1>10 DEF RelayReply
<1>11. ASSUME NEW q \in Request, Reconnect(q) PROVE Numbers'
  BY <1>11 DEF Reconnect
<1>12. ASSUME NEW q \in Request, EndIteration(q) PROVE Numbers'
  BY <1>12 DEF EndIteration
<1>13. ASSUME NEW q \in Request, Release(q) PROVE Numbers'
  BY <1>13 DEF Release
<1>14. ASSUME NEW q \in Request, Finish(q) PROVE Numbers'
  BY <1>14 DEF Finish
<1>15. ASSUME NEW q \in Request, BrowserSends(q) PROVE Numbers'
  BY <1>15 DEF BrowserSends
<1>16. ASSUME NEW q \in Request, BrowserLeaves(q) PROVE Numbers'
  BY <1>16 DEF BrowserLeaves
<1>17. ASSUME NEW q \in Request, ConnectionTimesOut(q) PROVE Numbers'
  BY <1>17 DEF ConnectionTimesOut
<1>18. ASSUME NEW q \in Request, RedisReplies(q) PROVE Numbers'
  BY <1>18 DEF RedisReplies
<1>19. CASE RedisGoesDown
  BY <1>19 DEF RedisGoesDown
<1>20. CASE RedisComesUp
  BY <1>20 DEF RedisComesUp
<1>21. CASE UNCHANGED vars
  BY <1>21
<1> QED
  BY <1>1, <1>p, <1>2, <1>3, <1>4, <1>5, <1>6, <1>7, <1>8, <1>9, <1>10, <1>11, <1>12, <1>13,
     <1>14, <1>15, <1>16, <1>17, <1>18, <1>19, <1>20, <1>21
  DEF Next, Environment, Call

\* Reading a frame leaves a sequence of frames.
LEMMA FramesTail ==
  ASSUME FramesOK, NEW q \in Request
  PROVE  /\ frames[q] # <<>> => Tail(frames[q]) \in Seq(Frame)
         /\ (IF frames[q] = <<>> THEN frames[q] ELSE Tail(frames[q])) \in Seq(Frame)
BY DEF FramesOK

\* Every step keeps the frames on their way a sequence of frames.
LEMMA FramesStep == FramesOK /\ [Next]_vars => FramesOK'
<1> SUFFICES ASSUME FramesOK, [Next]_vars PROVE FramesOK'
  OBVIOUS
<1> USE DEF FramesOK, vars, callVars, redisVars, browserVars, wireVars
<1>1. ASSUME NEW q \in Request, Handshake(q) PROVE FramesOK'
  BY <1>1 DEF Handshake
<1>2. ASSUME NEW q \in Request, SetPubsubChannels(q) PROVE FramesOK'
  BY <1>2 DEF SetPubsubChannels
<1>3. ASSUME NEW q \in Request, SendPersistedMessages(q) PROVE FramesOK'
  BY <1>3 DEF SendPersistedMessages
<1>4. ASSUME NEW q \in Request, Select(q) PROVE FramesOK'
  BY <1>4 DEF Select
<1>5. ASSUME NEW q \in Request, Flush(q) PROVE FramesOK'
  BY <1>5, FramesTail DEF Flush
<1>6. ASSUME NEW q \in Request, ReceiveText(q) PROVE FramesOK'
  BY <1>6, FramesTail DEF ReceiveText
<1>p. ASSUME NEW q \in Request, ReceivePart(q) PROVE FramesOK'
  BY <1>p, FramesTail DEF ReceivePart
<1>7. ASSUME NEW q \in Request, ReceivePing(q) PROVE FramesOK'
  BY <1>7, FramesTail DEF ReceivePing
<1>8. ASSUME NEW q \in Request, ReceiveEnd(q) PROVE FramesOK'
  BY <1>8, FramesTail DEF ReceiveEnd
<1>9. ASSUME NEW q \in Request, PublishMessage(q) PROVE FramesOK'
  BY <1>9 DEF PublishMessage
<1>10. ASSUME NEW q \in Request, RelayReply(q) PROVE FramesOK'
  BY <1>10 DEF RelayReply
<1>11. ASSUME NEW q \in Request, Reconnect(q) PROVE FramesOK'
  BY <1>11 DEF Reconnect
<1>12. ASSUME NEW q \in Request, EndIteration(q) PROVE FramesOK'
  BY <1>12 DEF EndIteration
<1>13. ASSUME NEW q \in Request, Release(q) PROVE FramesOK'
  BY <1>13 DEF Release
<1>14. ASSUME NEW q \in Request, Finish(q) PROVE FramesOK'
  BY <1>14 DEF Finish
<1>15. ASSUME NEW q \in Request, BrowserSends(q) PROVE FramesOK'
  BY <1>15 DEF BrowserSends
<1>16. ASSUME NEW q \in Request, BrowserLeaves(q) PROVE FramesOK'
  BY <1>16 DEF BrowserLeaves
<1>17. ASSUME NEW q \in Request, ConnectionTimesOut(q) PROVE FramesOK'
  BY <1>17 DEF ConnectionTimesOut
<1>18. ASSUME NEW q \in Request, RedisReplies(q) PROVE FramesOK'
  BY <1>18 DEF RedisReplies
<1>19. CASE RedisGoesDown
  BY <1>19 DEF RedisGoesDown
<1>20. CASE RedisComesUp
  BY <1>20 DEF RedisComesUp
<1>21. CASE UNCHANGED vars
  BY <1>21
<1> QED
  BY <1>1, <1>p, <1>2, <1>3, <1>4, <1>5, <1>6, <1>7, <1>8, <1>9, <1>10, <1>11, <1>12, <1>13,
     <1>14, <1>15, <1>16, <1>17, <1>18, <1>19, <1>20, <1>21
  DEF Next, Environment, Call

\* Before its loop a call has no descriptor to handle.
LEMMA NotReadyStep == NotReadyYet /\ Control /\ [Next]_vars => NotReadyYet'
<1> SUFFICES ASSUME NotReadyYet, Control, [Next]_vars PROVE NotReadyYet'
  OBVIOUS
<1> USE DEF NotReadyYet, Control, vars, callVars, redisVars, browserVars, wireVars
<1>1. ASSUME NEW q \in Request, Handshake(q) PROVE NotReadyYet'
  BY <1>1 DEF Handshake, Goto, Raise
<1>2. ASSUME NEW q \in Request, SetPubsubChannels(q) PROVE NotReadyYet'
  BY <1>2 DEF SetPubsubChannels, Goto, Raise
<1>3. ASSUME NEW q \in Request, SendPersistedMessages(q) PROVE NotReadyYet'
  BY <1>3 DEF SendPersistedMessages, Goto, Raise, SendThen
<1>4. ASSUME NEW q \in Request, Select(q) PROVE NotReadyYet'
  BY <1>4 DEF Select, Goto, Raise
<1>5. ASSUME NEW q \in Request, Flush(q) PROVE NotReadyYet'
  BY <1>5 DEF Flush, Goto
<1>6. ASSUME NEW q \in Request, ReceiveText(q) PROVE NotReadyYet'
  BY <1>6 DEF ReceiveText, Goto, AtReceive
<1>p. ASSUME NEW q \in Request, ReceivePart(q) PROVE NotReadyYet'
  BY <1>p DEF ReceivePart, Goto, AtReceive
<1>7. ASSUME NEW q \in Request, ReceivePing(q) PROVE NotReadyYet'
  BY <1>7, HandledStep DEF ReceivePing, Goto, AtReceive
<1>8. ASSUME NEW q \in Request, ReceiveEnd(q) PROVE NotReadyYet'
  BY <1>8, HandledStep DEF ReceiveEnd, Goto, Raise, AtReceive
<1>9. ASSUME NEW q \in Request, PublishMessage(q) PROVE NotReadyYet'
  BY <1>9, HandledStep DEF PublishMessage, Goto, Raise
<1>10. ASSUME NEW q \in Request, RelayReply(q) PROVE NotReadyYet'
  BY <1>10, HandledStep DEF RelayReply, Goto, Raise, SendThen
<1>11. ASSUME NEW q \in Request, Reconnect(q) PROVE NotReadyYet'
  BY <1>11, HandledStep DEF Reconnect, Goto, Raise
<1>12. ASSUME NEW q \in Request, EndIteration(q) PROVE NotReadyYet'
  BY <1>12 DEF EndIteration, Goto, Raise, SendThen
<1>13. ASSUME NEW q \in Request, Release(q) PROVE NotReadyYet'
  BY <1>13 DEF Release, Goto
<1>14. ASSUME NEW q \in Request, Finish(q) PROVE NotReadyYet'
  BY <1>14 DEF Finish, Goto
<1>15. ASSUME NEW q \in Request, BrowserSends(q) PROVE NotReadyYet'
  BY <1>15 DEF BrowserSends
<1>16. ASSUME NEW q \in Request, BrowserLeaves(q) PROVE NotReadyYet'
  BY <1>16 DEF BrowserLeaves
<1>17. ASSUME NEW q \in Request, ConnectionTimesOut(q) PROVE NotReadyYet'
  BY <1>17 DEF ConnectionTimesOut
<1>18. ASSUME NEW q \in Request, RedisReplies(q) PROVE NotReadyYet'
  BY <1>18 DEF RedisReplies
<1>19. CASE RedisGoesDown
  BY <1>19 DEF RedisGoesDown
<1>20. CASE RedisComesUp
  BY <1>20 DEF RedisComesUp
<1>21. CASE UNCHANGED vars
  BY <1>21
<1> QED
  BY <1>1, <1>p, <1>2, <1>3, <1>4, <1>5, <1>6, <1>7, <1>8, <1>9, <1>10, <1>11, <1>12, <1>13,
     <1>14, <1>15, <1>16, <1>17, <1>18, <1>19, <1>20, <1>21
  DEF Next, Environment, Call

\* Only select adds to the descriptors to handle.
LEMMA ReadyShrinks ==
  ASSUME Control, NEW q \in Request,
         \/ UNCHANGED ready
         \/ \E fd \in {"browser", "redis"} : Handled(q, fd)
         \/ ready' = [ready EXCEPT ![q] = @ \ {"redis"}]
  PROVE \A r \in Request : ready'[r] \subseteq ready[r]
<1>1. CASE UNCHANGED ready
  BY <1>1
<1>2. ASSUME NEW fd, Handled(q, fd) PROVE \A r \in Request : ready'[r] \subseteq ready[r]
  BY <1>2, HandledStep DEF Control
<1>3. CASE ready' = [ready EXCEPT ![q] = @ \ {"redis"}]
  BY <1>3 DEF Control
<1> QED
  BY <1>1, <1>2, <1>3

\* A call that loses readiness, and no reply, keeps RedisWaits; the others go by hand.
LEMMA RedisWaitsStep ==
  RedisWaits /\ Replies /\ Control /\ NotReadyYet /\ Kinds /\ [Next]_vars => RedisWaits'
<1> SUFFICES ASSUME RedisWaits, Replies, Control, NotReadyYet, Kinds, [Next]_vars PROVE RedisWaits'
  OBVIOUS
<1> USE DEF vars, callVars, redisVars, browserVars, wireVars
<1> DEFINE Shrinks == \A r \in Request : ready'[r] \subseteq ready[r]
<1>a. ASSUME Shrinks, UNCHANGED <<sub, replies>> PROVE RedisWaits'
  BY <1>a DEF RedisWaits
<1>1. ASSUME NEW q \in Request, Handshake(q) PROVE RedisWaits'
  BY <1>1, <1>a, ReadyShrinks DEF Handshake
<1>2. ASSUME NEW q \in Request, SetPubsubChannels(q) PROVE RedisWaits'
  <2>1. ready[q] = {}
    BY <1>2 DEF NotReadyYet, SetPubsubChannels
  <2>2. ready' = ready /\ replies' = replies /\ \A r \in Request \ {q} : sub'[r] = sub[r]
    BY <1>2 DEF SetPubsubChannels, Kinds
  <2> QED
    BY <2>1, <2>2 DEF RedisWaits
<1>3. ASSUME NEW q \in Request, SendPersistedMessages(q) PROVE RedisWaits'
  BY <1>3, <1>a DEF SendPersistedMessages
<1>4. ASSUME NEW q \in Request, Select(q) PROVE RedisWaits'
  <2>1. CASE UNCHANGED ready
    BY <2>1, <1>4, <1>a DEF Select
  <2>2. CASE ready # ready'
    <3>1. ready' = [ready EXCEPT ![q] =
             {fd \in {"browser", "redis"} :
                IF fd = "browser" THEN Readable(q)
                ELSE sub[q] = "broken" \/ (sub[q] = "live" /\ replies[q] > 0)}]
      BY <2>2, <1>4 DEF Select
    <3>2. \A r \in Request \ {q} : ready'[r] = ready[r]
      BY <3>1 DEF Control
    <3>3. "redis" \in ready'[q] => sub[q] = "broken" \/ (sub[q] = "live" /\ replies[q] > 0)
      BY <3>1, "redis" # "browser" DEF Control
    <3> QED
      BY <3>2, <3>3, <1>4 DEF Select, RedisWaits
  <2> QED
    BY <2>1, <2>2
<1>5. ASSUME NEW q \in Request, Flush(q) PROVE RedisWaits'
  BY <1>5, <1>a DEF Flush
<1>6. ASSUME NEW q \in Request, ReceiveText(q) PROVE RedisWaits'
  BY <1>6, <1>a DEF ReceiveText
<1>p. ASSUME NEW q \in Request, ReceivePart(q) PROVE RedisWaits'
  BY <1>p, <1>a DEF ReceivePart
<1>7. ASSUME NEW q \in Request, ReceivePing(q) PROVE RedisWaits'
  BY <1>7, <1>a, ReadyShrinks DEF ReceivePing
<1>8. ASSUME NEW q \in Request, ReceiveEnd(q) PROVE RedisWaits'
  BY <1>8, <1>a, ReadyShrinks DEF ReceiveEnd
<1>9. ASSUME NEW q \in Request, PublishMessage(q) PROVE RedisWaits'
  BY <1>9, <1>a, ReadyShrinks DEF PublishMessage
<1>10. ASSUME NEW q \in Request, RelayReply(q) PROVE RedisWaits'
  <2>1. \A r \in Request \ {q} : ready'[r] \subseteq ready[r] /\ replies'[r] = replies[r]
    BY <1>10, ReadyShrinks DEF RelayReply, Replies
  <2>3. sub' = sub
    BY <1>10 DEF RelayReply
  <2>4. "redis" \notin ready'[q]
    BY <1>10, HandledStep DEF RelayReply, Control
  <2> QED
    BY <2>1, <2>3, <2>4 DEF RedisWaits
<1>11. ASSUME NEW q \in Request, Reconnect(q) PROVE RedisWaits'
  <2>1. CASE UNCHANGED <<sub, ready>>
    BY <2>1, <1>11, <1>a DEF Reconnect
  <2>2. CASE Handled(q, "redis")
    <3>1. \A r \in Request \ {q} : ready'[r] = ready[r]
      BY <2>2, HandledStep DEF Control
    <3>2. "redis" \notin ready'[q]
      BY <2>2, HandledStep DEF Control
    <3>3. replies' = replies /\ \A r \in Request \ {q} : sub'[r] = sub[r]
      BY <1>11 DEF Reconnect, Kinds
    <3> QED
      BY <3>1, <3>2, <3>3 DEF RedisWaits
  <2> QED
    BY <1>11, <2>1, <2>2 DEF Reconnect
<1>12. ASSUME NEW q \in Request, EndIteration(q) PROVE RedisWaits'
  BY <1>12, <1>a DEF EndIteration
<1>13. ASSUME NEW q \in Request, Release(q) PROVE RedisWaits'
  BY <1>13 DEF Release, RedisWaits, Replies, Kinds
<1>14. ASSUME NEW q \in Request, Finish(q) PROVE RedisWaits'
  BY <1>14, <1>a DEF Finish
<1>15. ASSUME NEW q \in Request, BrowserSends(q) PROVE RedisWaits'
  BY <1>15, <1>a DEF BrowserSends
<1>16. ASSUME NEW q \in Request, BrowserLeaves(q) PROVE RedisWaits'
  BY <1>16, <1>a DEF BrowserLeaves
<1>17. ASSUME NEW q \in Request, ConnectionTimesOut(q) PROVE RedisWaits'
  BY <1>17, <1>a DEF ConnectionTimesOut
<1>18. ASSUME NEW q \in Request, RedisReplies(q) PROVE RedisWaits'
  <2>1. UNCHANGED <<ready, sub>>
    BY <1>18 DEF RedisReplies
  <2>2. \A r \in Request : replies'[r] = replies[r] \/ replies'[r] = replies[r] + 1
    BY <1>18 DEF RedisReplies, Replies
  <2> QED
    BY <2>1, <2>2 DEF RedisWaits, Replies
<1>19. CASE RedisGoesDown
  BY <1>19 DEF RedisGoesDown, RedisWaits
<1>20. CASE RedisComesUp
  BY <1>20, <1>a DEF RedisComesUp
<1>21. CASE UNCHANGED vars
  BY <1>21, <1>a
<1> QED
  BY <1>1, <1>p, <1>2, <1>3, <1>4, <1>5, <1>6, <1>7, <1>8, <1>9, <1>10, <1>11, <1>12, <1>13,
     <1>14, <1>15, <1>16, <1>17, <1>18, <1>19, <1>20, <1>21
  DEF Next, Environment, Call

\* The replies not read stay within bounds: RedisWaits says that there is one to read.
LEMMA RepliesStep == Replies /\ RedisWaits /\ [Next]_vars => Replies'
<1> SUFFICES ASSUME Replies, RedisWaits, [Next]_vars PROVE Replies'
  OBVIOUS
<1> USE ServerAssumption DEF ServerAssumption, Replies, vars, callVars, redisVars, browserVars, wireVars
<1>1. ASSUME NEW q \in Request, Handshake(q) PROVE Replies'
  BY <1>1 DEF Handshake
<1>2. ASSUME NEW q \in Request, SetPubsubChannels(q) PROVE Replies'
  BY <1>2 DEF SetPubsubChannels
<1>3. ASSUME NEW q \in Request, SendPersistedMessages(q) PROVE Replies'
  BY <1>3 DEF SendPersistedMessages
<1>4. ASSUME NEW q \in Request, Select(q) PROVE Replies'
  BY <1>4 DEF Select
<1>5. ASSUME NEW q \in Request, Flush(q) PROVE Replies'
  BY <1>5 DEF Flush
<1>6. ASSUME NEW q \in Request, ReceiveText(q) PROVE Replies'
  BY <1>6 DEF ReceiveText
<1>p. ASSUME NEW q \in Request, ReceivePart(q) PROVE Replies'
  BY <1>p DEF ReceivePart
<1>7. ASSUME NEW q \in Request, ReceivePing(q) PROVE Replies'
  BY <1>7 DEF ReceivePing
<1>8. ASSUME NEW q \in Request, ReceiveEnd(q) PROVE Replies'
  BY <1>8 DEF ReceiveEnd
<1>9. ASSUME NEW q \in Request, PublishMessage(q) PROVE Replies'
  BY <1>9 DEF PublishMessage
<1>10. ASSUME NEW q \in Request, RelayReply(q) PROVE Replies'
  <2>1. "redis" \in ready[q] /\ sub[q] = "live"
    BY <1>10 DEF RelayReply, AtReply
  <2>2. replies[q] > 0
    BY <2>1 DEF RedisWaits
  <2> QED
    BY <1>10, <2>2 DEF RelayReply
<1>11. ASSUME NEW q \in Request, Reconnect(q) PROVE Replies'
  BY <1>11 DEF Reconnect
<1>12. ASSUME NEW q \in Request, EndIteration(q) PROVE Replies'
  BY <1>12 DEF EndIteration
<1>13. ASSUME NEW q \in Request, Release(q) PROVE Replies'
  BY <1>13 DEF Release
<1>14. ASSUME NEW q \in Request, Finish(q) PROVE Replies'
  BY <1>14 DEF Finish
<1>15. ASSUME NEW q \in Request, BrowserSends(q) PROVE Replies'
  BY <1>15 DEF BrowserSends
<1>16. ASSUME NEW q \in Request, BrowserLeaves(q) PROVE Replies'
  BY <1>16 DEF BrowserLeaves
<1>17. ASSUME NEW q \in Request, ConnectionTimesOut(q) PROVE Replies'
  BY <1>17 DEF ConnectionTimesOut
<1>18. ASSUME NEW q \in Request, RedisReplies(q) PROVE Replies'
  BY <1>18 DEF RedisReplies
<1>19. CASE RedisGoesDown
  BY <1>19 DEF RedisGoesDown
<1>20. CASE RedisComesUp
  BY <1>20 DEF RedisComesUp
<1>21. CASE UNCHANGED vars
  BY <1>21
<1> QED
  BY <1>1, <1>p, <1>2, <1>3, <1>4, <1>5, <1>6, <1>7, <1>8, <1>9, <1>10, <1>11, <1>12, <1>13,
     <1>14, <1>15, <1>16, <1>17, <1>18, <1>19, <1>20, <1>21
  DEF Next, Environment, Call

\* All of it together.
LEMMA Typing == Spec => []Typed
<1>1. Init => Typed
  <2> SUFFICES ASSUME Init PROVE Typed
    OBVIOUS
  <2> USE ServerAssumption DEF Init, ServerAssumption
  <2>1. Control
    BY DEF Control, Label
  <2>2. Flags
    BY DEF Flags
  <2>3. Kinds /\ FramesOK
    BY DEF Kinds, FramesOK
  <2>4. Numbers /\ Replies
    BY DEF Numbers, Replies
  <2>5. NotReadyYet /\ RedisWaits
    BY DEF NotReadyYet, RedisWaits
  <2> QED
    BY <2>1, <2>2, <2>3, <2>4, <2>5 DEF Typed
<1>2. Typed /\ [Next]_vars => Typed'
  BY ControlStep, FlagsStep, KindsStep, NumbersStep, FramesStep, RepliesStep, NotReadyStep,
     RedisWaitsStep DEF Typed
<1> QED
  BY <1>1, <1>2, PTL DEF Spec

(* The variables keep their types: only upgraded websockets get into the   *)
(* registry, and no call reads a reply that is not there.                  *)
THEOREM ServerTypeCorrect == Spec => []TypeOK
<1>1. Typed => TypeOK
  BY DEF Typed, Control, Flags, Kinds, Numbers, FramesOK, Replies, TypeOK
<1> QED
  BY <1>1, Typing, PTL

-----------------------------------------------------------------------------
(* The invariant of one request, and what its own steps make of it.        *)

\* The registry has r from the upgrade to the end of the iteration that closes it.
RegistryFor(r) ==
  /\ at[r] \in {"call", "pubsub", "persisted"} => ~closed[r]
  /\ at[r] \in Serving => r \in registry \/ (at[r] = "loop" /\ closed[r])
  /\ at[r] = "loop" /\ closed[r] => r \notin registry
  /\ status[r] = "ok" => r \notin registry /\ at[r] \in {"release", "finish", "done"}

\* Whoever sends a close frame marks the websocket closed, and then nobody sends.
WireFor(r) == wire[r] = "data" \/ (wire[r] = "close" /\ closed[r])

\* Only a call with a websocket subscribes, and its subscription is released.
SubFor(r) ==
  /\ at[r] \in {"call", "pubsub", "finish"} => sub[r] = "none"
  /\ at[r] = "done" => sub[r] \in {"none", "broken"}
  /\ sub[r] # "none" => r \in websocket
  /\ at[r] = "call" => r \notin websocket

\* A call with a websocket has been answered; one without has not, or its browser left.
AnswerFor(r) ==
  /\ r \in websocket => started[r] = 1
  /\ r \notin websocket => at[r] \in {"call", "release", "finish", "done"}
  /\ at[r] = "call" => started[r] = 0
  /\ at[r] \in {"release", "finish"} /\ r \notin websocket => started[r] = 0 \/ peer[r] = "gone"
  /\ at[r] = "done" => started[r] = 1 \/ (started[r] > 0 /\ peer[r] = "gone")

ClosedFor(r) == r \in websocket /\ at[r] = "done" /\ sub[r] = "none" => closed[r]

\* A call leaves the control state and the registry entry of every other call alone.
LEMMA OtherCalls ==
  ASSUME NEW q \in Request, Control, Numbers, Call(q)
  PROVE  \A r \in Request \ {q} :
           /\ at'[r] = at[r] /\ status'[r] = status[r] /\ started'[r] = started[r]
           /\ r \in websocket' <=> r \in websocket
           /\ r \in registry' <=> r \in registry
<1> USE DEF Control, Numbers, redisVars, browserVars, wireVars
<1>1. CASE Handshake(q)
  BY <1>1 DEF Handshake, Goto, Raise
<1>2. CASE SetPubsubChannels(q)
  BY <1>2 DEF SetPubsubChannels, Goto, Raise
<1>3. CASE SendPersistedMessages(q)
  BY <1>3 DEF SendPersistedMessages, Goto, Raise, SendThen
<1>4. CASE Select(q)
  BY <1>4 DEF Select, Goto, Raise
<1>5. CASE Flush(q)
  BY <1>5 DEF Flush, Goto
<1>6. CASE ReceiveText(q)
  BY <1>6 DEF ReceiveText, Goto
<1>p. CASE ReceivePart(q)
  BY <1>p DEF ReceivePart, Goto
<1>7. CASE ReceivePing(q)
  BY <1>7, HandledStep DEF ReceivePing, Goto
<1>8. CASE ReceiveEnd(q)
  BY <1>8, HandledStep DEF ReceiveEnd, Goto, Raise
<1>9. CASE PublishMessage(q)
  BY <1>9, HandledStep DEF PublishMessage, Goto, Raise
<1>10. CASE RelayReply(q)
  BY <1>10, HandledStep DEF RelayReply, Goto, Raise, SendThen
<1>11. CASE Reconnect(q)
  BY <1>11, HandledStep DEF Reconnect, Goto, Raise
<1>12. CASE EndIteration(q)
  BY <1>12 DEF EndIteration, Goto, Raise, SendThen
<1>13. CASE Release(q)
  BY <1>13 DEF Release, Goto
<1>14. CASE Finish(q)
  BY <1>14 DEF Finish, Goto
<1> QED
  BY <1>1, <1>p, <1>2, <1>3, <1>4, <1>5, <1>6, <1>7, <1>8, <1>9, <1>10, <1>11, <1>12, <1>13, <1>14
  DEF Call

\* A call leaves the wire and the subscription of every other call alone.
LEMMA OtherWires ==
  ASSUME NEW q \in Request, Kinds, Flags, Call(q)
  PROVE  \A r \in Request \ {q} :
           wire'[r] = wire[r] /\ sub'[r] = sub[r] /\ (closed'[r] <=> closed[r])
<1> USE DEF Kinds, Flags, redisVars, browserVars, wireVars
<1>1. CASE Handshake(q)
  BY <1>1 DEF Handshake
<1>2. CASE SetPubsubChannels(q)
  <2>1. \A r \in Request \ {q} : sub'[r] = sub[r]
    BY <1>2 DEF SetPubsubChannels
  <2>2. wire' = wire /\ \A r \in Request \ {q} : closed'[r] <=> closed[r]
    BY <1>2 DEF SetPubsubChannels, Closed
  <2> QED
    BY <2>1, <2>2
<1>3. CASE SendPersistedMessages(q)
  BY <1>3 DEF SendPersistedMessages, SendThen, Write, Closed
<1>4. CASE Select(q)
  BY <1>4 DEF Select
<1>5. CASE Flush(q)
  BY <1>5 DEF Flush, Closed
<1>6. CASE ReceiveText(q)
  BY <1>6 DEF ReceiveText
<1>p. CASE ReceivePart(q)
  BY <1>p DEF ReceivePart
<1>7. CASE ReceivePing(q)
  BY <1>7, HandledStep DEF ReceivePing, Write, Close, Closed
<1>8. CASE ReceiveEnd(q)
  BY <1>8, HandledStep DEF ReceiveEnd, Write, Close, Closed
<1>9. CASE PublishMessage(q)
  BY <1>9, HandledStep DEF PublishMessage
<1>10. CASE RelayReply(q)
  BY <1>10, HandledStep DEF RelayReply, SendThen, Write, Closed
<1>11. CASE Reconnect(q)
  BY <1>11, HandledStep DEF Reconnect
<1>12. CASE EndIteration(q)
  BY <1>12 DEF EndIteration, SendThen, Write, Closed
<1>13. CASE Release(q)
  BY <1>13 DEF Release
<1>14. CASE Finish(q)
  BY <1>14 DEF Finish, Write, Close, Closed
<1> QED
  BY <1>1, <1>p, <1>2, <1>3, <1>4, <1>5, <1>6, <1>7, <1>8, <1>9, <1>10, <1>11, <1>12, <1>13, <1>14
  DEF Call

\* The own steps of a call keep RegistryFor.
LEMMA RegistryStep ==
  ASSUME NEW q \in Request, RegistryFor(q), Control, Flags, NotReadyYet, Call(q)
  PROVE  RegistryFor(q)'
<1> USE DEF RegistryFor, Flags, NotReadyYet, Control, Label, Serving, Loop, redisVars, browserVars, wireVars
<1>1. CASE Handshake(q)
  BY <1>1 DEF Handshake, Goto, Raise
<1>2. CASE SetPubsubChannels(q)
  BY <1>2 DEF SetPubsubChannels, Goto, Raise, Closed
<1>3. CASE SendPersistedMessages(q)
  BY <1>3 DEF SendPersistedMessages, Goto, Raise, SendThen, Closed
<1>4. CASE Select(q)
  BY <1>4 DEF Select, Goto, Raise
<1>5. CASE Flush(q)
  BY <1>5 DEF Flush, Goto, Closed
<1>6. CASE ReceiveText(q)
  BY <1>6 DEF ReceiveText, Goto, AtReceive
<1>p. CASE ReceivePart(q)
  BY <1>p DEF ReceivePart, Goto, AtReceive
<1>7. CASE ReceivePing(q)
  BY <1>7, HandledStep DEF ReceivePing, Goto, Close, Closed, AtReceive
<1>8. CASE ReceiveEnd(q)
  BY <1>8, HandledStep DEF ReceiveEnd, Goto, Raise, Close, Closed, AtReceive
<1>9. CASE PublishMessage(q)
  BY <1>9, HandledStep DEF PublishMessage, Goto, Raise
<1>10. CASE RelayReply(q)
  BY <1>10, HandledStep DEF RelayReply, AtReply, Goto, Raise, SendThen, Closed
<1>11. CASE Reconnect(q)
  BY <1>11, HandledStep DEF Reconnect, AtReply, Goto, Raise
<1>12. CASE EndIteration(q)
  BY <1>12 DEF EndIteration, Goto, Raise, SendThen, Closed
<1>13. CASE Release(q)
  BY <1>13 DEF Release, Goto
<1>14. CASE Finish(q)
  BY <1>14 DEF Finish, Goto, Close, Closed
<1> QED
  BY <1>1, <1>p, <1>2, <1>3, <1>4, <1>5, <1>6, <1>7, <1>8, <1>9, <1>10, <1>11, <1>12, <1>13, <1>14
  DEF Call

\* The own steps of a call keep WireFor: the guards on closed in send and close.
LEMMA WireStep ==
  ASSUME NEW q \in Request, WireFor(q), Flags, Kinds, Call(q)
  PROVE  WireFor(q)'
<1> USE DEF WireFor, Flags, Kinds, redisVars, browserVars, wireVars
<1>1. CASE Handshake(q)
  BY <1>1 DEF Handshake, SendFails
<1>2. CASE SetPubsubChannels(q)
  BY <1>2 DEF SetPubsubChannels, Closed, SendFails
<1>3. CASE SendPersistedMessages(q)
  BY <1>3 DEF SendPersistedMessages, SendThen, Write, Closed, SendFails
<1>4. CASE Select(q)
  BY <1>4 DEF Select, SendFails
<1>5. CASE Flush(q)
  BY <1>5 DEF Flush, Closed, SendFails
<1>6. CASE ReceiveText(q)
  BY <1>6 DEF ReceiveText, SendFails
<1>p. CASE ReceivePart(q)
  BY <1>p DEF ReceivePart, SendFails
<1>7. CASE ReceivePing(q)
  BY <1>7, HandledStep DEF ReceivePing, Write, Close, Closed, SendFails
<1>8. CASE ReceiveEnd(q)
  BY <1>8, HandledStep DEF ReceiveEnd, Write, Close, Closed, SendFails
<1>9. CASE PublishMessage(q)
  BY <1>9, HandledStep DEF PublishMessage, SendFails
<1>10. CASE RelayReply(q)
  BY <1>10, HandledStep DEF RelayReply, SendThen, Write, Closed, SendFails
<1>11. CASE Reconnect(q)
  BY <1>11, HandledStep DEF Reconnect, SendFails
<1>12. CASE EndIteration(q)
  BY <1>12 DEF EndIteration, SendThen, Write, Closed, SendFails
<1>13. CASE Release(q)
  BY <1>13 DEF Release, SendFails
<1>14. CASE Finish(q)
  BY <1>14 DEF Finish, Write, Close, Closed, SendFails
<1> QED
  BY <1>1, <1>p, <1>2, <1>3, <1>4, <1>5, <1>6, <1>7, <1>8, <1>9, <1>10, <1>11, <1>12, <1>13, <1>14
  DEF Call

\* The own steps of a call keep SubFor: the only way out after subscribing is Release.
LEMMA SubStep ==
  ASSUME NEW q \in Request, SubFor(q), AnswerFor(q), Control, Kinds, Call(q)
  PROVE  SubFor(q)'
<1> USE DEF SubFor, AnswerFor, Control, Kinds, Label, Serving, Loop, redisVars, browserVars, wireVars
<1>1. CASE Handshake(q)
  BY <1>1 DEF Handshake, Goto, Raise
<1>2. CASE SetPubsubChannels(q)
  <2>1. at'[q] \in {"persisted", "release"}
    BY <1>2 DEF SetPubsubChannels, Goto, Raise
  <2>2. q \in websocket'
    BY <1>2 DEF SetPubsubChannels
  <2> QED
    BY <2>1, <2>2
<1>3. CASE SendPersistedMessages(q)
  BY <1>3, ZenonT(60) DEF SendPersistedMessages, Goto, Raise, SendThen
<1>4. CASE Select(q)
  BY <1>4, ZenonT(60) DEF Select, Goto, Raise
<1>5. CASE Flush(q)
  BY <1>5 DEF Flush, Goto
<1>6. CASE ReceiveText(q)
  BY <1>6 DEF ReceiveText, Goto
<1>p. CASE ReceivePart(q)
  BY <1>p DEF ReceivePart, Goto
<1>7. CASE ReceivePing(q)
  BY <1>7, HandledStep, ZenonT(60) DEF ReceivePing, Goto
<1>8. CASE ReceiveEnd(q)
  BY <1>8, HandledStep, ZenonT(60) DEF ReceiveEnd, Goto, Raise
<1>9. CASE PublishMessage(q)
  BY <1>9, HandledStep, ZenonT(60) DEF PublishMessage, Goto, Raise
<1>10. CASE RelayReply(q)
  BY <1>10, HandledStep, ZenonT(60) DEF RelayReply, Goto, Raise, SendThen
<1>11. CASE Reconnect(q)
  BY <1>11, HandledStep, ZenonT(60) DEF Reconnect, Goto, Raise
<1>12. CASE EndIteration(q)
  <2>1. at'[q] \in {"loop", "release"}
    BY <1>12, ZenonT(60) DEF EndIteration, SendThen, Goto, Raise
  <2>2. sub' = sub /\ websocket' = websocket /\ at[q] = "end"
    BY <1>12 DEF EndIteration
  <2> QED
    BY <2>1, <2>2
<1>13. CASE Release(q)
  BY <1>13, ZenonT(60) DEF Release, Goto
<1>14. CASE Finish(q)
  BY <1>14 DEF Finish, Goto
<1> QED
  BY <1>1, <1>p, <1>2, <1>3, <1>4, <1>5, <1>6, <1>7, <1>8, <1>9, <1>10, <1>11, <1>12, <1>13, <1>14
  DEF Call

\* The own steps of a call keep AnswerFor.
LEMMA AnswerStep ==
  ASSUME NEW q \in Request, AnswerFor(q), SubFor(q), Numbers, Control, Kinds, Call(q)
  PROVE  AnswerFor(q)'
<1> USE DEF AnswerFor, SubFor, Numbers, Control, Kinds, Label, Serving, Loop, redisVars, browserVars, wireVars
<1>1. CASE Handshake(q)
  <2>1. started[q] = 0 /\ q \notin websocket /\ peer' = peer
    BY <1>1 DEF Handshake
  <2>2. CASE Raise(q) /\ UNCHANGED <<started, websocket>>
    BY <2>1, <2>2 DEF Raise
  <2>3. CASE Raise(q) /\ peer[q] = "gone" /\ websocket' = websocket
    BY <2>1, <2>3 DEF Raise
  <2>4. CASE /\ started' = [started EXCEPT ![q] = started[q] + 1]
             /\ websocket' = websocket \cup {q}
             /\ Goto(q, "pubsub")
    <3>1. at'[q] = "pubsub" /\ q \in websocket'
      BY <2>4 DEF Goto
    <3>2. started'[q] = started[q] + 1
      BY <2>4
    <3> HIDE DEF AnswerFor, SubFor, Numbers, Control, Kinds
    <3>3. started'[q] = 1
      BY <2>1, <3>2
    <3> QED
      BY <3>1, <3>3 DEF AnswerFor
  <2> HIDE DEF AnswerFor, SubFor, Numbers, Control, Kinds
  <2> QED
    BY <1>1, <2>2, <2>3, <2>4 DEF Handshake
<1>2. CASE SetPubsubChannels(q)
  BY <1>2 DEF SetPubsubChannels, Goto, Raise
<1>3. CASE SendPersistedMessages(q)
  BY <1>3 DEF SendPersistedMessages, Goto, Raise, SendThen
<1>4. CASE Select(q)
  BY <1>4 DEF Select, Goto, Raise
<1>5. CASE Flush(q)
  BY <1>5 DEF Flush, Goto
<1>6. CASE ReceiveText(q)
  BY <1>6 DEF ReceiveText, Goto, AtReceive
<1>p. CASE ReceivePart(q)
  BY <1>p DEF ReceivePart, Goto, AtReceive
<1>7. CASE ReceivePing(q)
  BY <1>7, HandledStep DEF ReceivePing, Goto, AtReceive
<1>8. CASE ReceiveEnd(q)
  BY <1>8, HandledStep, ZenonT(60) DEF ReceiveEnd, Goto, Raise, AtReceive
<1>9. CASE PublishMessage(q)
  BY <1>9, HandledStep DEF PublishMessage, Goto, Raise
<1>10. CASE RelayReply(q)
  BY <1>10, HandledStep, ZenonT(60) DEF RelayReply, Goto, Raise, SendThen
<1>11. CASE Reconnect(q)
  BY <1>11, HandledStep, ZenonT(60) DEF Reconnect, Goto, Raise
<1>12. CASE EndIteration(q)
  BY <1>12, ZenonT(60) DEF EndIteration, Goto, Raise, SendThen
<1>13. CASE Release(q)
  BY <1>13 DEF Release, Goto
<1>14. CASE Finish(q)
  <2>1. at[q] = "finish" /\ at'[q] = "done" /\ peer' = peer /\ websocket' = websocket
    BY <1>14 DEF Finish, Goto
  <2>2. CASE q \in websocket
    BY <2>1, <2>2, <1>14 DEF Finish
  <2>3. CASE q \notin websocket
    <3>1. started'[q] = started[q] + 1
      BY <2>3, <1>14 DEF Finish
    <3>2. started[q] \in Nat /\ (started[q] = 0 \/ peer'[q] = "gone")
      BY <2>1, <2>3
    <3> HIDE DEF AnswerFor, SubFor, Numbers, Control, Kinds
    <3>3. started'[q] = 1 \/ (started'[q] > 0 /\ peer'[q] = "gone")
      BY <3>1, <3>2
    <3> QED
      BY <2>1, <2>3, <3>3 DEF AnswerFor
  <2> QED
    BY <2>2, <2>3
<1> QED
  BY <1>1, <1>p, <1>2, <1>3, <1>4, <1>5, <1>6, <1>7, <1>8, <1>9, <1>10, <1>11, <1>12, <1>13, <1>14
  DEF Call

\* The own steps of a call keep ClosedFor.
LEMMA ClosedStep ==
  ASSUME NEW q \in Request, ClosedFor(q), SubFor(q), Flags, Control, Kinds, Call(q)
  PROVE  ClosedFor(q)'
<1> USE DEF ClosedFor, SubFor, Flags, Control, Kinds, Label, Serving, Loop, redisVars, browserVars, wireVars
<1>1. CASE Handshake(q)
  BY <1>1 DEF Handshake, Goto, Raise
<1>2. CASE SetPubsubChannels(q)
  BY <1>2 DEF SetPubsubChannels, Goto, Raise, Closed
<1>3. CASE SendPersistedMessages(q)
  BY <1>3 DEF SendPersistedMessages, Goto, Raise, SendThen, Closed
<1>4. CASE Select(q)
  BY <1>4 DEF Select, Goto, Raise
<1>5. CASE Flush(q)
  BY <1>5 DEF Flush, Goto, Closed
<1>6. CASE ReceiveText(q)
  BY <1>6 DEF ReceiveText, Goto
<1>p. CASE ReceivePart(q)
  BY <1>p DEF ReceivePart, Goto
<1>7. CASE ReceivePing(q)
  BY <1>7, HandledStep, ZenonT(60) DEF ReceivePing, Goto, Close, Closed
<1>8. CASE ReceiveEnd(q)
  BY <1>8, HandledStep DEF ReceiveEnd, Goto, Raise, Close, Closed
<1>9. CASE PublishMessage(q)
  BY <1>9, HandledStep DEF PublishMessage, Goto, Raise
<1>10. CASE RelayReply(q)
  BY <1>10, HandledStep DEF RelayReply, Goto, Raise, SendThen, Closed
<1>11. CASE Reconnect(q)
  BY <1>11, HandledStep DEF Reconnect, Goto, Raise
<1>12. CASE EndIteration(q)
  BY <1>12 DEF EndIteration, Goto, Raise, SendThen, Closed
<1>13. CASE Release(q)
  BY <1>13 DEF Release, Goto
<1>14. CASE Finish(q)
  BY <1>14 DEF Finish, Goto, Close, Closed
<1> QED
  BY <1>1, <1>p, <1>2, <1>3, <1>4, <1>5, <1>6, <1>7, <1>8, <1>9, <1>10, <1>11, <1>12, <1>13, <1>14
  DEF Call

-----------------------------------------------------------------------------
(* The invariant of all requests.                                          *)

RequestInv(r) == RegistryFor(r) /\ WireFor(r) /\ SubFor(r) /\ AnswerFor(r) /\ ClosedFor(r)

AllRequests == \A r \in Request : RequestInv(r)

\* What the environment can do to a request: fail.
LEMMA EnvironmentStep ==
  ASSUME Kinds, Environment \/ UNCHANGED vars
  PROVE  /\ UNCHANGED <<callVars, wireVars>>
         /\ \A r \in Request : /\ sub'[r] = sub[r] \/ (sub[r] # "none" /\ sub'[r] = "broken")
                               /\ peer[r] = "gone" => peer'[r] = "gone"
<1> USE DEF Kinds, redisVars, browserVars, wireVars, callVars
<1>1. ASSUME NEW q \in Request, BrowserSends(q) PROVE UNCHANGED <<callVars, wireVars, sub, peer>>
  BY <1>1 DEF BrowserSends
<1>2. ASSUME NEW q \in Request, BrowserLeaves(q) \/ ConnectionTimesOut(q)
      PROVE  /\ UNCHANGED <<callVars, wireVars, sub>>
             /\ \A r \in Request : peer[r] = "gone" => peer'[r] = "gone"
  BY <1>2 DEF BrowserLeaves, ConnectionTimesOut
<1>3. ASSUME NEW q \in Request, RedisReplies(q) PROVE UNCHANGED <<callVars, wireVars, sub, peer>>
  BY <1>3 DEF RedisReplies
<1>4. CASE RedisGoesDown
  BY <1>4 DEF RedisGoesDown
<1>5. CASE RedisComesUp
  BY <1>5 DEF RedisComesUp
<1>6. CASE UNCHANGED vars
  BY <1>6 DEF vars
<1> QED
  BY <1>1, <1>2, <1>3, <1>4, <1>5, <1>6 DEF Environment

\* No request has a websocket at first.
LEMMA RequestsAtFirst == Init => AllRequests
<1> SUFFICES ASSUME Init, NEW r \in Request PROVE RequestInv(r)
  BY DEF AllRequests
<1>1. RegistryFor(r)
  BY DEF Init, RegistryFor, Serving, Loop
<1>2. WireFor(r)
  BY DEF Init, WireFor, Serving, Loop
<1>3. SubFor(r)
  BY DEF Init, SubFor, Serving, Loop
<1>4. AnswerFor(r)
  BY DEF Init, AnswerFor, Serving, Loop
<1>5. ClosedFor(r)
  BY DEF Init, ClosedFor, Serving, Loop
<1> QED
  BY <1>1, <1>2, <1>3, <1>4, <1>5 DEF RequestInv

\* A step is of one call, or of the environment.
LEMMA RequestsStep == Typed /\ AllRequests /\ [Next]_vars => AllRequests'
<1> USE DEF RequestInv
<1> SUFFICES ASSUME Typed, \A r \in Request : RequestInv(r), [Next]_vars
             PROVE  \A r \in Request : RequestInv(r)'
  BY DEF AllRequests
<1> USE DEF Typed
<1>1. ASSUME NEW q \in Request, Call(q) PROVE \A r \in Request : RequestInv(r)'
  <2>1. RequestInv(q)'
    BY <1>1, RegistryStep, WireStep, SubStep, AnswerStep, ClosedStep
  <2>2. ASSUME NEW r \in Request \ {q} PROVE RequestInv(r)'
    <3>1. UNCHANGED peer
      BY <1>1 DEF Call, Handshake, SetPubsubChannels, SendPersistedMessages, Select, Flush,
         ReceiveText, ReceivePart, ReceivePing, ReceiveEnd, PublishMessage, RelayReply,
         Reconnect, EndIteration, Release, Finish, browserVars
    <3>2. /\ at'[r] = at[r] /\ status'[r] = status[r] /\ started'[r] = started[r]
          /\ r \in websocket' <=> r \in websocket
          /\ r \in registry' <=> r \in registry
      BY <1>1, OtherCalls
    <3>3. wire'[r] = wire[r] /\ sub'[r] = sub[r] /\ (closed'[r] <=> closed[r])
      BY <1>1, OtherWires
    <3>4. RequestInv(r)
      OBVIOUS
    <3> QED
      BY <3>1, <3>2, <3>3, <3>4 DEF RegistryFor, WireFor, SubFor, AnswerFor, ClosedFor
  <2> QED
    BY <2>1, <2>2
<1>2. CASE Environment \/ UNCHANGED vars
  <2> SUFFICES ASSUME NEW r \in Request PROVE RequestInv(r)'
    OBVIOUS
  <2>1. UNCHANGED <<at, status, started, websocket, closed, registry, wire>>
    BY <1>2, EnvironmentStep DEF callVars, wireVars
  <2>2. sub'[r] = sub[r] \/ (sub[r] # "none" /\ sub'[r] = "broken")
    BY <1>2, EnvironmentStep
  <2>3. peer[r] = "gone" => peer'[r] = "gone"
    BY <1>2, EnvironmentStep
  <2>4. RegistryFor(r)' /\ WireFor(r)'
    BY <2>1 DEF RegistryFor, WireFor
  <2>5. SubFor(r)' /\ ClosedFor(r)'
    BY <2>1, <2>2 DEF SubFor, ClosedFor
  <2>6. AnswerFor(r)'
    BY <2>1, <2>3 DEF AnswerFor
  <2> QED
    BY <2>4, <2>5, <2>6
<1> QED
  BY <1>1, <1>2 DEF Next

\* The invariant of all requests.
LEMMA Requests == Spec => []AllRequests
<1> QED
  BY RequestsAtFirst, RequestsStep, Typing, PTL DEF Spec

-----------------------------------------------------------------------------
(* The registry lists the websocket of every call in progress, so that the *)
(* remove at the end of an iteration finds it; and none whose call ended   *)
(* without an exception.                                                   *)
THEOREM ActiveWebsocketsAreRegistered == Spec => []ActiveAreRegistered
<1>1. AllRequests => ActiveAreRegistered
  BY DEF AllRequests, RequestInv, RegistryFor, ActiveAreRegistered
<1> QED
  BY <1>1, Requests, PTL

(* Nothing is sent on a websocket after its close frame, in whatever order *)
(* the descriptors are handled and whoever sends: the relay, the heartbeat *)
(* or the close of the finally clause.                                     *)
THEOREM CloseFrameIsLast == Spec => []NothingAfterClose
<1>1. AllRequests => NothingAfterClose
  BY DEF AllRequests, RequestInv, WireFor, NothingAfterClose
<1> QED
  BY <1>1, Requests, PTL

(* No call that is over has left a subscription in Redis, however it ended *)
(* and however often Redis failed.                                         *)
THEOREM SubscriptionsAreReleased == Spec => []NoSubscriptionLeft
<1>1. AllRequests => NoSubscriptionLeft
  BY DEF AllRequests, RequestInv, SubFor, NoSubscriptionLeft
<1> QED
  BY <1>1, Requests, PTL

(* Every call is answered, and but for a browser that left during the      *)
(* handshake only once.                                                    *)
THEOREM CallsAreAnsweredOnce == Spec => []AnsweredOnce
<1>1. Typed /\ AllRequests => AnsweredOnce
  <2> SUFFICES ASSUME Typed, AllRequests, NEW r \in Request
               PROVE  /\ peer[r] # "gone" => started[r] <= 1
                      /\ at[r] = "done" => started[r] > 0
    BY DEF AnsweredOnce
  <2>1. AnswerFor(r) /\ at[r] \in Label
    BY DEF AllRequests, RequestInv, Typed, Control
  <2> QED
    BY <2>1 DEF AnswerFor, Label, Serving, Loop
<1> QED
  BY <1>1, Typing, Requests, PTL

(* A call that is over has closed its websocket, unless its subscription   *)
(* could not be released.                                                  *)
THEOREM WebsocketsAreClosed == Spec => []ClosedWhenDone
<1>1. Typed /\ AllRequests => ClosedWhenDone
  BY DEF AllRequests, RequestInv, ClosedFor, ClosedWhenDone, Typed, Control
<1> QED
  BY <1>1, Typing, Requests, PTL
=============================================================================
