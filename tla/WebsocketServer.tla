-------------------------- MODULE WebsocketServer --------------------------
(***************************************************************************)
(* The control path of WebsocketWSGIServer.__call__, one call per request, *)
(* each in a thread or greenlet of its own: handshake and upgrade, the     *)
(* registry of open websockets, the select loop, every exception that can  *)
(* leave it, and the finally clause; with the websocket of either server   *)
(* (websocket.py under runserver, uwsgi_runserver.py under uWSGI).  The    *)
(* browser, the network and the Redis server are the environment, and may  *)
(* fail at any moment.  What is relayed is the subject of MessageRelay.    *)
(***************************************************************************)
EXTENDS Naturals, Sequences

CONSTANTS
  Request,     \* the HTTP requests on the websocket URL
  Server,      \* which of the two servers each request came to
  Heartbeat,   \* whether WS4REDIS_HEARTBEAT is set
  Frame,       \* the kinds of frames browsers send: text, part (a fragment with more
               \* to come, or a pong), ping, close, bad
  MaxFrames,   \* bound on the frames a browser sends
  MaxReplies,  \* bound on the replies waiting in a subscription's socket
  MaxOutages   \* bound on the outages of Redis

ASSUME ServerAssumption ==
  /\ Server \in [Request -> {"runserver", "uwsgi"}]
  /\ Heartbeat \in BOOLEAN
  /\ Frame \subseteq {"text", "part", "ping", "close", "bad"}
  /\ MaxFrames \in Nat /\ MaxReplies \in Nat /\ MaxOutages \in Nat

VARIABLES
  at,         \* where in __call__ each request is
  status,     \* its response: none yet, ok, or the error of an except clause
  started,    \* how many status lines it has sent, by start_response or uwsgi
  websocket,  \* the requests whose variable websocket is not None
  closed,     \* websocket.closed
  registry,   \* _websockets, shared by all requests
  ready,      \* the file descriptors select returned and not handled yet
  sub,        \* the subscriber's Redis connection
  replies,    \* replies waiting in its socket
  discarded,  \* history: whether a text was read and thrown away
  peer,       \* the browser's end of the connection
  frames,     \* frames on the way from the browser
  sent,       \* frames the browser has sent, for the bound
  wire,       \* history: whether the server sent a close frame, or anything after it
  unacked,    \* whether the server has sent to a browser that vanished
  up,         \* whether Redis is up
  outages     \* outages of Redis so far, for the bound

callVars    == <<at, status, started, websocket, closed, registry, ready>>
redisVars   == <<sub, replies, up, outages>>
browserVars == <<peer, frames, sent>>
wireVars    == <<wire, unacked>>
vars == <<callVars, redisVars, discarded, browserVars, wireVars>>

Loop == {"loop", "ready", "receive", "publish", "end"}
Serving == {"pubsub", "persisted"} \cup Loop
Label == {"call"} \cup Serving \cup {"release", "finish", "done"}

TypeOK ==
  /\ at \in [Request -> Label]
  /\ status \in [Request -> {"none", "ok", "error"}]
  /\ started \in [Request -> Nat]
  /\ websocket \subseteq Request /\ registry \subseteq websocket
  /\ closed \in [Request -> BOOLEAN]
  /\ ready \in [Request -> SUBSET {"browser", "redis"}]
  /\ sub \in [Request -> {"none", "live", "moved", "broken"}]
  /\ replies \in [Request -> 0..MaxReplies]
  /\ discarded \in [Request -> BOOLEAN]
  /\ peer \in [Request -> {"here", "left", "silent", "gone"}]
  /\ frames \in [Request -> Seq(Frame)]
  /\ sent \in [Request -> 0..MaxFrames]
  /\ wire \in [Request -> {"data", "close", "after close"}]
  /\ unacked \in [Request -> BOOLEAN]
  /\ up \in BOOLEAN
  /\ outages \in 0..MaxOutages

Init ==
  /\ at = [r \in Request |-> "call"]
  /\ status = [r \in Request |-> "none"]
  /\ started = [r \in Request |-> 0]
  /\ websocket = {} /\ registry = {}
  /\ closed = [r \in Request |-> FALSE]
  /\ ready = [r \in Request |-> {}]
  /\ sub = [r \in Request |-> "none"]
  /\ replies = [r \in Request |-> 0]
  /\ discarded = [r \in Request |-> FALSE]
  /\ peer = [r \in Request |-> "here"]
  /\ frames = [r \in Request |-> <<>>]
  /\ sent = [r \in Request |-> 0]
  /\ wire = [r \in Request |-> "data"]
  /\ unacked = [r \in Request |-> FALSE]
  /\ up = TRUE
  /\ outages = 0

-----------------------------------------------------------------------------
(* The websocket: sending, closing, and whether there is something to read *)

Goto(r, label) == at' = [at EXCEPT ![r] = label] /\ UNCHANGED status

\* An exception leaves the try block, for one of its except clauses.
Raise(r) ==
  /\ at' = [at EXCEPT ![r] = "release"]
  /\ status' = [status EXCEPT ![r] = "error"]

\* A frame is written to the socket.
Write(r, kind) ==
  /\ wire' = [wire EXCEPT ![r] =
                IF @ = "data" THEN kind ELSE "after close"]
  /\ unacked' = [unacked EXCEPT ![r] = @ \/ peer[r] = "silent"]

\* Mutant of SendFails: a closed websocket still sends.
SendFailsWhenGone(r) == peer[r] = "gone"

SendFails(r) == closed[r] \/ peer[r] = "gone"

Closed(r) == closed' = [closed EXCEPT ![r] = TRUE]

\* websocket.send, then next, or WebSocketError; uWSGI's closes before it raises.
SendThen(r, next) ==
  \/ /\ ~SendFails(r)
     /\ Write(r, "data")
     /\ Goto(r, next)
     /\ UNCHANGED closed
  \/ /\ SendFails(r)
     /\ Raise(r)
     /\ IF Server[r] = "uwsgi" THEN Closed(r) ELSE UNCHANGED closed
     /\ UNCHANGED wireVars

\* Mutant of Close: _closed is not set.
CloseWithoutMark(r) ==
  /\ UNCHANGED closed
  /\ IF Server[r] = "runserver" /\ ~SendFails(r) THEN Write(r, "close") ELSE UNCHANGED wireVars

\* websocket.close: runserver's sends a close frame, if it can.
Close(r) ==
  /\ Closed(r)
  /\ IF Server[r] = "runserver" /\ ~SendFails(r) THEN Write(r, "close") ELSE UNCHANGED wireVars

Readable(r) == frames[r] # <<>> \/ peer[r] \in {"left", "gone"}

-----------------------------------------------------------------------------
(* From the call to the loop.                                              *)

\* The checks before the upgrade and the upgrade itself.  Nothing is refused once
\* the status line is out, but runserver fails to flush it to a browser that left.
Handshake(r) ==
  /\ at[r] = "call"
  /\ \/ Raise(r) /\ UNCHANGED <<started, websocket, registry>>
     \/ /\ Server[r] = "runserver" /\ peer[r] = "gone"
        /\ Raise(r)
        /\ started' = [started EXCEPT ![r] = @ + 1]
        /\ UNCHANGED <<websocket, registry>>
     \/ /\ started' = [started EXCEPT ![r] = @ + 1]
        /\ websocket' = websocket \cup {r}
        /\ registry' = registry \cup {r}
        /\ Goto(r, "pubsub")
  /\ UNCHANGED <<closed, ready, redisVars, discarded, browserVars, wireVars>>

\* set_pubsub_channels and the file descriptors: the request may ask for no channel,
\* it may lack the session its channels need, and uWSGI may have lost the socket.
SetPubsubChannels(r) ==
  /\ at[r] = "pubsub"
  /\ \/ /\ \E s \in {"none"} \cup (IF up THEN {"live"} ELSE {}) : sub' = [sub EXCEPT ![r] = s]
        /\ \/ Goto(r, "persisted") /\ UNCHANGED closed
           \/ Server[r] = "uwsgi" /\ peer[r] = "gone" /\ Closed(r) /\ Raise(r)
     \/ /\ \E s \in {"none"} \cup (IF up THEN {} ELSE {"broken"}) : sub' = [sub EXCEPT ![r] = s]
        /\ Raise(r)
        /\ UNCHANGED closed
  /\ UNCHANGED <<started, websocket, registry, ready, replies, up, outages, discarded,
                 browserVars, wireVars>>

\* send_persisted_messages: a message to send, or none, or a GET that fails.
SendPersistedMessages(r) ==
  /\ at[r] = "persisted"
  /\ \/ Goto(r, "loop") /\ UNCHANGED <<closed, wireVars>>
     \/ sub[r] # "none" /\ up /\ SendThen(r, "loop")
     \/ sub[r] # "none" /\ ~up /\ Raise(r) /\ UNCHANGED <<closed, wireVars>>
  /\ UNCHANGED <<started, websocket, registry, ready, redisVars, discarded, browserVars>>

-----------------------------------------------------------------------------
(* The loop.                                                               *)

\* The loop condition and select.  The descriptor of a subscription that redis-py
\* has reconnected (moved) is no longer the one select is given.
Select(r) ==
  /\ at[r] = "loop"
  /\ \/ /\ closed[r]
        /\ at' = [at EXCEPT ![r] = "release"]
        /\ status' = [status EXCEPT ![r] = "ok"]
        /\ UNCHANGED ready
     \/ /\ ~closed[r]
        /\ ready' = [ready EXCEPT ![r] =
             {fd \in {"browser", "redis"} :
                IF fd = "browser" THEN Readable(r)
                ELSE sub[r] = "broken" \/ (sub[r] = "live" /\ replies[r] > 0)}]
        /\ Goto(r, "ready")
     \/ /\ ~closed[r]
        /\ sub[r] = "moved"
        /\ Raise(r)
        /\ UNCHANGED ready
  /\ UNCHANGED <<started, websocket, closed, registry, redisVars, discarded,
                 browserVars, wireVars>>

\* Mutant of Handled: the descriptor is dealt with again.
HandledAgain(r, fd) ==
  /\ UNCHANGED ready
  /\ Goto(r, "ready")

\* Descriptor fd is dealt with; the for statement goes on to the next one.
Handled(r, fd) ==
  /\ ready' = [ready EXCEPT ![r] = @ \ {fd}]
  /\ Goto(r, IF ready[r] \subseteq {fd} THEN "end" ELSE "ready")

\* select timed out.  uWSGI's flush receives, and ignores what it gets.
Flush(r) ==
  /\ at[r] = "ready" /\ ready[r] = {}
  /\ Goto(r, "end")
  /\ IF Server[r] = "uwsgi" /\ Readable(r)
     THEN /\ frames' = [frames EXCEPT ![r] = IF @ = <<>> THEN @ ELSE Tail(@)]
          /\ IF frames[r] # <<>> /\ Head(frames[r]) = "text"
             THEN discarded' = [discarded EXCEPT ![r] = TRUE] /\ UNCHANGED closed
             ELSE Closed(r) /\ UNCHANGED discarded
     ELSE UNCHANGED <<frames, discarded, closed>>
  /\ UNCHANGED <<started, websocket, registry, ready, redisVars, peer, sent, wireVars>>

AtReceive(r) == at[r] \in {"ready", "receive"} /\ "browser" \in ready[r]

\* receive returns a message, which is to be published.
ReceiveText(r) ==
  /\ AtReceive(r)
  /\ frames[r] # <<>> /\ Head(frames[r]) = "text"
  /\ frames' = [frames EXCEPT ![r] = Tail(@)]
  /\ Goto(r, "publish")
  /\ UNCHANGED <<started, websocket, closed, registry, ready, redisVars, discarded,
                 peer, sent, wireVars>>

\* read_message goes on from a fragment, or a pong, to wait for the next frame.
ReceivePart(r) ==
  /\ AtReceive(r)
  /\ frames[r] # <<>> /\ Head(frames[r]) = "part"
  /\ frames' = [frames EXCEPT ![r] = Tail(@)]
  /\ Goto(r, "receive")
  /\ UNCHANGED <<started, websocket, closed, registry, ready, redisVars, discarded,
                 peer, sent, wireVars>>

\* A ping is answered, and read_message goes on to wait for the next frame; when
\* the answer cannot be sent, receive closes the websocket.
ReceivePing(r) ==
  /\ AtReceive(r)
  /\ frames[r] # <<>> /\ Head(frames[r]) = "ping"
  /\ frames' = [frames EXCEPT ![r] = Tail(@)]
  /\ \/ ~SendFails(r) /\ Write(r, "data") /\ Goto(r, "receive") /\ UNCHANGED <<closed, ready>>
     \/ SendFails(r) /\ Close(r) /\ Handled(r, "browser")
  /\ UNCHANGED <<started, websocket, registry, redisVars, discarded, peer, sent>>

\* A close frame, a frame in error, the end of the stream, or a connection reset:
\* runserver's receive closes the websocket and returns None, unless recv itself
\* failed; uWSGI's raises whatever it was.
ReceiveEnd(r) ==
  /\ AtReceive(r)
  /\ \/ frames[r] # <<>> /\ Head(frames[r]) \in {"close", "bad"}
     \/ frames[r] = <<>> /\ peer[r] \in {"left", "gone"}
  /\ frames' = [frames EXCEPT ![r] = IF @ = <<>> THEN @ ELSE Tail(@)]
  /\ \/ Server[r] = "runserver" /\ Close(r) /\ Handled(r, "browser")
     \/ /\ Server[r] = "runserver" /\ peer[r] = "gone"
        /\ Raise(r)
        /\ UNCHANGED <<closed, ready, wireVars>>
     \/ Server[r] = "uwsgi" /\ Close(r) /\ Raise(r) /\ UNCHANGED ready
  /\ UNCHANGED <<started, websocket, registry, redisVars, discarded, peer, sent>>

\* subscriber.publish_message, which does nothing for a heartbeat, and for a browser
\* that may publish on no channel.
PublishMessage(r) ==
  /\ at[r] = "publish"
  /\ \/ Handled(r, "browser")
     \/ ~up /\ Raise(r) /\ UNCHANGED ready
  /\ UNCHANGED <<started, websocket, closed, registry, redisVars, discarded,
                 browserVars, wireVars>>

\* The subscription's descriptor is the next one.  runserver's select returns them in the
\* order of listening_fds, the browser's first; gevent's, as they became ready.
AtReply(r) ==
  at[r] = "ready" /\ "redis" \in ready[r] /\ ("browser" \in ready[r] => Server[r] = "uwsgi")

\* subscriber.parse_response, and the send if there is a message to relay.
RelayReply(r) ==
  /\ AtReply(r)
  /\ sub[r] = "live"
  /\ replies' = [replies EXCEPT ![r] = @ - 1]
  /\ \/ Handled(r, "redis") /\ UNCHANGED <<closed, wireVars>>
     \/ /\ SendThen(r, IF "browser" \in ready[r] THEN "ready" ELSE "end")
        /\ ready' = [ready EXCEPT ![r] = @ \ {"redis"}]
  /\ UNCHANGED <<started, websocket, registry, sub, up, outages, discarded, browserVars>>

\* parse_response on a connection Redis has dropped: redis-py reconnects and reads
\* the confirmations of its subscriptions, or raises.
Reconnect(r) ==
  /\ AtReply(r)
  /\ sub[r] = "broken"
  /\ \/ /\ up
        /\ \E s \in {"live", "moved"} : sub' = [sub EXCEPT ![r] = s]
        /\ Handled(r, "redis")
     \/ Raise(r) /\ UNCHANGED <<sub, ready>>
  /\ UNCHANGED <<started, websocket, closed, registry, replies, up, outages, discarded,
                 browserVars, wireVars>>

\* Mutant of EndIteration: closed websockets stay in the registry.
EndIterationWithoutRemove(r) ==
  /\ at[r] = "end"
  /\ IF Heartbeat /\ ~closed[r]
     THEN SendThen(r, "loop")
     ELSE Goto(r, "loop") /\ UNCHANGED <<closed, wireVars>>
  /\ UNCHANGED <<started, websocket, registry, ready, redisVars, discarded, browserVars>>

\* After the for statement: the heartbeat, then the registry.
EndIteration(r) ==
  /\ at[r] = "end"
  /\ IF Heartbeat /\ ~closed[r]
     THEN SendThen(r, "loop")
     ELSE Goto(r, "loop") /\ UNCHANGED <<closed, wireVars>>
  /\ registry' = IF closed[r] THEN registry \ {r} ELSE registry
  /\ UNCHANGED <<started, websocket, ready, redisVars, discarded, browserVars>>

-----------------------------------------------------------------------------
(* The finally clause.                                                     *)

\* Mutant of Release: only a subscription of a call that failed is released.
ReleaseAfterFailure(r) ==
  /\ at[r] = "release"
  /\ sub' = [sub EXCEPT ![r] = IF status[r] = "ok" THEN @ ELSE "none"]
  /\ replies' = [replies EXCEPT ![r] = 0]
  /\ Goto(r, "finish")
  /\ UNCHANGED <<started, websocket, closed, registry, ready, up, outages, discarded,
                 browserVars, wireVars>>

\* subscriber.release; if it raises, nothing after it is executed.
Release(r) ==
  /\ at[r] = "release"
  /\ \/ /\ sub[r] = "none" \/ up
        /\ sub' = [sub EXCEPT ![r] = "none"]
        /\ replies' = [replies EXCEPT ![r] = 0]
        /\ Goto(r, "finish")
     \/ /\ sub[r] = "broken"
        /\ Goto(r, "done")
        /\ UNCHANGED <<sub, replies>>
  /\ UNCHANGED <<started, websocket, closed, registry, ready, up, outages, discarded,
                 browserVars, wireVars>>

\* Mutant of Finish: the response is started for websockets, too.
FinishWithResponse(r) ==
  /\ at[r] = "finish"
  /\ Goto(r, "done")
  /\ IF r \in websocket THEN Close(r) ELSE UNCHANGED <<closed, wireVars>>
  /\ started' = [started EXCEPT ![r] = @ + 1]
  /\ UNCHANGED <<websocket, registry, ready, redisVars, discarded, browserVars>>

\* The websocket is closed, or the response is started late.
Finish(r) ==
  /\ at[r] = "finish"
  /\ Goto(r, "done")
  /\ IF r \in websocket
     THEN Close(r) /\ UNCHANGED started
     ELSE started' = [started EXCEPT ![r] = @ + 1] /\ UNCHANGED <<closed, wireVars>>
  /\ UNCHANGED <<websocket, registry, ready, redisVars, discarded, browserVars>>

Call(r) ==
  \/ Handshake(r) \/ SetPubsubChannels(r) \/ SendPersistedMessages(r)
  \/ Select(r) \/ Flush(r) \/ ReceiveText(r) \/ ReceivePart(r) \/ ReceivePing(r)
  \/ ReceiveEnd(r) \/ PublishMessage(r) \/ RelayReply(r) \/ Reconnect(r) \/ EndIteration(r)
  \/ Release(r) \/ Finish(r)

-----------------------------------------------------------------------------
(* The environment.                                                        *)

\* After its close frame a browser sends nothing.  uWSGI's own code answers pings and
\* puts fragments together.
BrowserSends(r) ==
  /\ peer[r] = "here" /\ r \in websocket /\ at[r] # "done"
  /\ sent[r] < MaxFrames
  /\ \E kind \in IF Server[r] = "uwsgi" THEN Frame \ {"ping", "part"} ELSE Frame :
       /\ frames' = [frames EXCEPT ![r] = Append(@, kind)]
       /\ sent' = [sent EXCEPT ![r] = IF kind = "close" THEN MaxFrames ELSE @ + 1]
  /\ UNCHANGED <<callVars, redisVars, discarded, peer, wireVars>>

\* The browser ends the connection, or resets it, or vanishes without a trace.
BrowserLeaves(r) ==
  /\ peer[r] = "here" /\ at[r] # "done"
  /\ \E p \in {"left", "gone", "silent"} : peer' = [peer EXCEPT ![r] = p]
  /\ UNCHANGED <<callVars, redisVars, discarded, frames, sent, wireVars>>

\* TCP gives up on what was sent to a browser that vanished.
ConnectionTimesOut(r) ==
  /\ peer[r] = "silent" /\ unacked[r]
  /\ peer' = [peer EXCEPT ![r] = "gone"]
  /\ UNCHANGED <<callVars, redisVars, discarded, frames, sent, wireVars>>

RedisReplies(r) ==
  /\ sub[r] = "live" /\ replies[r] < MaxReplies
  /\ replies' = [replies EXCEPT ![r] = @ + 1]
  /\ UNCHANGED <<callVars, sub, up, outages, discarded, browserVars, wireVars>>

RedisGoesDown ==
  /\ up /\ outages < MaxOutages
  /\ up' = FALSE
  /\ outages' = outages + 1
  /\ sub' = [r \in Request |-> IF sub[r] = "none" THEN "none" ELSE "broken"]
  /\ replies' = [r \in Request |-> 0]
  /\ UNCHANGED <<callVars, discarded, browserVars, wireVars>>

RedisComesUp ==
  /\ ~up
  /\ up' = TRUE
  /\ UNCHANGED <<callVars, sub, replies, outages, discarded, browserVars, wireVars>>

Environment ==
  \/ \E r \in Request : BrowserSends(r) \/ BrowserLeaves(r) \/ ConnectionTimesOut(r)
                        \/ RedisReplies(r)
  \/ RedisGoesDown \/ RedisComesUp

Next == Environment \/ \E r \in Request : Call(r)

Spec == Init /\ [][Next]_vars

\* Threads are scheduled, and TCP does not wait forever for an acknowledgement.
Fairness ==
  \A r \in Request : WF_vars(Call(r)) /\ WF_vars(ConnectionTimesOut(r))

FairSpec == Spec /\ Fairness

-----------------------------------------------------------------------------
(* Safety: the registry lists every websocket that a call is serving, so   *)
(* that the remove of line 146 never fails; and none whose call ended      *)
(* without an exception.                                                   *)
ActiveAreRegistered ==
  \A r \in Request : /\ at[r] \in Serving => r \in registry \/ (at[r] = "loop" /\ closed[r])
                     /\ status[r] = "ok" => r \notin registry

(* Safety: Redis has no subscription of a call that is over, whichever way *)
(* it ended and however often Redis failed meanwhile.                      *)
NoSubscriptionLeft == \A r \in Request : at[r] = "done" => sub[r] \in {"none", "broken"}

(* Safety: a browser gets one status line, either of the upgrade or of the *)
(* late response, unless it left during the handshake.                     *)
AnsweredOnce ==
  \A r \in Request :
    /\ peer[r] # "gone" => started[r] <= 1
    /\ at[r] = "done" => started[r] > 0

(* Safety: a call that is over has closed its websocket, unless Redis was  *)
(* down when it released its subscriber.                                   *)
ClosedWhenDone ==
  \A r \in websocket : at[r] = "done" /\ sub[r] = "none" => closed[r]

(* Safety: the server sends nothing after a close frame, not even the late *)
(* replies or the heartbeat of the iteration that closed the websocket.    *)
NothingAfterClose == \A r \in Request : wire[r] # "after close"

(* Safety: what a browser sends is published, or its call fails.           *)
NothingDiscarded == \A r \in Request : ~discarded[r]

\* read_message is blocked in recv: the frame it read is not the end of a message, and
\* the browser, for all the server can tell, is still to send the next.
Waiting(r) == at[r] = "receive" /\ ~Readable(r)

(* Liveness: the call of a browser that closes, leaves, or vanishes ends;  *)
(* but for one that vanishes in the middle of a message or after a ping:   *)
(* with its call in recv, nothing is sent whose loss would be noticed.     *)
EveryCallEnds ==
  \A r \in Request :
    (peer[r] # "here" \/ \E i \in DOMAIN frames[r] : frames[r][i] = "close")
      ~> (at[r] = "done" \/ (Waiting(r) /\ peer[r] = "silent" /\ ~unacked[r]))

(* Liveness: a call that serves a browser keeps coming to the heartbeat    *)
(* (heartbeats.rst 66-68 and 74-76).                                       *)
KeepsBeating == \A r \in Request : []<>(at[r] \in Loop => at[r] = "end")

(* Liveness: a call that serves a browser keeps coming to the heartbeat,   *)
(* unless read_message waits for the rest of a message or what follows a   *)
(* ping.                                                                   *)
BeatsUnlessWaiting == \A r \in Request : []<>(at[r] \in Loop => at[r] = "end" \/ Waiting(r))
=============================================================================
