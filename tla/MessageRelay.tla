---------------------------- MODULE MessageRelay ----------------------------
(***************************************************************************)
(* The data path of django-websocket-redis: Django views publish messages  *)
(* on Redis channels (RedisStore.publish_message and                       *)
(* pipeline_publish_message), and one handler per open websocket           *)
(* subscribes to its channels, sends the persisted messages and then       *)
(* relays between Redis and its browser (RedisSubscriber and the loop of   *)
(* WebsocketWSGIServer.__call__).  Redis and the redis-py client are       *)
(* modelled from how this code uses them.  How a handler starts and how it *)
(* may fail is the subject of module WebsocketServer.                      *)
(***************************************************************************)
EXTENDS Naturals, Sequences

CONSTANTS
  Channel,      \* the Redis channels, which are also the keys of the store
  Message,      \* message contents
  NoMessage,    \* Python's None, and the value of an absent key
  Publisher,    \* Django views holding a RedisPublisher
  Websocket,    \* websocket handlers, each with one browser and one RedisSubscriber
  SubscribeTo,  \* the channels of each handler's "subscribe-..." parameters
  PublishTo,    \* the channels of each handler's "publish-..." parameters
  Echo,         \* whether a handler's URL has the "echo" parameter
  Transaction,  \* the values of the views' pipeline "transaction" argument
  Persist,      \* whether the views' "expire" arguments are positive
  Default,      \* whether WS4REDIS_EXPIRE is
  MaxPublish    \* bound on the messages published in a behaviour

ASSUME RelayAssumption ==
  /\ NoMessage \notin Message
  /\ Publisher \cap Websocket = {}
  /\ SubscribeTo \in [Websocket -> SUBSET Channel]
  /\ PublishTo \in [Websocket -> SUBSET Channel]
  /\ Echo \in [Websocket -> BOOLEAN]
  /\ Transaction \subseteq BOOLEAN /\ Persist \subseteq BOOLEAN
  /\ Default \in BOOLEAN /\ MaxPublish \in Nat

VARIABLES
  store,       \* Redis: the persisted message of each channel
  subscribed,  \* Redis: the channels each handler's connection is subscribed to
  executing,   \* Redis: the views whose MULTI/EXEC block is being executed
  requested,   \* SUBSCRIBE commands sent by a handler that Redis has not executed
  inbox,       \* replies on the way to parse_response, oldest first ...
  parsed,      \* ... and how many of them redis-py has read from the socket
  open,        \* the handlers past set_pubsub_channels and not yet released
  todo,        \* the channels send_persisted_messages has still to visit
  recvmsg,     \* the local variable of that name in __call__
  job,         \* the publication a view or a handler is busy with
  shown,       \* history: what each browser holds for each channel
  latest,      \* history: the message last published on each channel
  kept,        \* history: the one last published there that was to be persisted
  split,       \* history: the channels persisted on by a SETEX apart from its PUBLISH
  heard,       \* history: the channels published on since each handler subscribed ...
  missed,      \* ... and those published on after its GET and before its SUBSCRIBE
  own,         \* history: the messages each browser has sent on its websocket
  published    \* messages published so far, for the bound

redisVars   == <<store, subscribed, executing>>
queueVars   == <<requested, inbox, parsed>>
handlerVars == <<open, todo, recvmsg>>
historyVars == <<shown, latest, kept, split, heard, missed, own>>
vars == <<redisVars, queueVars, handlerVars, job, historyVars, published>>

Agent == Publisher \cup Websocket
MessageOrNone == Message \cup {NoMessage}

\* A reply on a subscribed connection: a published message, or (NoMessage) the
\* confirmation of a SUBSCRIBE, which RedisMessage turns into None.
Reply == [channel : Channel, msg : MessageOrNone]

\* A publication: the message, the channels of _publishers still to visit, those
\* published but not yet persisted, whether it is a pipeline transaction, and whether
\* it is to be persisted at all.
Job == [msg : MessageOrNone, left : SUBSET Channel, half : SUBSET Channel,
        tx : BOOLEAN, keep : BOOLEAN]
Idle == [msg |-> NoMessage, left |-> {}, half |-> {}, tx |-> FALSE, keep |-> FALSE]
NewJob(m, channels, tx, keep) ==
  IF channels = {} THEN Idle
  ELSE [msg |-> m, left |-> channels, half |-> {}, tx |-> tx, keep |-> keep]

\* The job once its current channel c is done.
Visited(j, c) == NewJob(j.msg, j.left \ {c}, j.tx, j.keep)

TypeOK ==
  /\ store \in [Channel -> MessageOrNone]
  /\ subscribed \in [Websocket -> SUBSET Channel]
  /\ executing \in SUBSET Publisher
  /\ requested \in [Websocket -> SUBSET Channel]
  /\ inbox \in [Websocket -> Seq(Reply)]
  /\ parsed \in [Websocket -> Nat]
  /\ \A w \in Websocket : parsed[w] <= Len(inbox[w])
  /\ open \in [Websocket -> BOOLEAN]
  /\ todo \in [Websocket -> SUBSET Channel]
  /\ recvmsg \in [Websocket -> MessageOrNone]
  /\ job \in [Agent -> Job]
  /\ shown \in [Websocket -> [Channel -> MessageOrNone]]
  /\ latest \in [Channel -> MessageOrNone] /\ kept \in [Channel -> MessageOrNone]
  /\ split \subseteq Channel
  /\ heard \in [Websocket -> SUBSET Channel] /\ missed \in [Websocket -> SUBSET Channel]
  /\ own \in [Websocket -> SUBSET Message]
  /\ published \in 0..MaxPublish

Init ==
  /\ store = [c \in Channel |-> NoMessage]
  /\ subscribed = [w \in Websocket |-> {}]
  /\ executing = {}
  /\ requested = [w \in Websocket |-> {}]
  /\ inbox = [w \in Websocket |-> <<>>]
  /\ parsed = [w \in Websocket |-> 0]
  /\ open = [w \in Websocket |-> FALSE]
  /\ todo = [w \in Websocket |-> {}]
  /\ recvmsg = [w \in Websocket |-> NoMessage]
  /\ job = [a \in Agent |-> Idle]
  /\ shown = [w \in Websocket |-> [c \in Channel |-> NoMessage]]
  /\ latest = [c \in Channel |-> NoMessage] /\ kept = [c \in Channel |-> NoMessage]
  /\ split = {}
  /\ heard = [w \in Websocket |-> {}] /\ missed = [w \in Websocket |-> {}]
  /\ own = [w \in Websocket |-> {}]
  /\ published = 0

-----------------------------------------------------------------------------
(* Redis executes one command at a time, and a MULTI/EXEC block as one.    *)

RedisFree == executing = {}

Publish(c, m, keep) ==
  /\ inbox' = [w \in Websocket |->
                 IF c \in subscribed[w]
                 THEN Append(inbox[w], [channel |-> c, msg |-> m])
                 ELSE inbox[w]]
  /\ latest' = [latest EXCEPT ![c] = m]
  /\ kept' = IF keep THEN [kept EXCEPT ![c] = m] ELSE kept
  /\ heard' = [w \in Websocket |-> IF c \in subscribed[w] THEN heard[w] \cup {c} ELSE heard[w]]
  /\ missed' = [w \in Websocket |->
                  IF c \in requested[w] \ todo[w] THEN missed[w] \cup {c} ELSE missed[w]]

ExecuteSubscribe(w) ==
  \E c \in requested[w] :
    /\ RedisFree
    /\ requested' = [requested EXCEPT ![w] = @ \ {c}]
    /\ subscribed' = [subscribed EXCEPT ![w] = @ \cup {c}]
    /\ inbox' = [inbox EXCEPT ![w] = Append(@, [channel |-> c, msg |-> NoMessage])]
    /\ UNCHANGED <<store, executing, parsed, handlerVars, job, historyVars, published>>

\* The time to live of a key set by SETEX runs out.
Expire(c) ==
  /\ RedisFree
  /\ store[c] # NoMessage
  /\ store' = [store EXCEPT ![c] = NoMessage]
  /\ UNCHANGED <<subscribed, executing, queueVars, handlerVars, job, historyVars, published>>

-----------------------------------------------------------------------------
(* Publishing.  A view picks its audience and its message; publish_message *)
(* and a pipeline without a transaction put the same commands to Redis,    *)
(* one PUBLISH and one SETEX per channel, other clients' commands between. *)

StartPublishing(p) ==
  /\ job[p] = Idle
  /\ published < MaxPublish
  /\ \E m \in Message, audience \in (SUBSET Channel) \ {{}}, tx \in Transaction, keep \in Persist :
       job' = [job EXCEPT ![p] = NewJob(m, audience, tx, keep)]
  /\ published' = published + 1
  /\ UNCHANGED <<redisVars, queueVars, handlerVars, historyVars>>

PublishCommand(a) ==
  \E c \in job[a].left :
    /\ RedisFree
    /\ ~job[a].tx
    /\ job[a].half = {}
    /\ Publish(c, job[a].msg, job[a].keep)
    /\ job' = [job EXCEPT ![a] = IF @.keep THEN [@ EXCEPT !.half = {c}] ELSE Visited(@, c)]
    /\ split' = IF job[a].keep THEN split \cup {c} ELSE split
    /\ UNCHANGED <<redisVars, requested, parsed, handlerVars, shown, own, published>>

SetexCommand(a) ==
  \E c \in job[a].half :
    /\ RedisFree
    /\ store' = [store EXCEPT ![c] = job[a].msg]
    /\ job' = [job EXCEPT ![a] = Visited(@, c)]
    /\ UNCHANGED <<subscribed, executing, queueVars, handlerVars, historyVars, published>>

\* The next PUBLISH and SETEX of a pipeline that Redis executes as a transaction.
TransactionCommand(p) ==
  \E c \in job[p].left :
    /\ executing \subseteq {p}
    /\ job[p].tx
    /\ Publish(c, job[p].msg, job[p].keep)
    /\ store' = IF job[p].keep THEN [store EXCEPT ![c] = job[p].msg] ELSE store
    /\ job' = [job EXCEPT ![p] = Visited(@, c)]
    /\ executing' = IF job[p].left = {c} THEN {} ELSE {p}
    /\ UNCHANGED <<subscribed, requested, parsed, handlerVars, shown, split, own, published>>

\* A command of the publication fails, and with it the view: what was done stays done.
\* Of a transaction Redis executes all or nothing.
PublicationFails(p) ==
  /\ job[p] # Idle
  /\ p \notin executing
  /\ job' = [job EXCEPT ![p] = Idle]
  /\ UNCHANGED <<redisVars, queueVars, handlerVars, historyVars, published>>

-----------------------------------------------------------------------------
(* The websocket handler.                                                  *)

\* set_pubsub_channels: the SUBSCRIBEs are sent, their replies are not awaited.
SetPubsubChannels(w) ==
  /\ ~open[w]
  /\ open' = [open EXCEPT ![w] = TRUE]
  /\ requested' = [requested EXCEPT ![w] = SubscribeTo[w]]
  /\ todo' = [todo EXCEPT ![w] = SubscribeTo[w]]
  /\ recvmsg' = [recvmsg EXCEPT ![w] = NoMessage]
  /\ shown' = [shown EXCEPT ![w] = [c \in Channel |-> NoMessage]]
  /\ own' = [own EXCEPT ![w] = {}]
  /\ UNCHANGED <<redisVars, inbox, parsed, job, latest, kept, split, heard, missed, published>>

\* websocket.send, as far as the browser's copy is concerned.
Send(w, c, m) == shown' = [shown EXCEPT ![w][c] = m]

\* Mutant of SendPersistedMessage: it returns after the first channel.
SendFirstPersistedMessage(w) ==
  \E c \in todo[w] :
    /\ RedisFree
    /\ todo' = [todo EXCEPT ![w] = {}]
    /\ IF store[c] # NoMessage THEN Send(w, c, store[c]) ELSE UNCHANGED shown
    /\ UNCHANGED <<redisVars, queueVars, open, recvmsg, job, latest, kept, split, heard, missed,
                   own, published>>

\* One iteration of send_persisted_messages: a GET and, if the key exists, a send.  It
\* uses another connection than the SUBSCRIBEs, which Redis may execute later.
SendPersistedMessage(w) ==
  \E c \in todo[w] :
    /\ RedisFree
    /\ todo' = [todo EXCEPT ![w] = @ \ {c}]
    /\ IF store[c] # NoMessage THEN Send(w, c, store[c]) ELSE UNCHANGED shown
    /\ UNCHANGED <<redisVars, queueVars, open, recvmsg, job, latest, kept, split, heard, missed,
                   own, published>>

\* The handler is at the select of its loop.
InLoop(w) == open[w] /\ todo[w] = {} /\ job[w] = Idle

\* The browser sent m, and its own copy of what it publishes is m; the handler
\* remembers m and starts subscriber.publish_message.
Receive(w, m) ==
  /\ InLoop(w)
  /\ published < MaxPublish
  /\ recvmsg' = [recvmsg EXCEPT ![w] = m]
  /\ job' = [job EXCEPT ![w] = NewJob(m, PublishTo[w], FALSE, Default)]
  /\ shown' = [shown EXCEPT ![w] = [c \in Channel |-> IF c \in PublishTo[w] THEN m ELSE @[c]]]
  /\ own' = [own EXCEPT ![w] = @ \cup {m}]
  /\ published' = published + 1
  /\ UNCHANGED <<redisVars, queueVars, open, todo, latest, kept, split, heard, missed>>

\* The browser sent a heartbeat, which RedisMessage turns into None.
ReceiveHeartbeat(w) ==
  /\ InLoop(w)
  /\ recvmsg[w] # NoMessage
  /\ recvmsg' = [recvmsg EXCEPT ![w] = NoMessage]
  /\ UNCHANGED <<redisVars, queueVars, open, todo, job, historyVars, published>>

\* select looks at the socket alone, not at what redis-py has read from it.
RedisReady(w) == parsed[w] < Len(inbox[w])

\* Mutant of ReadReply: the reply handed out is still counted as read ahead.
ReadReplyMiscounted(w) ==
  /\ inbox' = [inbox EXCEPT ![w] = Tail(@)]
  /\ \E n \in 1..Len(inbox[w]) :
       parsed' = [parsed EXCEPT ![w] = IF @ = 0 THEN n ELSE @]

\* Mutant of ReadReply: one reply is handed out, the others that have come are dropped.
ReadReplyDroppingRest(w) ==
  /\ inbox' = [inbox EXCEPT ![w] = <<>>]
  /\ parsed' = [parsed EXCEPT ![w] = 0]

\* parse_response: redis-py reads the socket only when it has no reply left over, and then
\* whatever has come, one reply or several.
ReadReply(w) ==
  /\ inbox' = [inbox EXCEPT ![w] = Tail(@)]
  /\ \E n \in 1..Len(inbox[w]) :
       parsed' = [parsed EXCEPT ![w] = (IF @ = 0 THEN n ELSE @) - 1]

\* Mutant of IsRelayed: the echo parameter is ignored.
IsRelayedUnlessOwn(w, reply) == reply.msg # NoMessage /\ reply.msg # recvmsg[w]

\* The condition under which the loop sends a reply on to the browser.
IsRelayed(w, reply) == reply.msg # NoMessage /\ (Echo[w] \/ reply.msg # recvmsg[w])

Relay(w) ==
  /\ InLoop(w)
  /\ RedisReady(w)
  /\ ReadReply(w)
  /\ LET reply == Head(inbox[w]) IN
       IF IsRelayed(w, reply) THEN Send(w, reply.channel, reply.msg) ELSE UNCHANGED shown
  /\ UNCHANGED <<redisVars, requested, handlerVars, job, latest, kept, split, heard, missed,
                 own, published>>

\* Mutant of Release: the subscriptions outlive the handler.
ReleaseWithoutUnsubscribe(w) ==
  /\ open[w]
  /\ RedisFree
  /\ open' = [open EXCEPT ![w] = FALSE]
  /\ requested' = [requested EXCEPT ![w] = {}]
  /\ inbox' = [inbox EXCEPT ![w] = <<>>]
  /\ parsed' = [parsed EXCEPT ![w] = 0]
  /\ todo' = [todo EXCEPT ![w] = {}]
  /\ job' = [job EXCEPT ![w] = Idle]
  /\ heard' = [heard EXCEPT ![w] = {}] /\ missed' = [missed EXCEPT ![w] = {}]
  /\ UNCHANGED <<store, subscribed, executing, recvmsg, shown, latest, kept, split, own, published>>

\* The browser is gone, as the loop or a failing send finds out, or a command of the
\* handler's own publication fails: release unsubscribes and disconnects.
Release(w) ==
  /\ open[w]
  /\ RedisFree
  /\ open' = [open EXCEPT ![w] = FALSE]
  /\ subscribed' = [subscribed EXCEPT ![w] = {}]
  /\ requested' = [requested EXCEPT ![w] = {}]
  /\ inbox' = [inbox EXCEPT ![w] = <<>>]
  /\ parsed' = [parsed EXCEPT ![w] = 0]
  /\ todo' = [todo EXCEPT ![w] = {}]
  /\ job' = [job EXCEPT ![w] = Idle]
  /\ heard' = [heard EXCEPT ![w] = {}] /\ missed' = [missed EXCEPT ![w] = {}]
  /\ UNCHANGED <<store, executing, recvmsg, shown, latest, kept, split, own, published>>

-----------------------------------------------------------------------------
Redis == \/ \E w \in Websocket : ExecuteSubscribe(w)
         \/ \E c \in Channel : Expire(c)

Views ==
  \E p \in Publisher : StartPublishing(p) \/ TransactionCommand(p) \/ PublicationFails(p)

Commands == \E a \in Agent : PublishCommand(a) \/ SetexCommand(a)

Handler(w) ==
  \/ SetPubsubChannels(w)
  \/ SendPersistedMessage(w)
  \/ \E m \in Message : Receive(w, m)
  \/ ReceiveHeartbeat(w)
  \/ Relay(w)
  \/ Release(w)

Next == Redis \/ Views \/ Commands \/ \E w \in Websocket : Handler(w)

Spec == Init /\ [][Next]_vars

\* Redis, the views and the handlers run what they have started; nobody has to
\* publish, to connect, to send or to leave, and no key has to expire.
Fairness ==
  /\ \A w \in Websocket : WF_vars(ExecuteSubscribe(w)) /\ WF_vars(SendPersistedMessage(w))
                          /\ WF_vars(Relay(w))
  /\ \A p \in Publisher : WF_vars(TransactionCommand(p))
  /\ \A a \in Agent : WF_vars(PublishCommand(a)) /\ WF_vars(SetexCommand(a))

FairSpec == Spec /\ Fairness

-----------------------------------------------------------------------------
\* The positions in a sequence of replies of the messages published on c.
OnChannel(replies, c) ==
  {i \in 1..Len(replies) : replies[i].channel = c /\ replies[i].msg # NoMessage}

Pending(w, c) == OnChannel(inbox[w], c) # {}

\* A handler that has subscribed to c, sent what was persisted there, and has
\* nothing of that channel left to relay.
UpToDate(w, c) ==
  /\ open[w] /\ c \in SubscribeTo[w]
  /\ requested[w] = {}
  /\ c \notin todo[w]
  /\ ~Pending(w, c)

\* No PUBLISH on c is still waiting for its SETEX.
Settled(c) == \A a \in Agent : c \notin job[a].half

\* What the browser holds is current: without echo the loop withholds a message equal to
\* the one its own browser sent last, which the browser may have replaced meanwhile.
HoldsLatest(w, c) == shown[w][c] = latest[c] \/ (~Echo[w] /\ latest[c] \in own[w])

(* Safety: a browser whose handler was subscribed to a channel when the    *)
(* last message was published there, and has nothing left to relay, holds  *)
(* that message, however publications, SETEXs, GETs and SUBSCRIBEs         *)
(* interleave (subscriber.py 57-70); but for one it has sent itself, if it *)
(* did not ask for echoes.                                                 *)
FollowsChannel ==
  \A w \in Websocket, c \in Channel :
    UpToDate(w, c) /\ c \in heard[w] /\ c \notin job[w].left => HoldsLatest(w, c)

\* Nothing was published on c since the SUBSCRIBE of w was executed, nor between its GET
\* and that, and Redis retains a message there.
Retained(w, c) ==
  /\ UpToDate(w, c) /\ c \notin heard[w] \cup missed[w] \cup job[w].left
  /\ Settled(c) /\ store[c] # NoMessage

(* Safety: until something is published on it, a browser holds for each    *)
(* channel the message that was to be persisted there last, as long as     *)
(* Redis retains one (usage.rst 276-278).                                  *)
PersistedRetrieved ==
  \A w \in Websocket, c \in Channel : Retained(w, c) => shown[w][c] = kept[c]

(* Safety: that is so on the channels where only transactions persist,     *)
(* whichever of them fail and however handlers come and go meanwhile.      *)
CaughtUp ==
  \A w \in Websocket, c \in Channel \ split : Retained(w, c) => shown[w][c] = kept[c]

(* Safety: Redis keeps no subscription and no output for a handler that    *)
(* was released, even one released before its SUBSCRIBEs were executed.    *)
NothingAbandoned ==
  \A w \in Websocket : ~open[w] => subscribed[w] \cup requested[w] = {} /\ inbox[w] = <<>>

Current(w, c) == UpToDate(w, c) /\ (c \in heard[w] => HoldsLatest(w, c))

\* What is pending has been read by redis-py, and select waits for a socket that has
\* nothing more to read.
Buffered(w, c) == InLoop(w) /\ Pending(w, c) /\ ~RedisReady(w)

(* Liveness: a websocket that stays open gets to the point where it has    *)
(* nothing left to relay on each channel it subscribed to, and its browser *)
(* then holds the message last published there since it subscribed         *)
(* (usage.rst 140-141).                                                    *)
EventuallyCurrent ==
  \A w \in Websocket, c \in Channel :
    (open[w] /\ c \in SubscribeTo[w]) ~> (~open[w] \/ Current(w, c))

(* Liveness: that is so unless what the browser lacks is left in the buffer*)
(* of redis-py, where select does not see it (wsgi_server.py 135-143).     *)
CurrentOrBuffered ==
  \A w \in Websocket, c \in Channel :
    (open[w] /\ c \in SubscribeTo[w]) ~> (~open[w] \/ Current(w, c) \/ Buffered(w, c))
=============================================================================
