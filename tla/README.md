# TLA+ development of django-websocket-redis

django-websocket-redis lets a Django application push messages to browsers. A view publishes a message on
Redis channels; a second WSGI application, in its own process or under `runserver`, keeps one websocket
handler per browser, which subscribes to channels in Redis and relays. This directory models the parts of the
system that have state, concurrency or an encoding to get right, checks them with TLC and proves their safety
properties with TLAPS. Line numbers below refer to `src/ws4redis/` unless another path is given.

## 1. The system

| Component | Code | State it keeps | Operations | Modelled by |
|---|---|---|---|---|
| Message relay | `redis_store.py`, `subscriber.py`, loop of `wsgi_server.py` | keys and subscriptions in Redis, replies under way, `recvmsg` | `publish_message`, `pipeline_publish_message`, `set_pubsub_channels`, `send_persisted_messages`, relay, `release` | `MessageRelay` |
| Websocket server | `wsgi_server.py`, with `websocket.py`/`django_runserver.py` or `uwsgi_runserver.py` | where each call is, `_websockets`, `closed`, the subscriber's connection | `__call__`: handshake, loop, `except` clauses, `finally` | `WebsocketServer` |
| JavaScript client | `static/js/ws4redis.js` | `ws`, `timer`, `attempts`, `heartbeat_interval`, `missed_heartbeats`, `must_reconnect` | constructor, `connect`, `try_to_reconnect`, event handlers, `close` | `Ws4RedisClient` |
| WebSocket framing | `websocket.py` | `_closed`, opcode and payload of the message begun, validator | `receive`, `read_frame`, `read_message`, `handle_*`, `send`, `send_frame`, `close` | `WebSocketFrames`; its promise is `MessageStream` |
| Headers and masks | `websocket.py`, class `Header` | none | `encode_header`, `decode_header`, `mask_payload` | `HeaderCodec` |
| UTF-8 validator | `utf8validator.py` | automaton state | `validate`, `reset` | `Utf8Validator` |
| Channels and audiences | `redis_store.py:18-64`, `redis_store.py:137-220`, `subscriber.py`, `publisher.py`, `wsgi_server.py:52-81` | a handler's channels | `_wrap_*`, `_get_message_channels`, `process_subscriptions`, allowed channels, `fetch_message` | `Channels` |
| Groups in the session | `models.py` | copy of the user's groups | `store_groups_in_session` | `Channels` |
| Upgrade and dispatch | `django_runserver.py`, `wsgi_server.py:52-69` | none | checks before the upgrade, `upgrade_websocket`, `run`, dispatch by URL | the answers in `Channels`, their place in a call in `WebsocketServer` |
| Settings, exceptions, compatibility, context processor | `settings.py`, `exceptions.py`, `_compat.py`, `context_processors.py` | none | one-line helpers | settings that matter are CONSTANTS |
| Redis, redis-py, uwsgi, gevent, Django's sessions | external | | | modelled from how the code uses them |
| Example chat server, stress tests, packaging, docs | `src/examples`, `src/stress-tests`, `src/setup.py`, `src/docs` | | | no behaviour of their own; the docs are what the findings quote |

How they interact: views and handlers are clients of one Redis server, which executes one command at a time
and knows nothing of websockets. A handler has two connections to Redis (one for `GET`, `PUBLISH`, `SETEX`,
one for its subscriptions), shares the set `_websockets` with the other calls of its process, and multiplexes its
browser and its subscription with `select`. What it reads from the browser are messages that `websocket.py` puts
together from frames, which are headers, masks and payloads. Which channels it subscribes to and publishes on follows from
the URL, the callback and the session of the request, when the handler starts and once and for all. The client knows only
the websocket and the heartbeats on it.

What is hard about it, and which property is about it:

- *PUBLISH and SETEX are two commands, SUBSCRIBE and GET are on two connections.* A browser that connects
  while a view publishes should get the message one way or the other, also when the view's connection fails between two
  commands, or the message is one that is not to be persisted: `PersistedRetrieved`, which the code violates, `CaughtUp`, `FollowsChannel`.
- *select sees sockets, redis-py has a buffer.* A reply that is in the buffer is not reported:
  `EventuallyCurrent`, which the code violates, and `CurrentOrBuffered`, what remains of it.
- *The echo is suppressed by comparing contents with a remembered message*, which may be stale: `FollowsChannel`.
- *Any line of `__call__` may raise*, on a browser that vanished, on Redis that went down, or because the other
  descriptor of the same iteration closed the websocket; whatever happened, the call must clean up and
  answer once: `ActiveAreRegistered`, `NoSubscriptionLeft`, `AnsweredOnce`, `ClosedWhenDone`, `NothingAfterClose`.
- *A browser that vanishes says nothing*: `EveryCallEnds`; *a handler that waits for a browser serves
  nobody*: `KeepsBeating`, which the code violates, and `BeatsUnlessWaiting`, what remains of it.
- *The client's timers outlive the connection they were set for*: `WillRetry`, `Watched`, `Reconnects`,
  `FrozenIsNoticed`, `StaysClosed`.
- *A message comes in fragments, with pings between them, from a client that need not keep to the protocol, over a
  socket that may deliver less than was asked for*: `MessagesIntact`, `PongsInOrder`, `UnlawfulRefused`,
  `LawfulClientServed`, `EndsWithClient`.
- *A length is encoded in three ways, the mask follows it, and codes the client sends are sent back*:
  `ClientReadsHeaders`, `ClosesOnce`.
- *Texts are validated twice, by fragment and as a whole, by one of two implementations*: `UnlawfulRefused`,
  `WsaccelRefusalHasReason`.
- *What a channel is called depends on a session that changes, ends, or is missing; groups are a copy made at login, which the
  next login may replace under the same key; a placeholder stands for whoever is asking*: `NobodyElse`, `EveryoneMeant`, `FetchedIsMeant`.
- *`fetch_message` reads one key after the other while others write and expire*: `FetchFindsLasting`.

`PROJECT.json` lists each of these hazards at its line, with those no property covers and why.

## 2. The modules

`MessageRelay`, `WebsocketServer`, `Ws4RedisClient`, `WebSocketFrames` and `Channels` each stand for themselves, with the others
reduced to what their interface is: a handler of `MessageRelay` starts and ends as `WebsocketServer` says, `WebsocketServer`
receives frames of a few kinds which `WebSocketFrames` looks into, and the channels that are constants of
`MessageRelay` are computed in `Channels`, where a publication takes one step. `WebSocketFrames` extends
`HeaderCodec` and `Utf8Validator`, which are pure functions, and implements `MessageStream`.

### MessageRelay

The data path. One action per Redis command, because that is the granularity at which Redis interleaves its
clients.

| Variable | In the code |
|---|---|
| `store` | the keys `SETEX` sets; `NoMessage` for an absent one |
| `subscribed`, `requested` | subscriptions of a handler's connection; `SUBSCRIBE`s sent and not executed (their replies are not awaited, `subscriber.py:49`) |
| `inbox`, `parsed` | replies under way to `parse_response`, and how many of them redis-py has in its buffer |
| `executing` | the view whose `MULTI/EXEC` block Redis is in the middle of |
| `open`, `todo`, `recvmsg` | a handler's progress through `send_persisted_messages`, and its local variable |
| `job` | the `for` loop of `publish_message`: channels to visit, the one published but not persisted, and whether `expire` is positive |
| `shown`, `own` | history: what the browser holds, and the messages it has sent |
| `latest`, `kept`, `split` | history: what was last published, what was last published to be persisted, and the channels where something was persisted by a `SETEX` apart from its `PUBLISH` |
| `heard`, `missed` | history: the channels published on since the handler subscribed, and those published on after its `GET` and before its `SUBSCRIBE` |

| Action | In the code |
|---|---|
| `StartPublishing`, `PublishCommand`, `SetexCommand` | `publish_message` (`redis_store.py:100-114`), and a pipeline without a transaction, which puts the same commands to Redis; a view chooses `expire` for each message, a handler has the default |
| `TransactionCommand` | `pipeline_publish_message` with `transaction=True`: the block excludes all other commands |
| `PublicationFails` | a command of a view's publication raises: what was published, or published and not persisted, stays so; of a transaction Redis does all or nothing |
| `SetPubsubChannels`, `ExecuteSubscribe` | `set_pubsub_channels`; Redis runs the `SUBSCRIBE`s later |
| `SendPersistedMessage` | one round of `send_persisted_messages`: a `GET`, on another connection than the `SUBSCRIBE`s, which may run before or after it |
| `Receive`, `ReceiveHeartbeat` | the `receive` branch of the loop; a heartbeat becomes `None` and resets `recvmsg` |
| `Relay` | the `parse_response` branch, with the echo test of line 136; `ReadReply` is redis-py, which hands out what it has left over, and otherwise reads from the socket whatever has come; `RedisReady` is what `select` sees of it |
| `Release` | `subscriber.release`, at any point after the subscription, also when a command of the handler's own publication raised; the handler may then serve a new browser |
| `Expire` | the time to live of a key |

A browser that publishes is taken to hold what it publishes: that is what the echo suppression assumes. It may assume it wrongly: a view
publishes m1, the browser sends m2, m1 is relayed over it, and m2 is withheld as the browser's own, so that the browser keeps m1
(`docs/usage.rst:262-265`). `HoldsLatest` exempts a latest message that the browser has sent itself without asking for echoes.

### WebsocketServer

The control path of `__call__`: one call per request, in a thread (runserver) or a greenlet (uWSGI), which
interleave at every action. `at` says where a call is: `call`, `pubsub`, `persisted`, the loop (`loop`,
`ready`, `receive`, `publish`, `end`), `release`, `finish`, `done`.

| Action | In the code |
|---|---|
| `Handshake` | lines 91-114: every check before the upgrade may raise; then the status line and the registry |
| `SetPubsubChannels`, `SendPersistedMessages` | lines 115-122, with a session that is missing, a Redis that is down, a send that fails |
| `Select` | the loop condition and `select`; if both descriptors are ready, runserver's `select` returns the browser's first, and gevent's in any order (`AtReply`) |
| `Flush` | line 128; uWSGI's `flush` receives (`uwsgi_runserver.py:33-37`), runserver's does nothing |
| `ReceiveText`, `ReceivePart`, `ReceivePing`, `ReceiveEnd`, `PublishMessage` | lines 130-133 with `WebSocket.receive` or `uWSGIWebsocket.receive`; after a ping, a pong or a fragment `read_message` goes on and blocks for the next frame (`Waiting`) |
| `RelayReply`, `Reconnect` | lines 134-137; `Reconnect` is redis-py replacing a connection Redis dropped, possibly at another descriptor |
| `EndIteration` | lines 140-146: heartbeat, then removal from `_websockets` |
| `Release`, `Finish` | the `finally` clause; if `release` raises, nothing after it runs |
| `BrowserSends`, `BrowserLeaves`, `ConnectionTimesOut`, `RedisReplies`, `RedisGoesDown`, `RedisComesUp` | the environment |

A browser (`peer`) is `here`; it has `left` in order, is `gone` with a reset, or is `silent`: it vanished, and the
server learns of it only by sending something that TCP cannot deliver (`unacked`). `status`
distinguishes only whether an `except` clause was reached; which one only changes the status code.
`wire` and `discarded` are history variables.

### Ws4RedisClient

One action per callback of the JavaScript event loop. `heartbeat_interval` has three values because the code
distinguishes a cleared interval from `null`; `timer` has three because a timer that has fired is not `null` until
`connect` resets it. Of time the model keeps two facts: a live connection brings a heartbeat between two ticks of
the five-second interval (`due`), and `TicksWithin` of them fit into the retry delay (`ticks`). `Freeze` is a
connection that dies without notice. `MayThrow` lets the page's callback or the `WebSocket` constructor throw inside
the `try` of `connect`.

### WebSocketFrames, with HeaderCodec and Utf8Validator

One websocket of the development server and the frames its client sends. A frame is what the client means (`fin`, `opcode`,
reserved bits, mask, length, payload, and `short`, the seven bits that say how the length is told); what crosses the wire are the octets of its
header, whose length need not be told in the fewest, and the masked payload.
Payloads are sequences of octets, because lengths, masks and UTF-8 are what can go wrong.

| Variable | In the code |
|---|---|
| `sent`, `taken` | the frames the client has sent, and how many of them were read; each carries the client's `draft`, the message it has begun and those it has completed |
| `link`, `torn` | the connection, and whether a `recv` has returned less than it was asked for |
| `at` | outside `receive` (`idle`), in `read_frame` (`header`, `payload`), back in `read_message` (`frame`), closed (`done`) |
| `header`, `payload` | the locals of `read_frame`; an empty payload is `''`, not octets |
| `opcode`, `message`, `state` | the locals of `read_message` and the state of `utf8validator` |
| `received`, `closed`, `wire` | what `receive` returned, `_closed`, and the frames `send_frame` wrote |

| Action | In the code |
|---|---|
| `ReadHeader` | `read_frame` up to line 132, with `decode_header`: end of the stream, a failure, less than was asked for, a header that is refused |
| `PayloadFails`, `ReadPayload` | lines 133-146: an allocation that fails and whose handler fails as well (line 140), a short `recv`, `unmask_payload` |
| `TakeFragment` | the text, binary and continuation branches of `read_message`; `FragmentOutcome` is the order of its tests: protocol, type of the payload, validator, decoding, and for the last fragment the validator again |
| `TakePing`, `TakePong`, `TakeClose`, `TakeUnknown` | `handle_ping`, `handle_pong`, `handle_close` (the reason is looked at before the code), and any other opcode |
| `SendMessage` | `send` between two calls of `receive` |
| `ClientSends`, `ConnectionEnds` | the client and the network |

Every way out of `read_message` by an exception is `WebSocketError` (1002), `UnicodeError` (1007), which `receive` catches, or `OtherError`
(1001), which the server does. `Validators` chooses between the module's own validator and wsaccel's.

What the protocol asks of a text it asks of the whole, not of its fragments: `IsIllFormedText` is a text that is not UTF-8, or that no
continuation makes UTF-8. The code asks it of each fragment (`websocket.py:191-194`), and refuses a client that splits a character over two;
that is one of the five things in `IsUnserved`, the others being empty payloads, payloads too large for `recv`, characters beyond ASCII with the
module's own validator, and a close reason that stops inside a character.

`HeaderCodec` has `EncodeHeader`, `DecodeHeader`, `IsRefused` and `MaskPayload`; shifts and masks of bits are quotients and
remainders, so that they can be proved about. `Utf8Validator` has the table, `Step`, the loop `Run`, and Python's own decoding
(`Width`, `Starts`, `IsWellFormed`, `Decoded`), written down from the standard's table of well-formed sequences and not from the automaton.
`Selected(P, f, n)` lists the values of `f` at those of the positions 1 to `n` that are in `P`; decoding selects at the positions where characters
start, and `Pings` and `Pongs` at those of the frames in question.

`MessageStream` is the abstract specification: the client completes messages, each is delivered once, in order and whole, until the
websocket stops. `WebSocketFrames` implements it with `completed <- Draft.completed`, `delivered <- received`, `stopped <- closed`
(`ImplementsStream`); a frame that completes a message is a step `Complete`, the last fragment taken is a step `Deliver`, any way to
close is `Stop`, everything else stutters. The fairness of `MessageStream` says that a completed message is delivered unless the websocket stops.

### Channels

Who hears whom. Browsers hold cookies, sessions hold a user and the groups stored at login, requests open websockets or call
`fetch_message`, views publish for audiences.

| Variable | In the code |
|---|---|
| `memberOf` | `user.groups` in the database |
| `sessions`, `used`, `cookie` | Django's session store, the keys given out so far, and the key each browser sends |
| `conns` | for each request the status of a refusal, or what was agreed and named: user, key, `_publishers` (`speaks`), `_subscription.channels` (`listens`); and, history, the user's groups at the login in force |
| `store` | the persisted messages |
| `fetches` | the loop of `fetch_message` |
| `messages`, `seen`, `atLogin` | history: whom each message was meant for, what each websocket was sent, the groups at the last login with each key |

| Action | In the code |
|---|---|
| `ChangeGroups`, `Login`, `BeginSession`, `EndSession` | Django, with `store_groups_in_session` as part of the login. Who is logged in and logs in again keeps the key, and what is stored under it is replaced while websockets stay open; anyone else, or after a change of password, gets a new key. A user that has no groups at all (`Grouped`; `hasattr`, `models.py:13`) has nothing stored |
| `Connect` | lines 91-122 of `__call__`: `Answer` is the status of each refusal in the order of the checks, `Opened` the channels `set_pubsub_channels` names; without a session `subscribe-session` raises after the upgrade (`Loses`) |
| `ViewPublishes`, `BrowserPublishes` | `RedisPublisher` with or without the request, and a handler's own publications; `NameErrorRaised` is `basestring` on Python 3 |
| `FetchMessage`, `Get` | `fetch_message`: the list of channels, then one `GET` after the other |
| `Expire`, `End` | a key's time to live; the end of a websocket or of the view |

`KeyOf` is what Django does when a session is read and not found: the key is set to `None`. Whether it was read before depends on the
other audiences and on the callback, which is why `Connect` chooses `loaded`. A `SELF` that nothing is put in place of is `Placeholder(p)`: the
address of the object is part of the name. It is made at import (`redis_store.py:12`), so that workers forked afterwards share it: `Address` says
which do.

The modules `MC...` give the constants values for TLC. Definitions
whose comment begins "Mutant of" are plausible wrong versions of the definition after them; no specification
uses them, and each property is confirmed to fail when one of them takes the place of the right version.

## 3. The runs

Passing runs:

| Run | Instance | Distinct states | Shows |
|---|---|---|---|
| `relay_transaction` | 2 views publishing transactions on one or two channels, persisted or not, any of which may fail, 2 websockets that listen, one with echo, 2 channels, 2 messages, 2 publications, `SUBSCRIBE`s that lag | 2,592,000 | `CaughtUp`, `FollowsChannel`, `NothingAbandoned`: a browser has the last message that was to be persisted until it is sent something newer, and a released handler leaves nothing at Redis |
| `relay_publish` | 1 view (`publish_message` or transaction) that may fail, 2 websockets that publish too, one with echo and one without, 1 channel, 2 messages, 2 publications, `SUBSCRIBE`s that lag | 262,900 | `FollowsChannel` for every way to publish, and `CurrentOrBuffered`: only redis-py's buffer keeps a message from a browser for good |
| `server_safety` | one call under runserver and one under uWSGI, texts, pings, closes, one outage of Redis | 3,440,000 | the five cleanup properties, whatever fails and wherever |
| `server_live` | one call under runserver with heartbeats, up to two frames of any kind | 18,000 | `EveryCallEnds`, `BeatsUnlessWaiting` |
| `client_reconnects` | the whole client, whose attempts do not throw | 394 | `WillRetry`, `Watched`, `FrozenIsNoticed`, `Reconnects` |
| `frames` | any 3 frames out of 21, lawful and not, 2 of them under way at a time, both validators, one message sent | 180,100 | the messages come out whole and in order, pings are answered, nothing unlawful gets through, only the unlawful and the five things not served are cut off, wsaccel's validator refuses texts only for a reason that is known, the abstract stream is implemented, and a client that leaves is noticed |
| `channels` | 2 browsers, 2 users of which one has groups, 2 session keys, 1 group, 2 processes that share the address of `SELF`, 1 request, 1 message | 839,800 | a websocket is sent what is meant for the login it was opened under, and others' messages in two cases only; `fetch_message` finds what is there for who asks |

Runs that confirm a disagreement of the code with its documentation (each checks the one property that fails):

| Run | Property | What happens |
|---|---|---|
| `relay_late_setex` | `PersistedRetrieved` | `publish_message` publishes, a browser connects, subscribes and finds no key, `SETEX` follows: the browser never gets the message, while `docs/usage.rst:276-278` promises it on connecting |
| `relay_read_ahead` | `EventuallyCurrent` | redis-py reads the confirmation of a `SUBSCRIBE` and a message at once; `select` (`wsgi_server.py:125`) sees an empty socket, and the message stays in the buffer until Redis sends something else, while `docs/usage.rst:140-141` says it "is received by all clients listening" |
| `server_ping` | `KeepsBeating` | after a ping `read_message` waits for the next frame, and the call sends no more heartbeats, which `docs/heartbeats.rst:74-76` promises "about every four seconds" |
| `server_flush` | `NothingDiscarded` | under uWSGI a text that arrives between the timeout and `flush` is thrown away |
| `client_reopens` | `StaysClosed` | `close` leaves the retry timer pending, which connects again (`docs/changelog.rst:39-40`) |

More can be seen by changing a constant of a run or a definition:

- `server_live` with `Heartbeat = FALSE` violates `EveryCallEnds`: a browser that vanished is never noticed.
- `client_reconnects` with `MayThrow = TRUE` violates `WillRetry`: when the first attempt throws, `ws` is undefined, the
  timer's function fails on `ws.url` and `timer` stays set.
- `relay_publish` with `HoldsLatest` without its second disjunct violates `FollowsChannel`, as described in section 2.
- `relay_transaction` with `Retained` without `missed` violates `CaughtUp`: `GET` overtakes `SUBSCRIBE`, a message is published
  between the two, and the browser has it neither way (`subscriber.py:49-57`).
- `frames` with `RefusalHasReason` for both validators violates it: the module's own validator decodes first and then runs the automaton, made
  for octets, on the numbers of characters (`utf8validator.py:123-129`), so that the text "é" is refused with 1007, although its docstring
  speaks of octets that render "the octet sequence invalid" (`utf8validator.py:113-119`).

And one fact of the client is in the model without a property: the heartbeat interval goes on counting while there is no
connection, so that the next connection may be closed at its first tick although it is alive (`docs/heartbeats.rst:76-78`).

Three more disagreements that a reader of the documentation should know of are in the models without a property of their own:

- An exception in the loop skips the removal of lines 145-146, and the set that `wsgi_server.py:50` calls "a list of currently active
  websockets" keeps a closed one for the life of the process. `ActiveAreRegistered` says the converse and what concerns calls without an exception.
- `docs/usage.rst:145-147`, `159-160` and `204-207` say that messages for a user, for `SELF` and for a session go to that user's and that session's
  clients. Anonymous users share the placeholder's channel, and sessions that are gone share the channel of `None`: the two exceptions
  of `NobodyElse`, which are all there are.
- A websocket keeps the groups of the login in force when it was opened, even if its user logs in again under the same key, or leaves the group:
  `NobodyElse` and `EveryoneMeant` are about that login, not about the present one.

### Bounds

- *Two websockets, two channels, two messages, two publications.* The properties of the relay relate one handler and
  one channel with at most two publications on it, an older and a newer one; the second handler and channel are
  there for what they share (Redis, a publication on several channels). The proofs of section 4 hold without these bounds.
- *One call per server, `MaxFrames`, `MaxReplies`, `MaxOutages` of 1 or 2.* Calls share only `_websockets`, from
  which each removes itself; one frame of each kind, one reply and one outage at any moment reach every
  branch. `server_live` allows two frames so that a text, a fragment or a ping can be followed by a close. Safety is proved for all values.
- *The client* is finite as it stands; `attempts` stops at the fifth, from where on the delay is constant.
- *Three frames.* Begun, interrupted and continued is the longest thing `read_message` can be in the middle of; a fourth frame finds
  it in a state that one of the first three found it in. The 21 frames have every opcode class, both values of `fin`, reserved bits,
  lengths 0, 1 and 126, one beyond `MaxRecv`, lengths told in more octets than they need (65535 and 65536, and the header's three forms in general,
  are proved about), half a character and its other half, and
  close frames that are empty, too short, reserved, and well-formed. The safety properties are proved for all frames, of any number.
- *Two browsers, users, keys and processes; one group, request and message.* Somebody else's message needs two browsers and sessions, a
  stale one needs a session to end and another to begin. A request is a websocket or a search, and is used again when it ends; one
  message tells a recipient from everybody else. The processes share the address of `SELF`, as forked workers do, so that all anonymous users share
  their placeholder: the worst case. That a message is persisted between two `GET`s of a search needs a second message, and is left to `FetchIsComplete`.
  The proofs are about any processes and addresses.
- Symmetry is used in `relay_transaction` and `channels`, which check no liveness. Deadlock checking is off for
  the server, the frames and the channels: calls end, websockets close, and bounded histories fill up; a behaviour in which all have
  ended is complete.

### Fairness

- *Relay*: Redis, views and handlers go on with what they have started (weak fairness of each command, `Relay` included).
  Nobody is obliged to publish, connect, send or leave, and no key has to expire.
- *Server*: each call's thread or greenlet is scheduled (weak fairness of `Call(r)`), and TCP gives up on data it cannot
  deliver. Browsers and Redis owe nothing; Redis need not come back.
- *Client*: the browser fires timers (`Retry`, `SendHeartbeat`) and completes a close the server does not answer. The
  server is not obliged to accept a connection.
- *Frames*: weak fairness of `Read`, as one action: `select` wakes the loop when there is something to read, and a `recv` that blocks returns
  when there is. The client is not obliged to send anything, not even the rest of a message.

## 4. The proofs

All are proved for every value of the constants that satisfies the module's named assumption.

`MessageRelayProofs`

- `TypeCorrect`, `NothingIsAbandoned`: no further assumption. The invariant (`JobInv`, `ConnectionInv`) says that a
  handler that is not open has nothing at Redis, and that a busy agent has a message.
- `ChannelIsFollowed` (`FollowsChannel`): no further assumption. "The browser holds the latest message when nothing is pending"
  is not inductive: `FollowInv` adds that the last message pending on the channel *is* the latest
  (`EndsWith`), and that while persisted messages remain to be sent, or the handler's own `SETEX` is to come, one is
  pending. That is why an old persisted message cannot stay: what overwrites it is already in the socket. `OwnInv` says that what the loop
  compares replies with (`recvmsg`), and what the handler is publishing, are messages its browser has sent, so that what it withholds is exempt.
- `BrowserIsCaughtUp` (`CaughtUp`): no further assumption. `StoreInv` adds that on a channel without a separate `SETEX` (not in `split`) Redis
  retains the last message that was to be persisted or none, `PersistedInv` that a handler which has heard and missed nothing there has read it or
  will. The two exemptions are in the property and are what the code does not prevent: `split` is `relay_late_setex`, and `missed` is
  described in section 3.

`WebsocketServerProofs`, with no assumption but the named one: `ServerTypeCorrect`, `ActiveWebsocketsAreRegistered`,
`CloseFrameIsLast`, `SubscriptionsAreReleased`, `CallsAreAnsweredOnce`, `WebsocketsAreClosed`.

- Types need `RedisWaits`: if `select` has reported a live subscription, a reply is still there, because only the call
  itself reads it. Otherwise `RelayReply` could take the count below zero.
- The rest is one invariant per request. `RegistryFor`: registered from the upgrade to the end of the iteration that closes it,
  and not closed before the loop. `WireFor`: a close frame was sent only if `closed`. `SubFor`: all ways out of a call
  pass `Release` after subscribing. `AnswerFor` couples the number of status lines with having a websocket.
  A step of one call leaves the invariant of every other alone (`OtherCalls`, `OtherWires`), which is where the
  shared registry could have gone wrong.

`Ws4RedisClientProofs`: `ClientTypeCorrect` (never more than four missed heartbeats), `OpenIsWatched`, and `RetryIsPending`,
which assumes `~MayThrow`: with exceptions it is false, as described in section 3. `RetryInv` needs that
the timer variable is null whenever there is a connection, because that alone makes the end of the
connection set it.

`HeaderCodecProofs`: `DecodeReadsHeader`, for every opcode, flag, mask and length below 2^64, in each of the three forms that can tell the
length, whether it is the shortest or not; `DecodeUndoesEncode`, the case of `encode_header`; and `UnmaskUndoesMask`, from a lemma that `Xor` with the same octet twice is nothing, bit by bit.

`WebSocketFramesProofs`, for any set of frames, lawful or not, any validators and any bounds: `MessagesIntactHolds`, `UnlawfulRefusedHolds`,
`ClientReadsHeadersHolds`, `ClosesOnceHolds`, and `ImplementsStreamSafely`, the refinement but for its fairness. The properties speak of the whole history of
frames, the code only of the message it is in the middle of; `FramesInv` connects them:

- `SentInv`: the drafts follow from the frames, and the completed messages only grow.
- `ReadInv`: the frame in hand is the next one sent, by `DecodeReadsHeader` and `UnmaskUndoesMask`.
- `StreamInv`: `opcode`, `message` and `received` are the client's draft at `taken`; from this the intact messages and the refinement follow.
- `WireInv`: what is on the wire was encoded from headers in range, pongs are at most 125 octets long because the pings were, and a close is last.
- `LawInv`: no frame before the last one taken was unlawful, and if that was, the websocket is closed.

`TypeOKHolds`, `PongsInOrderHolds`, `LawfulClientServedHolds` and `WsaccelRefusalHasReasonHolds`, for the same constants, need in addition to know what the
validator does with the texts in question, which is `ValidatorInv` (`ValidatorInvHolds`): between two fragments of a text, the text so far is well-formed;
the automaton is in its accepting state if the text is one that the validator in use can take (`Served`: UTF-8 for wsaccel's, ASCII for the module's own);
and it is one if no frame so far is among those that `IsUnserved` lists. The second clause is the one that matters: it is why a new fragment, and at the
end the whole text, are validated as a fresh validator would. The proofs then go by three kinds of step instead of by action
(`StepKinds`): a step closes (`Closing`), for a reason it can name (`Fault`: the connection, a torn frame, or a frame of the client's, at most the one in hand);
or takes a frame and goes on (`Taking`); or does neither (`Waiting`).

- `TypeOKHolds`: the validator's state is never the rejecting one between two chunks, nor beyond the table.
- `PongsInOrderHolds`: a ping taken extends the pings and, in the same step, the pongs; the step that closes may extend the pings alone. What
  `Selected` lists is extended by at most one (`SelectedNext`).
- `LawfulClientServedHolds`: `FragmentFault` shows that a text fragment which is neither unlawful nor unserved is not refused, neither on its own nor in the whole;
  `FragmentLaw`, that the fragment which the code refuses makes the whole text ill-formed, or stops inside a character.
- `WsaccelRefusalHasReasonHolds`: with the validator the code prefers, 1007 is never sent without a reason on the list, of which only the split character is
  no fault of the client's. With the module's own validator the property fails, as section 3 says.

`Utf8ValidatorProofs`, without assumptions, for octets of any number:

- `AcceptsUtf8`: the automaton of the table ends in its accepting state exactly on what Python decodes. One direction goes from character to character
  (`StartsAccepted`: wherever one starts, the automaton is between two), the other from octet to octet: `Inside` says of each of its states which
  octets of an unfinished character lie behind it, and `InsideStep` that this survives every octet. What the table says of an octet is `StepFromAccept` and `StepInside`.
- `RejectsAtOnce`: the octets are rejected if and only if no continuation is well-formed, which is the docstring of `validate` ("As soon as an octet is encountered
  which renders the octet sequence invalid") and its converse: from every other state some octets lead back to the accepting one.
- `RunInParts` (the state is all that passes from one chunk to the next), `WellFormedJoined`, `AsciiIsItself`.
- `SelectedNext`, `SelectedSame`, `SelectedType`, `SelectedAll`: what `Selected` computes.

`RecursionLemmas` makes these inductions possible: `NatSetInduction` and `IntervalInduction` are induction for a *set* of numbers, which can be cited with
a set put in its place, where the library's `NatInduction` takes an operator; `RecursiveFunction` shows that the function which a
definition by recursion on 0 to `n` speaks of exists, so that the definitions `Run`, `Starts` and `Selected` mean what they say.

`ChannelsProofs`, for any users, groups, keys, processes, requests and audiences: `Types`, `Privacy` (`NobodyElse`), `Completeness`
(`EveryoneMeant`), `FetchIsPrivate`, `FetchIsComplete`. It needs of the constants that no user, group or key has the name of a placeholder,
which is the address of an object in memory. The properties compare a message with who is sent it, the code only names of channels; the proof goes from one to
the other:

- `Addressed` says which channels a message with a given meaning is published on, `Entitled` and `Lookup` which ones a websocket or a search may use.
  `ViewAddresses` and `SpeakerAddresses` show the former of what `_get_message_channels` computes, `AgreedRights` the second; `Meets` and
  `LookupFinds`, that a channel which is both makes the message one that concerns the receiver.
- `ConnectionInv`: a websocket keeps the channels it was entitled to. It is inductive because the key of a session that is gone does not come back and the
  groups it is compared with are fixed when it is opened, whatever happens to the database and to the session afterwards. `LoginStores` and `SessionStepKeeps` say that what a
  session holds are the groups of the last login with its key.
- `StoreInv`: what is persisted on a channel is addressed to it, so that it is in order to send it to who comes later.
- `LastingInv`: what lasts is still ahead of a search that goes on. A search that took a channel off its list found nothing there, so nothing that lasts was there.

Only model-checked:

- all liveness properties (`CurrentOrBuffered`, `EveryCallEnds`, `BeatsUnlessWaiting`, `FrozenIsNoticed`, `Reconnects`, `EndsWithClient`, the fairness in
  `ImplementsStream`), because proofs about fairness and `ENABLED` are out of the prover's reach.

Every invariant that a passing run checks is also the subject of a theorem.

## 5. What is not modelled, and why

- *Dispatch by URL, the patched `run` command, `WSGIRequestHandler`* (`django_runserver.py:25-58`, `111-134`): start-up code and calls into Django
  without state of their own.
- *Settings, context processor, logging, the text of headers and reasons*: constants and wording. The settings that change behaviour are
  constants of the modules (`Heartbeat`, `Default`, the callback's choice in `Connect`).
- *Status codes in `WebsocketServer`*: the `except` clauses differ only in them; the refusals before the upgrade are told apart in `Channels`.
- *A restart of Redis in `MessageRelay`*: connections that drop and are made anew are in `WebsocketServer`, where the question is whether
  the call survives; which messages are lost meanwhile is not promised anywhere.
- *Prefixes and facilities* (`redis_store.py:137-149`): one facility and no prefix. Names are joined with colons, so that a facility or group
  with a colon in it can collide with another; the code does nothing about it that could be modelled.
- *uWSGI's own framing, Redis, redis-py, gevent, Django*: external, modelled as far as the code depends on them.
- *`decode` of the validator, `_decode_bytes`, `__del__`, `__repr__`, `get_file_descriptor`* have no caller or no effect on the state.
- *The chat example, stress tests, packaging*: clients of the library, whose views are the publishers of `MessageRelay` and `Channels`.
