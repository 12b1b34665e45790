------------------------- MODULE MessageRelayProofs -------------------------
(* Theorems about MessageRelay, for every value of its constants.          *)
EXTENDS MessageRelay, TLAPS

USE RelayAssumption DEF RelayAssumption

-----------------------------------------------------------------------------
(* What Append and Tail do to a sequence of replies.                       *)

\* A reply appended is the last.
LEMMA AppendReply ==
  ASSUME NEW s \in Seq(Reply), NEW r \in Reply
  PROVE  /\ Append(s, r) \in Seq(Reply)
         /\ Len(Append(s, r)) = Len(s) + 1
         /\ Append(s, r)[Len(s) + 1] = r
         /\ \A i \in 1..Len(s) : Append(s, r)[i] = s[i]
OBVIOUS

\* The tail of the replies is the replies but the first.
LEMMA TailReply ==
  ASSUME NEW s \in Seq(Reply), 0 < Len(s)
  PROVE  /\ Tail(s) \in Seq(Reply)
         /\ Len(Tail(s)) = Len(s) - 1
         /\ Head(s) = s[1]
         /\ s[1] \in Reply
         /\ \A i \in 1..(Len(s) - 1) : Tail(s)[i] = s[i + 1]
OBVIOUS

\* websocket.send keeps the type of the browser's copy.
LEMMA SendType ==
  ASSUME TypeOK, NEW w \in Websocket, NEW c \in Channel, NEW m \in MessageOrNone,
         Send(w, c, m)
  PROVE  shown' \in [Websocket -> [Channel -> MessageOrNone]]
<1>1. [shown[w] EXCEPT ![c] = m] \in [Channel -> MessageOrNone]
  BY DEF TypeOK
<1>2. shown' = [shown EXCEPT ![w] = [shown[w] EXCEPT ![c] = m]]
  BY DEF Send
<1> QED
  BY <1>1, <1>2 DEF TypeOK

\* PUBLISH keeps the types of what it changes.
LEMMA PublishType ==
  ASSUME TypeOK, NEW c \in Channel, NEW m \in MessageOrNone, NEW keep \in BOOLEAN,
         Publish(c, m, keep), UNCHANGED parsed
  PROVE  /\ inbox' \in [Websocket -> Seq(Reply)]
         /\ \A w \in Websocket : parsed'[w] <= Len(inbox'[w])
         /\ latest' \in [Channel -> MessageOrNone]
         /\ kept' \in [Channel -> MessageOrNone]
         /\ heard' \in [Websocket -> SUBSET Channel]
         /\ missed' \in [Websocket -> SUBSET Channel]
<1> DEFINE r == [channel |-> c, msg |-> m]
<1>1. r \in Reply
  BY DEF Reply
<1>2. \A w \in Websocket :
        /\ inbox'[w] \in Seq(Reply)
        /\ inbox'[w] = inbox[w] \/ Len(inbox'[w]) = Len(inbox[w]) + 1
  BY <1>1, AppendReply DEF Publish, TypeOK
<1>3. inbox' \in [Websocket -> Seq(Reply)]
  BY <1>2 DEF Publish
<1>4. \A w \in Websocket : parsed'[w] <= Len(inbox'[w])
  <2> TAKE w \in Websocket
  <2>1. parsed'[w] = parsed[w] /\ parsed[w] \in Nat /\ parsed[w] <= Len(inbox[w])
    BY DEF TypeOK
  <2>2. Len(inbox[w]) \in Nat /\ Len(inbox'[w]) \in Nat
    BY <1>2 DEF TypeOK
  <2> QED
    BY <1>2, <2>1, <2>2
<1> QED
  BY <1>3, <1>4 DEF Publish, TypeOK

-----------------------------------------------------------------------------
(* Every message, channel and counter keeps its type, and redis-py never   *)
(* claims to have read more replies than Redis has sent.                   *)
THEOREM TypeCorrect == Spec => []TypeOK
<1>1. Init => TypeOK
  BY DEF Init, TypeOK, Idle, Job, Agent, MessageOrNone
<1>2. TypeOK /\ [Next]_vars => TypeOK'
  <2> SUFFICES ASSUME TypeOK, [Next]_vars PROVE TypeOK'
    OBVIOUS
  <2> USE DEF TypeOK
  <2>1. ASSUME NEW w \in Websocket, ExecuteSubscribe(w) PROVE TypeOK'
    <3>1. PICK c \in requested[w] : ExecuteSubscribe(w)!(c)
      BY <2>1 DEF ExecuteSubscribe
    <3> DEFINE r == [channel |-> c, msg |-> NoMessage]
    <3>2. r \in Reply
      BY DEF Reply, MessageOrNone
    <3>3. /\ inbox' \in [Websocket -> Seq(Reply)]
          /\ \A v \in Websocket : parsed'[v] <= Len(inbox'[v])
      BY <3>1, <3>2, AppendReply
    <3> QED
      BY <3>1, <3>3 DEF handlerVars, historyVars
  <2>2. ASSUME NEW c \in Channel, Expire(c) PROVE TypeOK'
    BY <2>2 DEF Expire, MessageOrNone, queueVars, handlerVars, historyVars
  <2>3. ASSUME NEW p \in Publisher, StartPublishing(p) PROVE TypeOK'
    BY <2>3 DEF StartPublishing, NewJob, Idle, Job, Agent, MessageOrNone,
                redisVars, queueVars, handlerVars, historyVars
  <2>4. ASSUME NEW p \in Publisher, TransactionCommand(p) PROVE TypeOK'
    <3>1. PICK c \in job[p].left : TransactionCommand(p)!(c)
      BY <2>4 DEF TransactionCommand
    <3>2. c \in Channel /\ job[p] \in Job /\ job[p].msg \in MessageOrNone /\ job[p].keep \in BOOLEAN
      BY DEF Agent, Job
    <3>3. job' \in [Agent -> Job]
      BY <3>1, <3>2 DEF Visited, NewJob, Idle, Job, MessageOrNone
    <3>4. store' \in [Channel -> MessageOrNone]
      BY <3>1, <3>2
    <3> QED
      BY <3>1, <3>2, <3>3, <3>4, PublishType DEF handlerVars
  <2>5. ASSUME NEW a \in Agent, PublishCommand(a) PROVE TypeOK'
    <3>1. PICK c \in job[a].left : PublishCommand(a)!(c)
      BY <2>5 DEF PublishCommand
    <3>2. c \in Channel /\ job[a] \in Job /\ job[a].msg \in MessageOrNone /\ job[a].keep \in BOOLEAN
      BY DEF Job
    <3>3. /\ [job[a] EXCEPT !.half = {c}] \in Job
          /\ Visited(job[a], c) \in Job
      BY <3>2 DEF Visited, NewJob, Idle, Job, MessageOrNone
    <3>4. job' \in [Agent -> Job]
      BY <3>1, <3>3
    <3> QED
      BY <3>1, <3>2, <3>4, PublishType DEF redisVars, handlerVars
  <2>6. ASSUME NEW a \in Agent, SetexCommand(a) PROVE TypeOK'
    BY <2>6 DEF SetexCommand, Visited, NewJob, Idle, Job, MessageOrNone,
                queueVars, handlerVars, historyVars
  <2>7. ASSUME NEW w \in Websocket, SetPubsubChannels(w) PROVE TypeOK'
    BY <2>7 DEF SetPubsubChannels, MessageOrNone, redisVars
  <2>8. ASSUME NEW w \in Websocket, SendPersistedMessage(w) PROVE TypeOK'
    <3>1. PICK c \in todo[w] : SendPersistedMessage(w)!(c)
      BY <2>8 DEF SendPersistedMessage
    <3>2. shown' \in [Websocket -> [Channel -> MessageOrNone]]
      BY <3>1, SendType
    <3> QED
      BY <3>1, <3>2 DEF redisVars, queueVars
  <2>9. ASSUME NEW w \in Websocket, NEW m \in Message, Receive(w, m) PROVE TypeOK'
    BY <2>9 DEF Receive, NewJob, Idle, Job, Agent, MessageOrNone, redisVars, queueVars
  <2>10. ASSUME NEW w \in Websocket, ReceiveHeartbeat(w) PROVE TypeOK'
    BY <2>10 DEF ReceiveHeartbeat, MessageOrNone, redisVars, queueVars, historyVars
  <2>11. ASSUME NEW w \in Websocket, Relay(w) PROVE TypeOK'
    <3>1. 0 < Len(inbox[w]) /\ inbox[w] \in Seq(Reply)
      BY <2>11 DEF Relay, RedisReady
    <3>2. /\ Tail(inbox[w]) \in Seq(Reply)
          /\ Len(Tail(inbox[w])) = Len(inbox[w]) - 1
          /\ Head(inbox[w]).channel \in Channel
          /\ Head(inbox[w]).msg \in MessageOrNone
      BY <3>1, TailReply DEF Reply
    <3>3. PICK n \in 1..Len(inbox[w]) :
            parsed' = [parsed EXCEPT ![w] = (IF parsed[w] = 0 THEN n ELSE parsed[w]) - 1]
      BY <2>11 DEF Relay, ReadReply
    <3>4. /\ inbox' \in [Websocket -> Seq(Reply)]
          /\ parsed' \in [Websocket -> Nat]
          /\ \A v \in Websocket : parsed'[v] <= Len(inbox'[v])
      BY <2>11, <3>1, <3>2, <3>3 DEF Relay, ReadReply
    <3>5. shown' \in [Websocket -> [Channel -> MessageOrNone]]
      BY <2>11, <3>2, SendType DEF Relay
    <3> QED
      BY <2>11, <3>4, <3>5 DEF Relay, redisVars, handlerVars
  <2>12. ASSUME NEW w \in Websocket, Release(w) PROVE TypeOK'
    BY <2>12 DEF Release, Idle, Job, Agent, MessageOrNone
  <2>14. ASSUME NEW p \in Publisher, PublicationFails(p) PROVE TypeOK'
    BY <2>14 DEF PublicationFails, Idle, Job, Agent, MessageOrNone,
                 redisVars, queueVars, handlerVars, historyVars
  <2>13. CASE UNCHANGED vars
    BY <2>13 DEF vars, redisVars, queueVars, handlerVars, historyVars
  <2> QED
    BY <2>1, <2>2, <2>3, <2>4, <2>5, <2>6, <2>7, <2>8, <2>9, <2>10, <2>11, <2>12, <2>13, <2>14
    DEF Next, Redis, Views, Commands, Handler
<1> QED
  BY <1>1, <1>2, PTL DEF Spec

-----------------------------------------------------------------------------
(* The inductive invariant behind the safety properties.                   *)

\* Nothing is left of a released handler, and what Redis sends to an open one
\* comes from its subscriptions.
Connected(w) ==
  /\ ~open[w] => /\ subscribed[w] = {} /\ requested[w] = {} /\ heard[w] = {}
                 /\ inbox[w] = <<>> /\ todo[w] = {}
  /\ open[w] => SubscribeTo[w] \subseteq subscribed[w] \cup requested[w]
  /\ heard[w] \subseteq subscribed[w]
  /\ \A c \in Channel : Pending(w, c) => c \in heard[w]

ConnectionInv == \A w \in Websocket : Connected(w)

\* A publication in progress has a message.
JobInv == \A a \in Agent : job[a].left \cup job[a].half # {} => job[a].msg \in Message

\* The last message on c in a sequence of replies, if there is one, is m.
EndsWith(replies, c, m) ==
  \A i \in OnChannel(replies, c) :
    (\A j \in OnChannel(replies, c) : j <= i) => replies[i].msg = m

\* What the handler compares the replies with is a message its browser has sent.
OwnInv == \A w \in Websocket : recvmsg[w] # NoMessage => recvmsg[w] \in own[w]

\* The last message the handler has still to relay on c is the latest; it has one
\* until it has sent the persisted messages, and as long as its own publication on
\* the channel is not persisted; when it has none, the browser holds the latest.
Follows(w, c) ==
  /\ EndsWith(inbox[w], c, latest[c])
  /\ todo[w] # {} \/ c \in job[w].half => Pending(w, c)
  /\ ~Pending(w, c) /\ c \notin job[w].left => HoldsLatest(w, c)

FollowInv == \A w \in Websocket : \A c \in heard[w] : Follows(w, c)

\* Where no SETEX has followed its PUBLISH as a command of its own, Redis retains the
\* last message that was to be persisted, or none.
StoreInv ==
  /\ \A a \in Agent : job[a].half \subseteq split
  /\ \A c \in Channel \ split : store[c] # NoMessage => store[c] = kept[c]

\* There, a handler that has read what was persisted has it until something is published,
\* whether its SUBSCRIBE was executed before that, after it, or not yet.
Persisted(w) ==
  \A c \in (subscribed[w] \cup requested[w])
             \ (todo[w] \cup heard[w] \cup missed[w] \cup split \cup job[w].left) :
    store[c] # NoMessage => shown[w][c] = kept[c]

PersistedInv == \A w \in Websocket : Persisted(w)

-----------------------------------------------------------------------------
(* How the messages pending on a channel change with the inbox.            *)

\* After a message on c is appended, it is the last on c.
LEMMA AppendOn ==
  ASSUME NEW s \in Seq(Reply), NEW c \in Channel, NEW m \in Message
  PROVE  LET t == Append(s, [channel |-> c, msg |-> m])
         IN  OnChannel(t, c) # {} /\ EndsWith(t, c, m)
<1> DEFINE r == [channel |-> c, msg |-> m]
           t == Append(s, r)
<1>1. r \in Reply
  BY DEF Reply, MessageOrNone
<1>2. Len(t) = Len(s) + 1 /\ t[Len(s) + 1] = r /\ Len(s) \in Nat
  BY <1>1, AppendReply
<1> HIDE DEF t
<1>3. Len(s) + 1 \in OnChannel(t, c)
  BY <1>2 DEF OnChannel
<1>4. ASSUME NEW i \in OnChannel(t, c), \A j \in OnChannel(t, c) : j <= i
      PROVE  t[i].msg = m
  BY <1>2, <1>3, <1>4 DEF OnChannel
<1>5. OnChannel(t, c) # {} /\ EndsWith(t, c, m)
  BY <1>3, <1>4 DEF EndsWith
<1> QED
  BY <1>5 DEF t

\* A reply that is not a message on c leaves the messages on c as they were.
LEMMA AppendOther ==
  ASSUME NEW s \in Seq(Reply), NEW r \in Reply, NEW c \in Channel,
         r.channel # c \/ r.msg = NoMessage
  PROVE  /\ OnChannel(Append(s, r), c) = OnChannel(s, c)
         /\ \A m : EndsWith(s, c, m) => EndsWith(Append(s, r), c, m)
<1> DEFINE t == Append(s, r)
<1>1. /\ Len(t) = Len(s) + 1 /\ t[Len(s) + 1] = r /\ Len(s) \in Nat
      /\ \A i \in 1..Len(s) : t[i] = s[i]
  BY AppendReply
<1> HIDE DEF t
<1>2. OnChannel(t, c) = OnChannel(s, c)
  BY <1>1 DEF OnChannel
<1>3. \A i \in OnChannel(s, c) : t[i] = s[i]
  BY <1>1 DEF OnChannel
<1>4. \A m : EndsWith(s, c, m) => EndsWith(t, c, m)
  BY <1>2, <1>3 DEF EndsWith
<1> QED
  BY <1>2, <1>4 DEF t

\* Reading a reply leaves the last message on c the last, if it is still pending.
LEMMA TailOther ==
  ASSUME NEW s \in Seq(Reply), 0 < Len(s), NEW c \in Channel
  PROVE  /\ OnChannel(Tail(s), c) # {} => OnChannel(s, c) # {}
         /\ Head(s).channel # c \/ Head(s).msg = NoMessage
              => (OnChannel(s, c) # {} => OnChannel(Tail(s), c) # {})
         /\ \A m : EndsWith(s, c, m) => EndsWith(Tail(s), c, m)
<1> DEFINE t == Tail(s)
<1>1. /\ Len(t) = Len(s) - 1 /\ Head(s) = s[1] /\ Len(s) \in Nat
      /\ \A i \in 1..(Len(s) - 1) : t[i] = s[i + 1]
  BY TailReply
<1> HIDE DEF t
<1>2. \A i \in OnChannel(t, c) : i \in Nat /\ i + 1 \in OnChannel(s, c) /\ t[i] = s[i + 1]
  BY <1>1 DEF OnChannel
<1>3. \A i \in OnChannel(s, c) : i \in Nat /\ i # 0 /\ (i # 1 => i - 1 \in OnChannel(t, c))
  BY <1>1 DEF OnChannel
<1>4. OnChannel(t, c) # {} => OnChannel(s, c) # {}
  BY <1>2
<1>5. Head(s).channel # c \/ Head(s).msg = NoMessage
        => (OnChannel(s, c) # {} => OnChannel(t, c) # {})
  <2>1. Head(s).channel # c \/ Head(s).msg = NoMessage => 1 \notin OnChannel(s, c)
    BY <1>1 DEF OnChannel
  <2> QED
    BY <2>1, <1>3
<1>6. ASSUME NEW m, EndsWith(s, c, m),
             NEW i \in OnChannel(t, c), \A j \in OnChannel(t, c) : j <= i
      PROVE  t[i].msg = m
  <2>1. i \in Nat /\ i + 1 \in OnChannel(s, c) /\ t[i] = s[i + 1]
    BY <1>2
  <2>2. ASSUME NEW j \in OnChannel(s, c) PROVE j <= i + 1
    <3>1. j \in Nat /\ (j # 1 => j - 1 \in OnChannel(t, c))
      BY <1>3
    <3>2. CASE j = 1
      BY <3>2, <2>1
    <3>3. CASE j # 1
      BY <3>1, <3>3, <1>6, <2>1
    <3> QED
      BY <3>2, <3>3
  <2> QED
    BY <2>1, <2>2, <1>6 DEF EndsWith
<1>7. \A m : EndsWith(s, c, m) => EndsWith(t, c, m)
  BY <1>6 DEF EndsWith
<1> QED
  BY <1>4, <1>5, <1>7 DEF t

\* Reading a reply that is the only message on c reads the last.
LEMMA TailOn ==
  ASSUME NEW s \in Seq(Reply), 0 < Len(s), NEW c \in Channel, NEW m,
         Head(s).channel = c, Head(s).msg # NoMessage,
         EndsWith(s, c, m), OnChannel(Tail(s), c) = {}
  PROVE  Head(s).msg = m
<1>1. /\ Len(Tail(s)) = Len(s) - 1 /\ Head(s) = s[1] /\ Len(s) \in Nat
      /\ \A i \in 1..(Len(s) - 1) : Tail(s)[i] = s[i + 1]
  BY TailReply
<1>2. 1 \in OnChannel(s, c)
  BY <1>1 DEF OnChannel
<1>3. ASSUME NEW j \in OnChannel(s, c) PROVE j <= 1
  <2>1. j \in 1..Len(s) /\ s[j].channel = c /\ s[j].msg # NoMessage
    BY DEF OnChannel
  <2>2. j > 1 => j - 1 \in OnChannel(Tail(s), c)
    BY <2>1, <1>1 DEF OnChannel
  <2> QED
    BY <2>1, <2>2
<1> QED
  BY <1>1, <1>2, <1>3 DEF EndsWith

\* What PUBLISH does to the messages pending for a handler.
LEMMA PublishInbox ==
  ASSUME TypeOK, NEW c \in Channel, NEW m \in Message, NEW keep \in BOOLEAN,
         Publish(c, m, keep), NEW w \in Websocket, NEW d \in Channel
  PROVE  /\ d = c /\ c \in subscribed[w]
              => OnChannel(inbox'[w], d) # {} /\ EndsWith(inbox'[w], d, m)
         /\ d # c \/ c \notin subscribed[w]
              => /\ OnChannel(inbox'[w], d) = OnChannel(inbox[w], d)
                 /\ \A x : EndsWith(inbox[w], d, x) => EndsWith(inbox'[w], d, x)
<1> DEFINE r == [channel |-> c, msg |-> m]
<1>1. r \in Reply /\ r.channel = c /\ inbox[w] \in Seq(Reply)
  BY DEF Reply, MessageOrNone, TypeOK
<1>2. CASE c \in subscribed[w]
  <2>1. inbox'[w] = Append(inbox[w], r)
    BY <1>2 DEF Publish
  <2>2. CASE d = c
    BY <1>1, <1>2, <2>1, <2>2, AppendOn
  <2>3. CASE d # c
    <3>1. r.channel # d
      BY <2>3
    <3> HIDE DEF r
    <3> QED
      BY <1>1, <2>1, <2>3, <3>1, AppendOther
  <2> QED
    BY <2>2, <2>3
<1>3. CASE c \notin subscribed[w]
  <2>1. inbox'[w] = inbox[w]
    BY <1>3 DEF Publish
  <2> QED
    BY <1>3, <2>1
<1> QED
  BY <1>2, <1>3

-----------------------------------------------------------------------------
(* Preservation of the parts of the invariant.                             *)

\* Every step keeps what is known of the publications in progress.
LEMMA JobStep == TypeOK /\ JobInv /\ [Next]_vars => JobInv'
<1> SUFFICES ASSUME TypeOK, JobInv, [Next]_vars PROVE JobInv'
  OBVIOUS
<1> USE DEF JobInv
<1>1. \A a \in Agent : job[a] \in Job
  BY DEF TypeOK
<1>2. ASSUME NEW p \in Publisher, StartPublishing(p) PROVE JobInv'
  BY <1>2, <1>1 DEF StartPublishing, NewJob, Idle, Agent, TypeOK
<1>3. ASSUME NEW p \in Publisher, TransactionCommand(p) PROVE JobInv'
  BY <1>3, <1>1 DEF TransactionCommand, Visited, NewJob, Idle, Agent, TypeOK
<1>4. ASSUME NEW b \in Agent, PublishCommand(b) PROVE JobInv'
  <2>1. PICK c \in job[b].left : PublishCommand(b)!(c)
    BY <1>4 DEF PublishCommand
  <2>2. job[b].msg \in Message
    BY <2>1
  <2>3. /\ [job[b] EXCEPT !.half = {c}].msg = job[b].msg
        /\ Visited(job[b], c).left # {} => Visited(job[b], c).msg = job[b].msg
        /\ Visited(job[b], c).half = {}
    BY <1>1 DEF Visited, NewJob, Idle, Job
  <2> QED
    BY <2>1, <2>2, <2>3 DEF TypeOK
<1>5. ASSUME NEW b \in Agent, SetexCommand(b) PROVE JobInv'
  BY <1>5, <1>1 DEF SetexCommand, Visited, NewJob, Idle, TypeOK
<1>6. ASSUME NEW w \in Websocket, NEW m \in Message, Receive(w, m) PROVE JobInv'
  BY <1>6, <1>1 DEF Receive, NewJob, Idle, Agent, TypeOK
<1>7. CASE UNCHANGED job
  BY <1>7
<1>8. ASSUME NEW w \in Websocket,
             \/ ExecuteSubscribe(w) \/ SetPubsubChannels(w) \/ SendPersistedMessage(w)
             \/ ReceiveHeartbeat(w) \/ Relay(w)
      PROVE  UNCHANGED job
  BY <1>8 DEF ExecuteSubscribe, SetPubsubChannels, SendPersistedMessage, ReceiveHeartbeat, Relay
<1>9. ASSUME NEW c \in Channel, Expire(c) PROVE UNCHANGED job
  BY <1>9 DEF Expire
<1>10. CASE UNCHANGED vars
  BY <1>10 DEF vars
<1>11. ASSUME NEW a \in Agent, job' = [job EXCEPT ![a] = Idle] PROVE JobInv'
  BY <1>11 DEF Idle, TypeOK
<1>12. ASSUME NEW w \in Websocket, Release(w) PROVE JobInv'
  BY <1>11, <1>12 DEF Release, Agent
<1>13. ASSUME NEW p \in Publisher, PublicationFails(p) PROVE JobInv'
  BY <1>11, <1>13 DEF PublicationFails, Agent
<1> QED
  BY <1>2, <1>3, <1>4, <1>5, <1>6, <1>7, <1>8, <1>9, <1>10, <1>12, <1>13
  DEF Next, Redis, Views, Commands, Handler

\* Every step keeps what is known of a connection to Redis.
LEMMA ConnectionStep ==
  TypeOK /\ JobInv /\ ConnectionInv /\ [Next]_vars => ConnectionInv'
<1> SUFFICES ASSUME TypeOK, JobInv, ConnectionInv, [Next]_vars, NEW v \in Websocket
             PROVE  Connected(v)'
  BY DEF ConnectionInv
<1>1. Connected(v)
  BY DEF ConnectionInv
<1>2. inbox[v] \in Seq(Reply)
  BY DEF TypeOK
<1>3. ASSUME NEW w \in Websocket, ExecuteSubscribe(w) PROVE Connected(v)'
  <2>1. PICK c \in requested[w] : ExecuteSubscribe(w)!(c)
    BY <1>3 DEF ExecuteSubscribe
  <2>2. CASE w = v
    <3> DEFINE r == [channel |-> c, msg |-> NoMessage]
    <3>1. c \in Channel /\ r \in Reply /\ r.msg = NoMessage
      BY DEF TypeOK, Reply, MessageOrNone
    <3>2. inbox'[v] = Append(inbox[v], r)
      BY <2>1, <2>2 DEF TypeOK
    <3> HIDE DEF r
    <3>3. \A d \in Channel : Pending(v, d)' <=> Pending(v, d)
      BY <1>2, <3>1, <3>2, AppendOther DEF Pending
    <3>4. open[v]
      BY <1>1, <2>1, <2>2 DEF Connected
    <3> QED
      BY <1>1, <2>1, <2>2, <3>3, <3>4 DEF Connected, TypeOK, handlerVars, historyVars
  <2>3. CASE w # v
    BY <1>1, <2>1, <2>3 DEF Connected, Pending, TypeOK, handlerVars, historyVars
  <2> QED
    BY <2>2, <2>3
<1>4. ASSUME NEW c \in Channel, NEW m \in Message, NEW keep \in BOOLEAN, Publish(c, m, keep),
             UNCHANGED <<subscribed, requested, handlerVars>>
      PROVE  Connected(v)'
  <2>1. \A d \in Channel :
          Pending(v, d)' => Pending(v, d) \/ (d = c /\ c \in subscribed[v])
    <3> TAKE d \in Channel
    <3>1. CASE d = c /\ c \in subscribed[v]
      BY <3>1
    <3>2. CASE d # c \/ c \notin subscribed[v]
      <4>1. OnChannel(inbox'[v], d) = OnChannel(inbox[v], d)
        BY <1>4, <3>2, PublishInbox
      <4> QED
        BY <4>1 DEF Pending
    <3> QED
      BY <3>1, <3>2
  <2>2. heard'[v] = IF c \in subscribed[v] THEN heard[v] \cup {c} ELSE heard[v]
    BY <1>4 DEF Publish
  <2>3. c \notin subscribed[v] => inbox'[v] = inbox[v]
    BY <1>4 DEF Publish
  <2> QED
    BY <1>1, <1>4, <2>1, <2>2, <2>3 DEF Connected, handlerVars
<1>5. ASSUME NEW p \in Publisher, TransactionCommand(p) PROVE Connected(v)'
  <2>1. PICK c \in job[p].left : TransactionCommand(p)!(c)
    BY <1>5 DEF TransactionCommand
  <2>2. c \in Channel /\ job[p].msg \in Message /\ job[p].keep \in BOOLEAN
    BY <2>1 DEF TypeOK, Job, JobInv, Agent
  <2> QED
    BY <2>1, <2>2, <1>4
<1>6. ASSUME NEW b \in Agent, PublishCommand(b) PROVE Connected(v)'
  <2>1. PICK c \in job[b].left : PublishCommand(b)!(c)
    BY <1>6 DEF PublishCommand
  <2>2. c \in Channel /\ job[b].msg \in Message /\ job[b].keep \in BOOLEAN
    BY <2>1 DEF TypeOK, Job, JobInv
  <2> QED
    BY <2>1, <2>2, <1>4 DEF redisVars
<1>7. ASSUME NEW w \in Websocket, SetPubsubChannels(w) PROVE Connected(v)'
  <2>1. \A d \in Channel : Pending(v, d)' <=> Pending(v, d)
    BY <1>7 DEF SetPubsubChannels, Pending
  <2> QED
    BY <1>1, <1>7, <2>1 DEF SetPubsubChannels, Connected, TypeOK, redisVars
<1>8. ASSUME NEW w \in Websocket, SendPersistedMessage(w) PROVE Connected(v)'
  <2>1. \A d \in Channel : Pending(v, d)' <=> Pending(v, d)
    BY <1>8 DEF SendPersistedMessage, Pending, queueVars
  <2> QED
    BY <1>1, <1>8, <2>1
    DEF SendPersistedMessage, Connected, TypeOK, redisVars, queueVars
<1>9. ASSUME NEW w \in Websocket, Relay(w) PROVE Connected(v)'
  <2>1. CASE w = v
    <3>1. 0 < Len(inbox[v]) /\ inbox'[v] = Tail(inbox[v]) /\ open[v]
      BY <1>9, <1>2, <2>1 DEF Relay, RedisReady, ReadReply, InLoop, TypeOK
    <3>2. \A d \in Channel : Pending(v, d)' => Pending(v, d)
      BY <1>2, <3>1, TailOther DEF Pending
    <3> QED
      BY <1>1, <1>9, <3>1, <3>2 DEF Connected, Relay, redisVars, handlerVars
  <2>2. CASE w # v
    BY <1>1, <1>9, <2>2 DEF Connected, Pending, Relay, ReadReply, TypeOK, redisVars, handlerVars
  <2> QED
    BY <2>1, <2>2
<1>10. ASSUME NEW w \in Websocket, Release(w) PROVE Connected(v)'
  <2>1. CASE w = v
    <3>1. \A d \in Channel : ~Pending(v, d)'
      BY <1>10, <2>1 DEF Release, Pending, OnChannel, TypeOK
    <3> QED
      BY <1>1, <1>10, <2>1, <3>1 DEF Connected, Release, TypeOK
  <2>2. CASE w # v
    BY <1>1, <1>10, <2>2 DEF Connected, Pending, Release, TypeOK
  <2> QED
    BY <2>1, <2>2
<1>11. CASE UNCHANGED <<subscribed, requested, heard, inbox, todo, open>>
  BY <1>1, <1>11 DEF Connected, Pending
<1>12. ASSUME NEW w \in Websocket, NEW m \in Message, Receive(w, m) PROVE Connected(v)'
  BY <1>11, <1>12 DEF Receive, redisVars, queueVars
<1>13. ASSUME NEW b \in Agent, SetexCommand(b) PROVE Connected(v)'
  BY <1>11, <1>13 DEF SetexCommand, queueVars, handlerVars, historyVars
<1>14. ASSUME NEW p \in Publisher, StartPublishing(p) PROVE Connected(v)'
  BY <1>11, <1>14 DEF StartPublishing, redisVars, queueVars, handlerVars, historyVars
<1>15. ASSUME NEW c \in Channel, Expire(c) PROVE Connected(v)'
  BY <1>11, <1>15 DEF Expire, queueVars, handlerVars, historyVars
<1>16. ASSUME NEW w \in Websocket, ReceiveHeartbeat(w) PROVE Connected(v)'
  BY <1>11, <1>16 DEF ReceiveHeartbeat, redisVars, queueVars, historyVars
<1>17. ASSUME NEW p \in Publisher, PublicationFails(p) PROVE Connected(v)'
  BY <1>11, <1>17 DEF PublicationFails, redisVars, queueVars, handlerVars, historyVars
<1>18. CASE UNCHANGED vars
  BY <1>11, <1>18 DEF vars, redisVars, queueVars, handlerVars, historyVars
<1> QED
  BY <1>3, <1>5, <1>6, <1>7, <1>8, <1>9, <1>10, <1>12, <1>13, <1>14, <1>15, <1>16, <1>17, <1>18
  DEF Next, Redis, Views, Commands, Handler

\* Every step keeps the handler's notion of its own messages true.
LEMMA OwnStep == TypeOK /\ OwnInv /\ [Next]_vars => OwnInv'
<1> SUFFICES ASSUME TypeOK, OwnInv, [Next]_vars PROVE OwnInv'
  OBVIOUS
<1> USE DEF OwnInv
<1>1. CASE UNCHANGED <<recvmsg, own>>
  BY <1>1
<1>2. ASSUME NEW w \in Websocket, SetPubsubChannels(w) PROVE OwnInv'
  BY <1>2 DEF SetPubsubChannels, TypeOK
<1>3. ASSUME NEW w \in Websocket, NEW m \in Message, Receive(w, m) PROVE OwnInv'
  BY <1>3 DEF Receive, TypeOK
<1>4. ASSUME NEW w \in Websocket, ReceiveHeartbeat(w) PROVE OwnInv'
  BY <1>4 DEF ReceiveHeartbeat, historyVars, TypeOK
<1>5. ASSUME NEW w \in Websocket,
             ExecuteSubscribe(w) \/ SendPersistedMessage(w) \/ Relay(w) \/ Release(w)
      PROVE  UNCHANGED <<recvmsg, own>>
  BY <1>5 DEF ExecuteSubscribe, SendPersistedMessage, Relay, Release, handlerVars, historyVars
<1>6. ASSUME NEW c \in Channel, Expire(c) PROVE UNCHANGED <<recvmsg, own>>
  BY <1>6 DEF Expire, handlerVars, historyVars
<1>7. ASSUME NEW p \in Publisher,
             StartPublishing(p) \/ TransactionCommand(p) \/ PublicationFails(p)
      PROVE  UNCHANGED <<recvmsg, own>>
  BY <1>7 DEF StartPublishing, TransactionCommand, PublicationFails, handlerVars, historyVars
<1>8. ASSUME NEW a \in Agent, PublishCommand(a) \/ SetexCommand(a)
      PROVE  UNCHANGED <<recvmsg, own>>
  BY <1>8 DEF PublishCommand, SetexCommand, handlerVars, historyVars
<1>9. CASE UNCHANGED vars
  BY <1>1, <1>9 DEF vars, handlerVars, historyVars
<1> QED
  BY <1>1, <1>2, <1>3, <1>4, <1>5, <1>6, <1>7, <1>8, <1>9
  DEF Next, Redis, Views, Commands, Handler

\* Every step keeps a subscribed handler following its channels.
LEMMA FollowStep ==
  TypeOK /\ TypeOK' /\ JobInv /\ ConnectionInv /\ OwnInv /\ FollowInv /\ [Next]_vars => FollowInv'
<1> SUFFICES ASSUME TypeOK, TypeOK', JobInv, ConnectionInv, OwnInv, FollowInv, [Next]_vars,
                    NEW v \in Websocket, NEW d \in heard'[v]
             PROVE  Follows(v, d)'
  BY DEF FollowInv
<1>1. d \in Channel /\ inbox[v] \in Seq(Reply)
  BY DEF TypeOK
<1>2. d \in heard[v] => Follows(v, d)
  BY DEF FollowInv
<1>3. heard[v] \subseteq subscribed[v]
  BY DEF ConnectionInv, Connected
<1>4. v \in Agent /\ job[v] \in Job
  BY DEF TypeOK, Agent
<1>5. ASSUME NEW c \in Channel, NEW m \in Message, NEW keep \in BOOLEAN, Publish(c, m, keep),
             UNCHANGED <<todo, shown, own>>,
             d # c => /\ d \in job'[v].half => d \in job[v].half
                      /\ d \notin job'[v].left => d \notin job[v].left
      PROVE  Follows(v, d)'
  <2>1. heard'[v] = (IF c \in subscribed[v] THEN heard[v] \cup {c} ELSE heard[v])
    BY <1>5 DEF Publish
  <2>2. CASE d = c
    <3>1. OnChannel(inbox'[v], d) # {} /\ EndsWith(inbox'[v], d, m)
      BY <1>1, <1>3, <1>5, <2>1, <2>2, PublishInbox
    <3>2. latest'[d] = m
      BY <1>5, <2>2 DEF Publish, TypeOK
    <3> QED
      BY <3>1, <3>2 DEF Follows, HoldsLatest, Pending
  <2>3. CASE d # c
    <3>1. /\ OnChannel(inbox'[v], d) = OnChannel(inbox[v], d)
          /\ \A x : EndsWith(inbox[v], d, x) => EndsWith(inbox'[v], d, x)
      BY <1>1, <1>5, <2>3, PublishInbox
    <3>2. latest'[d] = latest[d]
      BY <1>5, <2>3 DEF Publish, TypeOK
    <3>3. d \in heard[v]
      BY <2>1, <2>3
    <3> QED
      BY <1>2, <1>5, <2>3, <3>1, <3>2, <3>3 DEF Follows, HoldsLatest, Pending
  <2> QED
    BY <2>2, <2>3
<1>6. ASSUME NEW p \in Publisher, TransactionCommand(p) PROVE Follows(v, d)'
  <2>1. PICK c \in job[p].left : TransactionCommand(p)!(c)
    BY <1>6 DEF TransactionCommand
  <2>2. c \in Channel /\ job[p].msg \in Message /\ job[p].keep \in BOOLEAN
    BY <2>1 DEF TypeOK, Job, JobInv, Agent
  <2>3. job'[v] = job[v]
    BY <2>1 DEF TypeOK, RelayAssumption
  <2> QED
    BY <2>1, <2>2, <2>3, <1>5 DEF handlerVars
<1>7. ASSUME NEW b \in Agent, PublishCommand(b) PROVE Follows(v, d)'
  <2>1. PICK c \in job[b].left : PublishCommand(b)!(c)
    BY <1>7 DEF PublishCommand
  <2>2. c \in Channel /\ job[b].msg \in Message /\ job[b] \in Job /\ job[b].keep \in BOOLEAN
    BY <2>1 DEF TypeOK, Job, JobInv
  <2>3. /\ [job[b] EXCEPT !.half = {c}].half = {c}
        /\ [job[b] EXCEPT !.half = {c}].left = job[b].left
        /\ Visited(job[b], c).left = job[b].left \ {c}
        /\ Visited(job[b], c).half = {}
    BY <2>2 DEF Visited, NewJob, Idle, Job
  <2>4. d # c => /\ d \in job'[v].half => d \in job[v].half
                 /\ d \notin job'[v].left => d \notin job[v].left
    BY <1>4, <2>1, <2>3 DEF TypeOK
  <2> QED
    BY <2>1, <2>2, <2>4, <1>5 DEF handlerVars
<1>8. CASE UNCHANGED <<inbox, latest, heard, todo, job, shown, own>>
  BY <1>2, <1>8 DEF Follows, HoldsLatest, Pending
<1>9. ASSUME NEW b \in Agent, SetexCommand(b) PROVE Follows(v, d)'
  <2>1. PICK c \in job[b].half : SetexCommand(b)!(c)
    BY <1>9 DEF SetexCommand
  <2>2. /\ Visited(job[b], c).left = job[b].left \ {c}
        /\ Visited(job[b], c).half = {}
    BY <2>1 DEF Visited, NewJob, Idle, Job, TypeOK
  <2>3. /\ d \in job'[v].half => d \in job[v].half
        /\ d \notin job'[v].left => d \notin job[v].left \/ d \in job[v].half
    BY <1>4, <2>1, <2>2 DEF TypeOK
  <2>4. UNCHANGED <<inbox, latest, heard, todo, shown, own>>
    BY <2>1 DEF queueVars, handlerVars, historyVars
  <2> QED
    BY <1>2, <2>3, <2>4 DEF Follows, HoldsLatest, Pending
<1>10. ASSUME NEW p \in Publisher, StartPublishing(p) PROVE Follows(v, d)'
  <2>1. job'[v] = job[v]
    BY <1>10 DEF StartPublishing, TypeOK, RelayAssumption
  <2>2. UNCHANGED <<inbox, latest, heard, todo, shown, own>>
    BY <1>10 DEF StartPublishing, queueVars, handlerVars, historyVars
  <2> QED
    BY <1>2, <2>1, <2>2 DEF Follows, HoldsLatest, Pending
<1>11. ASSUME NEW w \in Websocket, ExecuteSubscribe(w) PROVE Follows(v, d)'
  <2>1. PICK c \in requested[w] : ExecuteSubscribe(w)!(c)
    BY <1>11 DEF ExecuteSubscribe
  <2>2. UNCHANGED <<latest, heard, todo, job, shown, own>>
    BY <2>1 DEF handlerVars, historyVars
  <2>3. CASE w = v
    <3> DEFINE r == [channel |-> c, msg |-> NoMessage]
    <3>1. c \in Channel /\ r \in Reply /\ r.msg = NoMessage
      BY DEF TypeOK, Reply, MessageOrNone
    <3>2. inbox'[v] = Append(inbox[v], r)
      BY <2>1, <2>3 DEF TypeOK
    <3> HIDE DEF r
    <3>3. /\ OnChannel(inbox'[v], d) = OnChannel(inbox[v], d)
          /\ EndsWith(inbox[v], d, latest[d]) => EndsWith(inbox'[v], d, latest[d])
      BY <1>1, <3>1, <3>2, AppendOther
    <3> QED
      BY <1>2, <2>2, <3>3 DEF Follows, HoldsLatest, Pending
  <2>4. CASE w # v
    <3>1. inbox'[v] = inbox[v]
      BY <2>1, <2>4 DEF TypeOK
    <3> QED
      BY <1>2, <2>2, <3>1 DEF Follows, HoldsLatest, Pending
  <2> QED
    BY <2>3, <2>4
<1>12. ASSUME NEW w \in Websocket, SetPubsubChannels(w) PROVE Follows(v, d)'
  <2>1. d \in heard[v] /\ UNCHANGED <<inbox, latest, job>>
    BY <1>12 DEF SetPubsubChannels
  <2>2. w # v
    BY <1>12, <2>1 DEF SetPubsubChannels, ConnectionInv, Connected
  <2>3. todo'[v] = todo[v] /\ shown'[v] = shown[v] /\ own'[v] = own[v]
    BY <1>12, <2>2 DEF SetPubsubChannels, TypeOK
  <2> QED
    BY <1>2, <2>1, <2>3 DEF Follows, HoldsLatest, Pending
<1>13. ASSUME NEW w \in Websocket, SendPersistedMessage(w) PROVE Follows(v, d)'
  <2>1. PICK c \in todo[w] : SendPersistedMessage(w)!(c)
    BY <1>13 DEF SendPersistedMessage
  <2>2. UNCHANGED <<inbox, latest, heard, job, own>>
    BY <2>1 DEF queueVars
  <2>3. CASE w = v
    <3>1. Pending(v, d)
      BY <1>2, <2>1, <2>2, <2>3 DEF Follows
    <3> QED
      BY <1>2, <2>2, <3>1 DEF Follows, HoldsLatest, Pending
  <2>4. CASE w # v
    <3>1. todo'[v] = todo[v] /\ shown'[v] = shown[v]
      BY <2>1, <2>4 DEF Send, TypeOK
    <3> QED
      BY <1>2, <2>2, <3>1 DEF Follows, HoldsLatest, Pending
  <2> QED
    BY <2>3, <2>4
<1>14. ASSUME NEW w \in Websocket, NEW m \in Message, Receive(w, m) PROVE Follows(v, d)'
  <2>1. UNCHANGED <<inbox, latest, heard, todo>>
    BY <1>14 DEF Receive, queueVars
  <2>2. CASE w = v
    <3>1. /\ job[v].half = {} /\ job[v].left = {}
          /\ job'[v] = NewJob(m, PublishTo[v], FALSE, Default)
          /\ shown'[v] = [c \in Channel |-> IF c \in PublishTo[v] THEN m ELSE shown[v][c]]
      BY <1>4, <1>14, <2>2 DEF Receive, InLoop, Idle, TypeOK
    <3>2. job'[v].half = {} /\ job'[v].left = PublishTo[v]
      BY <3>1 DEF NewJob, Idle
    <3>3. own[v] \subseteq own'[v]
      BY <1>14, <2>2 DEF Receive, TypeOK
    <3>4. d \notin PublishTo[v] => shown'[v][d] = shown[v][d]
      BY <1>1, <3>1
    <3> QED
      BY <1>2, <2>1, <3>1, <3>2, <3>3, <3>4 DEF Follows, HoldsLatest, Pending
  <2>3. CASE w # v
    <3>1. /\ job \in [Agent -> Job] /\ own \in [Websocket -> SUBSET Message]
          /\ shown \in [Websocket -> [Channel -> MessageOrNone]]
      BY DEF TypeOK
    <3>2. job'[v] = job[v]
      BY <1>4, <1>14, <2>3, <3>1 DEF Receive
    <3>3. shown'[v] = shown[v] /\ own'[v] = own[v]
      BY <1>14, <2>3, <3>1 DEF Receive
    <3> QED
      BY <1>2, <2>1, <3>2, <3>3 DEF Follows, HoldsLatest, Pending
  <2> QED
    BY <2>2, <2>3
<1>15. ASSUME NEW w \in Websocket, Relay(w) PROVE Follows(v, d)'
  <2>1. UNCHANGED <<latest, heard, todo, job, own, recvmsg>>
    BY <1>15 DEF Relay, handlerVars
  <2>2. CASE w = v
    <3> DEFINE reply == Head(inbox[v])
    <3>1. /\ 0 < Len(inbox[v]) /\ inbox'[v] = Tail(inbox[v])
          /\ todo[v] = {} /\ job[v] = Idle
      BY <1>1, <1>15, <2>2 DEF Relay, RedisReady, ReadReply, InLoop, TypeOK
    <3>2. EndsWith(inbox'[v], d, latest[d])
      BY <1>1, <1>2, <2>1, <3>1, TailOther DEF Follows
    <3>3. ASSUME ~Pending(v, d)' PROVE HoldsLatest(v, d)'
      <4>1. OnChannel(Tail(inbox[v]), d) = {}
        BY <3>1, <3>3 DEF Pending
      <4>2. CASE reply.channel = d /\ reply.msg # NoMessage
        <5>1. reply.msg = latest[d]
          BY <1>1, <1>2, <2>1, <3>1, <4>1, <4>2, TailOn DEF Follows
        <5>2. CASE Echo[v] \/ reply.msg # recvmsg[v]
          <6>1. shown' = [shown EXCEPT ![v][d] = reply.msg]
            BY <1>15, <2>2, <4>2, <5>2 DEF Relay, IsRelayed, Send
          <6> QED
            BY <1>1, <2>1, <5>1, <6>1 DEF HoldsLatest, TypeOK
        <5>3. CASE ~Echo[v] /\ reply.msg = recvmsg[v]
          BY <2>1, <4>2, <5>1, <5>3 DEF HoldsLatest, OwnInv
        <5> QED
          BY <5>2, <5>3
      <4>3. CASE reply.channel # d \/ reply.msg = NoMessage
        <5>1. ~Pending(v, d)
          BY <1>1, <3>1, <4>1, <4>3, TailOther DEF Pending
        <5>2. shown'[v][d] = shown[v][d]
          BY <1>1, <1>15, <2>2, <4>3 DEF Relay, IsRelayed, Send, TypeOK
        <5> QED
          BY <1>2, <2>1, <3>1, <5>1, <5>2 DEF Follows, HoldsLatest, Idle
      <4> QED
        BY <4>2, <4>3
    <3> QED
      BY <2>1, <3>1, <3>2, <3>3 DEF Follows, HoldsLatest, Idle
  <2>3. CASE w # v
    <3>1. inbox'[v] = inbox[v] /\ shown'[v] = shown[v]
      BY <1>15, <2>3 DEF Relay, ReadReply, Send, TypeOK
    <3> QED
      BY <1>2, <2>1, <3>1 DEF Follows, HoldsLatest, Pending
  <2> QED
    BY <2>2, <2>3
<1>16. ASSUME NEW w \in Websocket, Release(w) PROVE Follows(v, d)'
  <2>1. w # v
    BY <1>16 DEF Release, TypeOK
  <2>2. /\ inbox'[v] = inbox[v] /\ heard'[v] = heard[v] /\ todo'[v] = todo[v]
        /\ job'[v] = job[v]
        /\ UNCHANGED <<latest, shown, own>>
    BY <1>4, <1>16, <2>1 DEF Release, TypeOK
  <2> QED
    BY <1>2, <2>2 DEF Follows, HoldsLatest, Pending
<1>17. ASSUME NEW w \in Websocket, ReceiveHeartbeat(w) PROVE Follows(v, d)'
  BY <1>8, <1>17 DEF ReceiveHeartbeat, queueVars, historyVars
<1>18. ASSUME NEW c \in Channel, Expire(c) PROVE Follows(v, d)'
  BY <1>8, <1>18 DEF Expire, queueVars, handlerVars, historyVars
<1>19. ASSUME NEW p \in Publisher, PublicationFails(p) PROVE Follows(v, d)'
  <2>1. job'[v] = job[v]
    BY <1>19 DEF PublicationFails, TypeOK, RelayAssumption
  <2>2. UNCHANGED <<inbox, latest, heard, todo, shown, own>>
    BY <1>19 DEF PublicationFails, queueVars, handlerVars, historyVars
  <2> QED
    BY <1>2, <2>1, <2>2 DEF Follows, HoldsLatest, Pending
<1>20. CASE UNCHANGED vars
  BY <1>8, <1>20 DEF vars, queueVars, handlerVars, historyVars
<1> QED
  BY <1>6, <1>7, <1>9, <1>10, <1>11, <1>12, <1>13, <1>14, <1>15, <1>16, <1>17, <1>18, <1>19, <1>20
  DEF Next, Redis, Views, Commands, Handler

\* Every step keeps the store as the channels have it where only transactions persist.
LEMMA StoreStep == TypeOK /\ StoreInv /\ [Next]_vars => StoreInv'
<1> SUFFICES ASSUME TypeOK, StoreInv, [Next]_vars PROVE StoreInv'
  OBVIOUS
<1> USE DEF StoreInv
<1>1. \A a \in Agent : job[a] \in Job
  BY DEF TypeOK
<1>2. CASE UNCHANGED <<store, kept, split, job>>
  BY <1>2
<1>3. ASSUME NEW a \in Agent, NEW j, j.half = {}, job' = [job EXCEPT ![a] = j],
             UNCHANGED <<store, kept, split>>
      PROVE  StoreInv'
  BY <1>3 DEF TypeOK
<1>4. \A j, c : Visited(j, c).half = {}
  BY DEF Visited, NewJob, Idle
<1>5. ASSUME NEW p \in Publisher, StartPublishing(p) PROVE StoreInv'
  <2>1. PICK m \in Message, audience \in (SUBSET Channel) \ {{}}, tx \in Transaction, keep \in Persist :
          job' = [job EXCEPT ![p] = NewJob(m, audience, tx, keep)]
    BY <1>5 DEF StartPublishing
  <2>2. NewJob(m, audience, tx, keep).half = {}
    BY DEF NewJob, Idle
  <2> QED
    BY <1>3, <1>5, <2>1, <2>2 DEF StartPublishing, Agent, redisVars, historyVars
<1>6. ASSUME NEW p \in Publisher, TransactionCommand(p) PROVE StoreInv'
  <2>1. PICK c \in job[p].left : TransactionCommand(p)!(c)
    BY <1>6 DEF TransactionCommand
  <2>2. kept' = IF job[p].keep THEN [kept EXCEPT ![c] = job[p].msg] ELSE kept
    BY <2>1 DEF Publish
  <2>3. \A d \in Channel \ split : store'[d] # NoMessage => store'[d] = kept'[d]
    BY <2>1, <2>2 DEF TypeOK
  <2> QED
    BY <1>4, <2>1, <2>3 DEF TypeOK
<1>7. ASSUME NEW a \in Agent, PublishCommand(a) PROVE StoreInv'
  <2>1. PICK c \in job[a].left : PublishCommand(a)!(c)
    BY <1>7 DEF PublishCommand
  <2>2. \A b \in Agent : job'[b].half \subseteq split'
    BY <1>1, <1>4, <2>1 DEF TypeOK, Job
  <2>3. \A d \in Channel \ split' : store'[d] # NoMessage => store'[d] = kept'[d]
    BY <2>1 DEF Publish, redisVars, TypeOK
  <2> QED
    BY <2>2, <2>3
<1>8. ASSUME NEW a \in Agent, SetexCommand(a) PROVE StoreInv'
  <2>1. PICK c \in job[a].half : SetexCommand(a)!(c)
    BY <1>8 DEF SetexCommand
  <2>2. c \in split /\ UNCHANGED <<kept, split>>
    BY <2>1 DEF historyVars
  <2> QED
    BY <1>4, <2>1, <2>2 DEF TypeOK
<1>9. ASSUME NEW w \in Websocket, NEW m \in Message, Receive(w, m) PROVE StoreInv'
  <2>1. NewJob(m, PublishTo[w], FALSE, Default).half = {}
    BY DEF NewJob, Idle
  <2> QED
    BY <1>3, <1>9, <2>1 DEF Receive, Agent, redisVars
<1>10. ASSUME NEW c \in Channel, Expire(c) PROVE StoreInv'
  BY <1>10 DEF Expire, historyVars, TypeOK
<1>11. ASSUME NEW w \in Websocket,
              \/ ExecuteSubscribe(w) \/ SetPubsubChannels(w) \/ SendPersistedMessage(w)
              \/ ReceiveHeartbeat(w) \/ Relay(w)
       PROVE  UNCHANGED <<store, kept, split, job>>
  BY <1>11 DEF ExecuteSubscribe, SetPubsubChannels, SendPersistedMessage, ReceiveHeartbeat,
               Relay, redisVars, historyVars
<1>12. Idle.half = {}
  BY DEF Idle
<1>13. ASSUME NEW w \in Websocket, Release(w) PROVE StoreInv'
  BY <1>3, <1>12, <1>13 DEF Release, Agent
<1>14. ASSUME NEW p \in Publisher, PublicationFails(p) PROVE StoreInv'
  BY <1>3, <1>12, <1>14 DEF PublicationFails, Agent, redisVars, historyVars
<1>15. CASE UNCHANGED vars
  BY <1>2, <1>15 DEF vars, redisVars, historyVars
<1> QED
  BY <1>2, <1>5, <1>6, <1>7, <1>8, <1>9, <1>10, <1>11, <1>13, <1>14, <1>15
  DEF Next, Redis, Views, Commands, Handler

\* Every step keeps what a handler has read of the store, or will, up to date.
LEMMA PersistedStep ==
  TypeOK /\ TypeOK' /\ ConnectionInv /\ StoreInv /\ PersistedInv /\ [Next]_vars => PersistedInv'
<1> SUFFICES ASSUME TypeOK, TypeOK', ConnectionInv, StoreInv, PersistedInv, [Next]_vars,
                    NEW v \in Websocket
             PROVE  Persisted(v)'
  BY DEF PersistedInv
<1>1. Persisted(v) /\ Connected(v)
  BY DEF PersistedInv, ConnectionInv
<1>2. /\ subscribed[v] \subseteq Channel /\ requested[v] \subseteq Channel
      /\ inbox[v] \in Seq(Reply) /\ v \in Agent
  BY DEF TypeOK, Agent
<1>3. CASE /\ UNCHANGED <<requested, todo, subscribed, heard, missed, split, store, shown, kept>>
           /\ job'[v] = job[v]
  BY <1>1, <1>3 DEF Persisted
<1>4. ASSUME NEW c \in Channel, NEW m, NEW keep \in BOOLEAN, Publish(c, m, keep),
             UNCHANGED <<requested, todo, subscribed, shown>>, split \subseteq split',
             \A d \in Channel \ {c} : store'[d] = store[d],
             \A d \in Channel \ {c} : d \in job[v].left => d \in job'[v].left
      PROVE  Persisted(v)'
  <2>1. /\ heard'[v] = (IF c \in subscribed[v] THEN heard[v] \cup {c} ELSE heard[v])
        /\ missed'[v] = (IF c \in requested[v] \ todo[v] THEN missed[v] \cup {c} ELSE missed[v])
        /\ \A d \in Channel \ {c} : kept'[d] = kept[d]
    BY <1>4 DEF Publish, TypeOK
  <2>2. SUFFICES ASSUME NEW d \in (subscribed[v] \cup requested[v])
                               \ (todo[v] \cup heard'[v] \cup missed'[v] \cup split' \cup job'[v].left),
                        store'[d] # NoMessage
                 PROVE  shown[v][d] = kept'[d]
    BY <1>4 DEF Persisted
  <2>3. d \in Channel /\ d # c
    BY <1>2, <2>1, <2>2
  <2>4. d \notin todo[v] \cup heard[v] \cup missed[v] \cup split \cup job[v].left
    BY <1>4, <2>1, <2>2, <2>3
  <2> QED
    BY <1>1, <1>4, <2>1, <2>2, <2>3, <2>4 DEF Persisted
<1>5. ASSUME NEW p \in Publisher, TransactionCommand(p) PROVE Persisted(v)'
  <2>1. PICK c \in job[p].left : TransactionCommand(p)!(c)
    BY <1>5 DEF TransactionCommand
  <2>2. c \in Channel /\ job[p].keep \in BOOLEAN
    BY <2>1 DEF TypeOK, Job, Agent
  <2>3. job'[v] = job[v]
    BY <2>1 DEF TypeOK, RelayAssumption
  <2>4. \A d \in Channel \ {c} : store'[d] = store[d]
    BY <2>1 DEF TypeOK
  <2>5. UNCHANGED <<requested, todo, subscribed, shown, split>>
    BY <2>1 DEF handlerVars
  <2> QED
    BY <1>4, <2>1, <2>2, <2>3, <2>4, <2>5
<1>6. ASSUME NEW a \in Agent, PublishCommand(a) PROVE Persisted(v)'
  <2>1. PICK c \in job[a].left : PublishCommand(a)!(c)
    BY <1>6 DEF PublishCommand
  <2>2. c \in Channel /\ job[a].keep \in BOOLEAN /\ job[a] \in Job
    BY <2>1 DEF TypeOK, Job
  <2>3. /\ [job[a] EXCEPT !.half = {c}].left = job[a].left
        /\ Visited(job[a], c).left = job[a].left \ {c}
    BY <2>2 DEF Visited, NewJob, Idle, Job
  <2>4. \A d \in Channel \ {c} : d \in job[v].left => d \in job'[v].left
    BY <1>2, <2>1, <2>3 DEF TypeOK
  <2>5. UNCHANGED <<requested, todo, subscribed, shown, store>> /\ split \subseteq split'
    BY <2>1 DEF redisVars, handlerVars
  <2> QED
    BY <1>4, <2>1, <2>2, <2>4, <2>5
<1>7. ASSUME NEW a \in Agent, SetexCommand(a) PROVE Persisted(v)'
  <2>1. PICK c \in job[a].half : SetexCommand(a)!(c)
    BY <1>7 DEF SetexCommand
  <2>2. c \in split
    BY <2>1 DEF StoreInv
  <2>3. Visited(job[a], c).left = job[a].left \ {c}
    BY DEF Visited, NewJob, Idle
  <2>4. \A d \in Channel \ {c} : store'[d] = store[d] /\ (d \in job[v].left => d \in job'[v].left)
    BY <1>2, <2>1, <2>3 DEF TypeOK
  <2>5. UNCHANGED <<requested, todo, subscribed, heard, missed, split, shown, kept>>
    BY <2>1 DEF queueVars, handlerVars, historyVars
  <2> QED
    BY <1>1, <1>2, <2>2, <2>4, <2>5 DEF Persisted
<1>8. ASSUME NEW w \in Websocket, ExecuteSubscribe(w) PROVE Persisted(v)'
  <2>1. subscribed'[v] \cup requested'[v] = subscribed[v] \cup requested[v]
    BY <1>8 DEF ExecuteSubscribe, TypeOK
  <2> QED
    BY <1>1, <1>8, <2>1 DEF ExecuteSubscribe, Persisted, handlerVars, historyVars
<1>9. ASSUME NEW c \in Channel, Expire(c) PROVE Persisted(v)'
  BY <1>1, <1>2, <1>9 DEF Expire, Persisted, TypeOK, queueVars, handlerVars, historyVars
<1>10. ASSUME NEW w \in Websocket, SetPubsubChannels(w) PROVE Persisted(v)'
  <2>1. CASE w = v
    <3>1. subscribed'[v] = {} /\ requested'[v] = SubscribeTo[v] /\ todo'[v] = SubscribeTo[v]
      BY <1>1, <1>10, <2>1 DEF SetPubsubChannels, Connected, TypeOK, redisVars
    <3> QED
      BY <3>1 DEF Persisted
  <2>2. CASE w # v
    BY <1>1, <1>10, <2>2 DEF SetPubsubChannels, Persisted, TypeOK, redisVars
  <2> QED
    BY <2>1, <2>2
<1>11. ASSUME NEW w \in Websocket, SendPersistedMessage(w) PROVE Persisted(v)'
  <2>1. PICK c \in todo[w] : SendPersistedMessage(w)!(c)
    BY <1>11 DEF SendPersistedMessage
  <2>2. UNCHANGED <<requested, subscribed, heard, missed, split, store, kept, job>>
    BY <2>1 DEF redisVars, queueVars
  <2>3. CASE w = v
    <3>1. c \in Channel /\ todo'[v] = todo[v] \ {c}
      BY <2>1, <2>3 DEF TypeOK
    <3>2. \A d \in Channel : d # c => shown'[v][d] = shown[v][d]
      BY <2>1, <2>3, <3>1 DEF Send, TypeOK
    <3>3. c \notin split /\ store[c] # NoMessage => shown'[v][c] = kept[c]
      BY <2>1, <2>3, <3>1 DEF Send, TypeOK, StoreInv
    <3> QED
      BY <1>1, <1>2, <2>2, <3>1, <3>2, <3>3 DEF Persisted
  <2>4. CASE w # v
    <3>1. todo'[v] = todo[v] /\ shown'[v] = shown[v]
      BY <2>1, <2>4 DEF Send, TypeOK
    <3> QED
      BY <1>1, <2>2, <3>1 DEF Persisted
  <2> QED
    BY <2>3, <2>4
<1>12. ASSUME NEW w \in Websocket, NEW m \in Message, Receive(w, m) PROVE Persisted(v)'
  <2>1. UNCHANGED <<requested, subscribed, heard, missed, split, store, kept, todo>>
    BY <1>12 DEF Receive, redisVars, queueVars
  <2>2. CASE w = v
    <3>1. job[v].left = {}
      BY <1>12, <2>2 DEF Receive, InLoop, Idle
    <3>2. job'[v] = NewJob(m, PublishTo[v], FALSE, Default)
      BY <1>2, <1>12, <2>2 DEF Receive, TypeOK
    <3>3. job'[v].left = PublishTo[v]
      BY <3>2 DEF NewJob, Idle
    <3>4. \A d \in Channel \ PublishTo[v] : shown'[v][d] = shown[v][d]
      BY <1>12, <2>2 DEF Receive, TypeOK
    <3> QED
      BY <1>1, <1>2, <2>1, <3>1, <3>3, <3>4 DEF Persisted
  <2>3. CASE w # v
    <3>1. job \in [Agent -> Job] /\ shown \in [Websocket -> [Channel -> MessageOrNone]]
      BY DEF TypeOK
    <3>2. job'[v] = job[v]
      BY <1>2, <1>12, <2>3, <3>1 DEF Receive
    <3>3. shown'[v] = shown[v]
      BY <1>12, <2>3, <3>1 DEF Receive
    <3> QED
      BY <1>1, <2>1, <3>2, <3>3 DEF Persisted
  <2> QED
    BY <2>2, <2>3
<1>13. ASSUME NEW w \in Websocket, Relay(w) PROVE Persisted(v)'
  <2>1. UNCHANGED <<requested, todo, subscribed, heard, missed, split, store, kept, job>>
    BY <1>13 DEF Relay, redisVars, handlerVars
  <2>2. CASE w = v
    <3> DEFINE reply == Head(inbox[v])
    <3>1. 0 < Len(inbox[v]) /\ Len(inbox[v]) \in Nat
      BY <1>2, <1>13, <2>2 DEF Relay, RedisReady, TypeOK
    <3>2. reply = inbox[v][1] /\ reply.channel \in Channel
      BY <1>2, <3>1, TailReply DEF Reply
    <3>3. reply.msg # NoMessage => reply.channel \in heard[v]
      BY <1>1, <3>1, <3>2 DEF Connected, Pending, OnChannel
    <3>4. \A d \in Channel \ heard[v] : shown'[v][d] = shown[v][d]
      BY <1>13, <2>2, <3>3 DEF Relay, IsRelayed, Send, TypeOK
    <3> QED
      BY <1>1, <1>2, <2>1, <3>4 DEF Persisted
  <2>3. CASE w # v
    <3>1. shown'[v] = shown[v]
      BY <1>13, <2>3 DEF Relay, Send, TypeOK
    <3> QED
      BY <1>1, <2>1, <3>1 DEF Persisted
  <2> QED
    BY <2>2, <2>3
<1>14. ASSUME NEW w \in Websocket, Release(w) PROVE Persisted(v)'
  <2>1. CASE w = v
    <3>1. subscribed'[v] = {} /\ requested'[v] = {}
      BY <1>14, <2>1 DEF Release, TypeOK
    <3> QED
      BY <3>1 DEF Persisted
  <2>2. CASE w # v
    <3>1. /\ UNCHANGED <<store, shown, kept, split>>
          /\ subscribed'[v] = subscribed[v] /\ requested'[v] = requested[v] /\ todo'[v] = todo[v]
          /\ heard'[v] = heard[v] /\ missed'[v] = missed[v] /\ job'[v] = job[v]
      BY <1>2, <1>14, <2>2 DEF Release, TypeOK
    <3> QED
      BY <1>1, <3>1 DEF Persisted
  <2> QED
    BY <2>1, <2>2
<1>15. ASSUME NEW w \in Websocket, ReceiveHeartbeat(w) PROVE Persisted(v)'
  BY <1>3, <1>15 DEF ReceiveHeartbeat, redisVars, queueVars, historyVars
<1>16. ASSUME NEW p \in Publisher, StartPublishing(p) \/ PublicationFails(p) PROVE Persisted(v)'
  <2>1. p # v /\ job \in [Agent -> Job]
    BY DEF TypeOK
  <2>2. PICK j : job' = [job EXCEPT ![p] = j]
    BY <1>16 DEF StartPublishing, PublicationFails
  <2>3. job'[v] = job[v]
    BY <1>2, <2>1, <2>2
  <2> QED
    BY <1>3, <1>16, <2>3
    DEF StartPublishing, PublicationFails, redisVars, queueVars, handlerVars, historyVars
<1>17. CASE UNCHANGED vars
  BY <1>3, <1>17 DEF vars, redisVars, queueVars, handlerVars, historyVars
<1> QED
  BY <1>5, <1>6, <1>7, <1>8, <1>9, <1>10, <1>11, <1>12, <1>13, <1>14, <1>15, <1>16, <1>17
  DEF Next, Redis, Views, Commands, Handler

-----------------------------------------------------------------------------
(* The theorems.                                                           *)

\* The invariant holds at first.
LEMMA InitialInv == Init => JobInv /\ ConnectionInv /\ OwnInv /\ FollowInv /\ StoreInv /\ PersistedInv
<1> SUFFICES ASSUME Init
             PROVE  JobInv /\ ConnectionInv /\ OwnInv /\ FollowInv /\ StoreInv /\ PersistedInv
  OBVIOUS
<1>1. JobInv /\ OwnInv
  BY DEF Init, JobInv, OwnInv, Idle
<1>2. StoreInv
  BY DEF Init, StoreInv, Idle
<1>3. ConnectionInv
  BY DEF Init, ConnectionInv, Connected, Pending, OnChannel
<1>4. FollowInv /\ PersistedInv
  BY DEF Init, FollowInv, PersistedInv, Persisted
<1> QED
  BY <1>1, <1>2, <1>3, <1>4

\* The part of the invariant that the others rest on.
LEMMA Connections == Spec => [](TypeOK /\ JobInv /\ ConnectionInv)
<1>1. Init => JobInv /\ ConnectionInv
  BY InitialInv
<1>2. TypeOK /\ JobInv /\ ConnectionInv /\ [Next]_vars => JobInv' /\ ConnectionInv'
  BY JobStep, ConnectionStep
<1> QED
  BY <1>1, <1>2, TypeCorrect, PTL DEF Spec

(* However publications, subscriptions, relays and releases interleave, a  *)
(* released handler leaves no subscription, no request and no output       *)
(* buffer in Redis (RedisSubscriber.release).                              *)
THEOREM NothingIsAbandoned == Spec => []NothingAbandoned
<1>1. ConnectionInv => NothingAbandoned
  BY DEF ConnectionInv, Connected, NothingAbandoned
<1> QED
  BY <1>1, Connections, PTL

(* A browser with nothing left to relay holds the message last published   *)
(* since its handler subscribed, or has sent that message itself and did   *)
(* not ask for echoes: whatever the number of views and websockets, with   *)
(* publish_message or a transaction, with or without persistence, in any   *)
(* order of commands, and wherever among them its SUBSCRIBEs are executed. *)
THEOREM ChannelIsFollowed == Spec => []FollowsChannel
<1>1. Init => OwnInv /\ FollowInv
  BY InitialInv
<1>2. TypeOK /\ OwnInv /\ [Next]_vars => OwnInv'
  BY OwnStep
<1>3. TypeOK /\ TypeOK' /\ JobInv /\ ConnectionInv /\ OwnInv /\ FollowInv /\ [Next]_vars => FollowInv'
  BY FollowStep
<1>4. FollowInv => FollowsChannel
  BY DEF FollowInv, Follows, FollowsChannel, UpToDate
<1> QED
  BY <1>1, <1>2, <1>3, <1>4, Connections, PTL DEF Spec

(* On a channel where no message was persisted by a SETEX apart from its   *)
(* PUBLISH, a browser has the message that was to be persisted there last, *)
(* as long as Redis retains one: whenever it connected, however late Redis *)
(* executes its SUBSCRIBEs and whichever publications fail, until one is   *)
(* published between its GET and its SUBSCRIBE, or after that.             *)
THEOREM BrowserIsCaughtUp == Spec => []CaughtUp
<1>1. Init => StoreInv /\ PersistedInv
  BY InitialInv
<1>2. TypeOK /\ StoreInv /\ [Next]_vars => StoreInv'
  BY StoreStep
<1>3. TypeOK /\ TypeOK' /\ ConnectionInv /\ StoreInv /\ PersistedInv /\ [Next]_vars => PersistedInv'
  BY PersistedStep
<1>4. ConnectionInv /\ PersistedInv => CaughtUp
  BY DEF CaughtUp, Retained, UpToDate, ConnectionInv, Connected, PersistedInv, Persisted
<1> QED
  BY <1>1, <1>2, <1>3, <1>4, Connections, PTL DEF Spec
=============================================================================
