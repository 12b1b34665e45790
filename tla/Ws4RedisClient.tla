--------------------------- MODULE Ws4RedisClient ---------------------------
(***************************************************************************)
(* The browser's client, static/js/ws4redis.js: one WS4Redis object, which *)
(* connects, reconnects after a delay whenever its websocket closes, and   *)
(* counts the heartbeats it misses.  Every callback of the JavaScript      *)
(* event loop is one action.  The network and the server are the           *)
(* environment; of time the model keeps that a live connection brings a    *)
(* heartbeat between two ticks of the client's interval, and how many of   *)
(* these ticks fit into the delay of the retry timer.                      *)
(***************************************************************************)
EXTENDS Naturals

CONSTANTS
  Heartbeat,  \* whether the option heartbeat_msg is set
  MayThrow    \* whether the callback "connecting", or new WebSocket, may throw

ASSUME ClientAssumption == Heartbeat \in BOOLEAN /\ MayThrow \in BOOLEAN

VARIABLES
  ws,                  \* readyState of the current websocket; "none" before the first
  timer,               \* the retry timer: null, pending, or fired and not reset
  must_reconnect,
  attempts,            \* failed attempts, which determine the delay of the next one
  heartbeat_interval,  \* null, running, or cleared but not null
  missed_heartbeats,
  constructed,         \* whether the constructor has run
  frozen,              \* the connection is dead, and neither side has been told
  due,                 \* a tick found the connection open; no heartbeat came since
  ticks                \* ticks of the heartbeat interval since the timer was set

clientVars == <<ws, timer, must_reconnect, attempts, heartbeat_interval, missed_heartbeats>>
vars == <<clientVars, constructed, frozen, due, ticks>>

\* generate_inteval, in seconds: the delay after k attempts is at most this, and
\* from the fifth on the same.
MaxAttempts == 5
LongestDelay(k) == IF k < MaxAttempts THEN 2^k - 1 ELSE 30

\* The ticks of a five-second interval that fit into a delay of that length.
TicksWithin(seconds) == seconds \div 5 + 1

TypeOK ==
  /\ ws \in {"none", "connecting", "open", "closing", "closed"}
  /\ timer \in {"null", "pending", "fired"}
  /\ must_reconnect \in BOOLEAN
  /\ attempts \in 1..MaxAttempts
  /\ heartbeat_interval \in {"null", "running", "cleared"}
  /\ missed_heartbeats \in 0..4
  /\ constructed \in BOOLEAN /\ frozen \in BOOLEAN /\ due \in BOOLEAN
  /\ ticks \in Nat

Init ==
  /\ ws = "none"
  /\ timer = "null"
  /\ must_reconnect = TRUE
  /\ attempts = 1
  /\ heartbeat_interval = "null"
  /\ missed_heartbeats = 0
  /\ constructed = FALSE /\ frozen = FALSE /\ due = FALSE
  /\ ticks = 0

-----------------------------------------------------------------------------
\* try_to_reconnect, when the variable timer is t: one that has fired is as good as
\* a pending one to it.
TryToReconnect(t) ==
  /\ timer' = IF must_reconnect /\ t = "null" THEN "pending" ELSE t
  /\ ticks' = 0

\* Mutant of Connect: the timer that has fired is not reset.
ConnectKeepingTimer(t) ==
  \/ /\ ws' = "connecting"
     /\ timer' = t
     /\ frozen' = FALSE
     /\ ticks' = 0
  \/ MayThrow /\ TryToReconnect(t) /\ UNCHANGED <<ws, frozen>>

\* connect, with a websocket that is neither connecting nor open.
Connect(t) ==
  \/ /\ ws' = "connecting"
     /\ timer' = "null"
     /\ frozen' = FALSE
     /\ ticks' = 0
  \/ MayThrow /\ TryToReconnect(t) /\ UNCHANGED <<ws, frozen>>

Construct ==
  /\ ~constructed
  /\ constructed' = TRUE
  /\ Connect("null")
  /\ UNCHANGED <<must_reconnect, attempts, heartbeat_interval, missed_heartbeats, due>>

\* The retry timer's function, which takes the url from the websocket: it fails when
\* there is none.
Retry ==
  /\ timer = "pending"
  /\ attempts' = IF attempts < MaxAttempts THEN attempts + 1 ELSE attempts
  /\ IF ws = "none" THEN timer' = "fired" /\ UNCHANGED <<ws, frozen, ticks>> ELSE Connect("fired")
  /\ UNCHANGED <<must_reconnect, heartbeat_interval, missed_heartbeats, constructed, due>>

\* Mutant of OnOpen: the count of attempts starts from zero again.
OnOpenFromZero ==
  /\ ws = "connecting"
  /\ ws' = "open"
  /\ attempts' = 0
  /\ IF Heartbeat /\ heartbeat_interval = "null"
     THEN missed_heartbeats' = 0 /\ heartbeat_interval' = "running"
     ELSE UNCHANGED <<missed_heartbeats, heartbeat_interval>>
  /\ UNCHANGED <<timer, must_reconnect, constructed, frozen, due, ticks>>

OnOpen ==
  /\ ws = "connecting"
  /\ ws' = "open"
  /\ attempts' = 1
  /\ IF Heartbeat /\ heartbeat_interval = "null"
     THEN missed_heartbeats' = 0 /\ heartbeat_interval' = "running"
     ELSE UNCHANGED <<missed_heartbeats, heartbeat_interval>>
  /\ UNCHANGED <<timer, must_reconnect, constructed, frozen, due, ticks>>

\* Mutant of OnClose: only a connection that was open is retried.
OnCloseRetryingOpen ==
  /\ ws \in {"connecting", "open", "closing"}
  /\ ws' = "closed"
  /\ IF ws = "open" THEN TryToReconnect(timer) ELSE UNCHANGED <<timer, ticks>>
  /\ due' = FALSE
  /\ UNCHANGED <<must_reconnect, attempts, heartbeat_interval, missed_heartbeats,
                 constructed, frozen>>

\* The attempt fails, the server or the network closes the connection, or a close
\* of the client's takes effect.
OnClose ==
  /\ ws \in {"connecting", "open", "closing"}
  /\ ws' = "closed"
  /\ TryToReconnect(timer)
  /\ due' = FALSE
  /\ UNCHANGED <<must_reconnect, attempts, heartbeat_interval, missed_heartbeats,
                 constructed, frozen>>

\* The server sends a heartbeat at least every four seconds.
OnHeartbeat ==
  /\ Heartbeat /\ ws = "open" /\ ~frozen
  /\ missed_heartbeats' = 0
  /\ due' = FALSE
  /\ UNCHANGED <<ws, timer, must_reconnect, attempts, heartbeat_interval, constructed, frozen,
                 ticks>>

\* Mutant of SendHeartbeat: the interval is cleared and its variable kept.
SendHeartbeatKeepingId ==
  /\ heartbeat_interval = "running"
  /\ frozen \/ ~due
  /\ IF timer = "pending"
     THEN ticks < TicksWithin(LongestDelay(attempts)) /\ ticks' = ticks + 1
     ELSE UNCHANGED ticks
  /\ due' = (ws = "open")
  /\ missed_heartbeats' = missed_heartbeats + 1
  /\ IF missed_heartbeats' > 3 \/ ws = "connecting"
     THEN /\ heartbeat_interval' = "cleared"
          /\ ws' = IF ws \in {"connecting", "open"} THEN "closing" ELSE ws
     ELSE UNCHANGED <<ws, heartbeat_interval>>
  /\ UNCHANGED <<timer, must_reconnect, attempts, constructed, frozen>>

\* Mutant of SendHeartbeat: missed heartbeats are reported, the websocket is not closed.
SendHeartbeatOnlyWarning ==
  /\ heartbeat_interval = "running"
  /\ frozen \/ ~due
  /\ IF timer = "pending"
     THEN ticks < TicksWithin(LongestDelay(attempts)) /\ ticks' = ticks + 1
     ELSE UNCHANGED ticks
  /\ due' = (ws = "open")
  /\ missed_heartbeats' = missed_heartbeats + 1
  /\ IF missed_heartbeats' > 3 \/ ws = "connecting"
     THEN /\ heartbeat_interval' = "null"
          /\ UNCHANGED ws
     ELSE UNCHANGED <<ws, heartbeat_interval>>
  /\ UNCHANGED <<timer, must_reconnect, attempts, constructed, frozen>>

\* The interval's function, every five seconds: between two ticks on a live connection
\* there is a heartbeat.  send throws on a websocket that is still connecting.
SendHeartbeat ==
  /\ heartbeat_interval = "running"
  /\ frozen \/ ~due
  /\ IF timer = "pending"
     THEN ticks < TicksWithin(LongestDelay(attempts)) /\ ticks' = ticks + 1
     ELSE UNCHANGED ticks
  /\ due' = (ws = "open")
  /\ missed_heartbeats' = missed_heartbeats + 1
  /\ IF missed_heartbeats' > 3 \/ ws = "connecting"
     THEN /\ heartbeat_interval' = "null"
          /\ ws' = IF ws \in {"connecting", "open"} THEN "closing" ELSE ws
     ELSE UNCHANGED <<ws, heartbeat_interval>>
  /\ UNCHANGED <<timer, must_reconnect, attempts, constructed, frozen>>

\* The page calls close.
CloseByPage ==
  /\ constructed
  /\ heartbeat_interval' = IF heartbeat_interval = "running" THEN "cleared" ELSE heartbeat_interval
  /\ must_reconnect' = FALSE
  /\ ws' = IF ws \in {"connecting", "open"} THEN "closing" ELSE ws
  /\ UNCHANGED <<timer, attempts, missed_heartbeats, constructed, frozen, due, ticks>>

\* The connection disappears without further notification.
Freeze ==
  /\ ws = "open" /\ ~frozen
  /\ frozen' = TRUE
  /\ UNCHANGED <<clientVars, constructed, due, ticks>>

Next ==
  \/ Construct \/ Retry \/ OnOpen \/ OnClose \/ OnHeartbeat \/ SendHeartbeat
  \/ CloseByPage \/ Freeze

Spec == Init /\ [][Next]_vars

\* The browser runs timers, and gives up on a close the server does not answer.
Fairness == WF_vars(Retry) /\ WF_vars(SendHeartbeat) /\ WF_vars(ws = "closing" /\ OnClose)

FairSpec == Spec /\ Fairness

-----------------------------------------------------------------------------
(* Safety: a client without a connection is going to try again, until the  *)
(* page closes it (try_to_reconnect is called wherever a connection ends). *)
WillRetry ==
  constructed /\ must_reconnect /\ ws \in {"none", "closed"} => timer = "pending"

(* Safety: with heartbeats, the open connection of a client that the page  *)
(* has not closed is watched, also when it is a later one.                 *)
Watched == Heartbeat /\ must_reconnect /\ ws = "open" => heartbeat_interval = "running"

(* Safety: once the page has closed the client, it makes no new connection.*)
StaysClosed == [][~must_reconnect /\ ws' = "connecting" => ws = "connecting"]_vars

(* Liveness: a connection that disappeared without notice is given up.     *)
FrozenIsNoticed ==
  (Heartbeat /\ must_reconnect /\ ws = "open" /\ frozen) ~> (ws # "open" \/ ~must_reconnect)

(* Liveness: a client whose connection has closed connects again.          *)
Reconnects == (must_reconnect /\ ws = "closed") ~> (ws = "connecting" \/ ~must_reconnect)
=============================================================================
