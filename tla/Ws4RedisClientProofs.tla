------------------------ MODULE Ws4RedisClientProofs ------------------------
(* Theorems about Ws4RedisClient.                                          *)
EXTENDS Ws4RedisClient, TLAPS

USE ClientAssumption DEF ClientAssumption

\* The types of the Boolean variables, and of the others.
Flags == /\ must_reconnect \in BOOLEAN /\ constructed \in BOOLEAN
         /\ frozen \in BOOLEAN /\ due \in BOOLEAN

Others == /\ ws \in {"none", "connecting", "open", "closing", "closed"}
          /\ timer \in {"null", "pending", "fired"}
          /\ attempts \in 1..MaxAttempts
          /\ heartbeat_interval \in {"null", "running", "cleared"}
          /\ missed_heartbeats \in 0..4
          /\ ticks \in Nat

MissedInv == heartbeat_interval = "running" => missed_heartbeats <= 3

\* The types, in parts that one prover can deal with each.
LEMMA Types == TypeOK <=> Flags /\ Others
  BY DEF TypeOK, Flags, Others

(* The client's variables keep their types; in particular the heartbeats   *)
(* it counts as missed never exceed four, through any reconnections.       *)
THEOREM ClientTypeCorrect == Spec => []TypeOK
<1>1. Init => Flags /\ Others /\ MissedInv
  <2>1. Init => Flags
    BY DEF Init, Flags
  <2>2. Init => Others /\ MissedInv
    BY DEF Init, Others, MissedInv, MaxAttempts
  <2> QED
    BY <2>1, <2>2
<1>2. Flags /\ [Next]_vars => Flags'
  BY DEF Flags, Next, Construct, Retry, Connect, OnOpen, OnClose, OnHeartbeat, SendHeartbeat,
         CloseByPage, Freeze, TryToReconnect, vars, clientVars
<1>3. Others /\ MissedInv /\ [Next]_vars => Others' /\ MissedInv'
  <2> SUFFICES ASSUME Others, MissedInv, [Next]_vars PROVE Others' /\ MissedInv'
    OBVIOUS
  <2> USE DEF Others, MissedInv, MaxAttempts
  <2>1. CASE Construct
    BY <2>1 DEF Construct, Connect, TryToReconnect
  <2>2. CASE Retry
    BY <2>2 DEF Retry, Connect, TryToReconnect
  <2>3. CASE OnOpen
    BY <2>3 DEF OnOpen
  <2>4. CASE OnClose
    BY <2>4 DEF OnClose, TryToReconnect
  <2>5. CASE OnHeartbeat
    BY <2>5 DEF OnHeartbeat
  <2>6. CASE SendHeartbeat
    BY <2>6 DEF SendHeartbeat
  <2>7. CASE CloseByPage
    BY <2>7 DEF CloseByPage
  <2>8. CASE Freeze \/ UNCHANGED vars
    BY <2>8 DEF Freeze, vars, clientVars
  <2> QED
    BY <2>1, <2>2, <2>3, <2>4, <2>5, <2>6, <2>7, <2>8 DEF Next
<1> QED
  BY <1>1, <1>2, <1>3, Types, PTL DEF Spec

-----------------------------------------------------------------------------
\* The interval is only cleared for good when the page closes the client, and an
\* open connection has one.
WatchInv ==
  /\ must_reconnect => heartbeat_interval # "cleared"
  /\ Heartbeat /\ must_reconnect /\ ws = "open" => heartbeat_interval = "running"

(* However often the connection was lost, given up or made again, the open *)
(* connection of a client with heartbeats has its interval running.        *)
THEOREM OpenIsWatched == Spec => []Watched
<1>1. Init => WatchInv
  BY DEF Init, WatchInv
<1>2. TypeOK /\ WatchInv /\ [Next]_vars => WatchInv'
  <2> SUFFICES ASSUME TypeOK, WatchInv, [Next]_vars PROVE WatchInv'
    OBVIOUS
  <2> USE DEF WatchInv
  <2>1. CASE Construct \/ Retry
    BY <2>1 DEF Construct, Retry, Connect, TryToReconnect
  <2>2. CASE OnOpen
    BY <2>2 DEF OnOpen, TypeOK
  <2>3. CASE OnClose \/ OnHeartbeat
    BY <2>3 DEF OnClose, OnHeartbeat
  <2>4. CASE SendHeartbeat
    BY <2>4 DEF SendHeartbeat
  <2>5. CASE CloseByPage
    BY <2>5 DEF CloseByPage
  <2>6. CASE Freeze \/ UNCHANGED vars
    BY <2>6 DEF Freeze, vars, clientVars
  <2> QED
    BY <2>1, <2>2, <2>3, <2>4, <2>5, <2>6 DEF Next
<1>3. WatchInv => Watched
  BY DEF WatchInv, Watched
<1> QED
  BY <1>1, <1>2, <1>3, ClientTypeCorrect, PTL DEF Spec

-----------------------------------------------------------------------------
\* While there is a connection the timer variable is null, so that the end of the
\* connection sets it.
RetryInv ==
  /\ constructed => ws # "none"
  /\ ws \in {"connecting", "open", "closing"} => timer = "null"
  /\ must_reconnect /\ ws = "closed" => timer = "pending"
  /\ ~constructed => timer = "null" /\ ws = "none"

(* If the callback "connecting" and the WebSocket constructor do not throw,*)
(* a client the page has not closed always has a connection or a retry     *)
(* ahead of it.                                                            *)
THEOREM RetryIsPending ==
  ASSUME ~MayThrow
  PROVE  Spec => []WillRetry
<1>1. Init => RetryInv
  BY DEF Init, RetryInv
<1>2. TypeOK /\ RetryInv /\ [Next]_vars => RetryInv'
  <2> SUFFICES ASSUME TypeOK, RetryInv, [Next]_vars PROVE RetryInv'
    OBVIOUS
  <2> USE DEF RetryInv
  <2>1. CASE Construct
    BY <2>1 DEF Construct, Connect
  <2>2. CASE Retry
    BY <2>2 DEF Retry, Connect
  <2>3. CASE OnClose
    BY <2>3 DEF OnClose, TryToReconnect
  <2>4. CASE OnOpen \/ OnHeartbeat
    BY <2>4 DEF OnOpen, OnHeartbeat
  <2>5. CASE SendHeartbeat
    BY <2>5 DEF SendHeartbeat
  <2>6. CASE CloseByPage
    BY <2>6 DEF CloseByPage
  <2>7. CASE Freeze \/ UNCHANGED vars
    BY <2>7 DEF Freeze, vars, clientVars
  <2> QED
    BY <2>1, <2>2, <2>3, <2>4, <2>5, <2>6, <2>7 DEF Next
<1>3. RetryInv => WillRetry
  BY DEF RetryInv, WillRetry
<1> QED
  BY <1>1, <1>2, <1>3, ClientTypeCorrect, PTL DEF Spec
=============================================================================
