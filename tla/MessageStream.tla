--------------------------- MODULE MessageStream ---------------------------
(***************************************************************************)
(* What a websocket promises to the loop that receives from it: the        *)
(* messages of the client, each once, whole and in order, until it stops;  *)
(* and it stops for good.                                                  *)
(***************************************************************************)
EXTENDS Naturals, Sequences

VARIABLES
  completed,  \* the messages the client has sent
  delivered,  \* the messages receive has returned
  stopped     \* whether the websocket is closed

vars == <<completed, delivered, stopped>>

Init == completed = <<>> /\ delivered = <<>> /\ ~stopped

Complete ==
  /\ Len(completed') = Len(completed) + 1
  /\ completed = SubSeq(completed', 1, Len(completed))
  /\ UNCHANGED <<delivered, stopped>>

Deliver ==
  /\ ~stopped
  /\ Len(delivered) < Len(completed)
  /\ delivered' = Append(delivered, completed[Len(delivered) + 1])
  /\ UNCHANGED <<completed, stopped>>

Stop ==
  /\ ~stopped
  /\ stopped' = TRUE
  /\ UNCHANGED <<completed, delivered>>

Next == Complete \/ Deliver \/ Stop

Spec == Init /\ [][Next]_vars /\ WF_vars(Deliver)
=============================================================================
