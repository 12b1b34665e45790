--------------------------- MODULE MCMessageRelay ---------------------------
(* Small instances of MessageRelay for TLC.                                *)
EXTENDS MessageRelay, TLC

CONSTANTS c1, c2, m1, m2, p1, p2, w1, w2

\* Both websockets subscribe to c1, the first one to c2 as well.
SubscribeBoth == [w \in Websocket |-> IF w = w1 THEN Channel ELSE {c1}]
PublishNone == [w \in Websocket |-> {}]
PublishC1 == [w \in Websocket |-> {c1}]
EchoOn == [w \in Websocket |-> TRUE]
EchoFirst == [w \in Websocket |-> w = w1]

\* Views and message contents are interchangeable (used for safety only).
Interchangeable == Permutations({p1, p2}) \cup Permutations({m1, m2})
=============================================================================
