------------------------- MODULE MCWebSocketFrames -------------------------
EXTENDS WebSocketFrames

\* The payloads: letters, characters of two octets, and half of one.
a == <<97>>
e == <<195, 169>>
Long == [i \in 1..126 |-> 97]

F(fin, op, octets) ==
  [fin |-> fin, opcode |-> op, flags |-> 0, mask |-> <<1, 2, 4, 8>>,
   short |-> ShortLength(Len(octets)), length |-> Len(octets), payload |-> octets]

\* Fragments and whole messages, lawful and not, with lengths told in more octets than
\* they need, and one beyond what recv can take.
DataFrames ==
  { F(TRUE, 1, e), F(TRUE, 2, Long), F(FALSE, 1, a), F(FALSE, 1, <<195>>), F(TRUE, 0, <<169>>),
    F(TRUE, 0, a \o e), F(FALSE, 0, a), F(TRUE, 1, <<>>), F(TRUE, 3, a),
    [F(TRUE, 1, a) EXCEPT !.flags = 64],
    [F(FALSE, 2, <<255>>) EXCEPT !.short = 126],
    [F(TRUE, 2, <<>>) EXCEPT !.short = 127, !.length = 65536] }

ControlFrames ==
  { F(TRUE, 9, a), F(TRUE, 9, <<>>), F(TRUE, 10, e), F(FALSE, 9, a), [F(TRUE, 9, a) EXCEPT !.short = 127],
    F(TRUE, 8, <<>>), F(TRUE, 8, <<3>>), F(TRUE, 8, Pack2(1005)), F(TRUE, 8, Pack2(1000) \o e \o a) }

MCFrame == DataFrames \cup ControlFrames
============================================================================
