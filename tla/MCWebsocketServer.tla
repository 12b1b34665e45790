------------------------- MODULE MCWebsocketServer --------------------------
(* Small instances of WebsocketServer for TLC.                             *)
EXTENDS WebsocketServer

CONSTANTS r1, r2

\* The servers of the requests.
BothServers == [r \in Request |-> IF r = r1 THEN "runserver" ELSE "uwsgi"]
OnlyUwsgi == [r \in Request |-> "uwsgi"]
=============================================================================
