-------------------------- MODULE MCWs4RedisClient --------------------------
(* Ws4RedisClient for TLC.  The module is finite as it stands.             *)
EXTENDS Ws4RedisClient
=============================================================================
