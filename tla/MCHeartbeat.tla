---------------------------- MODULE MCHeartbeat ----------------------------
(* Heartbeat for model checking, in units of ten seconds.                     *)
EXTENDS Heartbeat

BackAndForth == {-4, 5, 35}
=============================================================================
