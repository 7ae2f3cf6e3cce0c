------------------------- MODULE MCChannelSessions -------------------------
(***************************************************************************)
(* Model-checking instance of ChannelSessions.                             *)
(***************************************************************************)
EXTENDS ChannelSessions
=============================================================================
