---------------------------- MODULE MCMuxStream ----------------------------
(* MuxStream for model checking.  The constants keep the order of the ones  *)
(* in the code (Chunk < MinReport <= Window, relay_buf up to several times  *)
(* the relay's buffer) and MaxBytes lets the window close, be reported and  *)
(* be reopened.                                                             *)
EXTENDS MuxStream
=============================================================================
