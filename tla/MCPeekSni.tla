----------------------------- MODULE MCPeekSni -----------------------------
(* PeekSni for model checking: a short fixed part, all else byte by byte.     *)
EXTENDS PeekSni
=============================================================================
