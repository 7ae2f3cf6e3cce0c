---------------------------- MODULE MCHttpReader ----------------------------
(* HttpReader for model checking: a buffer of three cells, which a header of   *)
(* three fills, one of four and a chunked body of four exceed, and a header    *)
(* and a body may share.                                                       *)
EXTENDS HttpReader
=============================================================================
