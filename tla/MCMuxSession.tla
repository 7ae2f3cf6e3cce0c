---------------------------- MODULE MCMuxSession ----------------------------
(***************************************************************************)
(* Model-checking instance of MuxSession.  The streams are interchangeable *)
(* to the code, so the safety run uses their permutations as a symmetry.   *)
(* A server hears of its streams from the other end, and so needs more     *)
(* frames of it than a client; a late heartbeat takes three runs of the    *)
(* routine, on a session without streams.                                  *)
(***************************************************************************)
EXTENDS MuxSession, TLC

StreamSymmetry == Permutations(Streams)

Client(S, frames, runs) ==
    [client |-> TRUE, streams |-> S, remote |-> frames, ticks |-> runs]
Server(S, frames, runs) ==
    [client |-> FALSE, streams |-> S, remote |-> frames, ticks |-> runs]

SafeScopes == {Client(Streams, 0, 1), Server(Streams, 3, 1)}
LiveScopes == {Client(Streams, 1, 1), Server(Streams, 3, 1), Client({}, 2, 3)}
=============================================================================
