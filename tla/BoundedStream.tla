--------------------------- MODULE BoundedStream ---------------------------
(***************************************************************************)
(* What one direction of a multiplexed stream promises to its two relays:  *)
(* bytes come out in the number and order they went in, at most Bound of   *)
(* them are in between, and once the reading end is closed nothing more    *)
(* comes out.  It does not promise that everything comes out.              *)
(***************************************************************************)
EXTENDS Integers

CONSTANT Bound

VARIABLES sent,   \* bytes accepted from the writing relay
          got,    \* bytes handed to the reading relay
          open    \* the reading end still hands out bytes

pvars == <<sent, got, open>>

PipeInit == sent = 0 /\ got = 0 /\ open = TRUE

\* The writing relay's buffer is accepted whole or not at all.
Accept ==
    /\ sent' > sent
    /\ sent' - got <= Bound
    /\ UNCHANGED <<got, open>>

\* The reading relay is handed bytes that were accepted.
HandOver ==
    /\ open
    /\ got' > got
    /\ got' <= sent
    /\ UNCHANGED <<sent, open>>

\* The reading end closes, for good.
Close ==
    /\ open
    /\ open' = FALSE
    /\ UNCHANGED <<sent, got>>

PipeNext == Accept \/ HandOver \/ Close

PipeSpec == PipeInit /\ [][PipeNext]_pvars
=============================================================================
