----------------------------- MODULE MCMuxPair -----------------------------
(* MuxPair for model checking: streams are numbers, as their ids are.  Both    *)
(* ends write as much as their windows allow; or one does, while the client's *)
(* relay ends and its session retires, or while the relays of both ends end.   *)
EXTENDS MuxPair

BothWrite == [window |-> 2, writers |-> {"client", "server"}, closing |-> {},
              retires |-> FALSE, pings |-> 0]
Retires == [window |-> 1, writers |-> {"client"}, closing |-> {"client"},
            retires |-> TRUE, pings |-> 1]
BothClose == [window |-> 1, writers |-> {"server"}, closing |-> {"client", "server"},
              retires |-> FALSE, pings |-> 0]
PairScopes == {BothWrite, Retires, BothClose}
=============================================================================
