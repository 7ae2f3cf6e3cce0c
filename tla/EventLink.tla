----------------------------- MODULE EventLink -----------------------------
(***************************************************************************)
(* What the encrypted connection under a session promises to its two ends: *)
(* once an end has a session it may send events and is handed the other's, *)
(* each once and in the order they were sent; when it is over it does      *)
(* neither any more.  It does not promise that everything sent is handed   *)
(* over: either end may be over at any time.  A link that repeats bytes is *)
(* broken for the end that reads them, which may then be handed anything.  *)
(***************************************************************************)
EXTENDS Integers, Sequences

CONSTANTS Ends, Peer(_), Messages

VARIABLES state,      \* of each end: wait, session, broken, over
          sent,       \* events each end has sent
          delivered   \* events each end was handed

lvars == <<state, sent, delivered>>

LinkInit ==
    /\ state = [e \in Ends |-> "wait"]
    /\ sent = [e \in Ends |-> <<>>] /\ delivered = [e \in Ends |-> <<>>]

\* An end enters its session, is cut off from the other, or is over for good.
Enter(e) ==
    /\ \/ state[e] = "wait" /\ state' = [state EXCEPT ![e] = "session"]
       \/ state[e] \in {"wait", "session"} /\ state' = [state EXCEPT ![e] = "broken"]
       \/ state[e] # "over" /\ state' = [state EXCEPT ![e] = "over"]
    /\ UNCHANGED <<sent, delivered>>

Emit(e) ==
    /\ state[e] \in {"session", "broken"}
    /\ \E m \in Messages : sent' = [sent EXCEPT ![e] = Append(@, m)]
    /\ UNCHANGED <<state, delivered>>

\* The first of the other's events that was not handed over yet.
Hand(e) ==
    /\ state[e] = "session" /\ Len(delivered[e]) < Len(sent[Peer(e)])
    /\ delivered' = [delivered EXCEPT ![e] = Append(@, sent[Peer(e)][Len(@) + 1])]
    /\ UNCHANGED <<state, sent>>

\* A broken end is handed something.
HandAny(e) ==
    /\ state[e] = "broken"
    /\ \A o \in Ends \ {e} : delivered'[o] = delivered[o]
    /\ UNCHANGED <<state, sent>>

LinkNext == \E e \in Ends : Enter(e) \/ Emit(e) \/ Hand(e) \/ HandAny(e)

LinkSpec == LinkInit /\ [][LinkNext]_lvars
=============================================================================
