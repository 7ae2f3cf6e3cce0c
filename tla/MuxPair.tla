------------------------------- MODULE MuxPair -------------------------------
(***************************************************************************)
(* The two ends of one session and the connection between them              *)
(* (rmux/session.rs and rmux/stream.rs at both ends).  At each end          *)
(* handle_event is the one coroutine that takes what the relays write and   *)
(* what the connection brings, and it waits for room in the send queue; the *)
(* two ends can so wait for each other.  Frames carry no payload; windows   *)
(* are counted in frames.  The coroutines' own ending is in MuxSession, the *)
(* bytes of a stream in MuxStream: here a session that ends does so at once *)
(* but for the write that handle_send is in.                                *)
(***************************************************************************)
EXTENDS Integers, Sequences, SequencesExt, FiniteSetsExt

CONSTANTS
    Streams,     \* streams, all established when the model starts
    EvCap,       \* event queue, mpsc::channel(16)
    SendCap,     \* send queue, mpsc::channel(16)
    VBufMax,     \* frames gathered for one write, 60
    NetCap,      \* frames the connection holds each way (socket buffers)
    DataCap,     \* data queue of a stream, mpsc::channel(16)
    Report,      \* frames read before the window is reported, 32 KiB
    Scopes       \* what is explored, see `scope`

ASSUME PairAssumption ==
    /\ IsFiniteSet(Streams)
    /\ EvCap \in Nat \ {0} /\ SendCap \in Nat \ {0} /\ VBufMax \in Nat \ {0}
    /\ NetCap \in Nat \ {0} /\ DataCap \in Nat \ {0}
    /\ Report \in Nat \ {0}
    /\ Scopes \subseteq [window : Nat, writers : SUBSET {"client", "server"},
                         closing : SUBSET {"client", "server"}, retires : BOOLEAN, pings : Nat]

VARIABLES
    scope,       \* frames in the initial send window, 128 KiB; the ends whose
                 \* relays have something to write; those whose relays may end by
                 \* themselves; whether the client's session may get too old;
                 \* and a bound on the runs of the routine
    evq,         \* event queue of each end
    epc,         \* handle_event: recv, forward, offer
    eheld,       \* the frame it forwards or offers
    sendq,       \* send queue of each end
    vbuf,        \* what handle_send is writing
    net,         \* what each end wrote and the other has not read
    rheld,       \* what handle_recv waits to queue
    streams,     \* the map of handle_event
    relay,       \* the relay of each stream: open, closed (its flag is set),
                 \* deaf (data_rx is closed too), over
    dq,          \* buffers in the data queue of each stream
    credit,      \* send_buf_window
    unreported,  \* recv_buf_size
    life,        \* each session: run, closing, over
    retired,     \* the client's session is retired
    pings,       \* runs of the routine
    due,         \* events the routine has still to send to the client's session
    owed,        \* frames each relay wrote that the other end's stream was not offered
    finLost      \* a FIN did not fit into the event queue

queues == <<evq, epc, eheld, sendq, vbuf, net, rheld>>
tables == <<streams, relay, dq, credit, unreported>>
counts == <<scope, retired, pings, due, owed>>
vars == <<queues, tables, life, counts, finLost>>

Window == scope.window
Writers == scope.writers
Closing == scope.closing

Ends == {"client", "server"}
Other(e) == IF e = "client" THEN "server" ELSE "client"

Ev(k, s, n, isRemote) == [k |-> k, s |-> s, n |-> n, remote |-> isRemote]
Local(k, s) == Ev(k, s, 0, FALSE)
Event == [k : {"DATA", "WIN", "FIN", "PING", "PONG", "ROUTINE"}, s : Streams \cup {0},
          n : Nat, remote : BOOLEAN]
Nothing == Local("ROUTINE", 0)

PerStream(v) == [e \in Ends |-> [s \in Streams |-> v]]

Init ==
    /\ scope \in Scopes
    /\ evq = [e \in Ends |-> <<>>] /\ epc = [e \in Ends |-> "recv"]
    /\ eheld = [e \in Ends |-> Nothing] /\ sendq = [e \in Ends |-> <<>>]
    /\ vbuf = [e \in Ends |-> <<>>] /\ net = [e \in Ends |-> <<>>]
    /\ rheld = [e \in Ends |-> <<>>] /\ streams = [e \in Ends |-> Streams]
    /\ relay = PerStream("open") /\ dq = PerStream(0) /\ credit = PerStream(Window)
    /\ unreported = PerStream(0) /\ life = [e \in Ends |-> "run"]
    /\ retired = FALSE /\ pings = 0 /\ due = <<>> /\ owed = PerStream(0)
    /\ finLost = PerStream(FALSE)

-----------------------------------------------------------------------------
(* The relays.                                                              *)

EvRoom(e) == Len(evq[e]) < EvCap

\* Mutant: the send window is not looked at.
MayWrite_NoWindow(e, s) == TRUE

\* send_buf_window.load() < 0 is what makes poll_write wait.
MayWrite(e, s) == credit[e][s] >= 0

\* poll_write of a stream.
AppWrite(e, s) ==
    /\ life[e] = "run" /\ relay[e][s] = "open" /\ MayWrite(e, s) /\ EvRoom(e)
    /\ e \in Writers
    /\ evq' = [evq EXCEPT ![e] = Append(@, Local("DATA", s))]
    /\ credit' = [credit EXCEPT ![e][s] = @ - 1]
    /\ owed' = [owed EXCEPT ![e][s] = @ + 1]
    /\ UNCHANGED <<epc, eheld, sendq, vbuf, net, rheld, streams, relay, dq, unreported,
                   life, scope, retired, pings, due, finLost>>

\* poll_read of a stream: a buffer is taken and, with Report or more of them, the
\* window is reported.  report_update_window has no room for its event, or does
\* not find a retired session and says that it did.
AppRead(e, s) ==
    LET n == unreported[e][s] + 1
        found == ~(e = "client" /\ retired)
        done == n >= Report /\ (found => EvRoom(e))
    IN /\ relay[e][s] = "open" /\ dq[e][s] > 0
       /\ dq' = [dq EXCEPT ![e][s] = @ - 1]
       /\ unreported' = [unreported EXCEPT ![e][s] = IF done THEN 0 ELSE n]
       /\ evq' = IF done /\ found
                 THEN [evq EXCEPT ![e] = Append(@, Ev("WIN", s, n, FALSE))] ELSE evq
       /\ UNCHANGED <<epc, eheld, sendq, vbuf, net, rheld, streams, relay, credit,
                      life, counts, finLost>>

\* The writing half ends: poll_shutdown sets the flag and sends nothing.
AppShutdown(e, s) ==
    /\ e \in Closing /\ relay[e][s] = "open"
    /\ relay' = [relay EXCEPT ![e][s] = "closed"]
    /\ UNCHANGED <<queues, streams, dq, credit, unreported, life, counts, finLost>>

\* poll_read of a closed stream closes data_rx.
AppReadClosed(e, s) ==
    /\ relay[e][s] = "closed"
    /\ relay' = [relay EXCEPT ![e][s] = "deaf"]
    /\ UNCHANGED <<queues, streams, dq, credit, unreported, life, counts, finLost>>

\* What close() does to the event queue q of end e: a FIN by try_send.
Fin(e, s, q) == IF Len(q) < EvCap THEN Append(q, Local("FIN", s)) ELSE q
FinLost(e, s, q) == [finLost EXCEPT ![e][s] = @ \/ Len(q) >= EvCap]

\* Both halves of the relay are over: close().
AppEnds(e, s) ==
    /\ relay[e][s] = "deaf"
    /\ relay' = [relay EXCEPT ![e][s] = "over"]
    /\ IF life[e] = "run"
       THEN evq' = [evq EXCEPT ![e] = Fin(e, s, @)] /\ finLost' = FinLost(e, s, evq[e])
       ELSE UNCHANGED <<evq, finLost>>
    /\ UNCHANGED <<epc, eheld, sendq, vbuf, net, rheld, streams, dq, credit, unreported,
                   life, counts>>

-----------------------------------------------------------------------------
(* The session of an end is over: process_event breaks, and so do the others. *)

\* process_event after its loop: the streams are closed, the queue is dropped;
\* handle_send may still be in a write.
Break(e) ==
    /\ life' = [life EXCEPT ![e] = IF vbuf[e] = <<>> THEN "over" ELSE "closing"]
    /\ streams' = [streams EXCEPT ![e] = {}]
    /\ relay' = [relay EXCEPT ![e] = [s \in Streams |->
                    IF s \in streams[e] /\ @[s] = "open" THEN "closed" ELSE @[s]]]
    /\ evq' = [evq EXCEPT ![e] = <<>>] /\ sendq' = [sendq EXCEPT ![e] = <<>>]
    /\ epc' = [epc EXCEPT ![e] = "recv"] /\ eheld' = [eheld EXCEPT ![e] = Nothing]
    /\ rheld' = [rheld EXCEPT ![e] = <<>>]

\* The other end has closed: what it wrote is read to its end, or is lost with a
\* reset of the connection.
ConnectionEnds(e) ==
    /\ life[e] = "run" /\ life[Other(e)] = "over" /\ rheld[e] = <<>>
    /\ Break(e)
    /\ net' = [net EXCEPT ![Other(e)] = <<>>]
    /\ UNCHANGED <<vbuf, dq, credit, unreported, counts, finLost>>

-----------------------------------------------------------------------------
(* handle_event.                                                            *)

Taken(e, k, isRemote) ==
    /\ life[e] = "run" /\ epc[e] = "recv" /\ evq[e] # <<>>
    /\ Head(evq[e]).k = k /\ Head(evq[e]).remote = isRemote

Rest(e) == [evq EXCEPT ![e] = Tail(@)]

Forward(e, f) == epc' = [epc EXCEPT ![e] = "forward"] /\ eheld' = [eheld EXCEPT ![e] = f]

\* Local DATA, WIN_UPDATE and PING are sent on; a PING of the other end is answered.
EvSend(e) ==
    /\ \E k \in {"DATA", "WIN", "PING"} : Taken(e, k, FALSE)
    /\ Forward(e, Head(evq[e])) /\ evq' = Rest(e)
    /\ UNCHANGED <<sendq, vbuf, net, rheld, tables, life, counts, finLost>>

EvPing(e) ==
    /\ Taken(e, "PING", TRUE)
    /\ Forward(e, Local("PONG", 0)) /\ evq' = Rest(e)
    /\ UNCHANGED <<sendq, vbuf, net, rheld, tables, life, counts, finLost>>

EvPong(e) ==
    /\ Taken(e, "PONG", TRUE)
    /\ evq' = Rest(e)
    /\ UNCHANGED <<epc, eheld, sendq, vbuf, net, rheld, tables, life, counts, finLost>>

\* WIN_UPDATE of the other end.
EvWin(e) ==
    /\ Taken(e, "WIN", TRUE)
    /\ LET ev == Head(evq[e]) IN
       credit' = IF ev.s \in streams[e] THEN [credit EXCEPT ![e][ev.s] = @ + ev.n] ELSE credit
    /\ evq' = Rest(e)
    /\ UNCHANGED <<epc, eheld, sendq, vbuf, net, rheld, streams, relay, dq, unreported,
                   life, counts, finLost>>

\* Mutant: the event is taken for handled.
FinForwards_Never(isRemote) == FALSE

\* A FIN of this end is sent on, whether its stream was in the map or not.
FinForwards(isRemote) == ~isRemote

\* handle_fin_event for a FIN of either side; a local one is then sent on, unless
\* it was the last stream of a retired session.
EvFin(e, isRemote) ==
    /\ Taken(e, "FIN", isRemote)
    /\ LET s == Head(evq[e]).s
           known == s \in streams[e]
           m == streams[e] \ {s}
       IN IF e = "client" /\ retired /\ m = {}
          THEN Break(e) /\ UNCHANGED <<dq, finLost>>
          ELSE /\ streams' = [streams EXCEPT ![e] = m]
               /\ relay' = IF known /\ relay[e][s] = "open"
                           THEN [relay EXCEPT ![e][s] = "closed"] ELSE relay
               /\ dq' = IF known /\ relay[e][s] \in {"open", "closed"} /\ dq[e][s] < DataCap
                        THEN [dq EXCEPT ![e][s] = @ + 1] ELSE dq
               /\ evq' = IF known THEN [evq EXCEPT ![e] = Fin(e, s, Tail(@))] ELSE Rest(e)
               /\ finLost' = IF known THEN FinLost(e, s, Tail(evq[e])) ELSE finLost
               /\ IF FinForwards(isRemote) THEN Forward(e, Head(evq[e])) ELSE UNCHANGED <<epc, eheld>>
               /\ UNCHANGED <<life, sendq, rheld>>
    /\ UNCHANGED <<vbuf, net, credit, unreported, counts>>

\* handle_routine_event of a retired session without streams.
EvRoutine(e) ==
    /\ Taken(e, "ROUTINE", FALSE)
    /\ IF e = "client" /\ retired /\ streams[e] = {}
       THEN Break(e)
       ELSE evq' = Rest(e) /\ UNCHANGED <<epc, eheld, sendq, rheld, streams, relay, life>>
    /\ UNCHANGED <<vbuf, net, dq, credit, unreported, counts, finLost>>

\* DATA of the other end: offered to a stream of the map, else dropped.
EvData(e) ==
    /\ Taken(e, "DATA", TRUE)
    /\ evq' = Rest(e)
    /\ IF Head(evq[e]).s \in streams[e]
       THEN epc' = [epc EXCEPT ![e] = "offer"] /\ eheld' = [eheld EXCEPT ![e] = Head(evq[e])]
       ELSE UNCHANGED <<epc, eheld>>
    /\ UNCHANGED <<sendq, vbuf, net, rheld, tables, life, counts, finLost>>

\* offer_data returns: queued, or dropped when data_rx is closed.
EvOffered(e) ==
    /\ epc[e] = "offer"
    /\ LET s == eheld[e].s
           rx == relay[e][s] \in {"open", "closed"}
       IN /\ rx => dq[e][s] < DataCap
          /\ dq' = IF rx THEN [dq EXCEPT ![e][s] = @ + 1] ELSE dq
          /\ owed' = IF rx THEN [owed EXCEPT ![Other(e)][s] = @ - 1] ELSE owed
    /\ epc' = [epc EXCEPT ![e] = "recv"] /\ eheld' = [eheld EXCEPT ![e] = Nothing]
    /\ UNCHANGED <<evq, sendq, vbuf, net, rheld, streams, relay, credit, unreported, life,
                   scope, retired, pings, due, finLost>>

\* send_local_event returns.
EvForwarded(e) ==
    /\ epc[e] = "forward" /\ Len(sendq[e]) < SendCap
    /\ sendq' = [sendq EXCEPT ![e] = Append(@, eheld[e])]
    /\ epc' = [epc EXCEPT ![e] = "recv"] /\ eheld' = [eheld EXCEPT ![e] = Nothing]
    /\ UNCHANGED <<evq, vbuf, net, rheld, tables, life, counts, finLost>>

-----------------------------------------------------------------------------
(* handle_send, handle_recv and the routine.                                *)

\* The frames moved from the send queue to v, as many as there is room for.
Gathered(e, v) == SubSeq(sendq[e], 1, Min({Len(sendq[e]), VBufMax - Len(v)}))

Gather(e, v) ==
    /\ vbuf' = [vbuf EXCEPT ![e] = v \o Gathered(e, v)]
    /\ sendq' = [sendq EXCEPT ![e] = SubSeq(@, Len(Gathered(e, v)) + 1, Len(@))]

SendRecv(e) ==
    /\ life[e] = "run" /\ vbuf[e] = <<>> /\ sendq[e] # <<>>
    /\ Gather(e, <<>>)
    /\ UNCHANGED <<evq, epc, eheld, net, rheld, tables, life, counts, finLost>>

\* Mutant: handle_send waits until it has all it can gather.
MayFlush_Full(e) == Len(vbuf[e]) = VBufMax

\* handle_send writes what it has.
MayFlush(e) == vbuf[e] # <<>>

\* write_buf returns when the connection had room for n frames.  A session that
\* is closing ends here, and what is left is dropped.
SendWritten(e) ==
    /\ MayFlush(e) /\ life[e] # "over"
    /\ \E n \in 1 .. Min({Len(vbuf[e]), NetCap - Len(net[e])}) :
       /\ net' = [net EXCEPT ![e] = @ \o SubSeq(vbuf[e], 1, n)]
       /\ IF life[e] = "run"
          THEN Gather(e, SubSeq(vbuf[e], n + 1, Len(vbuf[e]))) /\ UNCHANGED life
          ELSE /\ vbuf' = [vbuf EXCEPT ![e] = <<>>] /\ life' = [life EXCEPT ![e] = "over"]
               /\ UNCHANGED sendq
    /\ UNCHANGED <<evq, epc, eheld, rheld, tables, counts, finLost>>

\* A write to a connection the other end has closed fails.
SendFails(e) ==
    /\ vbuf[e] # <<>> /\ life[Other(e)] = "over" /\ life[e] # "over"
    /\ IF life[e] = "run"
       THEN Break(e) /\ UNCHANGED vbuf
       ELSE /\ vbuf' = [vbuf EXCEPT ![e] = <<>>] /\ life' = [life EXCEPT ![e] = "over"]
            /\ UNCHANGED <<streams, relay, evq, sendq, epc, eheld, rheld>>
    /\ UNCHANGED <<net, dq, credit, unreported, counts, finLost>>

\* read_encrypt_event returns a frame.
RecvFrame(e) ==
    /\ life[e] = "run" /\ rheld[e] = <<>> /\ net[Other(e)] # <<>>
    /\ rheld' = [rheld EXCEPT ![e] = <<[Head(net[Other(e)]) EXCEPT !.remote = TRUE]>>]
    /\ net' = [net EXCEPT ![Other(e)] = Tail(@)]
    /\ UNCHANGED <<evq, epc, eheld, sendq, vbuf, tables, life, counts, finLost>>

\* Mutant: a received event is queued by try_send.
PushRoom_Try(e) == TRUE

PushRoom(e) == EvRoom(e)

\* handle_recv_event_tx.send(ev).await returns.
RecvPush(e) ==
    /\ rheld[e] # <<>> /\ PushRoom(e)
    /\ evq' = IF EvRoom(e) THEN [evq EXCEPT ![e] = @ \o rheld[e]] ELSE evq
    /\ rheld' = [rheld EXCEPT ![e] = <<>>]
    /\ UNCHANGED <<epc, eheld, sendq, vbuf, net, tables, life, counts, finLost>>

\* The client's routine: a session in `channels` gets a PING and a ROUTINE, and is
\* retired when it is old; one that was retired before gets a ROUTINE.
Routine ==
    /\ life["client"] = "run" /\ due = <<>> /\ pings < scope.pings
    /\ pings' = pings + 1
    /\ retired' \in {retired, scope.retires}
    /\ due' = IF retired THEN <<"ROUTINE">> ELSE <<"PING", "ROUTINE">>
    /\ UNCHANGED <<queues, tables, life, scope, owed, finLost>>

\* Its sends follow outside of the lock, one after the other; a session that is
\* over refuses them.
RoutineSend ==
    /\ due # <<>> /\ due' = Tail(due)
    /\ IF life["client"] = "run"
       THEN EvRoom("client") /\ evq' = [evq EXCEPT !["client"] = Append(@, Local(Head(due), 0))]
       ELSE UNCHANGED evq
    /\ UNCHANGED <<epc, eheld, sendq, vbuf, net, rheld, tables, life, scope, retired, pings,
                   owed, finLost>>

-----------------------------------------------------------------------------
Handle(e) ==
    \/ EvSend(e) \/ EvPing(e) \/ EvPong(e) \/ EvWin(e) \/ EvFin(e, TRUE) \/ EvFin(e, FALSE)
    \/ EvRoutine(e) \/ EvData(e) \/ EvOffered(e) \/ EvForwarded(e)
Send(e) == SendRecv(e) \/ SendWritten(e) \/ SendFails(e)
Recv(e) == RecvFrame(e) \/ RecvPush(e) \/ ConnectionEnds(e)
App(e, s) ==
    AppWrite(e, s) \/ AppRead(e, s) \/ AppShutdown(e, s) \/ AppReadClosed(e, s) \/ AppEnds(e, s)

Next == Routine \/ RoutineSend \/ \E e \in Ends : Handle(e) \/ Send(e) \/ Recv(e) \/ \E s \in Streams : App(e, s)

Spec == Init /\ [][Next]_vars

\* The coroutines are polled when their awaits return, and a relay reads what is
\* there: its local socket takes it.  Nothing says that a relay writes or ends.
Fairness ==
    \A e \in Ends :
       /\ WF_vars(Handle(e)) /\ WF_vars(Send(e)) /\ WF_vars(Recv(e))
       /\ \A s \in Streams :
             WF_vars(AppRead(e, s)) /\ WF_vars(dq[e][s] > 0 /\ AppReadClosed(e, s))

FairSpec == Spec /\ Fairness

-----------------------------------------------------------------------------
(* Properties.                                                              *)

\* The variables have their types and the queues their capacity.
TypeOK ==
    /\ \A e \in Ends :
          /\ evq[e] \in Seq(Event) /\ Len(evq[e]) <= EvCap
          /\ sendq[e] \in Seq(Event) /\ Len(sendq[e]) <= SendCap
          /\ vbuf[e] \in Seq(Event) /\ Len(vbuf[e]) <= VBufMax
          /\ net[e] \in Seq(Event) /\ Len(net[e]) <= NetCap
          /\ rheld[e] \in Seq(Event) /\ Len(rheld[e]) <= 1
          /\ epc[e] \in {"recv", "forward", "offer"} /\ eheld[e] \in Event
          /\ streams[e] \subseteq Streams /\ life[e] \in {"run", "closing", "over"}
          /\ \A s \in Streams :
                /\ relay[e][s] \in {"open", "closed", "deaf", "over"}
                /\ dq[e][s] \in 0 .. DataCap /\ credit[e][s] \in -1 .. Window
                /\ unreported[e][s] \in 0 .. Window + 1 /\ owed[e][s] \in 0 .. Window + 1
                /\ finLost[e][s] \in BOOLEAN
    /\ scope \in Scopes /\ retired \in BOOLEAN /\ pings \in 0 .. scope.pings /\ Len(due) <= 2

\* Each end waits for the other: its handle_event for room in the send queue, its
\* handle_send for room in the connection, its handle_recv for room in the event
\* queue that its handle_event does not empty.
Gridlock ==
    \A e \in Ends :
       /\ life[e] = "run" /\ epc[e] = "forward" /\ Len(sendq[e]) = SendCap
       /\ vbuf[e] # <<>> /\ Len(net[e]) = NetCap
       /\ rheld[e] # <<>> /\ Len(evq[e]) = EvCap

\* Frames that have to exist at once for a gridlock, and frames that can: a window
\* of each stream, less what its updates stand for, and the ones without a window.
Needed == 2 * (EvCap + SendCap + NetCap + 3)
Possible(sc) == Cardinality(sc.writers) * Cardinality(Streams) * (sc.window + 1)
                + 2 * sc.pings + 4 * Cardinality(sc.closing) * Cardinality(Streams)
Tight == {sc \in Scopes : Possible(sc) >= Needed}

\* The two ends wait for each other only if the windows of all streams together
\* exceed the queues on the way: the updates of the windows, which take the same
\* way as the data and wait behind it, add nothing to that.
GridlockNeedsWindow == Gridlock => scope \in Tight

\* Where the DATA frames of stream s are in q.
DataIn(q, s, isRemote) == {i \in DOMAIN q : q[i].k = "DATA" /\ q[i].s = s /\ q[i].remote = isRemote}

\* DATA frames of stream s on the way from e to the other end.
OnTheWay(e, s) ==
    LET own == evq[e] \o <<eheld[e]>> \o sendq[e] \o vbuf[e] \o net[e]
        others == rheld[Other(e)] \o evq[Other(e)] \o <<eheld[Other(e)]>>
    IN Cardinality(DataIn(own, s, FALSE)) + Cardinality(DataIn(others, s, TRUE))

\* The queues keep their types and capacity, and what a relay wrote is offered to
\* the other end's stream or is on the way to it, unless that stream was closed.
\* The one exception is a retired session, which ends with its last stream and
\* drops what it had still to send.
LossHasCause ==
    /\ TypeOK
    /\ \A e \in Ends, s \in Streams :
          owed[e][s] > OnTheWay(e, s) =>
              relay[Other(e)][s] # "open" \/ retired

\* Frames a relay wrote keep being offered to the stream at the other end, also
\* while it writes more, unless that stream was closed and as long as the
\* windows rule out a gridlock.
WrittenArrives ==
    \A e \in Ends, s \in Streams :
        \/ []<>(owed[e][s] = 0 \/ relay[Other(e)][s] # "open" \/ scope \in Tight)
        \/ []<><<owed'[e][s] < owed[e][s]>>_vars

\* When the relay of one end is over, the stream is closed at the other end too,
\* by its FIN or with the session; unless the FIN did not fit into the queue.
CloseReaches ==
    \A e \in Ends, s \in Streams :
        relay[e][s] = "over" ~>
            (relay[Other(e)][s] # "open" \/ finLost[e][s] \/ scope \in Tight)
=============================================================================
