----------------------------- MODULE MuxSession -----------------------------
(***************************************************************************)
(* One end of a multiplexed session (process_rmux_session in               *)
(* rmux/session.rs): the coroutines handle_recv, handle_event and          *)
(* handle_send, joined in one task, so that each step below is what one of *)
(* them does between two awaits.  Around them: the relay tasks of the      *)
(* streams, the routine task, the connection and the other end, which run  *)
(* at any time.                                                            *)
(*                                                                         *)
(* Frames have a kind and a stream and no payload.  WIN_UPDATE is left to  *)
(* module MuxStream: here a local one would be passed on as DATA is, and a *)
(* remote one would change nothing.  Time is left out: a PING may be late, *)
(* a session old or idle, whenever it has done what that presupposes.      *)
(***************************************************************************)
EXTENDS Integers, Sequences, SequencesExt

CONSTANTS
    Streams,     \* streams that may exist in the session
    NoStream,    \* stream id 0 of the events of the session itself
    Scopes,      \* the ends explored, each with its bounds
    EvCap,       \* event queue, mpsc::channel(16)
    SendCap,     \* send queue, mpsc::channel(16)
    VBufMax,     \* frames handle_send gathers for one write, 60
    DataCap,     \* data queue of a stream, mpsc::channel(16)
    MaxWrites    \* bound on the writes of a stream's relay

ASSUME SessionAssumption ==
    /\ NoStream \notin Streams
    /\ Scopes \subseteq [client : BOOLEAN, streams : SUBSET Streams, remote : Nat, ticks : Nat]
    /\ EvCap \in Nat \ {0} /\ SendCap \in Nat \ {0} /\ VBufMax \in Nat \ {0}
    /\ DataCap \in Nat \ {0}
    /\ MaxWrites \in Nat

VARIABLES
    scope,       \* the end at hand, and bounds on the streams it may have, the
                 \* frames of the other end and the runs of routine_all_sessions
    closed,      \* MuxSessionState.closed
    retired,     \* MuxSessionState.retired
    listed,      \* the session is in `channels` (not in `retired`, not erased)
    evq,         \* event queue: event_tx -> event_rx
    evOpen,      \* event_rx is not closed
    sendq,       \* send queue: send_tx -> send_rx
    sendOpen,    \* send_rx is not closed
    vbuf,        \* frames being written to the connection
    dropped,     \* close_tx.send(()) is done
    ioActive,    \* io_active_unix_secs is not 0
    rpc, rheld,  \* handle_recv: where it waits, the event it wants to queue
    epc, eheld,  \* handle_event: where it waits, the frame it wants to queue
    spc,         \* handle_send: where it waits
    streams,     \* the map of handle_event
    pending,     \* MuxSession.pendding_streams
    app,         \* where the relay task of each stream is
    sclosed,     \* MuxStreamState.closed of each stream
    rx,          \* data_rx of each stream exists and is not closed
    dq,          \* number of buffers in the data queue of each stream
    wrote,       \* writes of each stream's relay
    peer,        \* what the other end knows of each stream
    pong,        \* never: no PONG came; fresh: no PING since the last; late
    todo,        \* events routine_all_sessions has still to send here
    remote,      \* frames received so far
    ticks        \* runs of the routine so far

coroutines == <<rpc, rheld, epc, eheld, spc>>
flags == <<closed, retired, listed, evOpen, sendOpen, dropped, ioActive>>
tables == <<streams, pending, app, sclosed, rx, dq, wrote>>
env == <<scope, peer, pong, todo, remote, ticks>>
vars == <<flags, evq, sendq, vbuf, coroutines, tables, env>>

\* The channel name is not empty: streams are opened here, and the session is
\* pinged and retired; else they are accepted.
client == scope.client

Kinds == {"SYN", "FIN", "DATA", "PING", "PONG", "SHUTDOWN", "ROUTINE"}
Event == [k : Kinds, s : Streams \cup {NoStream}, remote : BOOLEAN]
Local(k, s) == [k |-> k, s |-> s, remote |-> FALSE]
Remote(k, s) == [k |-> k, s |-> s, remote |-> TRUE]
None == Local("SHUTDOWN", NoStream)   \* fills rheld and eheld when idle

\* The empty Vec that ends handle_send.
Marker == Local("ROUTINE", NoStream)

\* none: not created; syn: create_stream waits to queue the SYN; connect: the
\* accepting end connects to the target; open: relaying; deaf: the reading half
\* of the relay is over; failed: the target refused, the stream was closed and
\* never split; closed: relay over.
AppStates == {"none", "syn", "connect", "open", "deaf", "failed", "closed"}

Init ==
    /\ scope \in Scopes
    /\ closed = FALSE /\ retired = FALSE /\ listed = TRUE
    /\ evq = <<>> /\ evOpen = TRUE /\ sendq = <<>> /\ sendOpen = TRUE
    /\ vbuf = <<>> /\ dropped = FALSE /\ ioActive = FALSE
    /\ rpc = "read" /\ rheld = None /\ epc = "recv" /\ eheld = None /\ spc = "recv"
    /\ streams = {} /\ pending = {}
    /\ app = [s \in Streams |-> "none"]
    /\ sclosed = [s \in Streams |-> FALSE]
    /\ rx = [s \in Streams |-> FALSE]
    /\ dq = [s \in Streams |-> 0]
    /\ wrote = [s \in Streams |-> 0]
    /\ peer = [s \in Streams |-> "none"]
    /\ pong = "never" /\ todo = <<>> /\ remote = 0 /\ ticks = 0

\* join3 has all three results; erase_mux_session has run.
Ended == rpc = "done" /\ epc = "done" /\ spc = "done"

\* event_tx.try_send: lost without a trace when the queue is full.
TrySend(q, ev) == IF Len(q) < EvCap THEN Append(q, ev) ELSE q

\* event_tx.send(ev).await returns: queued, or an error when event_rx is closed.
SendEvent(ev) ==
    /\ evOpen => Len(evq) < EvCap
    /\ evq' = IF evOpen THEN Append(evq, ev) ELSE evq

\* send_tx.send(f).await returns.
SendFrame(f) ==
    /\ sendOpen => Len(sendq) < SendCap
    /\ sendq' = IF sendOpen THEN Append(sendq, f) ELSE sendq

-----------------------------------------------------------------------------
(* handle_recv                                                              *)

\* The end of the loop: set the flag, then two sends, each waited for.
RecvExit == closed' = TRUE /\ rpc' = "shutEvent"

\* The next turn of `while !closed`.
RecvLoop == IF closed THEN RecvExit ELSE rpc' = "read" /\ closed' = closed

\* What the other end may send next: it answers for streams it was told of,
\* opens streams when this end accepts them, and answers pings.
PeerFrames ==
    {Remote("DATA", s) : s \in {t \in Streams : peer[t] = "open"}}
    \cup {Remote("FIN", s) : s \in {t \in Streams : peer[t] = "open"}}
    \cup (IF client THEN (IF ticks > 0 THEN {Remote("PONG", NoStream)} ELSE {})
          ELSE {Remote("SYN", s) : s \in {t \in scope.streams : peer[t] = "none"}}
               \cup {Remote("PING", NoStream)})

\* read_encrypt_event returns a frame of the other end.
RecvFrame ==
    /\ rpc = "read" /\ remote < scope.remote
    /\ \E ev \in PeerFrames :
          /\ rheld' = ev
          /\ peer' = IF ev.k = "SYN" THEN [peer EXCEPT ![ev.s] = "open"]
                     ELSE IF ev.k = "FIN" THEN [peer EXCEPT ![ev.s] = "fin"]
                     ELSE peer
    /\ rpc' = "push" /\ ioActive' = TRUE /\ remote' = remote + 1
    /\ UNCHANGED <<closed, retired, listed, evOpen, sendOpen, dropped, evq,
                   sendq, vbuf, epc, eheld, spc, tables, scope, pong, todo, ticks>>

\* handle_recv_event_tx.send(ev).await returns; an error breaks the loop.
RecvPush ==
    /\ rpc = "push"
    /\ SendEvent(rheld)
    /\ IF evOpen THEN RecvLoop ELSE RecvExit
    /\ rheld' = None
    /\ UNCHANGED <<retired, listed, evOpen, sendOpen, dropped, ioActive, sendq,
                   vbuf, epc, eheld, spc, tables, env>>

\* The connection is at its end or fails, or handle_send sent the oneshot.
RecvStops ==
    /\ rpc = "read"
    /\ RecvExit
    /\ UNCHANGED <<retired, listed, evOpen, sendOpen, dropped, ioActive, evq,
                   sendq, vbuf, rheld, epc, eheld, spc, tables, env>>

RecvDropped == dropped /\ RecvStops

\* The shutdown event is queued or refused.
RecvShutEvent ==
    /\ rpc = "shutEvent"
    /\ SendEvent(Local("SHUTDOWN", NoStream))
    /\ rpc' = "shutSend"
    /\ UNCHANGED <<flags, sendq, vbuf, rheld, epc, eheld, spc, tables, env>>

\* The empty frame is queued or refused, and handle_recv is over.
RecvShutSend ==
    /\ rpc = "shutSend"
    /\ SendFrame(Marker)
    /\ rpc' = "done"
    /\ listed' = (listed /\ ~(epc = "done" /\ spc = "done"))
    /\ UNCHANGED <<closed, retired, evOpen, sendOpen, dropped, ioActive, evq,
                   vbuf, rheld, epc, eheld, spc, tables, env>>

-----------------------------------------------------------------------------
(* handle_event: process_event                                              *)

\* What close() puts in the data queue of a stream.
Marked(d, s) == IF rx[s] /\ d[s] < DataCap THEN d[s] + 1 ELSE d[s]

\* Mutant: the streams left in the map are dropped and not closed.
EventLoop_DropsStreams(stop, m, q, cl, d) ==
    IF stop \/ closed
    THEN /\ closed' = TRUE /\ epc' = "final" /\ eheld' = None
         /\ sclosed' = cl /\ dq' = d
         /\ streams' = {} /\ evq' = <<>> /\ evOpen' = FALSE
    ELSE /\ closed' = closed /\ epc' = "recv" /\ eheld' = None
         /\ sclosed' = cl /\ dq' = d
         /\ streams' = m /\ evq' = q /\ evOpen' = evOpen

\* Mutant: event_rx is not closed.
EventLoop_KeepsQueue(stop, m, q, cl, d) ==
    IF stop \/ closed
    THEN /\ closed' = TRUE /\ epc' = "final" /\ eheld' = None
         /\ sclosed' = [s \in Streams |-> cl[s] \/ s \in m]
         /\ dq' = [s \in Streams |-> IF s \in m THEN Marked(d, s) ELSE d[s]]
         /\ streams' = {} /\ evq' = q /\ evOpen' = evOpen
    ELSE /\ closed' = closed /\ epc' = "recv" /\ eheld' = None
         /\ sclosed' = cl /\ dq' = d
         /\ streams' = m /\ evq' = q /\ evOpen' = evOpen

\* The next turn of the loop with map m, event queue q, flags cl and data
\* queues d; or, on a break or with closed set, the end of the loop: every
\* stream left in the map is closed and event_rx is closed.
EventLoop(stop, m, q, cl, d) ==
    IF stop \/ closed
    THEN /\ closed' = TRUE /\ epc' = "final" /\ eheld' = None
         /\ sclosed' = [s \in Streams |-> cl[s] \/ s \in m]
         /\ dq' = [s \in Streams |-> IF s \in m THEN Marked(d, s) ELSE d[s]]
         /\ streams' = {} /\ evq' = <<>> /\ evOpen' = FALSE
    ELSE /\ closed' = closed /\ epc' = "recv" /\ eheld' = None
         /\ sclosed' = cl /\ dq' = d
         /\ streams' = m /\ evq' = q /\ evOpen' = evOpen

\* handle_event waits for room in the send queue with frame f in hand.
EventForward(f, m, q, cl, d) ==
    /\ epc' = "forward" /\ eheld' = f
    /\ sclosed' = cl /\ dq' = d /\ streams' = m /\ evq' = q
    /\ UNCHANGED <<closed, evOpen>>

\* The event handle_event takes from its queue.
Taken(k, isRemote) ==
    epc = "recv" /\ evq # <<>> /\ Head(evq).k = k /\ Head(evq).remote = isRemote

EventFrame == <<retired, sendOpen, dropped, ioActive, sendq, vbuf, rpc, rheld, spc,
                wrote, scope, peer, todo, remote, ticks>>

\* A local SHUTDOWN breaks the loop.
EvShutdown ==
    /\ Taken("SHUTDOWN", FALSE)
    /\ EventLoop(TRUE, streams, Tail(evq), sclosed, dq)
    /\ UNCHANGED <<EventFrame, listed, pending, app, rx, pong>>

\* A local SYN: hanle_pendding_mux_streams moves every pending stream of the
\* session to the map, if the session is found in `channels`; then forwarded.
EvSynLocal ==
    /\ Taken("SYN", FALSE)
    /\ pending' = IF listed THEN {} ELSE pending
    /\ EventForward(Head(evq), IF listed THEN streams \cup pending ELSE streams,
                    Tail(evq), sclosed, dq)
    /\ UNCHANGED <<EventFrame, listed, app, rx, pong>>

\* handle_fin_event, for a FIN of either side: the stream leaves the map and
\* is closed, which tries to queue another FIN; a retired session with no
\* stream left stops here, and a local FIN is then not forwarded.
EvFin(isRemote) ==
    /\ Taken("FIN", isRemote)
    /\ LET s == Head(evq).s
           known == s \in streams
           m == streams \ {s}
           q == IF known THEN TrySend(Tail(evq), Local("FIN", s)) ELSE Tail(evq)
           cl == IF known THEN [sclosed EXCEPT ![s] = TRUE] ELSE sclosed
           d == IF known THEN [dq EXCEPT ![s] = Marked(dq, s)] ELSE dq
       IN IF (retired /\ m = {}) \/ isRemote
          THEN EventLoop(retired /\ m = {}, m, q, cl, d)
          ELSE EventForward(Head(evq), m, q, cl, d)
    /\ UNCHANGED <<EventFrame, listed, pending, app, rx, pong>>

\* handle_routine_event: stop when retired and empty, or without I/O for 300
\* seconds; a session that never did any I/O is never idle.
EvRoutine ==
    /\ Taken("ROUTINE", FALSE)
    /\ \E idle \in {FALSE, ioActive} :
          EventLoop((retired /\ streams = {}) \/ idle, streams, Tail(evq), sclosed, dq)
    /\ UNCHANGED <<EventFrame, listed, pending, app, rx, pong>>

\* DATA of a local stream and PING of the routine are sent on as they are; the
\* time of the PING is noted.
EvSend ==
    /\ Taken("DATA", FALSE) \/ Taken("PING", FALSE)
    /\ EventForward(Head(evq), streams, Tail(evq), sclosed, dq)
    /\ pong' = IF Head(evq).k = "PING" /\ pong = "fresh" THEN "late" ELSE pong
    /\ UNCHANGED <<EventFrame, listed, pending, app, rx>>

\* A PING of the other end is answered.
EvPing ==
    /\ Taken("PING", TRUE)
    /\ EventForward(Local("PONG", NoStream), streams, Tail(evq), sclosed, dq)
    /\ UNCHANGED <<EventFrame, listed, pending, app, rx, pong>>

EvPong ==
    /\ Taken("PONG", TRUE)
    /\ pong' = "fresh"
    /\ EventLoop(FALSE, streams, Tail(evq), sclosed, dq)
    /\ UNCHANGED <<EventFrame, listed, pending, app, rx>>

\* A SYN of the other end: handle_syn creates the stream and its relay task.
EvSynRemote ==
    /\ Taken("SYN", TRUE)
    /\ LET s == Head(evq).s IN
       /\ app' = [app EXCEPT ![s] = "connect"]
       /\ rx' = [rx EXCEPT ![s] = TRUE]
       /\ EventLoop(FALSE, streams \cup {s}, Tail(evq), sclosed, dq)
    /\ UNCHANGED <<EventFrame, listed, pending, pong>>

\* DATA of the other end: offer_data on a mapped stream, else a warning.
EvData ==
    /\ Taken("DATA", TRUE)
    /\ IF Head(evq).s \in streams
       THEN /\ epc' = "offer" /\ eheld' = Head(evq) /\ evq' = Tail(evq)
            /\ UNCHANGED <<closed, sclosed, dq, streams, evOpen>>
       ELSE EventLoop(FALSE, streams, Tail(evq), sclosed, dq)
    /\ UNCHANGED <<EventFrame, listed, pending, app, rx, pong>>

\* offer_data returns: queued, or dropped when the receiver is closed.
EvOffered ==
    /\ epc = "offer"
    /\ LET s == eheld.s IN
       /\ rx[s] => dq[s] < DataCap
       /\ EventLoop(FALSE, streams, evq, sclosed,
                    IF rx[s] THEN [dq EXCEPT ![s] = @ + 1] ELSE dq)
    /\ UNCHANGED <<EventFrame, listed, pending, app, rx, pong>>

\* send_local_event returns; an error breaks the loop.
EvForwarded ==
    /\ epc = "forward"
    /\ SendFrame(eheld)
    /\ EventLoop(~sendOpen, streams, evq, sclosed, dq)
    /\ UNCHANGED <<retired, listed, sendOpen, dropped, ioActive, vbuf, rpc,
                   rheld, spc, pending, app, rx, wrote, env>>

\* Mutant: handle_event ends without telling handle_send.
EvFinal_NoMarker ==
    /\ epc = "final"
    /\ epc' = "done"
    /\ listed' = (listed /\ ~(rpc = "done" /\ spc = "done"))
    /\ UNCHANGED <<closed, retired, evOpen, sendOpen, dropped, ioActive, evq, sendq,
                   vbuf, rpc, rheld, eheld, spc, tables, env>>

\* The empty frame is queued or refused, and handle_event is over.
EvFinal ==
    /\ epc = "final"
    /\ SendFrame(Marker)
    /\ epc' = "done"
    /\ listed' = (listed /\ ~(rpc = "done" /\ spc = "done"))
    /\ UNCHANGED <<closed, retired, evOpen, sendOpen, dropped, ioActive, evq,
                   vbuf, rpc, rheld, eheld, spc, tables, env>>

-----------------------------------------------------------------------------
(* handle_send                                                              *)

\* The end of the loop: what was gathered and not written is dropped.
SendExit ==
    /\ closed' = TRUE /\ sendOpen' = FALSE /\ dropped' = TRUE
    /\ sendq' = <<>> /\ vbuf' = <<>> /\ spc' = "shut"
    /\ UNCHANGED ioActive

\* One turn with v still to write: wait when there is nothing, else gather up
\* to VBufMax frames and write; an empty frame among them ends the loop.
Gather(v) ==
    LET room == VBufMax - Len(v)
        n == IF Len(sendq) < room THEN Len(sendq) ELSE room
        got == SubSeq(sendq, 1, n)
    IN IF v = <<>> /\ sendq = <<>>
       THEN spc' = "recv" /\ vbuf' = v /\ UNCHANGED <<closed, sendOpen, dropped, sendq, ioActive>>
       ELSE IF Contains(got, Marker) THEN SendExit
       ELSE /\ vbuf' = v \o got
            /\ sendq' = SubSeq(sendq, n + 1, Len(sendq))
            /\ spc' = "write" /\ ioActive' = TRUE
            /\ UNCHANGED <<closed, sendOpen, dropped>>

SendFrameVars == <<retired, listed, evOpen, evq, rpc, rheld, epc, eheld, tables,
                   scope, pong, todo, remote, ticks>>

\* send_rx.recv().await returns a frame.
SendRecv ==
    /\ spc = "recv" /\ sendq # <<>>
    /\ Gather(<<>>)
    /\ UNCHANGED <<SendFrameVars, peer>>

\* write_buf returns with n frames of vbuf completely written, perhaps none;
\* the other end hears of the streams whose SYN is among them.
SendWritten ==
    /\ spc = "write"
    /\ \E n \in 0..Len(vbuf) :
          /\ peer' = [s \in Streams |->
                IF \E i \in 1..n : vbuf[i] = Local("SYN", s) THEN "open" ELSE peer[s]]
          /\ IF closed THEN SendExit ELSE Gather(SubSeq(vbuf, n + 1, Len(vbuf)))
    /\ UNCHANGED SendFrameVars

\* write_buf fails or writes nothing.
SendFails ==
    /\ spc = "write"
    /\ SendExit
    /\ UNCHANGED <<SendFrameVars, peer>>

\* The shutdown event is queued or refused, and handle_send is over.
SendShut ==
    /\ spc = "shut"
    /\ SendEvent(Local("SHUTDOWN", NoStream))
    /\ spc' = "done"
    /\ listed' = (listed /\ ~(rpc = "done" /\ epc = "done"))
    /\ UNCHANGED <<closed, retired, evOpen, sendOpen, dropped, ioActive, sendq,
                   vbuf, rpc, rheld, epc, eheld, tables, env>>

-----------------------------------------------------------------------------
(* The streams' relay tasks and the routine task.                           *)

AppFrame == <<flags, sendq, vbuf, coroutines, streams, env>>

\* create_stream finds this session in `channels` and registers a stream.
Create(s) ==
    /\ client /\ s \in scope.streams /\ listed /\ app[s] = "none"
    /\ app' = [app EXCEPT ![s] = "syn"]
    /\ rx' = [rx EXCEPT ![s] = TRUE]
    /\ pending' = pending \cup {s}
    /\ UNCHANGED <<AppFrame, evq, sclosed, dq, wrote>>

\* Mutant: the SYN is queued by try_send.
SynQueued_TrySend(s) ==
    /\ app[s] = "syn"
    /\ evq' = IF evOpen THEN TrySend(evq, Local("SYN", s)) ELSE evq
    /\ app' = [app EXCEPT ![s] = "open"]
    /\ UNCHANGED <<AppFrame, pending, sclosed, rx, dq, wrote>>

\* Its send of the SYN returns; an error is ignored.
SynQueued(s) ==
    /\ app[s] = "syn"
    /\ SendEvent(Local("SYN", s))
    /\ app' = [app EXCEPT ![s] = "open"]
    /\ UNCHANGED <<AppFrame, pending, sclosed, rx, dq, wrote>>

\* The accepting end reaches the target.
Connected(s) ==
    /\ app[s] = "connect"
    /\ app' = [app EXCEPT ![s] = "open"]
    /\ UNCHANGED <<AppFrame, evq, pending, sclosed, rx, dq, wrote>>

\* close() by the owner of the relay, with the new state of the relay.
AppClose(s, state) ==
    /\ app' = [app EXCEPT ![s] = state]
    /\ sclosed' = [sclosed EXCEPT ![s] = TRUE]
    /\ evq' = IF evOpen THEN TrySend(evq, Local("FIN", s)) ELSE evq

\* It does not: close() without split(), so that data_rx stays with the map.
\* data_tx is with it until the first data comes, and gets the empty buffer.
ConnectFails(s) ==
    /\ app[s] = "connect"
    /\ AppClose(s, "failed")
    /\ dq' = IF dq[s] = 0 /\ ~(epc = "offer" /\ eheld.s = s)
             THEN [dq EXCEPT ![s] = 1] ELSE dq
    /\ UNCHANGED <<AppFrame, pending, rx, wrote>>

\* Mutant: create_stream returns before its SYN is queued.
AppWrite_BeforeSyn(s) ==
    /\ app[s] \in {"syn", "open", "deaf"} /\ ~sclosed[s] /\ evOpen /\ wrote[s] < MaxWrites
    /\ SendEvent(Local("DATA", s))
    /\ wrote' = [wrote EXCEPT ![s] = @ + 1]
    /\ UNCHANGED <<AppFrame, pending, app, sclosed, rx, dq>>

\* The relay writes to the stream.
AppWrite(s) ==
    /\ app[s] \in {"open", "deaf"} /\ ~sclosed[s] /\ evOpen /\ wrote[s] < MaxWrites
    /\ SendEvent(Local("DATA", s))
    /\ wrote' = [wrote EXCEPT ![s] = @ + 1]
    /\ UNCHANGED <<AppFrame, pending, app, sclosed, rx, dq>>

\* The writing half is over, at the end of the local socket or on an error of
\* either side: poll_shutdown sets the flag and sends nothing.
AppShutdown(s) ==
    /\ app[s] \in {"open", "deaf"} /\ ~sclosed[s]
    /\ sclosed' = [sclosed EXCEPT ![s] = TRUE]
    /\ UNCHANGED <<AppFrame, evq, pending, app, rx, dq, wrote>>

\* The relay reads from the stream.
AppRead(s) ==
    /\ app[s] = "open" /\ ~sclosed[s] /\ dq[s] > 0
    /\ dq' = [dq EXCEPT ![s] = @ - 1]
    /\ UNCHANGED <<AppFrame, evq, pending, app, sclosed, rx, wrote>>

\* The relay reads from a closed stream: poll_read closes the receiver.
AppReadClosed(s) ==
    /\ app[s] = "open" /\ sclosed[s]
    /\ app' = [app EXCEPT ![s] = "deaf"]
    /\ rx' = [rx EXCEPT ![s] = FALSE]
    /\ UNCHANGED <<AppFrame, evq, pending, sclosed, dq, wrote>>

\* The local socket refuses what was read: the receiver is not closed.
AppWriteFails(s) ==
    /\ app[s] = "open"
    /\ app' = [app EXCEPT ![s] = "deaf"]
    /\ UNCHANGED <<AppFrame, evq, pending, sclosed, rx, dq, wrote>>

\* Both halves of the relay are over; the receiver is dropped with them.
AppEnds(s) ==
    /\ app[s] = "deaf" /\ sclosed[s]
    /\ AppClose(s, "closed")
    /\ rx' = [rx EXCEPT ![s] = FALSE]
    /\ UNCHANGED <<AppFrame, pending, dq, wrote>>

\* relay_stream gives up when the first write, of relay_buf, fails: it returns
\* without close(), and no FIN is sent.
AppAborts(s) ==
    /\ client /\ app[s] = "open" /\ wrote[s] = 0 /\ (sclosed[s] \/ ~evOpen)
    /\ app' = [app EXCEPT ![s] = "closed"]
    /\ rx' = [rx EXCEPT ![s] = FALSE]
    /\ UNCHANGED <<AppFrame, evq, pending, sclosed, dq, wrote>>

\* routine_all_sessions, under the lock: a session in `channels` whose last
\* pong is too old is retired and told to shut down; another one is pinged
\* and given its routine event, and may be retired for its age; a retired
\* session only gets the routine event.
RoutineTick ==
    /\ ticks < scope.ticks /\ todo = <<>> /\ ~Ended /\ (listed \/ retired)
    /\ ticks' = ticks + 1
    /\ \/ /\ listed /\ pong = "late" /\ client
          /\ todo' = <<Local("SHUTDOWN", NoStream)>>
          /\ retired' = TRUE /\ listed' = FALSE
       \/ /\ listed
          /\ todo' = (IF client THEN <<Local("PING", NoStream)>> ELSE <<>>)
                        \o <<Local("ROUTINE", NoStream)>>
          /\ \E old \in {FALSE, client} : retired' = old /\ listed' = ~old
       \/ /\ retired
          /\ todo' = <<Local("ROUTINE", NoStream)>>
          /\ UNCHANGED <<retired, listed>>
    /\ UNCHANGED <<closed, evOpen, sendOpen, dropped, ioActive, evq, sendq, vbuf,
                   coroutines, tables, scope, peer, pong, remote>>

\* It then sends the events, one after the other, waiting for each.
RoutineSend ==
    /\ todo # <<>>
    /\ SendEvent(Head(todo))
    /\ todo' = Tail(todo)
    /\ UNCHANGED <<flags, sendq, vbuf, coroutines, tables, scope, peer, pong,
                   remote, ticks>>

-----------------------------------------------------------------------------
Recv == RecvFrame \/ RecvPush \/ RecvStops \/ RecvShutEvent \/ RecvShutSend
Handle ==
    \/ EvShutdown \/ EvSynLocal \/ EvFin(FALSE) \/ EvFin(TRUE) \/ EvRoutine \/ EvSend
    \/ EvPing \/ EvPong \/ EvSynRemote \/ EvData \/ EvOffered \/ EvForwarded \/ EvFinal
Send == SendRecv \/ SendWritten \/ SendFails \/ SendShut
App(s) ==
    \/ Create(s) \/ SynQueued(s) \/ Connected(s) \/ ConnectFails(s)
    \/ AppWrite(s) \/ AppShutdown(s) \/ AppRead(s) \/ AppReadClosed(s)
    \/ AppWriteFails(s) \/ AppEnds(s) \/ AppAborts(s)
Routine == RoutineTick \/ RoutineSend

Next == Recv \/ Handle \/ Send \/ (\E s \in Streams : App(s)) \/ Routine

Spec == Init /\ [][Next]_vars

\* A coroutine whose await has returned is polled again; a connection attempt
\* and a write to the connection end one way or the other; a relay with
\* something to read reads it; the routine goes on while its sends return.
Fairness ==
    /\ WF_vars(RecvPush) /\ WF_vars(RecvDropped)
    /\ WF_vars(RecvShutEvent) /\ WF_vars(RecvShutSend)
    /\ WF_vars(Handle)
    /\ WF_vars(SendRecv) /\ WF_vars(SendWritten \/ SendFails) /\ WF_vars(SendShut)
    /\ \A s \in Streams :
          /\ WF_vars(SynQueued(s)) /\ WF_vars(Connected(s) \/ ConnectFails(s))
          /\ WF_vars(AppRead(s)) /\ WF_vars(dq[s] > 0 /\ AppReadClosed(s))
    /\ WF_vars(RoutineSend)

FairSpec == Spec /\ Fairness

-----------------------------------------------------------------------------
(* Properties.                                                              *)

\* The variables have their types and the queues their capacity.
TypeOK ==
    /\ scope \in Scopes
    /\ {closed, retired, listed, evOpen, sendOpen, dropped, ioActive} \subseteq BOOLEAN
    /\ evq \in Seq(Event) /\ Len(evq) <= EvCap
    /\ sendq \in Seq(Event) /\ Len(sendq) <= SendCap
    /\ vbuf \in Seq(Event) /\ Len(vbuf) <= VBufMax
    /\ rpc \in {"read", "push", "shutEvent", "shutSend", "done"} /\ rheld \in Event
    /\ epc \in {"recv", "forward", "offer", "final", "done"} /\ eheld \in Event
    /\ spc \in {"recv", "write", "shut", "done"}
    /\ streams \subseteq Streams /\ pending \subseteq Streams
    /\ app \in [Streams -> AppStates] /\ sclosed \in [Streams -> BOOLEAN]
    /\ rx \in [Streams -> BOOLEAN] /\ dq \in [Streams -> 0..DataCap]
    /\ wrote \in [Streams -> 0..MaxWrites]
    /\ pong \in {"never", "fresh", "late"}
    /\ peer \in [Streams -> {"none", "open", "fin"}]
    /\ todo \in Seq(Event) /\ remote \in 0..scope.remote /\ ticks \in 0..scope.ticks

\* What this end is still to send, in the order it will be written, among the
\* events of the other end; nothing once handle_send is over.
Held == IF epc = "forward" THEN <<eheld>> ELSE <<>>
Outgoing == IF sendOpen THEN vbuf \o sendq \o Held \o evq ELSE <<>>

\* The queues keep their types and capacity, and the other end hears of a stream
\* by its SYN: whatever else this end sends for the stream is behind the SYN
\* through all the queues, although the relay, the event coroutine and
\* create_stream each queue frames of the stream; and nothing of the other end
\* for the stream is before it either.
SynFirst ==
    /\ TypeOK
    /\ client => \A s \in Streams, i \in 1..Len(Outgoing) :
           Outgoing[i].k \in {"DATA", "FIN"} /\ Outgoing[i].s = s /\ peer[s] = "none"
               => \E j \in 1..i : Outgoing[j] = Local("SYN", s)

\* A stream waits in pendding_streams only for a SYN that is still to be handled,
\* unless its session was retired or closed meanwhile: hanle_pendding_mux_streams
\* finds no retired session, and the stream then never gets its data.
PendingHasCause ==
    \A s \in pending :
        \/ app[s] = "syn" \/ Contains(evq, Local("SYN", s))
        \/ ~listed \/ ~evOpen

\* When the session is over, every stream it knew is closed: a relay is left
\* waiting for data only on a stream that was still in pendding_streams.
OrphansWerePending ==
    Ended => \A s \in Streams :
        app[s] \notin {"none", "syn"} /\ ~sclosed[s] => s \in pending

\* handle_event waits for room in the data queue of a stream nobody reads: the
\* connection to the target failed, or its local socket did.
Stuck == epc = "offer" /\ app[eheld.s] \in {"failed", "deaf"} /\ rx[eheld.s]

\* Once the session is marked closed its three coroutines end, whichever of
\* them marked it and wherever the others wait, unless one is stuck.  So does a
\* retired session once it has no stream: the routine event that follows its
\* retirement or the FIN of its last stream finds it empty.
ShutdownCompletes == (closed \/ (retired /\ streams = {})) ~> (Ended \/ Stuck)

\* routine_all_sessions gets past this session: its sends return, also when the
\* session ends under it, unless the session is stuck.
RoutineReturns == todo # <<>> ~> (todo = <<>> \/ Stuck)
=============================================================================
