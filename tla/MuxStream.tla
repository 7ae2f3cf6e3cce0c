----------------------------- MODULE MuxStream -----------------------------
(***************************************************************************)
(* One direction of one multiplexed stream (rmux/stream.rs): the writing   *)
(* end "w", whose relay task copies a socket into MuxStreamWriter, and the *)
(* reading end "r", whose relay task copies MuxStreamReader to a socket.   *)
(* Each end has a session whose event coroutine (process_event in          *)
(* rmux/session.rs) moves frames between a local event queue, the          *)
(* connection and the stream.  The session itself is assumed alive here:   *)
(* module MuxSession is about how it ends.                                 *)
(*                                                                         *)
(* The payload is abstracted to byte positions: a DATA frame carries the   *)
(* interval lo .. hi-1 of the stream's bytes, and a WIN_UPDATE frame the   *)
(* interval of consumed bytes it gives credit for.  The code sends only    *)
(* the length hi - lo, and only the length is used to update its counters. *)
(***************************************************************************)
EXTENDS Integers, Sequences

CONSTANTS
    Window,      \* initial send window, 128 * 1024 in MuxStream::new
    MinReport,   \* min_report_window of inc_recv_buf_window, 32 * 1024
    Chunk,       \* buffer of buf_copy in relay: largest write and read, 8192
    Peek,        \* largest first write (relay_buf of relay_stream)
    DataCap,     \* mpsc::channel(16) of MuxStream::new
    QueueCap,    \* event queue slots this stream may occupy
    WireCap,     \* frames of this stream held by send queue, vbuf and TCP
    MaxBytes     \* bound on the bytes written, for model checking

ASSUME StreamAssumption ==
    /\ Window \in Nat /\ MinReport \in Nat /\ Chunk \in Nat \ {0}
    /\ Peek \in Nat /\ MaxBytes \in Nat
    /\ DataCap \in Nat \ {0} /\ QueueCap \in Nat \ {0} /\ WireCap \in Nat \ {0}
    /\ Chunk < MinReport /\ MinReport <= Window
    /\ Chunk <= Peek /\ Peek <= Window

VARIABLES
    closed,            \* MuxStreamState.closed of each end
    mapped,            \* the stream is in the event coroutine's map of each end
    outq,              \* local events of this stream queued at each end
    wire,              \* frames sent by each end and not yet handled by the other
    send_buf_window,
    total_send_bytes,
    queued,            \* bytes handed to try_send and not yet accounted for
    wpc,               \* where the writing half is, see WriterStates
    waker,             \* SharedIOState.waker is Some
    notified,          \* the writer's task was woken while it was running
    data,              \* the mpsc queue data_tx -> data_rx at the reading end
    offer,             \* frames offer_data is waiting to put in it, at most one
    recv_buf,          \* MuxStreamReader.recv_buf, the rest of a large frame
    recv_buf_size,
    total_recv_bytes,
    rpc,               \* where the reading half is, see ReaderStates
    listed             \* the reading end's session is in `channels`, not retired

wvars == <<send_buf_window, total_send_bytes, queued, wpc, waker, notified>>
rvars == <<data, offer, recv_buf, recv_buf_size, total_recv_bytes, rpc>>
vars == <<closed, mapped, outq, wire, wvars, rvars, listed>>

Ends == {"w", "r"}
Other(e) == IF e = "w" THEN "r" ELSE "w"

\* ready: about to call poll_write; checked: saw a negative window and has not
\* stored its waker; parked: returned Pending with its waker stored; passed:
\* saw the stream open and the window non-negative; queued: try_send is done
\* and the counters are not updated; done: the half is over; gone: the task is.
WriterStates == {"ready", "checked", "parked", "passed", "queued", "done", "gone"}

\* connecting: the accepting end waits for its target; open: being read;
\* failed: the target refused, the stream is never split; ended: the half is
\* over and its receiver is not closed; done: over, receiver closed; panic:
\* the task panicked; gone: the relay is over and the stream closed.
ReaderStates == {"connecting", "open", "failed", "ended", "done", "panic", "gone"}

\* Mutant: poll_read does not close the receiver of a closed stream.
ReceiverAlive_NotClosed == rpc \in {"connecting", "open", "failed", "ended", "done"}

\* The states in which data_rx exists and accepts data.
ReceiverAlive == rpc \in {"connecting", "open", "failed", "ended"}

Span == [lo : Nat, hi : Nat]
Frame == [t : {"DATA", "FIN", "WIN"}, lo : Nat, hi : Nat]
Size(f) == f.hi - f.lo
EmptySpan(at) == [lo |-> at, hi |-> at]

NewData(lo, n) == [t |-> "DATA", lo |-> lo, hi |-> lo + n]
NewFin == [t |-> "FIN", lo |-> 0, hi |-> 0]
NewWindowUpdate(lo, hi) == [t |-> "WIN", lo |-> lo, hi |-> hi]

\* Bytes handed to the session so far.
Sent == total_send_bytes + queued

Init ==
    /\ closed = [e \in Ends |-> FALSE]
    /\ mapped = [e \in Ends |-> TRUE]
    /\ outq = [e \in Ends |-> <<>>]
    /\ wire = [e \in Ends |-> <<>>]
    /\ send_buf_window = Window
    /\ total_send_bytes = 0 /\ queued = 0
    /\ wpc = "ready" /\ waker = FALSE /\ notified = FALSE
    /\ data = <<>> /\ offer = <<>> /\ recv_buf = EmptySpan(0)
    /\ recv_buf_size = 0 /\ total_recv_bytes = 0
    \* The accepting end starts reading once its target is connected.
    /\ rpc \in {"connecting", "open"}
    /\ listed = TRUE

-----------------------------------------------------------------------------
(* close(): the flag, the wake-up of a parked writer, and a FIN by try_send,*)
(* which fails without a trace when the event queue is full.  The queue is  *)
(* shared with the session's other streams, so it may be full whatever this *)
(* stream has in it.                                                        *)

\* What queue q may be after try_send(FIN).
TrySendFin(q) ==
    {q} \cup (IF Len(q) < QueueCap THEN {Append(q, NewFin)} ELSE {})

\* waker.take().wake(): a parked task runs again, a running one is re-polled.
Wake ==
    /\ waker' = FALSE
    /\ wpc' = IF waker /\ wpc = "parked" THEN "ready" ELSE wpc
    /\ notified' = (notified \/ (waker /\ wpc # "parked"))

\* handle_fin_event at end e, whose local queue is q once the event is taken
\* from it: remove the stream from the map and close() what was removed.
\* That clone owns data_tx, so the reader also gets an empty buffer.
HandleFin(e, q) ==
    IF mapped[e]
    THEN /\ mapped' = [mapped EXCEPT ![e] = FALSE]
         /\ closed' = [closed EXCEPT ![e] = TRUE]
         /\ data' = IF e = "r" /\ ReceiverAlive /\ Len(data) < DataCap
                    THEN Append(data, EmptySpan(0)) ELSE data
         /\ IF e = "w" THEN Wake ELSE UNCHANGED <<waker, wpc, notified>>
         /\ \E p \in TrySendFin(q) : outq' = [outq EXCEPT ![e] = p]
    ELSE /\ outq' = [outq EXCEPT ![e] = q]
         /\ UNCHANGED <<mapped, closed, data, waker, wpc, notified>>

-----------------------------------------------------------------------------
(* The writing half: buf_copy from a socket into MuxStreamWriter.           *)

\* poll_write fails on a closed stream and relay shuts the writer down.  When
\* it was the write of relay_buf, relay_stream returns without close().
WriteClosed ==
    /\ wpc = "ready" /\ closed["w"]
    /\ wpc' \in {"done"} \cup (IF Sent = 0 THEN {"gone"} ELSE {})
    /\ UNCHANGED <<closed, mapped, outq, wire, send_buf_window,
                   total_send_bytes, queued, waker, notified, rvars, listed>>

\* Mutant: poll_write does not look at the window.
CheckWindow_NeverBlocks ==
    /\ wpc = "ready" /\ ~closed["w"]
    /\ wpc' = "passed"
    /\ UNCHANGED <<closed, mapped, outq, wire, send_buf_window,
                   total_send_bytes, queued, waker, notified, rvars, listed>>

\* poll_write finds the stream open and looks at the window ...
CheckWindow ==
    /\ wpc = "ready" /\ ~closed["w"]
    /\ wpc' = IF send_buf_window < 0 THEN "checked" ELSE "passed"
    /\ UNCHANGED <<closed, mapped, outq, wire, send_buf_window,
                   total_send_bytes, queued, waker, notified, rvars, listed>>

\* ... and, blocked, stores its waker in a later step, under another lock.
StoreWaker ==
    /\ wpc = "checked"
    /\ waker' = TRUE
    /\ wpc' = IF notified THEN "ready" ELSE "parked"
    /\ notified' = FALSE
    /\ UNCHANGED <<closed, mapped, outq, wire, send_buf_window,
                   total_send_bytes, queued, rvars, listed>>

\* poll_ready finds the event queue full; the queue itself wakes the writer.
QueueFull ==
    /\ wpc = "passed" /\ Len(outq["w"]) = QueueCap
    /\ wpc' = "ready"
    /\ UNCHANGED <<closed, mapped, outq, wire, send_buf_window,
                   total_send_bytes, queued, waker, notified, rvars, listed>>

\* Mutant: relay copies with a buffer larger than the reader's.
Write_LargeBuffer(n) ==
    /\ wpc = "passed"
    /\ n <= Peek
    /\ Sent + n <= MaxBytes
    /\ Len(outq["w"]) < QueueCap
    /\ outq' = [outq EXCEPT !["w"] = Append(@, NewData(Sent, n))]
    /\ queued' = n
    /\ wpc' = "queued"
    /\ UNCHANGED <<closed, mapped, wire, send_buf_window, total_send_bytes,
                   waker, notified, rvars, listed>>

\* poll_write queues the whole buffer, however large.  The first write may be
\* the relay_buf that was read before the stream was created.
Write(n) ==
    /\ wpc = "passed"
    /\ n <= (IF Sent = 0 THEN Peek ELSE Chunk)
    /\ Sent + n <= MaxBytes
    /\ Len(outq["w"]) < QueueCap
    /\ outq' = [outq EXCEPT !["w"] = Append(@, NewData(Sent, n))]
    /\ queued' = n
    /\ wpc' = "queued"
    /\ UNCHANGED <<closed, mapped, wire, send_buf_window, total_send_bytes,
                   waker, notified, rvars, listed>>

\* The counters are updated after try_send; the frame may be gone by then.
Account ==
    /\ wpc = "queued"
    /\ send_buf_window' = send_buf_window - queued
    /\ total_send_bytes' = total_send_bytes + queued
    /\ queued' = 0
    /\ wpc' = "ready"
    /\ UNCHANGED <<closed, mapped, outq, wire, waker, notified, rvars, listed>>

\* The local socket is at its end or fails: relay calls poll_shutdown, which
\* only sets the flag.
Shutdown ==
    /\ wpc = "ready"
    /\ wpc' = "done"
    /\ closed' = [closed EXCEPT !["w"] = TRUE]
    /\ UNCHANGED <<mapped, outq, wire, send_buf_window, total_send_bytes,
                   queued, waker, notified, rvars, listed>>

\* Both halves of a relay are polled by one task, so the reading half of this
\* end may bring a parked writer back to poll_write.
OtherHalfWakes ==
    /\ wpc = "parked"
    /\ wpc' = "ready"
    /\ UNCHANGED <<closed, mapped, outq, wire, send_buf_window,
                   total_send_bytes, queued, waker, notified, rvars, listed>>

\* relay is over at the writing end and relay_stream (or handle_rmux_stream)
\* calls close() on its own clone, which has no data_tx.
CloseWriter ==
    /\ wpc = "done"
    /\ wpc' = "gone"
    /\ closed' = [closed EXCEPT !["w"] = TRUE]
    /\ waker' = FALSE
    /\ \E p \in TrySendFin(outq["w"]) : outq' = [outq EXCEPT !["w"] = p]
    /\ UNCHANGED <<mapped, wire, send_buf_window, total_send_bytes, queued,
                   notified, rvars, listed>>

-----------------------------------------------------------------------------
(* The reading half: handle_rmux_stream and buf_copy from MuxStreamReader.  *)

\* The accepting end reaches its target and splits the stream.
Split ==
    /\ rpc = "connecting"
    /\ rpc' = "open"
    /\ UNCHANGED <<closed, mapped, outq, wire, wvars, data, offer, recv_buf,
                   recv_buf_size, total_recv_bytes, listed>>

\* The target cannot be reached: close() without split().  data_rx stays in
\* the io_state shared with the map; data_tx is there as long as no data came.
ConnectFail ==
    /\ rpc = "connecting"
    /\ rpc' = "failed"
    /\ closed' = [closed EXCEPT !["r"] = TRUE]
    /\ data' = IF data = <<>> /\ offer = <<>> THEN <<EmptySpan(0)>> ELSE data
    /\ \E p \in TrySendFin(outq["r"]) : outq' = [outq EXCEPT !["r"] = p]
    /\ UNCHANGED <<mapped, wire, wvars, offer, recv_buf, recv_buf_size,
                   total_recv_bytes, listed>>

\* poll_read on a closed stream: an error, whatever is still queued.
ReadClosed ==
    /\ rpc = "open" /\ closed["r"]
    /\ rpc' = "done"
    /\ data' = <<>>
    /\ UNCHANGED <<closed, mapped, outq, wire, wvars, offer, recv_buf,
                   recv_buf_size, total_recv_bytes, listed>>

\* Mutant: recv_buf_size is not reset by a report.
Report_NoReset(sz, upto) ==
    IF sz < MinReport THEN {<<outq["r"], sz>>}
    ELSE IF ~listed THEN {<<outq["r"], 0>>}
    ELSE {<<outq["r"], sz>>} \cup
         (IF Len(outq["r"]) < QueueCap
          THEN {<<Append(outq["r"], NewWindowUpdate(upto - sz, upto)), sz>>}
          ELSE {})

\* Mutant: the answer of report_update_window is ignored.
Report_RefusedAsSent(sz, upto) ==
    IF sz < MinReport THEN {<<outq["r"], sz>>}
    ELSE {<<outq["r"], 0>>} \cup
         (IF listed /\ Len(outq["r"]) < QueueCap
          THEN {<<Append(outq["r"], NewWindowUpdate(upto - sz, upto)), 0>>}
          ELSE {})

\* What report_update_window may make of the local queue and of the unreported
\* count sz: nothing to report yet; session not in `channels`, where the call
\* answers true and sends nothing; refused, the event queue being full; sent.
Report(sz, upto) ==
    IF sz < MinReport THEN {<<outq["r"], sz>>}
    ELSE IF ~listed THEN {<<outq["r"], 0>>}
    ELSE {<<outq["r"], sz>>} \cup
         (IF Len(outq["r"]) < QueueCap
          THEN {<<Append(outq["r"], NewWindowUpdate(upto - sz, upto)), 0>>}
          ELSE {})

\* inc_recv_buf_window: n more bytes are handed to the relay.
IncRecvBufWindow(n) ==
    /\ total_recv_bytes' = total_recv_bytes + n
    /\ \E res \in Report(recv_buf_size + n, total_recv_bytes + n) :
          /\ outq' = [outq EXCEPT !["r"] = res[1]]
          /\ recv_buf_size' = res[2]

\* poll_read takes the rest of a large frame.  fill_read_buf slices the
\* caller's buffer by the length of the rest: too long a rest panics.
ReadRest ==
    /\ rpc = "open" /\ ~closed["r"] /\ Size(recv_buf) > 0
    /\ IF Size(recv_buf) > Chunk
       THEN /\ rpc' = "panic" /\ data' = <<>>
            /\ UNCHANGED <<outq, recv_buf, recv_buf_size, total_recv_bytes>>
       ELSE /\ IncRecvBufWindow(Size(recv_buf))
            /\ recv_buf' = EmptySpan(recv_buf.hi)
            /\ UNCHANGED <<rpc, data>>
    /\ UNCHANGED <<closed, mapped, wire, wvars, offer, listed>>

\* Mutant: what does not fit the caller's buffer is dropped.
ReadNext_DropsRest ==
    /\ rpc = "open" /\ ~closed["r"] /\ Size(recv_buf) = 0 /\ data # <<>>
    /\ LET b == Head(data)
           n == IF Size(b) > Chunk THEN Chunk ELSE Size(b)
       IN IF n = 0
          THEN /\ closed' = [closed EXCEPT !["r"] = TRUE]
               /\ rpc' = "done" /\ data' = <<>>
               /\ UNCHANGED <<outq, recv_buf, recv_buf_size, total_recv_bytes>>
          ELSE /\ IncRecvBufWindow(n)
               /\ data' = Tail(data)
               /\ recv_buf' = EmptySpan(b.hi)
               /\ UNCHANGED <<closed, rpc>>
    /\ UNCHANGED <<mapped, wire, wvars, offer, listed>>

\* poll_read takes a buffer from the queue: the empty one means closed.
ReadNext ==
    /\ rpc = "open" /\ ~closed["r"] /\ Size(recv_buf) = 0 /\ data # <<>>
    /\ LET b == Head(data)
           n == IF Size(b) > Chunk THEN Chunk ELSE Size(b)
       IN IF n = 0
          THEN /\ closed' = [closed EXCEPT !["r"] = TRUE]
               /\ rpc' = "done" /\ data' = <<>>
               /\ UNCHANGED <<outq, recv_buf, recv_buf_size, total_recv_bytes>>
          ELSE /\ IncRecvBufWindow(n)
               /\ data' = Tail(data)
               /\ recv_buf' = [lo |-> b.lo + n, hi |-> b.hi]
               /\ UNCHANGED <<closed, rpc>>
    /\ UNCHANGED <<mapped, wire, wvars, offer, listed>>

\* The local socket refuses the bytes: the half ends, its receiver lives on
\* until the other half of the relay is over too.
LocalWriteFails ==
    /\ rpc = "open" /\ total_recv_bytes > 0
    /\ rpc' = "ended"
    /\ UNCHANGED <<closed, mapped, outq, wire, wvars, data, offer, recv_buf,
                   recv_buf_size, total_recv_bytes, listed>>

\* The writing half of the reading end is over: poll_shutdown sets the flag.
OtherHalfShutdown ==
    /\ rpc \in {"open", "ended", "done"} /\ ~closed["r"]
    /\ closed' = [closed EXCEPT !["r"] = TRUE]
    /\ UNCHANGED <<mapped, outq, wire, wvars, rvars, listed>>

\* Both halves are over at the reading end: close() by the owner of the relay,
\* and the receiver is dropped.
CloseReader ==
    /\ rpc \in {"ended", "done"} /\ closed["r"]
    /\ rpc' = "gone" /\ data' = <<>>
    /\ \E p \in TrySendFin(outq["r"]) : outq' = [outq EXCEPT !["r"] = p]
    /\ UNCHANGED <<closed, mapped, wire, wvars, offer, recv_buf,
                   recv_buf_size, total_recv_bytes, listed>>

-----------------------------------------------------------------------------
(* The event coroutine of each end: one event at a time, and none while     *)
(* offer_data waits for room in the data queue.                             *)

Idle(e) == e = "w" \/ offer = <<>>

\* Mutant: a local FIN is handled and not sent on.
Forward_KeepsFin(e) ==
    /\ Idle(e) /\ outq[e] # <<>> /\ Len(wire[e]) < WireCap
    /\ LET f == Head(outq[e]) IN
       IF f.t = "FIN"
       THEN HandleFin(e, Tail(outq[e])) /\ UNCHANGED wire
       ELSE /\ outq' = [outq EXCEPT ![e] = Tail(@)]
            /\ wire' = [wire EXCEPT ![e] = Append(@, f)]
            /\ UNCHANGED <<mapped, closed, data, waker, wpc, notified>>
    /\ UNCHANGED <<send_buf_window, total_send_bytes, queued, offer, recv_buf,
                   recv_buf_size, total_recv_bytes, rpc, listed>>

\* handle_local_event: a FIN is handled here before it is sent on.
Forward(e) ==
    /\ Idle(e) /\ outq[e] # <<>> /\ Len(wire[e]) < WireCap
    /\ LET f == Head(outq[e]) IN
       /\ IF f.t = "FIN"
          THEN HandleFin(e, Tail(outq[e]))
          ELSE /\ outq' = [outq EXCEPT ![e] = Tail(@)]
               /\ UNCHANGED <<mapped, closed, data, waker, wpc, notified>>
       /\ wire' = [wire EXCEPT ![e] = Append(@, f)]
    /\ UNCHANGED <<send_buf_window, total_send_bytes, queued, offer, recv_buf,
                   recv_buf_size, total_recv_bytes, rpc, listed>>

\* FLAG_FIN from the other end.
RecvFin(e) ==
    /\ Idle(e) /\ wire[Other(e)] # <<>> /\ Head(wire[Other(e)]).t = "FIN"
    /\ wire' = [wire EXCEPT ![Other(e)] = Tail(@)]
    /\ HandleFin(e, outq[e])
    /\ UNCHANGED <<send_buf_window, total_send_bytes, queued, offer, recv_buf,
                   recv_buf_size, total_recv_bytes, rpc, listed>>

\* FLAG_DATA: offer_data on the mapped stream, or a warning and nothing.
RecvData ==
    /\ offer = <<>> /\ wire["w"] # <<>> /\ Head(wire["w"]).t = "DATA"
    /\ wire' = [wire EXCEPT !["w"] = Tail(@)]
    /\ offer' = IF mapped["r"]
                THEN <<[lo |-> Head(wire["w"]).lo, hi |-> Head(wire["w"]).hi]>>
                ELSE <<>>
    /\ UNCHANGED <<closed, mapped, outq, wvars, data, recv_buf, recv_buf_size,
                   total_recv_bytes, rpc, listed>>

\* tx.send(data).await: in the queue when there is room, dropped when the
\* receiver is gone.
OfferData ==
    /\ offer # <<>>
    /\ ReceiverAlive => Len(data) < DataCap
    /\ offer' = <<>>
    /\ data' = IF ReceiverAlive THEN Append(data, offer[1]) ELSE data
    /\ UNCHANGED <<closed, mapped, outq, wire, wvars, recv_buf, recv_buf_size,
                   total_recv_bytes, rpc, listed>>

\* Mutant: the waker is taken only when a whole chunk fits the window.
UpdateSendWindow_WakesLate ==
    /\ wire["r"] # <<>> /\ Head(wire["r"]).t = "WIN"
    /\ wire' = [wire EXCEPT !["r"] = Tail(@)]
    /\ IF mapped["w"]
       THEN /\ send_buf_window' = send_buf_window + Size(Head(wire["r"]))
            /\ IF send_buf_window' > Chunk
               THEN Wake ELSE UNCHANGED <<waker, wpc, notified>>
       ELSE UNCHANGED <<send_buf_window, waker, wpc, notified>>
    /\ UNCHANGED <<closed, mapped, outq, total_send_bytes, queued, rvars, listed>>

\* FLAG_WIN_UPDATE: update_send_window on the mapped stream; the waker is
\* taken only when the window is positive.
UpdateSendWindow ==
    /\ wire["r"] # <<>> /\ Head(wire["r"]).t = "WIN"
    /\ wire' = [wire EXCEPT !["r"] = Tail(@)]
    /\ IF mapped["w"]
       THEN /\ send_buf_window' = send_buf_window + Size(Head(wire["r"]))
            /\ IF send_buf_window' > 0
               THEN Wake ELSE UNCHANGED <<waker, wpc, notified>>
       ELSE UNCHANGED <<send_buf_window, waker, wpc, notified>>
    /\ UNCHANGED <<closed, mapped, outq, total_send_bytes, queued, rvars, listed>>

\* routine_all_sessions moves the reading end's session to `retired`.
Retire ==
    /\ listed
    /\ listed' = FALSE
    /\ UNCHANGED <<closed, mapped, outq, wire, wvars, rvars>>

-----------------------------------------------------------------------------
WriterStep ==
    \/ WriteClosed \/ CheckWindow \/ StoreWaker \/ QueueFull
    \/ \E n \in 1..Peek : Write(n)
    \/ Account \/ Shutdown \/ OtherHalfWakes \/ CloseWriter

ReaderStep ==
    \/ Split \/ ConnectFail \/ ReadClosed \/ ReadRest \/ ReadNext
    \/ LocalWriteFails \/ OtherHalfShutdown \/ CloseReader

EventStep ==
    \/ \E e \in Ends : Forward(e) \/ RecvFin(e)
    \/ RecvData \/ OfferData \/ UpdateSendWindow

Next == WriterStep \/ ReaderStep \/ EventStep \/ Retire

Spec == Init /\ [][Next]_vars

\* The runtime keeps polling a task that is ready: the event coroutines take
\* what is queued, a reader with something queued reads it, a writer past a
\* check goes on to its next statement, and a connection attempt ends.
Fairness ==
    /\ \A e \in Ends : WF_vars(Forward(e)) /\ WF_vars(RecvFin(e))
    /\ WF_vars(RecvData) /\ WF_vars(OfferData) /\ WF_vars(UpdateSendWindow)
    /\ WF_vars(ReadRest) /\ WF_vars(ReadNext)
    /\ WF_vars(data # <<>> /\ ReadClosed)
    /\ WF_vars(StoreWaker) /\ WF_vars(Account)
    /\ WF_vars(Split \/ ConnectFail)

FairSpec == Spec /\ Fairness

-----------------------------------------------------------------------------
(* Properties.                                                              *)

\* The variables have their types; a negative window is an AtomicI32 in use.
TypeOK ==
    /\ closed \in [Ends -> BOOLEAN] /\ mapped \in [Ends -> BOOLEAN]
    /\ outq \in [Ends -> Seq(Frame)] /\ wire \in [Ends -> Seq(Frame)]
    /\ send_buf_window \in Int /\ total_send_bytes \in Nat /\ queued \in Nat
    /\ wpc \in WriterStates /\ waker \in BOOLEAN /\ notified \in BOOLEAN
    /\ data \in Seq(Span) /\ offer \in Seq(Span) /\ recv_buf \in Span
    /\ recv_buf_size \in Nat /\ total_recv_bytes \in Nat
    /\ rpc \in ReaderStates /\ listed \in BOOLEAN

\* Flow control bounds memory: the bytes of a stream that were written and not
\* yet handed to the reading relay, wherever they are held, never exceed the
\* window and one write, although poll_write ignores the size of its buffer,
\* queues before it counts, and is credited from another thread.
BufferBound == Sent - total_recv_bytes <= Window + Chunk

\* The window stays in -Chunk .. Window but for the one write that is queued
\* and not yet counted.
WindowRange ==
    /\ send_buf_window >= -Chunk
    /\ send_buf_window - queued <= Window

\* What the next poll_read hands over starts at the first byte not yet handed
\* over: no frame is lost, repeated or reordered while the stream is open.
InOrder ==
    rpc = "open" /\ ~closed["r"] =>
        /\ Size(recv_buf) > 0 => recv_buf.lo = total_recv_bytes
        /\ Size(recv_buf) = 0 /\ data # <<>> => Head(data).lo = total_recv_bytes

InTransit(q, t) == \E i \in 1..Len(q) : q[i].t = t

\* Nothing of the stream is on its way in either direction.
Drained ==
    /\ data = <<>> /\ offer = <<>> /\ Size(recv_buf) = 0
    /\ \A e \in Ends : \A t \in {"DATA", "WIN"} :
          ~InTransit(outq[e], t) /\ ~InTransit(wire[e], t)

\* A writer without window while everything it sent was read and no credit is
\* on its way: only when the last report was refused, or when it was dropped
\* because the session is retired (report_update_window answers true).
StallHasCause ==
    Drained /\ send_buf_window < 0 /\ rpc = "open" /\ mapped["w"] /\ mapped["r"]
        => recv_buf_size >= MinReport \/ ~listed

\* The writer is asleep although nothing but its own check keeps it from going
\* on: the window is open again, or the stream is closed.
AsleepForNothing == wpc = "parked" /\ (send_buf_window >= 0 \/ closed["w"])

\* The only step after which a writer is asleep for nothing is the one that
\* stores the waker after a stale check: every update_send_window and close()
\* that meets a parked writer wakes it, also when the window becomes exactly 0.
WakeupLostOnlyByStaleCheck ==
    [][AsleepForNothing' => AsleepForNothing \/ wpc = "checked"]_vars

\* fill_read_buf panics only on what is left of the very first frame: no
\* later frame is longer than the reader's buffer.
PanicOnlyOnFirstFrame ==
    rpc = "panic" => recv_buf.lo = Chunk /\ Size(recv_buf) > Chunk

\* The credit the writer has been given so far.
Applied == send_buf_window + total_send_bytes - Window

\* The bytes the reader has given account of, sent or not.
Reported == total_recv_bytes - recv_buf_size

\* Orders of byte intervals in queues of frames; a FIN and the empty buffer
\* that close() queues have no bytes.
Live(f) == f.lo < f.hi
Sorted(q) == \A i, j \in 1..Len(q) :
    i < j /\ Live(q[i]) /\ Live(q[j]) => q[i].hi <= q[j].lo
Precedes(q, p) == \A i \in 1..Len(q), j \in 1..Len(p) :
    Live(q[i]) /\ Live(p[j]) => q[i].hi <= p[j].lo
Within(q, a, b) == \A i \in 1..Len(q) :
    /\ q[i].lo <= q[i].hi
    /\ Live(q[i]) => a <= q[i].lo /\ q[i].hi <= b

\* Every credit on its way is worth reporting.
WorthReporting(q) == \A i \in 1..Len(q) : q[i].t = "WIN" => MinReport <= Size(q[i])

\* No byte is credited twice and none before it was read: a credit on its way
\* is for at least MinReport bytes that were handed over, beyond those already
\* applied and those of the credits before it.
CreditOnce ==
    /\ 0 <= Applied /\ Applied <= Reported
    /\ Sorted(wire["r"]) /\ Sorted(outq["r"]) /\ Precedes(wire["r"], outq["r"])
    /\ Within(wire["r"], Applied, Reported) /\ Within(outq["r"], Applied, Reported)
    /\ WorthReporting(wire["r"]) /\ WorthReporting(outq["r"])

\* What the writer may count on between the steps of one poll_write.
WriterFlow ==
    /\ -Chunk <= send_buf_window
    /\ wpc = "passed" => 0 <= send_buf_window
    /\ wpc = "queued" => 0 < queued /\ queued <= send_buf_window + Chunk
    /\ wpc # "queued" => queued = 0

\* The bytes on their way are in order, beyond those taken by the reader and
\* among those sent.
DataOrder ==
    /\ total_recv_bytes <= recv_buf.lo
    /\ recv_buf.lo <= recv_buf.hi /\ recv_buf.hi <= Sent
    /\ Len(offer) <= 1
    /\ Sorted(data) /\ Sorted(wire["w"]) /\ Sorted(outq["w"])
    /\ Precedes(data, offer) /\ Precedes(data, wire["w"]) /\ Precedes(data, outq["w"])
    /\ Precedes(offer, wire["w"]) /\ Precedes(offer, outq["w"])
    /\ Precedes(wire["w"], outq["w"])
    /\ Within(data, recv_buf.hi, Sent) /\ Within(offer, recv_buf.hi, Sent)
    /\ Within(wire["w"], recv_buf.hi, Sent) /\ Within(outq["w"], recv_buf.hi, Sent)

\* The inductive invariant behind BufferBound, WindowRange, the wake-up
\* property and the refinement: credits are exact, poll_write keeps its own
\* checks, and bytes keep their order through the four queues they cross.
FlowInv == TypeOK /\ CreditOnce /\ WriterFlow /\ DataOrder

\* The transfer into the local socket finishes with the data all written: when
\* the writing end has finished and closed, and the reading half has ended
\* because of that close, every byte that was sent has been handed over.
TransferComplete ==
    rpc = "done" /\ ~mapped["r"] /\ wpc = "gone" => total_recv_bytes = Sent

\* One direction of a stream is a bounded pipe.
Pipe == INSTANCE BoundedStream WITH
            Bound <- Window + Chunk,
            sent <- Sent,
            got <- total_recv_bytes,
            open <- ~closed["r"] /\ rpc \in {"connecting", "open"}

\* The detailed stream implements the abstract one: bytes are handed over in
\* number and order, within the bound, and never after the end was closed.
ImplementsPipe == Pipe!PipeSpec

-----------------------------------------------------------------------------
\* The event coroutine of the reading end is stopped by a stream nobody reads:
\* the receiver exists, and the relay will not poll it again.
Unread == rpc \in {"failed", "ended"}

\* offer_data always returns: a slow stream delays the session's other streams
\* but does not stop them, unless the stream is one that nobody reads.
OfferReturns == offer # <<>> ~> (offer = <<>> \/ Unread)

\* An end that drops the stream from its map makes the other end drop it: a
\* FIN that was handled is never lost afterwards.
CloseReachesPeer ==
    \A e \in Ends :
        ~mapped[e] ~> (~mapped[Other(e)] \/ (offer # <<>> /\ Unread))

\* A writer that is parked is not left there, except for the causes the code
\* admits: a refused or dropped report, a stale check, a reader that is gone.
ParkedWriterRuns ==
    wpc = "parked" ~>
        \/ wpc # "parked"
        \/ AsleepForNothing
        \/ recv_buf_size >= MinReport
        \/ ~listed
        \/ rpc # "open"
        \/ closed["r"]
=============================================================================
